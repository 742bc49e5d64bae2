----------------------------- MODULE MCVerifier -----------------------------
(* The instance of Verifier that TLC checks. *)
EXTENDS Verifier

MCFileSets == {{"python"}, {"frontend", "other"}, {"other"}}

=============================================================================
