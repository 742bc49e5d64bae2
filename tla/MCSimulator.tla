---------------------------- MODULE MCSimulator ----------------------------
(* The instance of Simulator that TLC checks: two written versions of one   *)
(* issue, whose simulated pull requests therefore have the same number.     *)
EXTENDS Simulator

(* Every outcome, a heal among the first two.                               *)
MCScripts == {<<"heal", "refuse", "green">>, <<"fail", "heal", "heal">>}

MCIssueNumber == [r \in Rem |-> 7]

=============================================================================
