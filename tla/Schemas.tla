------------------------------ MODULE Schemas ------------------------------
(***************************************************************************)
(* The Devin v3 session snapshot and what the control plane reads into it  *)
(* (src/devin/schemas.py).  A snapshot is what one GET of a session        *)
(* returns; only the fields a decision looks at are kept:                  *)
(*                                                                         *)
(*   status, detail  the two status fields of the v3 API; "none" is a      *)
(*                   status_detail that is null or missing                 *)
(*   verdict         structured_output: absent, or its two booleans        *)
(*                   (remediated, refused), which nothing keeps exclusive  *)
(*   pr              pull_requests[0].pr_url: no pull request, an empty    *)
(*                   url, a url whose last segment is not a number, or a   *)
(*                   url with a number                                     *)
(*   acus            acus_consumed, in whole ACUs                          *)
(***************************************************************************)
EXTENDS Integers

Statuses == {"new", "claimed", "running", "resuming", "suspended", "exit", "error"}

Details == {"none", "working", "waiting_for_user", "waiting_for_approval", "finished",
            "usage_limit_exceeded", "out_of_credits", "error"}

Verdicts == {"absent", "undecided", "remediated", "refused", "contradictory"}

PrUrls == {"none", "blank", "unnumbered", "numbered"}

Sessions == [status : Statuses, detail : Details, verdict : Verdicts, pr : PrUrls]

Snapshot == [status : Statuses, detail : Details, verdict : Verdicts, pr : PrUrls, acus : Nat]

Outcomes == {"in_flight", "needs_input", "success", "refused", "failure"}

Remediated(s) == s.verdict \in {"remediated", "contradictory"}

Refused(s) == s.verdict \in {"refused", "contradictory"}

(* Truthiness of pr_url: an empty url counts as no pull request. *)
HasPrUrl(s) == s.pr \in {"unnumbered", "numbered"}

Broken(s) == s.status = "error" \/ s.detail \in {"usage_limit_exceeded", "out_of_credits", "error"}

Finished(s) == s.status = "exit" \/ s.detail = "finished"

(* The tests are made in this order, so a refusal wins over everything and  *)
(* a failure wins over a verdict.                                           *)
DeriveOutcome(s) ==
  CASE Refused(s) -> "refused"
    [] ~Refused(s) /\ Broken(s) -> "failure"
    [] ~Refused(s) /\ ~Broken(s) /\ Finished(s) ->
         IF Remediated(s) /\ HasPrUrl(s) THEN "success" ELSE "failure"
    [] ~Refused(s) /\ ~Broken(s) /\ ~Finished(s) ->
         IF s.detail \in {"waiting_for_user", "waiting_for_approval"}
         THEN "needs_input" ELSE "in_flight"

(* The reconciler's own reading of "the session is still iterating": a new  *)
(* or claimed session, and a running one without a detail, do not count.    *)
Working(s) == s.status \in {"running", "resuming"} /\ s.detail = "working"

=============================================================================
