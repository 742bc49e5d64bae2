----------------------------- MODULE Lifecycle -----------------------------
(***************************************************************************)
(* What the control plane promises about one remediation, abstracted from  *)
(* sessions, ticks and crashes.  A remediation is enqueued, walks the      *)
(* edges below one at a time, is healed at most MaxHealAttempts times, and *)
(* can disappear only when the whole store is replaced.                    *)
(*                                                                         *)
(* The edges are those of the state machine in docs/DESIGN.md 5.2, and the *)
(* ones that only the code has: it settles a row as refused or failed, or  *)
(* for a human, from dispatched and not from verifying, gives a heal that  *)
(* has lost its session to a human, and lets the dashboard turn merged     *)
(* back into awaiting_merge.                                               *)
(***************************************************************************)
EXTENDS Integers

CONSTANTS Rem, MaxHealAttempts

VARIABLES state, attempts

lifecycleVars == <<state, attempts>>

Inert == {"merged", "awaiting_merge", "open", "deferred"}

Edges == {<<"queued", "dispatched">>,
          <<"dispatched", "pr_opened">>,
          <<"pr_opened", "verifying">>,
          <<"verifying", "healing">>, <<"healing", "verifying">>,
          <<"verifying", "needs_human">>, <<"verifying", "awaiting_merge">>,
          <<"awaiting_merge", "merged">>,
          \* from the code alone
          <<"dispatched", "refused">>, <<"dispatched", "failed">>, <<"dispatched", "needs_human">>,
          <<"healing", "needs_human">>, <<"merged", "awaiting_merge">>}

Init == state = [r \in Rem |-> "none"] /\ attempts = [r \in Rem |-> 0]

Track(r) ==
  /\ state[r] = "none" /\ state' = [state EXCEPT ![r] = "queued"]
  /\ UNCHANGED attempts

(* Coming back from healing is what an attempt is.                          *)
Move(r, to) ==
  /\ <<state[r], to>> \in Edges
  /\ state' = [state EXCEPT ![r] = to]
  /\ IF state[r] = "healing" /\ to = "verifying"
     THEN attempts[r] < MaxHealAttempts /\ attempts' = [attempts EXCEPT ![r] = @ + 1]
     ELSE UNCHANGED attempts

(* The rows that come with a replacement bring the attempts they were       *)
(* recorded with; nothing bounds those.                                     *)
Replace(r, to) ==
  /\ state[r] = "none" /\ to \in Inert
  /\ state' = [q \in Rem |-> CASE q = r -> to
                               [] q # r /\ state[q] = "none" -> "none"
                               [] q # r /\ state[q] # "none" -> "deleted"]
  /\ attempts' \in [Rem -> Nat] /\ \A q \in Rem \ {r} : attempts'[q] = 0

Next == \E r \in Rem : \/ Track(r)
                       \/ \E to \in {edge[2] : edge \in Edges} : Move(r, to)
                       \/ \E to \in Inert : Replace(r, to)

Spec == Init /\ [][Next]_lifecycleVars

=============================================================================
