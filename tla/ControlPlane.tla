---------------------------- MODULE ControlPlane ----------------------------
(***************************************************************************)
(* The reconciler against the two services it drives: Devin, whose         *)
(* sessions work, push commits, stop, ask and cost money on their own, and *)
(* the CI of the pull requests.  Every action of the worker is the one of  *)
(* Reconciler; what it reads is now what the services are in.              *)
(*                                                                         *)
(* Neither service is under src/: they are modelled from what the code     *)
(* asks of them (devin/client.py, github/verifier.py).  How sessions       *)
(* behave is the constant DevinMoves, so that a run can say which Devin it *)
(* assumes: one that does anything the statuses allow, or one that does    *)
(* what it is asked.                                                       *)
(*                                                                         *)
(* The store is not replaced here and no pull request is merged; both are  *)
(* in Reconciler.  Errors that lose nothing (TickError) are left out too,  *)
(* since a tick that always fails makes no progress.                       *)
(***************************************************************************)
EXTENDS Reconciler

CONSTANTS
  NewSession,  \* what a session is when it is created
  DevinMoves   \* <<before, after, how>>, how = "push" with a new commit or "quiet"

ASSUME MovesAssumption ==
  /\ NewSession \in Sessions
  /\ DevinMoves \subseteq Sessions \X Sessions \X {"push", "quiet"}
ASSUME CommitAssumption == Sha \subseteq Nat /\ IsFiniteSet(Sha)
(* A GET may find a session in any state, at any cost up to its cap.        *)
ASSUME ViewAssumption ==
  [status : Statuses, detail : Details, verdict : Verdicts, pr : PrUrls, acus : 0 .. MaxAcuLimit]
    \subseteq Snapshots
(* A session adds to what it has reported, and does not take it back.       *)
ASSUME VerdictAssumption == \A move \in DevinMoves : Remediated(move[1]) => Remediated(move[2])

VARIABLES
  dev,     \* per session what a GET returns, without the cost
  spend,   \* per session the ACUs it has really consumed
  head,    \* per session the head commit of its pull request
  commit   \* per commit which session pushed it and its checks

services == <<dev, spend, head, commit>>
controlVars == <<vars, services>>

CiStates == {"none", "pending", "green", "red", "false_green"}

ControlInit ==
  /\ Init
  /\ dev = [s \in Sid |-> NewSession]
  /\ spend = [s \in Sid |-> 0]
  /\ head = [s \in Sid |-> NoSha]
  /\ commit = [h \in Sha |-> [by |-> NoSid, ci |-> "none"]]

(* GET /sessions/{id}.                                                      *)
View(s) == [status |-> dev[s].status, detail |-> dev[s].detail, verdict |-> dev[s].verdict,
            pr |-> dev[s].pr, acus |-> spend[s]]

(* The pull request of a row is the one its session opened.                 *)
HeadsOf(r) == {head[s] : s \in SessionsOf(r)} \ {NoSha}

(* Variant: a green with the gating job skipped is a green.                 *)
FalseGreenIsGreen(h) ==
  [state |-> CASE commit[h].ci = "pending" -> "pending"
               [] commit[h].ci \in {"green", "false_green"} -> "green"
               [] commit[h].ci = "red" -> "red",
   false_green |-> FALSE,
   head_sha |-> h]

(* Variant: a check that has not ended counts as failed.                    *)
UnfinishedIsRed(h) ==
  [state |-> IF commit[h].ci = "green" THEN "green" ELSE "red",
   false_green |-> commit[h].ci = "false_green",
   head_sha |-> h]

(* verify: the checks of the head commit, which names the result.           *)
Checks(h) ==
  [state |-> CASE commit[h].ci = "pending" -> "pending"
               [] commit[h].ci = "green" -> "green"
               [] commit[h].ci \in {"red", "false_green"} -> "red",
   false_green |-> commit[h].ci = "false_green",
   head_sha |-> h]

-----------------------------------------------------------------------------
(* Devin and the CI.                                                        *)

Created(s) == owner[s] # NoRem

NextCommit(h) == commit[h].by = NoSid /\ \A g \in Sha : g < h => commit[g].by # NoSid

(* Stops, resumes by itself, asks, refuses, breaks ...                      *)
DevinMove(s) ==
  /\ Created(s)
  /\ \E move \in DevinMoves :
       move[1] = dev[s] /\ move[3] = "quiet" /\ dev' = [dev EXCEPT ![s] = move[2]]
  /\ UNCHANGED <<vars, spend, head, commit>>

DevinPush(s, h) ==
  /\ Created(s) /\ NextCommit(h)
  /\ \E move \in DevinMoves :
       move[1] = dev[s] /\ move[3] = "push" /\ dev' = [dev EXCEPT ![s] = move[2]]
  /\ head' = [head EXCEPT ![s] = h]
  /\ commit' = [commit EXCEPT ![h] = [by |-> s, ci |-> "pending"]]
  /\ UNCHANGED <<vars, spend>>

DevinStep(s) == DevinMove(s) \/ \E h \in Sha : DevinPush(s, h)

(* Variant: one ACU past the cap.                                           *)
ConsumeUncapped(s) ==
  /\ Created(s) /\ Working(dev[s]) /\ spend[s] <= MaxAcuLimit
  /\ spend' = [spend EXCEPT ![s] = @ + 1]
  /\ UNCHANGED <<vars, dev, head, commit>>

(* Working costs, recorded or not, closed or not, up to the session's cap.  *)
Consume(s) ==
  /\ Created(s) /\ Working(dev[s]) /\ spend[s] < MaxAcuLimit
  /\ spend' = [spend EXCEPT ![s] = @ + 1]
  /\ UNCHANGED <<vars, dev, head, commit>>

CiFinishes(h) ==
  /\ commit[h].ci = "pending"
  /\ \E result \in {"green", "red", "false_green"} : commit' = [commit EXCEPT ![h].ci = result]
  /\ UNCHANGED <<vars, dev, spend, head>>

-----------------------------------------------------------------------------
(* The worker.                                                              *)

Create(r, s) ==
  /\ DispatchCreate(r, s)
  /\ dev' = [dev EXCEPT ![s] = NewSession]
  /\ UNCHANGED <<spend, head, commit>>

(* A message resumes the session, whatever it was doing.                    *)
Resumed(d) == [d EXCEPT !.status = "resuming", !.detail = "working"]

Message(r) ==
  /\ AdvanceHealing(r)
  /\ dev' = [dev EXCEPT ![sid] = Resumed(@)]
  /\ UNCHANGED <<spend, head, commit>>

(* Answers that get lost after the request took effect.                     *)
CreateLost(r, s) ==
  /\ CreateResponseLost(r, s)
  /\ dev' = [dev EXCEPT ![s] = NewSession]
  /\ UNCHANGED <<spend, head, commit>>

MessageLost(r) ==
  /\ MessageResponseLost(r)
  /\ dev' = [dev EXCEPT ![sid] = Resumed(@)]
  /\ UNCHANGED <<spend, head, commit>>

Verify(r) ==
  /\ \E h \in HeadsOf(r) : AdvanceVerifying(r, Checks(h))
  /\ UNCHANGED services

PollSession(r, s) == Poll(r, s, View(s)) /\ UNCHANGED services

Internal ==
  /\ \/ BeginTick \/ BeginAdvance \/ EndTick \/ CloseSession
     \/ \E r \in Rem : \/ DispatchSkip(r) \/ InsertSession(r) \/ PollNothing(r)
                       \/ AdvanceDispatched(r) \/ AdvancePrOpened(r) \/ HealWithoutSession(r)
                       \/ UpdateRow(r) \/ AddEvent(r) \/ ReleaseSession(r)
  /\ UNCHANGED services

Worker ==
  \/ Internal
  \/ \E r \in Rem : Message(r) \/ Verify(r)
  \/ \E r \in Rem, s \in Sid : Create(r, s) \/ PollSession(r, s)

Devin == \E s \in Sid : DevinStep(s) \/ Consume(s)

Ci == \E h \in Sha : CiFinishes(h)

Failure ==
  \/ Crash /\ UNCHANGED services
  \/ \E r \in Rem : MessageLost(r)
  \/ \E r \in Rem, s \in Sid : CreateLost(r, s)

Arrival == \E r \in Rem : Enqueue(r) /\ UNCHANGED services

ControlNext == Worker \/ Devin \/ Ci \/ Failure \/ Arrival

(* The worker is one thread that is restarted when it dies (compose's       *)
(* restart: unless-stopped, the except clause of the loop), checks end, and *)
(* a session does not stay for ever in a state it can leave.                *)
Fairness ==
  /\ WF_controlVars(Worker)
  /\ \A h \in Sha : WF_controlVars(CiFinishes(h))
  /\ \A s \in Sid : WF_controlVars(DevinStep(s))

ControlSpec == ControlInit /\ [][ControlNext]_controlVars

FairSpec == ControlSpec /\ Fairness

-----------------------------------------------------------------------------
(* Safety.                                                                  *)

ControlTypeOK ==
  /\ TypeOK
  /\ dev \in [Sid -> Sessions]
  /\ spend \in [Sid -> 0 .. MaxAcuLimit]
  /\ head \in [Sid -> Sha \cup {NoSha}]
  /\ commit \in [Sha -> [by : Sid \cup {NoSid}, ci : CiStates]]

(* Finished is not success: a remediation stands at the human gate only     *)
(* with the verdict of its session (loop.py:9-10).                          *)
GateHasVerdict ==
  \A r \in Rem : row[r].state = "awaiting_merge" => \E s \in SessionsOf(r) : Remediated(dev[s])

(* ... which is so as long as no handler was cut short.                     *)
GateHasVerdictUndisturbed == faults = 0 => GateHasVerdict

(* A remediation in flight has a session to watch whenever its turn comes:  *)
(* while no handler is cut short none runs without a snapshot, and "healing *)
(* with no active session" (loop.py:288-292) does not happen.               *)
InFlightIsWatchedUndisturbed ==
  faults = 0 /\ pc \in {"idle", "next"} =>
    \A r \in Rem : row[r].state \in ActiveStates \ {"queued"} => ActiveSessionsOf(r) # {}

(* A remediation stands at the human gate only if some commit of its own    *)
(* pull request passed its checks, its gating job among them, crash or not: *)
(* a false green never gets there.                                          *)
GateWasGreen ==
  \A r \in Rem : row[r].state = "awaiting_merge" =>
    \E h \in Sha : commit[h].ci = "green" /\ commit[h].by \in SessionsOf(r)

RedCommits(r) == {h \in Sha : commit[h].ci = "red" /\ commit[h].by \in SessionsOf(r)}

(* Devin is messaged at most once for each commit whose checks failed       *)
(* (docs/DESIGN.md 6.4), once more for each crash; in particular never for  *)
(* a green commit and never again while the head has not moved.             *)
HealsOncePerCommit == \A r \in Rem : sent[r] <= Cardinality(RedCommits(r)) + faults

(* Nothing but a message wakes a session that has a pull request, which it  *)
(* keeps.                                                                   *)
WokenByMessageOnly(moves) ==
  \A move \in moves : move[1].pr # "none" =>
    move[2].pr # "none" /\ (Working(move[2]) => Working(move[1]))

(* "The control plane heals only when the session is not actively working" *)
(* (docs/DESIGN.md 6.4), although the message is sent a tick after the      *)
(* session was looked at: so it is where only messages wake a session       *)
(* (WokenByMessageOnly), as long as no handler was cut short.               *)
HealsOnlyIdleUndisturbed ==
  [][faults = 0 => \A r \in Rem : sent'[r] > sent[r] => ~Working(dev[sid])]_controlVars

(* What Devin bills never exceeds the ceiling (docs/DESIGN.md 5.3).         *)
RealSpendWithinCeiling == Cardinality(AcusOf(spend)) <= GlobalAcuBudget

(* Closed in the store, which does not stop it at Devin.                    *)
Closed == {s \in Sid : Recorded(s) /\ ~sess[s].active}

(* ... and by how much it can: the guard loses sight of a session when the  *)
(* store closes it (loop.py:309-311) or a fault keeps it from the record,   *)
(* and of nothing else, so each of those adds a cap to the ceiling at most. *)
OverrunIsAccounted ==
  Cardinality(AcusOf(spend)) <= GlobalAcuBudget + (Cardinality(Closed) + faults) * MaxAcuLimit

-----------------------------------------------------------------------------
(* Liveness.                                                                *)

Settled(r) == row[r].state \in {"refused", "needs_human", "failed", "awaiting_merge"}

(* Queued work gets dispatched, given a ceiling with room for it.  "a       *)
(* restart resumes cleanly" (loop.py:4-5).                                  *)
QueuedIsDispatched == \A r \in Rem : row[r].state = "queued" ~> row[r].state # "queued"

QueuedIsDispatchedUndisturbed == [](faults = 0) => QueuedIsDispatched

(* A heal that was decided is delivered or given up, crashes or not: the    *)
(* healing state survives in the store and the next tick takes it up.       *)
HealingIsDelivered == \A r \in Rem : row[r].state = "healing" ~> row[r].state # "healing"

(* With a Devin that pushes when it is asked to and ends with a verdict,    *)
(* every dispatched remediation ends at the gate or at an off-ramp.         *)
SettlesUndisturbed == [](faults = 0) => \A r \in Rem : row[r].state = "dispatched" ~> Settled(r)

=============================================================================
