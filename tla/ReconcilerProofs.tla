-------------------------- MODULE ReconcilerProofs --------------------------
(***************************************************************************)
(* What holds of Reconciler for every number of remediations, sessions and *)
(* commits, every cap and ceiling, and any number of crashes.              *)
(***************************************************************************)
EXTENDS Reconciler, FiniteSetTheorems, TLAPS

(* TypeOK with what an event step needs to stay typed: the event is there.  *)
TypeInv == TypeOK /\ (pc = "event" => plan.event # "none")

(* Becomes only changes the state of the copy a handler read.               *)
LEMMA BecomesTyped ==
  ASSUME NEW r, batch[r] \in Rows, NEW state \in FsmStates
  PROVE Becomes(r, state) \in Rows /\ Becomes(r, state).state = state
BY DEF Becomes, Rows

(* The precedence of derive_outcome leaves no snapshot without an outcome.  *)
LEMMA OutcomeTyped == ASSUME NEW s PROVE DeriveOutcome(s) \in Outcomes
BY DEF DeriveOutcome, Outcomes

(* What the two handlers with a choice may owe.                             *)
LEMMA DispatchedPlansTyped ==
  ASSUME NEW r, batch[r] \in Rows, snap \in Snapshots \cup {NoSnap}
  PROVE \A p \in DispatchedPlans(r) :
          p \in Plans /\ p.row.state \in {"pr_opened", "refused", "failed", "needs_human"}
<1>1. \A state \in {"pr_opened", "refused", "failed", "needs_human"} :
        Becomes(r, state) \in Rows /\ Becomes(r, state).state = state
  BY BecomesTyped DEF FsmStates, ActiveStates, TerminalStates
<1>2. CASE snap = NoSnap
  BY <1>2 DEF DispatchedPlans
<1>3. CASE snap # NoSnap /\ snap.pr # "none"
  <2> DEFINE opened == [Becomes(r, "pr_opened") EXCEPT !.pr = snap.pr]
  <2>1. opened \in Rows /\ opened.state = "pr_opened"
    BY <1>1, <1>3, SnapshotAssumption DEF Rows, Snapshot
  <2>2. DispatchedPlans(r) = {[close |-> "never", row |-> opened, event |-> "pr_opened"]}
    BY <1>3 DEF DispatchedPlans
  <2> HIDE DEF opened
  <2> QED
    BY <2>1, <2>2 DEF Plans, EventTypes
<1>4. CASE snap # NoSnap /\ snap.pr = "none"
  BY <1>1, <1>4, OutcomeTyped, SnapshotAssumption DEF DispatchedPlans, Plans, EventTypes, Outcomes
<1> QED
  BY <1>2, <1>3, <1>4

(* ... and what _advance_verifying may owe for each verdict of the checks.  *)
LEMMA VerifyingPlansTyped ==
  ASSUME NEW r, batch[r] \in Rows, NEW result \in CheckResults
  PROVE \A p \in VerifyingPlans(r, result) :
          p \in Plans /\ p.row.state \in {"healing", "needs_human", "awaiting_merge"}
<1>1. \A state \in {"healing", "awaiting_merge", "needs_human"} :
        Becomes(r, state) \in Rows /\ Becomes(r, state).state = state
  BY BecomesTyped DEF FsmStates, ActiveStates, TerminalStates
<1>2. result.head_sha \in Sha \cup {NoSha} /\ result.state \in {"pending", "green", "red"}
  BY DEF CheckResults
<1> DEFINE healing == [Becomes(r, "healing") EXCEPT !.healed = result.head_sha]
           human == Becomes(r, "needs_human")
           awaiting == Becomes(r, "awaiting_merge")
<1>3. healing \in Rows /\ healing.state = "healing"
  BY <1>1, <1>2 DEF Rows
<1>4. human \in Rows /\ human.state = "needs_human" /\ awaiting \in Rows /\ awaiting.state = "awaiting_merge"
  BY <1>1
<1>5. VerifyingPlans(r, result) \subseteq
        {[close |-> "first", row |-> human, event |-> "false_green_detected"],
         [close |-> "first", row |-> human, event |-> "heal_cap"],
         [close |-> "never", row |-> healing, event |-> "ci_red"],
         [close |-> "last", row |-> awaiting, event |-> "verified_green"]}
  BY <1>2 DEF VerifyingPlans
<1> HIDE DEF healing, human, awaiting
<1> QED
  BY <1>3, <1>4, <1>5 DEF Plans, EventTypes

(* What data/real_results.json holds: inert rows that were neither refused  *)
(* nor given up, with nothing in their log that their state belies.         *)
LEMMA RecordingKinds ==
  ASSUME NEW rec \in Recordings
  PROVE /\ rec.state \in {"merged", "awaiting_merge", "open", "deferred"}
        /\ rec.pr \in {"numbered", "none"} /\ rec.heals \in Nat
        /\ rec.events \subseteq EventTypes \ {"heal_cap", "false_green_detected"}
        /\ \A event \in rec.events : rec.state \in After(event)
BY DEF Recordings, EventTypes, After, FsmStates, ActiveStates, TerminalStates

(* The row a replacement adds, and what becomes of the others.              *)
LEMMA LoadedRows ==
  ASSUME NEW r \in Rem, NEW rec \in Recordings, LoadResults(r, rec)
  PROVE /\ row[r].state = "none"
        /\ row'[r].state = rec.state /\ row'[r].heals = rec.heals
        /\ \A q \in Rem \ {r} : row'[q] = IF Live(q) THEN GoneRow ELSE row[q]
BY DEF LoadResults, NextId, NoRow

(* The sessions it leaves are closed and free: at most one, which belongs   *)
(* to the new row and whose id the worker has never held.                   *)
LEMMA LoadedSessions ==
  ASSUME NEW r \in Rem, NEW rec \in Recordings, LoadResults(r, rec)
  PROVE \E old \in {s \in Sid \ {sid} : owner[s] = NoRem} \cup {NoSid} :
          /\ \A s \in Sid \ {old} : sess'[s] = NoSession /\ owner'[s] = owner[s]
          /\ \A s \in Sid : s = old => sess'[s] = [rem |-> r, active |-> FALSE, acus |-> 0] /\ owner'[s] = r
BY DEF LoadResults, NoSession

(* The type invariant holds of the empty store and the idle worker,         *)
LEMMA InitTypeInv == Init => TypeInv
BY BoundAssumption, FS_EmptySet DEF Init, TypeInv, TypeOK, NoRow, NoSession, NoBatch, NoPlan, Rows, SessionRows, Plans, PrUrls

(* and each step of the worker, the services and the web process keeps it.  *)
LEMMA NextTypeInv == TypeInv /\ [Next]_vars => TypeInv'
<1> SUFFICES ASSUME TypeInv, [Next]_vars PROVE TypeInv'
  OBVIOUS
<1> USE DEF TypeInv, TypeOK
<1>1. CASE BeginTick
  BY <1>1 DEF BeginTick, Select, store, devin, bounds
<1>2. ASSUME NEW r \in Rem, DispatchSkip(r) PROVE TypeInv'
  BY <1>2 DEF DispatchSkip, Done, Without, NoPlan, NoRow, Rows, Plans, PrUrls, Current, store, devin, bounds
<1>3. ASSUME NEW r \in Rem, InsertSession(r) PROVE TypeInv'
  BY <1>3 DEF InsertSession, Goto, SessionRows, devin, bounds
<1>4. ASSUME NEW r \in Rem, InsertFails(r) PROVE TypeInv'
  BY <1>4 DEF InsertFails, Reset, NoBatch, NoPlan, NoRow, Rows, Plans, PrUrls, store, devin, bounds
<1>5. ASSUME NEW r \in Rem, NEW s \in Sid, DispatchCreate(r, s) PROVE TypeInv'
  BY <1>5 DEF DispatchCreate, Current, Plans, Rows, FsmStates, ActiveStates, EventTypes, store, bounds
<1>6. CASE BeginAdvance
  BY <1>6 DEF BeginAdvance, Select, store, devin, bounds
<1>7. ASSUME NEW r \in Rem, NEW s \in Sid, NEW shot \in Snapshots, Poll(r, s, shot) PROVE TypeInv'
  BY <1>7, SnapshotAssumption DEF Poll, SessionRows, Snapshot, devin, bounds
<1>8. ASSUME NEW r \in Rem, PollNothing(r) PROVE TypeInv'
  BY <1>8 DEF PollNothing, store, devin, bounds
<1>9. ASSUME NEW r \in Rem, AdvanceDispatched(r) PROVE TypeInv'
  <2>1. r \in DOMAIN batch /\ batch[r] \in Rows
    BY <1>9 DEF AdvanceDispatched, Handling, Current
  <2>2. \A p \in DispatchedPlans(r) : p \in Plans
    BY <2>1, DispatchedPlansTyped
  <2> QED
    BY <1>9, <2>2 DEF AdvanceDispatched, Done, Start, Without, NoPlan, NoRow, Rows, Plans, PrUrls, store, devin, bounds
<1>10. ASSUME NEW r \in Rem, AdvancePrOpened(r) PROVE TypeInv'
  BY <1>10 DEF AdvancePrOpened, Handling, Current, Start, Becomes, Plans, Rows, FsmStates, ActiveStates, store, devin, bounds
<1>11. ASSUME NEW r \in Rem, NEW result \in CheckResults, AdvanceVerifying(r, result) PROVE TypeInv'
  <2>1. r \in DOMAIN batch /\ batch[r] \in Rows
    BY <1>11 DEF AdvanceVerifying, Handling, Current
  <2>2. \A p \in VerifyingPlans(r, result) : p \in Plans
    BY <2>1, VerifyingPlansTyped
  <2> QED
    BY <1>11, <2>2 DEF AdvanceVerifying, Done, Start, Without, NoPlan, NoRow, Rows, Plans, PrUrls, store, devin, bounds
<1>12. ASSUME NEW r \in Rem, HealWithoutSession(r) PROVE TypeInv'
  BY <1>12 DEF HealWithoutSession, Handling, Current, Start, Becomes, Plans, Rows, EventTypes, FsmStates,
     TerminalStates, store, devin, bounds
<1>13. ASSUME NEW r \in Rem, AdvanceHealing(r) PROVE TypeInv'
  <2>1. Becomes(r, "verifying") \in Rows
    BY <1>13, BecomesTyped DEF AdvanceHealing, Handling, Current, FsmStates, ActiveStates
  <2>2. [Becomes(r, "verifying") EXCEPT !.heals = @ + 1] \in Rows
    BY <2>1 DEF Rows
  <2> QED
    BY <1>13, <2>2 DEF AdvanceHealing, Start, Plans, EventTypes, store, bounds
<1>14. CASE CloseSession
  BY <1>14 DEF CloseSession, Goto, SessionRows, devin, bounds
<1>15. ASSUME NEW r \in Rem, UpdateRow(r) PROVE TypeInv'
  BY <1>15 DEF UpdateRow, Current, Goto, Done, Without, NoPlan, NoRow, Rows, Plans, PrUrls, devin, bounds
<1>16. ASSUME NEW r \in Rem, AddEvent(r) PROVE TypeInv'
  BY <1>16 DEF AddEvent, Current, Goto, Done, Without, NoPlan, NoRow, Rows, Plans, PrUrls, devin, bounds
<1>17. ASSUME NEW r \in Rem, ReleaseSession(r) PROVE TypeInv'
  <2>1. sess' \in [Sid -> SessionRows] /\ UNCHANGED <<row, events, devin, bounds, pass>>
    BY <1>17 DEF ReleaseSession, SessionRows
  <2> QED
    BY <1>17, <2>1 DEF ReleaseSession, Current, Done, Without, NoPlan, NoRow, Rows, Plans, PrUrls, devin, bounds
<1>18. CASE EndTick
  BY <1>18 DEF EndTick, Reset, NoBatch, NoPlan, NoRow, Rows, Plans, PrUrls, store, devin, bounds
<1>19. CASE Fault
  <2>1. CASE TickError \/ Crash
    <3>1. faults' \in 0 .. MaxFaults /\ UNCHANGED <<loaded, store, devin>> /\ Reset
      BY <2>1, BoundAssumption DEF TickError, Crash, store, devin, bounds
    <3> QED
      BY <3>1 DEF Reset, NoBatch, NoPlan, NoRow, Rows, Plans, PrUrls, store, devin
  <2>2. ASSUME NEW r \in Rem, MessageResponseLost(r) PROVE TypeInv'
    BY <2>2, BoundAssumption DEF MessageResponseLost, store, worker
  <2>3. ASSUME NEW r \in Rem, NEW s \in Sid, CreateResponseLost(r, s) PROVE TypeInv'
    BY <2>3, BoundAssumption DEF CreateResponseLost, store, worker
  <2> QED
    BY <1>19, <2>1, <2>2, <2>3 DEF Fault
<1>20. ASSUME NEW r \in Rem, Enqueue(r) PROVE TypeInv'
  BY <1>20 DEF Enqueue, NewRow, NoRow, Rows, PrUrls, FsmStates, ActiveStates, devin, worker, bounds
<1>21. ASSUME NEW r \in Rem, RefreshPrState(r) PROVE TypeInv'
  <2>1. [row[r] EXCEPT !.state = IF @ = "merged" THEN "awaiting_merge" ELSE "merged"] \in Rows
    BY DEF Rows, FsmStates, TerminalStates
  <2>2. row' = [row EXCEPT ![r] = [row[r] EXCEPT !.state = IF @ = "merged" THEN "awaiting_merge" ELSE "merged"]]
    BY <1>21 DEF RefreshPrState
  <2> QED
    BY <1>21, <2>1, <2>2 DEF RefreshPrState, devin, worker, bounds
<1>22. ASSUME NEW r \in Rem, NEW rec \in Recordings, LoadResults(r, rec) PROVE TypeInv'
  <2>1. loaded' \subseteq Rem /\ Cardinality(loaded') <= MaxLoads
    <3>1. IsFiniteSet(loaded)
      BY RemAssumption, FS_Subset
    <3>2. Cardinality(loaded \cup {r}) <= Cardinality(loaded) + 1
      <4>1. Cardinality(loaded) \in Nat
        BY <3>1, FS_CardinalityType
      <4>2. Cardinality(loaded \cup {r}) = IF r \in loaded THEN Cardinality(loaded) ELSE Cardinality(loaded) + 1
        BY <3>1, FS_AddElement
      <4> QED
        BY <4>1, <4>2
    <3>3. Cardinality(loaded) \in Nat /\ Cardinality(loaded \cup {r}) \in Nat
      BY <3>1, FS_AddElement, FS_CardinalityType
    <3> QED
      BY <1>22, <3>2, <3>3, BoundAssumption DEF LoadResults
  <2>2. sess' \in [Sid -> SessionRows] /\ owner' \in [Sid -> Rem \cup {NoRem}]
    <3>1. NoSession \in SessionRows /\ [NoSession EXCEPT !.rem = r] \in SessionRows
      BY DEF NoSession, SessionRows
    <3>2. PICK old \in {s \in Sid \ {sid} : owner[s] = NoRem} \cup {NoSid} :
            /\ sess' = [s \in Sid |-> IF s = old THEN [NoSession EXCEPT !.rem = r] ELSE NoSession]
            /\ owner' = [s \in Sid |-> IF s = old THEN r ELSE owner[s]]
      BY <1>22 DEF LoadResults
    <3> QED
      BY <3>1, <3>2
  <2>3. rec.events \in SUBSET EventTypes
    BY RecordingKinds
  <2>4. events' \in [Rem -> SUBSET EventTypes]
    BY <1>22, <2>3 DEF LoadResults
  <2>5. GoneRow \in Rows
    BY DEF GoneRow, NoRow, Rows, PrUrls
  <2>6. [NoRow EXCEPT !.state = rec.state, !.pr = rec.pr, !.heals = rec.heals] \in Rows
    BY RecordingKinds DEF NoRow, Rows, PrUrls, FsmStates, TerminalStates
  <2>7. row' \in [Rem -> Rows]
    BY <1>22, <2>5, <2>6 DEF LoadResults
  <2>8. UNCHANGED <<sent, worker, faults>>
    BY <1>22 DEF LoadResults
  <2> QED
    BY <2>1, <2>2, <2>4, <2>7, <2>8 DEF worker
<1>23. CASE UNCHANGED vars
  BY <1>23 DEF vars, store, devin, worker, bounds
<1> QED
  BY <1>1, <1>2, <1>3, <1>4, <1>5, <1>6, <1>7, <1>8, <1>9, <1>10, <1>11, <1>12, <1>13, <1>14, <1>15,
     <1>16, <1>17, <1>18, <1>19, <1>20, <1>21, <1>22, <1>23
  DEF Next, DispatchPass, AdvancePass, Write, Observe, Web

(* Type correctness, for every set of remediations, sessions and commits.   *)
THEOREM TypeCorrect == Spec => []TypeOK
<1>1. TypeInv => TypeOK
  BY DEF TypeInv
<1> QED
  BY <1>1, InitTypeInv, NextTypeInv, PTL DEF Spec

-----------------------------------------------------------------------------
(* One session row per remediation.  The dedupe of a dispatch looks at      *)
(* active sessions only, so the argument has to show that a queued row has  *)
(* no closed one either: closing happens to rows that have left queued, and *)
(* no row comes back to it.                                                 *)

(* The rows of the tick are in the states of its pass.                      *)
BatchStates ==
  \A r \in DOMAIN batch :
    /\ pass = "dispatch" => row[r].state \in {"queued", "deleted"} \/ (pc = "event" /\ Current(r))
    /\ pass = "advance" => row[r].state \notin {"none", "queued"}

(* What a handler that has begun relies on at each of its steps.            *)
Locals ==
  /\ pc \in {"idle", "next"} => sid = NoSid
  /\ pc \in {"handle", "close", "release"} => pass = "advance"
  /\ pc = "insert" => pass = "dispatch" /\ sid \in Sid /\ \A r \in Rem : Current(r) => SessionsOf(r) = {}
  /\ pc \in {"insert", "close", "update"} => plan.row.state \in FsmStates \ {"queued"}
  /\ pass = "dispatch" /\ pc \in {"insert", "update", "event"} => plan.close = "never"
  /\ pass = "advance" /\ pc \in {"handle", "close", "update", "event", "release"} =>
       \A s \in Sid : sid = s /\ Recorded(s) => sess[s].rem \in DOMAIN batch

(* sessions.remediation_id REFERENCES remediations(id).                     *)
ForeignKey == \A s \in Sid : Recorded(s) => Live(sess[s].rem)

ClosedNotQueued == \A s \in Sid : Recorded(s) /\ ~sess[s].active => row[sess[s].rem].state # "queued"

SessionInv == TypeInv /\ BatchStates /\ Locals /\ ForeignKey /\ ClosedNotQueued /\ OneSessionRow

(* ORDER BY id leaves one row to be handled at a time.                      *)
LEMMA CurrentUnique ==
  ASSUME TypeOK, NEW r \in Rem, NEW q \in Rem, Current(r), Current(q)
  PROVE r = q
BY RemAssumption DEF TypeOK, Current

(* The session invariant holds of the empty store, where nothing is recorded. *)
LEMMA InitSessionInv == Init => SessionInv
BY InitTypeInv, NullAssumption
DEF Init, SessionInv, BatchStates, Locals, ForeignKey, ClosedNotQueued, OneSessionRow, Recorded, NoSession, NoBatch

(* Only _dispatch records a session, and only for a row that is queued;     *)
(* a queued row has none, closed ones included (ClosedNotQueued).           *)
LEMMA DispatchKeepsSessionInv ==
  ASSUME SessionInv, TypeInv', DispatchPass
  PROVE SessionInv'
<1> USE DEF SessionInv, BatchStates, Locals, ForeignKey, ClosedNotQueued, OneSessionRow, Recorded, Live,
            SessionsOf, ActiveSessionsOf, AlreadyRunning, Current
<1> USE RemAssumption, NullAssumption
<1>1. CASE BeginTick
  BY <1>1 DEF BeginTick, Select, store, devin, bounds, TypeInv, TypeOK
<1>2. ASSUME NEW r \in Rem, DispatchSkip(r) PROVE SessionInv'
  BY <1>2 DEF DispatchSkip, Done, Without, store, devin, bounds, TypeInv, TypeOK
<1>3. ASSUME NEW r \in Rem, InsertSession(r) PROVE SessionInv'
  BY <1>3 DEF InsertSession, Goto, devin, bounds, TypeInv, TypeOK, SessionRows
<1>4. ASSUME NEW r \in Rem, InsertFails(r) PROVE SessionInv'
  BY <1>4 DEF InsertFails, Reset, NoBatch, store, devin, bounds
<1>5. ASSUME NEW r \in Rem, NEW s \in Sid, DispatchCreate(r, s) PROVE SessionInv'
  <2>1. r \in DOMAIN batch /\ row[r].state \in {"queued", "deleted"}
    BY <1>5 DEF DispatchCreate
  <2>2. SessionsOf(r) = {}
    BY <1>5, <2>1 DEF DispatchCreate, FsmStates, ActiveStates, TerminalStates
  <2>3. \A q \in Rem : Current(q)' => q = r
    BY <1>5, CurrentUnique DEF DispatchCreate, TypeInv
  <2>4. plan'.row.state = "dispatched" /\ plan'.close = "never"
    BY <1>5, <2>1 DEF DispatchCreate, TypeInv, TypeOK, Rows
  <2> QED
    BY <1>5, <2>2, <2>3, <2>4 DEF DispatchCreate, store, bounds, FsmStates, ActiveStates
<1> QED
  BY <1>1, <1>2, <1>3, <1>4, <1>5 DEF DispatchPass

(* The handlers choose what to write, and never a queued row.               *)
LEMMA AdvanceKeepsSessionInv ==
  ASSUME SessionInv, TypeInv', AdvancePass
  PROVE SessionInv'
<1> USE DEF SessionInv, BatchStates, Locals, ForeignKey, ClosedNotQueued, OneSessionRow, Recorded, Live,
            SessionsOf, ActiveSessionsOf, AlreadyRunning, Current
<1> USE RemAssumption, NullAssumption
<1>1. CASE BeginAdvance
  BY <1>1 DEF BeginAdvance, Select, ActiveStates, store, devin, bounds, TypeInv, TypeOK
<1>2. ASSUME NEW r \in Rem, PollNothing(r) PROVE SessionInv'
  BY <1>2 DEF PollNothing, store, devin, bounds, TypeInv, TypeOK
<1>3. ASSUME NEW r \in Rem, AdvanceDispatched(r) PROVE SessionInv'
  <2>1. \A p \in DispatchedPlans(r) : p.row.state \in FsmStates \ {"queued"}
    BY <1>3, DispatchedPlansTyped
    DEF AdvanceDispatched, Handling, TypeInv, TypeOK, FsmStates, ActiveStates, TerminalStates
  <2>2. UNCHANGED <<row, sess, pass>>
    BY <1>3 DEF AdvanceDispatched, store
  <2>3. CASE Done(r)
    BY <1>3, <2>2, <2>3 DEF AdvanceDispatched, Handling, Done, Without
  <2>4. CASE \E p \in DispatchedPlans(r) : Start(p)
    BY <1>3, <2>1, <2>2, <2>4 DEF AdvanceDispatched, Handling, Start
  <2> QED
    BY <1>3, <2>3, <2>4 DEF AdvanceDispatched
<1>4. ASSUME NEW r \in Rem, AdvancePrOpened(r) PROVE SessionInv'
  BY <1>4 DEF AdvancePrOpened, Handling, Start, Becomes, store, devin, bounds, TypeInv, TypeOK, Rows,
     FsmStates, ActiveStates
<1>5. ASSUME NEW r \in Rem, HealWithoutSession(r) PROVE SessionInv'
  BY <1>5 DEF HealWithoutSession, Handling, Start, Becomes, store, devin, bounds, TypeInv, TypeOK, Rows,
     FsmStates, TerminalStates
<1>6. ASSUME NEW r \in Rem, AdvanceHealing(r) PROVE SessionInv'
  <2>1. Becomes(r, "verifying") \in Rows /\ Becomes(r, "verifying").state = "verifying"
    BY <1>6, BecomesTyped DEF AdvanceHealing, Handling, TypeInv, TypeOK, FsmStates, ActiveStates
  <2>2. [Becomes(r, "verifying") EXCEPT !.heals = @ + 1].state = "verifying"
    BY <2>1 DEF Rows
  <2>3. plan'.row.state = "verifying"
    BY <1>6, <2>2 DEF AdvanceHealing, Start
  <2> QED
    BY <1>6, <2>3 DEF AdvanceHealing, Handling, Start, store, bounds, FsmStates, ActiveStates
<1>7. CASE EndTick
  BY <1>7 DEF EndTick, Reset, NoBatch, store
<1> QED
  BY <1>1, <1>2, <1>3, <1>4, <1>5, <1>6, <1>7 DEF AdvancePass

(* Polling and verifying record no session and close none.                  *)
LEMMA ObserveKeepsSessionInv ==
  ASSUME SessionInv, TypeInv', Observe
  PROVE SessionInv'
<1> USE DEF SessionInv, BatchStates, Locals, ForeignKey, ClosedNotQueued, OneSessionRow, Recorded, Live,
            SessionsOf, ActiveSessionsOf, AlreadyRunning, Current
<1> USE RemAssumption, NullAssumption
<1>1. ASSUME NEW r \in Rem, NEW s \in Sid, NEW shot \in Snapshots, Poll(r, s, shot) PROVE SessionInv'
  <2>1. \A t \in Sid : sess'[t].rem = sess[t].rem /\ sess'[t].active = sess[t].active
    BY <1>1 DEF Poll, TypeInv, TypeOK, SessionRows
  <2> QED
    BY <1>1, <2>1 DEF Poll, devin, bounds
<1>2. ASSUME NEW r \in Rem, NEW result \in CheckResults, AdvanceVerifying(r, result) PROVE SessionInv'
  <2>1. \A p \in VerifyingPlans(r, result) : p.row.state \in FsmStates \ {"queued"}
    BY <1>2, VerifyingPlansTyped
    DEF AdvanceVerifying, Handling, TypeInv, TypeOK, FsmStates, ActiveStates, TerminalStates
  <2>2. UNCHANGED <<row, sess, pass>>
    BY <1>2 DEF AdvanceVerifying, store
  <2>3. CASE Done(r)
    BY <1>2, <2>2, <2>3 DEF AdvanceVerifying, Handling, Done, Without
  <2>4. CASE \E p \in VerifyingPlans(r, result) : Start(p)
    BY <1>2, <2>1, <2>2, <2>4 DEF AdvanceVerifying, Handling, Start
  <2> QED
    BY <1>2, <2>3, <2>4 DEF AdvanceVerifying
<1> QED
  BY <1>1, <1>2 DEF Observe

(* The owed writes: a session is closed only when its row has left the queue, *)
(* and no owed row goes back there.                                         *)
LEMMA WriteKeepsSessionInv ==
  ASSUME SessionInv, TypeInv', Write
  PROVE SessionInv'
<1> USE DEF SessionInv, BatchStates, Locals, ForeignKey, ClosedNotQueued, OneSessionRow, Recorded, Live,
            SessionsOf, ActiveSessionsOf, AlreadyRunning, Current
<1> USE RemAssumption, NullAssumption
<1>1. CASE CloseSession
  <2>1. \A t \in Sid : sess'[t].rem = sess[t].rem /\ (t # sid => sess'[t].active = sess[t].active)
    BY <1>1 DEF CloseSession, TypeInv, TypeOK, SessionRows
  <2> QED
    BY <1>1, <2>1 DEF CloseSession, Goto
<1>2. ASSUME NEW r \in Rem, UpdateRow(r) PROVE SessionInv'
  <2>1. \A q \in Rem : row'[q] = row[q] \/ (q = r /\ Live(q) /\ row'[q].state \in FsmStates \ {"queued"})
    BY <1>2 DEF UpdateRow, TypeInv, TypeOK
  <2>2. CASE plan.event = "none"
    BY <1>2, <2>1, <2>2 DEF UpdateRow, Done, Without, TypeInv, TypeOK, FsmStates, ActiveStates, TerminalStates
  <2>3. CASE plan.event # "none"
    BY <1>2, <2>1, <2>3 DEF UpdateRow, Goto, TypeInv, TypeOK, FsmStates, ActiveStates, TerminalStates
  <2> QED
    BY <2>2, <2>3
<1>3. ASSUME NEW r \in Rem, AddEvent(r) PROVE SessionInv'
  <2>1. CASE plan.close = "last" /\ sid # NoSid
    BY <1>3, <2>1 DEF AddEvent, Goto, TypeInv, TypeOK
  <2>2. CASE ~(plan.close = "last" /\ sid # NoSid)
    <3>1. \A q \in DOMAIN batch : Current(q) => q = r
      BY <1>3, CurrentUnique DEF AddEvent, TypeInv, TypeOK
    <3> QED
      BY <1>3, <2>2, <3>1 DEF AddEvent, Done, Without
  <2> QED
    BY <2>1, <2>2
<1>4. ASSUME NEW r \in Rem, ReleaseSession(r) PROVE SessionInv'
  <2>1. \A t \in Sid : sess'[t].rem = sess[t].rem /\ (t # sid => sess'[t].active = sess[t].active)
    BY <1>4 DEF ReleaseSession, TypeInv, TypeOK, SessionRows
  <2> QED
    BY <1>4, <2>1 DEF ReleaseSession, Done, Without
<1> QED
  BY <1>1, <1>2, <1>3, <1>4 DEF Write

(* A replacement leaves settled rows and deleted ones, and the session that *)
(* may come with a settled row is not the one the worker holds.             *)
LEMMA LoadKeepsSessionInv ==
  ASSUME SessionInv, TypeInv', NEW r \in Rem, NEW rec \in Recordings, LoadResults(r, rec)
  PROVE SessionInv'
<1>1. PICK old \in {s \in Sid \ {sid} : owner[s] = NoRem} \cup {NoSid} :
        /\ \A s \in Sid \ {old} : sess'[s] = NoSession
        /\ \A s \in Sid : s = old => sess'[s] = [rem |-> r, active |-> FALSE, acus |-> 0]
  <2>1. PICK old \in {s \in Sid \ {sid} : owner[s] = NoRem} \cup {NoSid} :
          /\ \A s \in Sid \ {old} : sess'[s] = NoSession /\ owner'[s] = owner[s]
          /\ \A s \in Sid : s = old => sess'[s] = [rem |-> r, active |-> FALSE, acus |-> 0] /\ owner'[s] = r
    BY LoadedSessions
  <2> QED
    BY <2>1
<1>2. row[r].state = "none" /\ row'[r].state \in FsmStates \ {"queued"}
  <2>1. rec.state \in FsmStates \ {"queued"}
    BY RecordingKinds DEF FsmStates, TerminalStates
  <2> QED
    BY <2>1, LoadedRows
<1>3. \A q \in Rem \ {r} : row'[q].state = row[q].state \/ row'[q].state = "deleted"
  BY LoadedRows DEF GoneRow, NoRow
<1>4. UNCHANGED worker
  BY DEF LoadResults
<1>5. old # sid \/ old \notin Sid
  BY NullAssumption
<1>6. ForeignKey' /\ ClosedNotQueued' /\ OneSessionRow'
  BY <1>1, <1>2, NullAssumption DEF ForeignKey, ClosedNotQueued, OneSessionRow, Recorded, Live, NoSession
<1>7. /\ \A q \in DOMAIN batch : q \in Rem
      /\ r \in DOMAIN batch => pass = "dispatch" /\ pc = "event" /\ Current(r)
  BY <1>2 DEF SessionInv, BatchStates, TypeInv, TypeOK
<1>8. BatchStates'
  BY <1>3, <1>4, <1>7 DEF SessionInv, BatchStates, worker, TypeInv, TypeOK, Current
<1>9. Locals'
  <2>1. \A q \in Rem : q # r => SessionsOf(q)' = {}
    BY <1>1, NullAssumption DEF NoSession, SessionsOf
  <2>2. \A s \in Sid : sid = s => ~Recorded(s)'
    BY <1>1, <1>5 DEF NoSession, Recorded
  <2> QED
    BY <1>4, <1>7, <2>1, <2>2 DEF SessionInv, Locals, worker, Current
<1> QED
  BY <1>6, <1>8, <1>9 DEF SessionInv

(* Crashes lose the owed writes only; the web process adds queued rows that *)
(* have no session, or replaces both tables at once, by settled rows with   *)
(* at most one session.                                                     *)
LEMMA OthersKeepSessionInv ==
  ASSUME SessionInv, TypeInv', Fault \/ Web \/ UNCHANGED vars
  PROVE SessionInv'
<1> USE DEF SessionInv, BatchStates, Locals, ForeignKey, ClosedNotQueued, OneSessionRow, Recorded, Live,
            SessionsOf, ActiveSessionsOf, AlreadyRunning, Current
<1> USE RemAssumption, NullAssumption
<1>1. CASE Fault
  <2>1. CASE TickError \/ Crash
    BY <2>1 DEF TickError, Crash, Reset, NoBatch, store
  <2>2. CASE UNCHANGED <<store, worker>>
    BY <2>2 DEF store, worker
  <2> QED
    BY <1>1, <2>1, <2>2 DEF Fault, MessageResponseLost, CreateResponseLost
<1>2. ASSUME NEW r \in Rem, Enqueue(r) PROVE SessionInv'
  <2>1. \A q \in Rem : q # r => row'[q] = row[q]
    BY <1>2 DEF Enqueue, TypeInv, TypeOK
  <2>2. row[r].state = "none" /\ row'[r].state = "queued"
    BY <1>2 DEF Enqueue, NextId, TypeInv, TypeOK, NewRow, NoRow
  <2>3. UNCHANGED <<sess, worker>>
    BY <1>2 DEF Enqueue
  <2>4. \A s \in Sid : Recorded(s) => sess[s].rem \in Rem
    BY DEF TypeInv, TypeOK, SessionRows
  <2>5. \A s \in Sid : Recorded(s) => sess[s].rem # r
    BY <2>2 DEF FsmStates, ActiveStates, TerminalStates
  <2>6. ForeignKey' /\ ClosedNotQueued' /\ OneSessionRow'
    BY <2>1, <2>3, <2>4, <2>5
  <2>7. BatchStates'
    BY <2>1, <2>2, <2>3 DEF worker, TypeInv, TypeOK
  <2>8. Locals'
    BY <2>3 DEF worker
  <2> QED
    BY <2>6, <2>7, <2>8
<1>3. ASSUME NEW r \in Rem, RefreshPrState(r) PROVE SessionInv'
  <2>1. \A q \in Rem : q # r => row'[q] = row[q]
    BY <1>3 DEF RefreshPrState, TypeInv, TypeOK
  <2>2. row[r].state \in {"merged", "awaiting_merge"} /\ row'[r].state \in {"merged", "awaiting_merge"}
    BY <1>3 DEF RefreshPrState, TypeInv, TypeOK, Rows
  <2>3. UNCHANGED <<sess, worker>>
    BY <1>3 DEF RefreshPrState
  <2>4. \A s \in Sid : Recorded(s) => sess[s].rem \in Rem
    BY DEF TypeInv, TypeOK, SessionRows
  <2>5. \A q \in Rem : row'[q].state = row[q].state \/ (q = r /\ row[q].state \in {"merged", "awaiting_merge"})
    BY <2>1, <2>2
  <2>6. \A q \in Rem : row'[q].state = row[q].state \/ row'[q].state \in {"merged", "awaiting_merge"}
    BY <2>1, <2>2
  <2>7. ForeignKey' /\ ClosedNotQueued' /\ OneSessionRow'
    BY <2>3, <2>4, <2>6 DEF FsmStates, ActiveStates, TerminalStates
  <2>8. BatchStates'
    BY <2>3, <2>5, <2>6 DEF worker, TypeInv, TypeOK
  <2>9. Locals'
    BY <2>3 DEF worker
  <2> QED
    BY <2>7, <2>8, <2>9
<1>4. ASSUME NEW r \in Rem, NEW rec \in Recordings, LoadResults(r, rec) PROVE SessionInv'
  BY <1>4, LoadKeepsSessionInv
<1>5. CASE UNCHANGED vars
  BY <1>5 DEF vars, store, worker
<1> QED
  BY <1>1, <1>2, <1>3, <1>4, <1>5 DEF Web

(* Together: the session invariant is inductive.                            *)
LEMMA NextSessionInv == SessionInv /\ [Next]_vars => SessionInv'
<1> SUFFICES ASSUME SessionInv, [Next]_vars PROVE SessionInv'
  OBVIOUS
<1>1. TypeInv'
  BY NextTypeInv DEF SessionInv
<1> QED
  BY <1>1, DispatchKeepsSessionInv, AdvanceKeepsSessionInv, ObserveKeepsSessionInv, WriteKeepsSessionInv,
     OthersKeepSessionInv DEF Next

(* Dispatching reads only active sessions, and still no remediation ever    *)
(* gets a second session recorded, whatever crashes and whoever replaces    *)
(* the store in between.                                                    *)
THEOREM OneSessionPerRemediation == Spec => []OneSessionRow
<1>1. SessionInv => OneSessionRow
  BY DEF SessionInv
<1> QED
  BY <1>1, InitSessionInv, NextSessionInv, PTL DEF Spec

=============================================================================
