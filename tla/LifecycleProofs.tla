-------------------------- MODULE LifecycleProofs --------------------------
(***************************************************************************)
(* What relates the store of Reconciler to the world, for every value of   *)
(* the constants: the heal messages Devin got, the sessions the store does *)
(* not know, and the state machine of Lifecycle.                             *)
(***************************************************************************)
EXTENDS StoreProofs, FiniteSetTheorems

(* The bounded things are only ever counted up.                             *)
LEMMA BoundsSteps ==
  ASSUME [Next]_vars
  PROVE /\ faults' = faults \/ faults' = faults + 1
        /\ loaded' = loaded \/ \E r \in Rem : loaded' = loaded \cup {r}
<1>1. CASE DispatchPass
  BY <1>1 DEF DispatchPass, BeginTick, DispatchSkip, InsertSession, InsertFails, DispatchCreate, bounds
<1>2. CASE AdvancePass
  BY <1>2 DEF AdvancePass, BeginAdvance, PollNothing, AdvanceDispatched, AdvancePrOpened, HealWithoutSession,
     AdvanceHealing, EndTick, bounds
<1>3. CASE Write \/ Observe
  BY <1>3 DEF Write, CloseSession, UpdateRow, AddEvent, ReleaseSession, Observe, Poll, AdvanceVerifying, bounds
<1>4. CASE Fault
  BY <1>4 DEF Fault, TickError, Crash, MessageResponseLost, CreateResponseLost, bounds
<1>5. CASE Web
  BY <1>5 DEF Web, Enqueue, RefreshPrState, LoadResults, bounds
<1>6. CASE UNCHANGED vars
  BY <1>6 DEF vars, bounds
<1> QED
  BY <1>1, <1>2, <1>3, <1>4, <1>5, <1>6 DEF Next

(* Only a replacement adds to the rows that came with one.                  *)
LEMMA LoadedSteps ==
  ASSUME [Next]_vars
  PROVE UNCHANGED loaded \/ \E r \in Rem, rec \in Recordings : LoadResults(r, rec)
<1>1. CASE DispatchPass
  BY <1>1 DEF DispatchPass, BeginTick, DispatchSkip, InsertSession, InsertFails, DispatchCreate, bounds
<1>2. CASE AdvancePass
  BY <1>2 DEF AdvancePass, BeginAdvance, PollNothing, AdvanceDispatched, AdvancePrOpened, HealWithoutSession,
     AdvanceHealing, EndTick, bounds
<1>3. CASE Write \/ Observe
  BY <1>3 DEF Write, CloseSession, UpdateRow, AddEvent, ReleaseSession, Observe, Poll, AdvanceVerifying, bounds
<1>4. CASE Fault
  BY <1>4 DEF Fault, TickError, Crash, MessageResponseLost, CreateResponseLost, bounds
<1>5. CASE Web
  BY <1>5 DEF Web, Enqueue, RefreshPrState, bounds
<1>6. CASE UNCHANGED vars
  BY <1>6 DEF vars, bounds
<1> QED
  BY <1>1, <1>2, <1>3, <1>4, <1>5, <1>6 DEF Next

(* As long as no row came with a replacement there was none.                *)
LEMMA NoLoadYet ==
  ASSUME [Next]_vars, loaded' = {}
  PROVE loaded = {} /\ \A r \in Rem, rec \in Recordings : ~LoadResults(r, rec)
<1>1. \A r \in Rem, rec \in Recordings : ~LoadResults(r, rec)
  BY DEF LoadResults
<1> QED
  BY <1>1, BoundsSteps

-----------------------------------------------------------------------------
(* The heal messages.                                                       *)

CountInv == MessagesMatchAttempts /\ \A r \in Rem : row[r].state = "none" => sent[r] = 0

(* The only steps that send one.                                            *)
LEMMA SentSteps ==
  ASSUME [Next]_vars
  PROVE \/ UNCHANGED sent
        \/ \E r \in Rem : AdvanceHealing(r) \/ MessageResponseLost(r)
<1>1. CASE DispatchPass
  BY <1>1 DEF DispatchPass, BeginTick, DispatchSkip, InsertSession, InsertFails, DispatchCreate, devin
<1>2. CASE AdvancePass
  BY <1>2 DEF AdvancePass, BeginAdvance, PollNothing, AdvanceDispatched, AdvancePrOpened, HealWithoutSession,
     EndTick, devin
<1>3. CASE Write \/ Observe
  BY <1>3 DEF Write, CloseSession, UpdateRow, AddEvent, ReleaseSession, Observe, Poll, AdvanceVerifying, devin
<1>4. CASE Fault
  BY <1>4 DEF Fault, TickError, Crash, CreateResponseLost, devin
<1>5. CASE Web
  BY <1>5 DEF Web, Enqueue, RefreshPrState, LoadResults, devin
<1>6. CASE UNCHANGED vars
  BY <1>6 DEF vars, devin
<1> QED
  BY <1>1, <1>2, <1>3, <1>4, <1>5, <1>6 DEF Next

(* No handler but the one of healing rows owes a self_heal.                 *)
LEMMA OnlyHealingOwesAttempt ==
  ASSUME StoreInv, [Next]_vars, pc' = "update", plan'.event = "self_heal", ~UNCHANGED worker,
         NEW r \in Rem, Current(r)'
  PROVE AdvanceHealing(r)
<1>0. TypeInv /\ TypeOK /\ PlanInv /\ Locals /\ FreshInv
  BY DEF StoreInv, SessionInv, TypeInv
<1>1. \A q \in Rem : Current(q) => batch[q] \in Rows
  BY <1>0 DEF TypeOK, Current
<1>2. CASE DispatchPass
  <2>1. PICK q \in Rem : InsertSession(q)
    BY <1>2 DEF DispatchPass, BeginTick, DispatchSkip, InsertFails, DispatchCreate, Done, Reset
  <2>2. Fits(q, plan) /\ pass = "dispatch" /\ q \in DOMAIN batch /\ UNCHANGED plan
    BY <1>0, <2>1 DEF InsertSession, PlanInv, Owing, Locals, Goto, Current
  <2> QED
    BY <1>0, <2>2 DEF Fits, Froms, FreshInv, BatchKinds
<1>3. CASE AdvancePass
  <2>1. ASSUME NEW q \in Rem, AdvanceDispatched(q) PROVE FALSE
    BY <1>0, <1>1, <2>1, DispatchedPlansFit DEF AdvanceDispatched, Handling, Start, Done, Fits, Froms, TypeOK
  <2>2. ASSUME NEW q \in Rem, AdvanceHealing(q) PROVE q = r
    BY <1>0, <2>2, CurrentUnique DEF AdvanceHealing, Handling, Start, Current
  <2> QED
    BY <1>3, <2>1, <2>2 DEF AdvancePass, BeginAdvance, PollNothing, AdvancePrOpened, HealWithoutSession,
       EndTick, Handling, Start, Reset
<1>4. CASE Observe
  <2>1. ASSUME NEW q \in Rem, NEW result \in CheckResults, AdvanceVerifying(q, result) PROVE FALSE
    BY <1>1, <2>1, VerifyingPlansFit DEF AdvanceVerifying, Handling, Start, Done, Fits, Froms
  <2> QED
    BY <1>4, <2>1 DEF Observe, Poll
<1>5. CASE Write
  <2>1. CloseSession
    BY <1>5 DEF Write, UpdateRow, AddEvent, ReleaseSession, Goto, Done
  <2>2. Current(r) /\ pc = "close" /\ UNCHANGED plan
    BY <2>1 DEF CloseSession, Goto, Current
  <2>3. Fits(r, plan) /\ plan.close = "first"
    BY <1>0, <2>2 DEF PlanInv, Owing
  <2> QED
    BY <2>2, <2>3 DEF Fits, Closing
<1>6. CASE Fault
  BY <1>6 DEF Fault, TickError, Crash, MessageResponseLost, CreateResponseLost, Reset
<1>7. CASE Web
  BY <1>7 DEF Web, Enqueue, RefreshPrState, LoadResults
<1>8. CASE UNCHANGED vars
  BY <1>8 DEF vars
<1> QED
  BY <1>2, <1>3, <1>4, <1>5, <1>6, <1>7, <1>8 DEF Next

(* A message in flight is stored by the update, or lost in a crash.         *)
LEMMA UncountedSteps ==
  ASSUME StoreInv, [Next]_vars, NEW r \in Rem
  PROVE \/ AdvanceHealing(r)
        \/ UpdateRow(r)
        \/ Crash /\ Uncounted(r)' = 0
        \/ Uncounted(r)' = Uncounted(r)
<1> USE DEF Uncounted
<1>0. TypeOK
  BY DEF StoreInv, SessionInv, TypeInv
<1>1. CASE UNCHANGED worker
  BY <1>1 DEF worker, Current
<1>2. CASE ~UNCHANGED worker /\ Uncounted(r)' = 1
  BY <1>2, OnlyHealingOwesAttempt
<1>3. ASSUME ~UNCHANGED worker, Uncounted(r)' = 0, Uncounted(r) = 1
      PROVE UpdateRow(r) \/ Crash
  <2>1. pc = "update" /\ Current(r)
    BY <1>3
  <2>2. ~DispatchPass
    BY <2>1 DEF DispatchPass, BeginTick, DispatchSkip, InsertSession, InsertFails, DispatchCreate
  <2>3. ~AdvancePass
    BY <2>1 DEF AdvancePass, BeginAdvance, PollNothing, AdvanceDispatched, AdvancePrOpened, HealWithoutSession,
       AdvanceHealing, EndTick, Handling
  <2>4. ~Observe
    BY <2>1 DEF Observe, Poll, AdvanceVerifying, Handling
  <2>5. Write => \E q \in Rem : UpdateRow(q)
    BY <2>1 DEF Write, CloseSession, AddEvent, ReleaseSession
  <2>6. \A q \in Rem : UpdateRow(q) => q = r
    BY <1>0, <2>1, CurrentUnique DEF UpdateRow
  <2>7. Fault => Crash
    BY <1>3, <2>1 DEF Fault, TickError, MessageResponseLost, CreateResponseLost
  <2>8. ~Web /\ ~UNCHANGED vars
    BY <1>3 DEF Web, Enqueue, RefreshPrState, LoadResults, vars
  <2> QED
    BY <2>2, <2>3, <2>4, <2>5, <2>6, <2>7, <2>8 DEF Next
<1> QED
  BY <1>1, <1>2, <1>3

(* What an attempt counts for is the message sent just before its update.   *)
LEMMA NextCountInv ==
  ASSUME StoreInv, StoreInv', CountInv, [Next]_vars
  PROVE CountInv'
<1> DEFINE Bounded(r) == /\ row[r].heals + Uncounted(r) <= sent[r]
                         /\ sent[r] <= row[r].heals + Uncounted(r) + faults
           Counts(r) == r \notin loaded /\ Live(r)
<1>0. /\ TypeOK /\ TypeOK' /\ PlanInv /\ FreshInv /\ Locals /\ faults \in Nat /\ faults' \in Nat
      /\ \A r \in Rem : /\ row[r].heals \in Nat /\ row'[r].heals \in Nat /\ sent[r] \in Nat
                        /\ Uncounted(r) \in {0, 1}
  BY BoundAssumption DEF StoreInv, SessionInv, TypeInv, TypeOK, Rows, Uncounted
<1>a. loaded \subseteq loaded'
  BY BoundsSteps
<1>1. ASSUME NEW r \in Rem, row'[r].heals = row[r].heals, sent'[r] = sent[r], Uncounted(r)' = Uncounted(r),
             Bounded(r)
      PROVE Bounded(r)'
  BY <1>0, <1>1, BoundsSteps
<1>2. \A r \in Rem : Counts(r) => Bounded(r)
  BY DEF CountInv, MessagesMatchAttempts
<1>3. \A r \in Rem : row[r].state = "none" => sent[r] = 0
  BY DEF CountInv
<1>4. ASSUME NEW r \in Rem, AdvanceHealing(r)
      PROVE CountInv'
  <2>1. /\ UNCHANGED <<row, faults>> /\ pc = "handle" /\ Current(r)
        /\ sent'[r] = sent[r] + 1 /\ \A q \in Rem \ {r} : sent'[q] = sent[q]
    BY <1>0, <1>4 DEF AdvanceHealing, Handling, store, bounds, TypeOK
  <2>2. pc' = "update" /\ plan'.event = "self_heal" /\ UNCHANGED batch
    BY <1>4 DEF AdvanceHealing, Start
  <2>3. \A q \in Rem : Current(q) => q = r
    BY <1>0, <2>1, CurrentUnique
  <2>4. \A q \in Rem : Uncounted(q) = 0 /\ Uncounted(q)' = IF q = r THEN 1 ELSE 0
    BY <2>1, <2>2, <2>3 DEF Uncounted, Current
  <2>5. row[r].state # "none"
    BY <1>0, <2>1 DEF FreshInv, BatchKinds, Current
  <2>6. \A q \in Rem : Counts(q) => Bounded(q)'
    BY <1>0, <1>2, <2>1, <2>4
  <2> QED
    BY <1>3, <1>a, <2>1, <2>5, <2>6 DEF CountInv, MessagesMatchAttempts, Live
<1>5. ASSUME NEW r \in Rem, MessageResponseLost(r)
      PROVE CountInv'
  <2>1. /\ UNCHANGED <<row, worker>> /\ faults' = faults + 1 /\ Current(r)
        /\ sent'[r] = sent[r] + 1 /\ \A q \in Rem \ {r} : sent'[q] = sent[q]
    BY <1>0, <1>5 DEF MessageResponseLost, Handling, store, TypeOK
  <2>2. \A q \in Rem : Uncounted(q)' = Uncounted(q)
    BY <2>1 DEF Uncounted, worker, Current
  <2>3. row[r].state # "none"
    BY <1>0, <2>1 DEF FreshInv, BatchKinds, Current
  <2>4. \A q \in Rem : Counts(q) => Bounded(q)'
    BY <1>0, <1>2, <2>1, <2>2
  <2> QED
    BY <1>3, <1>a, <2>1, <2>3, <2>4 DEF CountInv, MessagesMatchAttempts, Live
<1>6. CASE UNCHANGED sent /\ \A r \in Rem : ~AdvanceHealing(r)
  <2>1. ASSUME NEW r \in Rem, UpdateRow(r), Live(r) PROVE CountInv'
    <3>1. /\ row'[r] = plan.row /\ \A q \in Rem \ {r} : row'[q] = row[q]
          /\ pc = "update" /\ Current(r) /\ pc' \in {"next", "event"} /\ UNCHANGED faults
      BY <1>0, <2>1 DEF UpdateRow, Goto, Done, bounds, TypeOK
    <3>2. plan.row.heals = row[r].heals + Uncounted(r)
      BY <1>0, <2>1, <3>1 DEF PlanInv, Owing, Fits, FreshInv, CopyIsFresh, Current, Uncounted
    <3>3. \A q \in Rem : Uncounted(q)' = 0 /\ (q # r => Uncounted(q) = 0)
      BY <1>0, <3>1, CurrentUnique DEF Uncounted
    <3>4. \A q \in Rem : Counts(q) => Bounded(q)'
      BY <1>0, <1>2, <1>6, <3>1, <3>2, <3>3
    <3>5. row'[r].state # "none"
      BY <1>0, <3>1 DEF Locals, FsmStates, ActiveStates, TerminalStates
    <3> QED
      BY <1>3, <1>a, <1>6, <2>1, <3>1, <3>4, <3>5 DEF CountInv, MessagesMatchAttempts, Live
  <2>2. ASSUME NEW r \in Rem, NEW rec \in Recordings, Enqueue(r) \/ RefreshPrState(r) \/ LoadResults(r, rec)
        PROVE CountInv'
    <3>1. UNCHANGED worker
      BY <2>2 DEF Enqueue, RefreshPrState, LoadResults
    <3>2. \A q \in Rem : Uncounted(q)' = Uncounted(q)
      BY <3>1 DEF Uncounted, worker, Current
    <3>3. \A q \in Rem : row[q].state = "none" => Uncounted(q) = 0
      BY <1>0 DEF FreshInv, BatchKinds, Uncounted, Current
    <3>4. ASSUME NEW q \in Rem, Counts(q)'
          PROVE (Live(q) /\ row'[q].heals = row[q].heals) \/ (row[q].state = "none" /\ row'[q].heals = 0)
      <4>1. CASE Enqueue(r)
        BY <1>0, <3>4, <4>1 DEF Enqueue, NextId, NewRow, NoRow, TypeOK, Live
      <4>2. CASE RefreshPrState(r)
        BY <1>0, <3>4, <4>2 DEF RefreshPrState, TypeOK, Live, Rows, FsmStates, TerminalStates
      <4>3. ASSUME LoadResults(r, rec) PROVE FALSE
        <5>1. q # r
          BY <3>4, <4>3 DEF LoadResults
        <5>2. row'[q] = IF Live(q) THEN GoneRow ELSE row[q]
          BY <4>3, <5>1, LoadedRows
        <5> QED
          BY <3>4, <5>2 DEF GoneRow, NoRow, Live, FsmStates, ActiveStates, TerminalStates
      <4> QED
        BY <2>2, <4>1, <4>2, <4>3
    <3>5. \A q \in Rem : Counts(q)' => Bounded(q)'
      BY <1>0, <1>a, <1>1, <1>2, <1>3, <1>6, <3>2, <3>3, <3>4, BoundsSteps
    <3>6. \A q \in Rem : row'[q].state = "none" => row[q].state = "none"
      <4>1. CASE Enqueue(r)
        BY <1>0, <4>1 DEF Enqueue, NewRow, NoRow, TypeOK
      <4>2. CASE RefreshPrState(r)
        BY <1>0, <4>2 DEF RefreshPrState, TypeOK, Rows
      <4>3. CASE LoadResults(r, rec)
        BY <4>3, LoadedRows DEF GoneRow, NoRow
      <4> QED
        BY <2>2, <4>1, <4>2, <4>3
    <3> QED
      BY <1>3, <1>6, <3>5, <3>6 DEF CountInv, MessagesMatchAttempts
  <2>3. CASE UNCHANGED row
    <3>1. ASSUME NEW r \in Rem, Counts(r), Crash, Uncounted(r)' = 0 PROVE Bounded(r)'
      <4>1. faults' = faults + 1
        BY <3>1 DEF Crash
      <4> QED
        BY <1>0, <1>2, <1>6, <2>3, <3>1, <4>1
    <3>2. ASSUME NEW r \in Rem, Live(r), UpdateRow(r) PROVE CountInv'
      BY <2>1, <3>2
    <3>3. CASE \A r \in Rem : Live(r) => ~UpdateRow(r)
      <4>1. \A r \in Rem : Counts(r) => Bounded(r)'
        BY <1>1, <1>2, <1>6, <2>3, <3>1, <3>3, UncountedSteps
      <4> QED
        BY <1>3, <1>a, <1>6, <2>3, <4>1 DEF CountInv, MessagesMatchAttempts, Live
    <3> QED
      BY <3>2, <3>3
  <2>4. Recordings # {}
    BY DEF Recordings
  <2> QED
    BY <2>1, <2>2, <2>3, <2>4, RowSteps
<1> QED
  BY <1>4, <1>5, <1>6, SentSteps

-----------------------------------------------------------------------------
(* The sessions the store does not know.                                    *)

OrphanInv == OrphansOnlyByFault /\ (loaded = {} => \A r \in Rem : row[r].state # "deleted")

(* The only steps after which Devin has another session: a create call, and *)
(* a replacement, which brings the one recorded with its row.               *)
LEMMA OwnerSteps ==
  ASSUME [Next]_vars
  PROVE \/ UNCHANGED owner
        \/ \E r \in Rem, s \in Sid : DispatchCreate(r, s) \/ CreateResponseLost(r, s)
        \/ \E r \in Rem, rec \in Recordings : LoadResults(r, rec)
<1>1. CASE DispatchPass
  BY <1>1 DEF DispatchPass, BeginTick, DispatchSkip, InsertSession, InsertFails, devin
<1>2. CASE AdvancePass
  BY <1>2 DEF AdvancePass, BeginAdvance, PollNothing, AdvanceDispatched, AdvancePrOpened, HealWithoutSession,
     AdvanceHealing, EndTick, devin
<1>3. CASE Write \/ Observe
  BY <1>3 DEF Write, CloseSession, UpdateRow, AddEvent, ReleaseSession, Observe, Poll, AdvanceVerifying, devin
<1>4. CASE Fault
  BY <1>4 DEF Fault, TickError, Crash, MessageResponseLost, devin
<1>5. CASE Web
  BY <1>5 DEF Web, Enqueue, RefreshPrState, devin
<1>6. CASE UNCHANGED vars
  BY <1>6 DEF vars, devin
<1> QED
  BY <1>1, <1>2, <1>3, <1>4, <1>5, <1>6 DEF Next

(* Between the create call and the insert the worker knows the session; it  *)
(* is left there by the insert, by a crash, or when the row is gone.        *)
LEMMA InsertSteps ==
  ASSUME [Next]_vars, pc = "insert"
  PROVE \/ UNCHANGED <<pc, sid>>
        \/ Crash
        \/ \E r \in Rem : InsertSession(r) \/ InsertFails(r)
<1>1. CASE DispatchPass
  BY <1>1 DEF DispatchPass, BeginTick, DispatchSkip, DispatchCreate
<1>2. CASE AdvancePass \/ Observe
  BY <1>2 DEF AdvancePass, BeginAdvance, PollNothing, AdvanceDispatched, AdvancePrOpened, HealWithoutSession,
     AdvanceHealing, EndTick, Handling, Observe, Poll, AdvanceVerifying
<1>3. CASE Write
  BY <1>3 DEF Write, CloseSession, UpdateRow, AddEvent, ReleaseSession
<1>4. CASE Fault
  BY <1>4 DEF Fault, TickError, MessageResponseLost, CreateResponseLost, worker
<1>5. CASE Web
  BY <1>5 DEF Web, Enqueue, RefreshPrState, LoadResults, worker
<1>6. CASE UNCHANGED vars
  BY <1>6 DEF vars, worker
<1> QED
  BY <1>1, <1>2, <1>3, <1>4, <1>5, <1>6 DEF Next

(* Without a replacement of the store, what is recorded stays recorded.     *)
LEMMA RecordedStays ==
  ASSUME TypeOK, [Next]_vars, loaded' = {}, NEW s \in Sid, Recorded(s)
  PROVE Recorded(s)'
<1> USE DEF Recorded
<1>1. ASSUME NEW q \in Rem, NEW t \in Sid, NEW shot \in Snapshots, Poll(q, t, shot) PROVE Recorded(s)'
  BY <1>1 DEF Poll, TypeOK, SessionRows
<1>2. ASSUME CloseSession \/ \E q \in Rem : ReleaseSession(q) PROVE Recorded(s)'
  BY <1>2 DEF CloseSession, ReleaseSession, TypeOK, SessionRows
<1>3. ASSUME NEW q \in Rem, InsertSession(q) PROVE Recorded(s)'
  BY <1>3, NullAssumption DEF InsertSession, TypeOK, SessionRows
<1> QED
  BY <1>1, <1>2, <1>3, NoLoadYet, SessSteps

(* A step makes no orphan, or one and costs a fault.                        *)
LEMMA OneOrphanPerFault ==
  ASSUME StoreInv, [Next]_vars, loaded' = {}, OrphanInv
  PROVE \/ Orphans' \subseteq Orphans
        \/ faults' = faults + 1 /\ \E s \in Sid : Orphans' \subseteq Orphans \cup {s}
<1>0. TypeOK /\ loaded = {} /\ FreshInv
  BY NoLoadYet DEF StoreInv, SessionInv, TypeInv
<1>1. ASSUME NEW r \in Rem, NEW s \in Sid, DispatchCreate(r, s) PROVE Orphans' \subseteq Orphans
  BY <1>0, <1>1 DEF DispatchCreate, Orphans, Recorded, store, TypeOK
<1>2. ASSUME NEW r \in Rem, NEW s \in Sid, CreateResponseLost(r, s)
      PROVE faults' = faults + 1 /\ Orphans' \subseteq Orphans \cup {s}
  BY <1>0, <1>2 DEF CreateResponseLost, Orphans, Recorded, store, worker, TypeOK
<1>3. CASE UNCHANGED owner /\ pc = "insert"
  <2>1. CASE UNCHANGED <<pc, sid>>
    BY <1>0, <1>3, <2>1, RecordedStays DEF Orphans
  <2>2. CASE Crash
    <3>1. sid \in Sid /\ faults' = faults + 1 /\ UNCHANGED sess
      BY <1>3, <2>2 DEF StoreInv, SessionInv, Locals, Crash, store
    <3>2. Orphans' \subseteq Orphans \cup {sid}
      BY <1>3, <3>1 DEF Orphans, Recorded
    <3> QED
      BY <3>1, <3>2
  <2>3. ASSUME NEW r \in Rem, InsertSession(r) PROVE Orphans' \subseteq Orphans
    <3>1. sid \in Sid /\ sess'[sid].rem = r
      BY <1>0, <2>3 DEF StoreInv, SessionInv, Locals, InsertSession, TypeOK
    <3>2. \A s \in Sid : s = sid => Recorded(s)'
      BY <3>1, NullAssumption DEF Recorded
    <3> QED
      BY <1>0, <1>3, <3>2, RecordedStays DEF Orphans
  <2>4. ASSUME NEW r \in Rem, InsertFails(r) PROVE FALSE
    <3>1. row[r].state \notin {"none", "deleted"} /\ ~Live(r)
      BY <1>0, <2>4 DEF OrphanInv, InsertFails, Current, FreshInv, BatchKinds
    <3> QED
      BY <1>0, <3>1 DEF Live, TypeOK, Rows
  <2> QED
    BY <1>3, <2>1, <2>2, <2>3, <2>4, InsertSteps
<1>4. CASE UNCHANGED owner /\ pc # "insert"
  BY <1>0, <1>4, RecordedStays DEF Orphans
<1> QED
  BY <1>1, <1>2, <1>3, <1>4, NoLoadYet, OwnerSteps

(* Nothing is deleted before the first replacement, so the insert of a      *)
(* session does not fail.                                                   *)
LEMMA NextOrphanInv ==
  ASSUME StoreInv, OrphanInv, [Next]_vars
  PROVE OrphanInv'
<1> SUFFICES ASSUME loaded' = {}
             PROVE Cardinality(Orphans)' <= faults' /\ \A r \in Rem : row'[r].state # "deleted"
  BY DEF OrphanInv, OrphansOnlyByFault
<1>0. TypeOK /\ Locals
  BY DEF StoreInv, SessionInv, TypeInv
<1>1. loaded = {} /\ \A r \in Rem, rec \in Recordings : ~LoadResults(r, rec)
  BY NoLoadYet
<1>2. Cardinality(Orphans) <= faults /\ \A r \in Rem : row[r].state # "deleted"
  BY <1>1 DEF OrphanInv, OrphansOnlyByFault
<1>3. \A r \in Rem : row'[r].state # "deleted"
  <2>1. ASSUME NEW q \in Rem, UpdateRow(q), Live(q) PROVE \A r \in Rem : row'[r].state # "deleted"
    BY <1>0, <1>2, <2>1 DEF UpdateRow, Locals, TypeOK, FsmStates, ActiveStates, TerminalStates
  <2>2. ASSUME NEW q \in Rem, Enqueue(q) PROVE \A r \in Rem : row'[r].state # "deleted"
    BY <1>0, <1>2, <2>2 DEF Enqueue, NewRow, NoRow, TypeOK
  <2>3. ASSUME NEW q \in Rem, RefreshPrState(q) PROVE \A r \in Rem : row'[r].state # "deleted"
    BY <1>0, <1>2, <2>3 DEF RefreshPrState, TypeOK, Rows
  <2>4. CASE UNCHANGED row
    BY <1>2, <2>4
  <2> QED
    BY <1>1, <2>1, <2>2, <2>3, <2>4, RowSteps
<1>4. IsFiniteSet(Orphans) /\ Cardinality(Orphans) \in Nat
  BY SidAssumption, FS_Subset, FS_CardinalityType DEF Orphans
<1>5. faults \in Nat /\ (faults' = faults \/ faults' = faults + 1)
  BY <1>0, BoundAssumption, BoundsSteps DEF TypeOK
<1>6. CASE Orphans' \subseteq Orphans
  <2>1. Cardinality(Orphans') <= Cardinality(Orphans) /\ Cardinality(Orphans') \in Nat
    BY <1>4, <1>6, FS_Subset, FS_CardinalityType
  <2> QED
    BY <1>2, <1>3, <1>4, <1>5, <2>1
<1>7. ASSUME NEW s \in Sid, Orphans' \subseteq Orphans \cup {s}, faults' = faults + 1
      PROVE Cardinality(Orphans') <= faults'
  <2>1. /\ IsFiniteSet(Orphans \cup {s})
        /\ Cardinality(Orphans \cup {s}) \in {Cardinality(Orphans), Cardinality(Orphans) + 1}
    BY <1>4, FS_AddElement
  <2>2. Cardinality(Orphans') <= Cardinality(Orphans \cup {s}) /\ Cardinality(Orphans') \in Nat
    BY <1>7, <2>1, FS_Subset, FS_CardinalityType
  <2> QED
    BY <1>2, <1>4, <1>5, <1>7, <2>1, <2>2
<1> QED
  BY <1>3, <1>6, <1>7, OneOrphanPerFault

-----------------------------------------------------------------------------
(* What Devin was asked for.                                                *)

(* A remediation of which a dispatch may still come: it is queued or in the *)
(* list of the pass, and its dispatch has not begun.                        *)
MayCreate(r) ==
  /\ row[r].state = "queued" \/ (r \in DOMAIN batch /\ pass = "dispatch")
  /\ ~(Current(r) /\ pass = "dispatch" /\ pc \in {"insert", "update", "event"})

AskedInv ==
  \A r \in Rem :
    /\ Cardinality(AskedFor(r)) <= 1 + faults
    /\ row[r].state = "none" => AskedFor(r) = {}
    /\ MayCreate(r) => Cardinality(AskedFor(r)) <= faults

(* A dispatch that has begun does not begin again: the row leaves queued,   *)
(* or is gone, or the handler was cut off.                                  *)
LEMMA DispatchedOnce ==
  ASSUME StoreInv, [Next]_vars, NEW r \in Rem, MayCreate(r)', ~Crash
  PROVE MayCreate(r) \/ row[r].state = "none"
<1> USE DEF MayCreate
<1>0. TypeInv /\ TypeOK /\ Locals /\ FreshInv /\ PlanInv
  BY DEF StoreInv, SessionInv, TypeInv
<1>1. CASE DispatchPass
  <2>1. CASE BeginTick
    BY <1>1, <2>1 DEF BeginTick, Select, store
  <2>2. ASSUME NEW q \in Rem, DispatchSkip(q) PROVE MayCreate(r)
    BY <2>2 DEF DispatchSkip, Done, Without, store
  <2>3. ASSUME NEW q \in Rem, InsertSession(q) PROVE MayCreate(r)
    BY <1>0, <2>3 DEF InsertSession, Goto, Current, Locals
  <2>4. ASSUME NEW q \in Rem, InsertFails(q) PROVE MayCreate(r)
    <3>1. row[r].state = "queued" /\ pc = "insert" /\ Current(q) /\ ~Live(q)
      BY <2>4 DEF InsertFails, Reset, NoBatch, store
    <3>2. r # q
      BY <3>1 DEF Live, FsmStates, ActiveStates
    <3> QED
      BY <1>0, <3>1, <3>2, CurrentUnique
  <2>5. ASSUME NEW q \in Rem, NEW s \in Sid, DispatchCreate(q, s) PROVE MayCreate(r)
    BY <2>5 DEF DispatchCreate, store
  <2> QED
    BY <1>1, <2>1, <2>2, <2>3, <2>4, <2>5 DEF DispatchPass
<1>2. CASE AdvancePass
  <2>1. row[r].state = "queued" /\ (pass = "advance" \/ pc = "next")
    BY <1>0, <1>2 DEF AdvancePass, BeginAdvance, PollNothing, AdvanceDispatched, AdvancePrOpened, HealWithoutSession,
       AdvanceHealing, EndTick, Handling, Reset, Done, Start, NoBatch, store, Locals
  <2> QED
    BY <2>1
<1>3. CASE Observe
  <2>1. row[r].state = "queued" /\ pass = "advance"
    BY <1>0, <1>3 DEF Observe, Poll, AdvanceVerifying, Handling, Done, Start, store, Locals
  <2> QED
    BY <2>1
<1>4. CASE Write
  <2>1. CASE CloseSession
    BY <1>0, <2>1 DEF CloseSession, Goto, Locals
  <2>2. ASSUME NEW q \in Rem, ReleaseSession(q) PROVE MayCreate(r)
    BY <1>0, <2>2 DEF ReleaseSession, Done, Locals
  <2>3. ASSUME NEW q \in Rem, UpdateRow(q) PROVE MayCreate(r)
    <3>1. pc = "update" /\ Current(q) /\ plan.row.state # "queued" /\ Fits(q, plan)
      BY <1>0, <2>3 DEF UpdateRow, Locals, PlanInv, Owing
    <3>2. row'[r].state = "queued" => row[r].state = "queued" /\ (r = q => ~Live(q))
      BY <1>0, <2>3, <3>1 DEF UpdateRow, TypeOK
    <3>3. pass = "dispatch" => plan.event # "none"
      BY <1>0, <3>1 DEF Fits, Froms, FreshInv, BatchKinds, Current
    <3>4. CASE pass = "advance"
      BY <1>0, <2>3, <3>2, <3>4 DEF UpdateRow, Goto, Done
    <3>5. CASE pass = "dispatch"
      <4>1. UNCHANGED <<batch, pass>> /\ pc' = "event"
        BY <2>3, <3>3, <3>5 DEF UpdateRow, Goto
      <4>2. r # q
        BY <3>1, <3>5, <4>1 DEF Current
      <4> QED
        BY <1>0, <3>1, <3>2, <4>1, <4>2, CurrentUnique
    <3> QED
      BY <1>0, <3>4, <3>5 DEF TypeOK
  <2>4. ASSUME NEW q \in Rem, AddEvent(q) PROVE MayCreate(r)
    <3>1. pc = "event" /\ Current(q) /\ UNCHANGED row /\ (Live(q) => Stored(q)) /\ Fits(q, plan)
      BY <1>0, <2>4 DEF AddEvent, PlanInv, Owing
    <3>2. CASE pass = "advance"
      BY <1>0, <2>4, <3>1, <3>2 DEF AddEvent, Goto, Done
    <3>3. CASE pass = "dispatch"
      <4>1. batch' = Without(q) /\ UNCHANGED pass
        BY <1>0, <2>4, <3>3, <3>1 DEF AddEvent, Done, Locals
      <4>2. row[q].state # "queued"
        BY <1>0, <3>1, <3>3 DEF Stored, Fits, Froms, To, FreshInv, BatchKinds, Current, Live, FsmStates, ActiveStates,
           TypeOK, Plans, EventTypes
      <4>3. r # q
        BY <3>1, <4>1, <4>2 DEF Without
      <4> QED
        BY <1>0, <3>1, <4>1, <4>3, CurrentUnique DEF Without
    <3> QED
      BY <1>0, <3>2, <3>3 DEF TypeOK
  <2> QED
    BY <1>4, <2>1, <2>2, <2>3, <2>4 DEF Write
<1>5. CASE Fault
  <2>1. CASE TickError
    BY <1>0, <2>1 DEF TickError, Reset, NoBatch, store
  <2> QED
    BY <1>5, <2>1 DEF Fault, MessageResponseLost, CreateResponseLost, worker, store, Current
<1>6. CASE Web
  <2>1. row'[r].state = "queued" => row[r].state \in {"queued", "none"}
    <3>1. ASSUME NEW q \in Rem, Enqueue(q)
          PROVE row[r].state = row'[r].state \/ row[r].state = "none"
      BY <1>0, <3>1 DEF Enqueue, NextId, TypeOK
    <3>2. ASSUME NEW q \in Rem, RefreshPrState(q)
          PROVE row'[r].state = row[r].state \/ row'[r].state \in {"merged", "awaiting_merge"}
      BY <1>0, <3>2 DEF RefreshPrState, TypeOK, Rows
    <3>3. ASSUME NEW q \in Rem, NEW rec \in Recordings, LoadResults(q, rec)
          PROVE row'[r].state = "queued" => row[r].state \in {"queued", "none"}
      BY <3>3, LoadedRows, RecordingKinds DEF GoneRow, NoRow
    <3> QED
      BY <1>6, <3>1, <3>2, <3>3 DEF Web
  <2>2. UNCHANGED worker
    BY <1>6 DEF Web, Enqueue, RefreshPrState, LoadResults
  <2> QED
    BY <2>1, <2>2 DEF worker, Current
<1>7. CASE UNCHANGED vars
  BY <1>7 DEF vars, store, worker, Current
<1> QED
  BY <1>1, <1>2, <1>3, <1>4, <1>5, <1>6, <1>7 DEF Next

(* A session that comes with a new row is the only one of it.               *)
LEMMA LoadedAsked ==
  ASSUME TypeOK, FreshInv, NEW q \in Rem, NEW rec \in Recordings, LoadResults(q, rec), NEW r \in Rem
  PROVE \/ AskedFor(r)' = AskedFor(r)
        \/ /\ r = q /\ row[r].state = "none" /\ row'[r].state # "none" /\ ~MayCreate(r)'
           /\ \E s \in Sid : AskedFor(r)' = AskedFor(r) \cup {s}
<1> USE DEF AskedFor
<1>1. PICK old \in {s \in Sid \ {sid} : owner[s] = NoRem} \cup {NoSid} :
        /\ \A s \in Sid \ {old} : owner'[s] = owner[s]
        /\ \A s \in Sid : s = old => owner'[s] = q
  BY LoadedSessions
<1>2. CASE old = NoSid \/ r # q
  BY <1>1, <1>2, NullAssumption
<1>3. CASE old # NoSid /\ r = q
  <2>1. row[r].state = "none" /\ row'[r].state \notin {"none", "queued"}
    BY <1>3, LoadedRows, RecordingKinds
  <2>2. r \notin DOMAIN batch /\ UNCHANGED batch
    BY <2>1 DEF FreshInv, BatchKinds, LoadResults, worker
  <2>3. ~MayCreate(r)'
    BY <2>1, <2>2 DEF MayCreate
  <2>4. old \in Sid /\ AskedFor(r)' = AskedFor(r) \cup {old}
    BY <1>1, <1>3
  <2> QED
    BY <1>3, <2>1, <2>3, <2>4
<1> QED
  BY <1>2, <1>3

(* Each create call is one that was still to come.                          *)
LEMMA AskedSteps ==
  ASSUME StoreInv, [Next]_vars, NEW r \in Rem
  PROVE \/ AskedFor(r)' = AskedFor(r)
        \/ /\ MayCreate(r) /\ row[r].state # "none" /\ UNCHANGED row
           /\ \E s \in Sid : AskedFor(r)' = AskedFor(r) \cup {s}
           /\ ~MayCreate(r)' \/ faults' = faults + 1
        \/ /\ row[r].state = "none" /\ row'[r].state # "none" /\ ~MayCreate(r)'
           /\ \E s \in Sid : AskedFor(r)' = AskedFor(r) \cup {s}
<1> USE DEF AskedFor
<1>0. TypeOK /\ FreshInv
  BY DEF StoreInv, SessionInv, TypeInv
<1>1. ASSUME NEW q \in Rem, NEW s \in Sid, DispatchCreate(q, s) \/ CreateResponseLost(q, s), q # r
      PROVE AskedFor(r)' = AskedFor(r)
  BY <1>0, <1>1, NullAssumption DEF DispatchCreate, CreateResponseLost, TypeOK
<1>2. ASSUME NEW s \in Sid, DispatchCreate(r, s) \/ CreateResponseLost(r, s)
      PROVE /\ MayCreate(r) /\ row[r].state # "none" /\ UNCHANGED row
            /\ AskedFor(r)' = AskedFor(r) \cup {s}
            /\ ~MayCreate(r)' \/ faults' = faults + 1
  <2>1. owner' = [owner EXCEPT ![s] = r] /\ pc = "next" /\ pass = "dispatch" /\ Current(r) /\ UNCHANGED row
    BY <1>2 DEF DispatchCreate, CreateResponseLost, store
  <2>2. AskedFor(r)' = AskedFor(r) \cup {s}
    BY <1>0, <2>1 DEF TypeOK
  <2>3. MayCreate(r) /\ row[r].state # "none"
    BY <1>0, <2>1 DEF MayCreate, FreshInv, BatchKinds, Current
  <2>4. ~MayCreate(r)' \/ faults' = faults + 1
    BY <1>2, <2>1 DEF MayCreate, DispatchCreate, CreateResponseLost, Current
  <2> QED
    BY <2>1, <2>2, <2>3, <2>4
<1>3. CASE UNCHANGED owner
  BY <1>3
<1> HIDE DEF AskedFor
<1> QED
  BY <1>0, <1>1, <1>2, <1>3, LoadedAsked, OwnerSteps

(* A call raises the bound by a fault or uses up the one dispatch.          *)
LEMMA NextAskedInv ==
  ASSUME StoreInv, AskedInv, [Next]_vars
  PROVE AskedInv'
<1> SUFFICES ASSUME NEW r \in Rem
             PROVE /\ Cardinality(AskedFor(r)') <= 1 + faults'
                   /\ row'[r].state = "none" => AskedFor(r)' = {}
                   /\ MayCreate(r)' => Cardinality(AskedFor(r)') <= faults'
  BY DEF AskedInv, AskedFor
<1>0. TypeOK
  BY DEF StoreInv, SessionInv, TypeInv
<1>1. faults \in Nat /\ (faults' = faults \/ faults' = faults + 1) /\ (Crash => faults' = faults + 1)
  BY <1>0, BoundAssumption, BoundsSteps DEF TypeOK, Crash
<1>2. IsFiniteSet(AskedFor(r)) /\ Cardinality(AskedFor(r)) \in Nat
  BY SidAssumption, FS_Subset, FS_CardinalityType DEF AskedFor
<1>3. row'[r].state = "none" => row[r].state = "none"
  <2>1. ASSUME NEW q \in Rem, UpdateRow(q), Live(q) PROVE row'[r].state = "none" => row[r].state = "none"
    BY <1>0, <2>1 DEF UpdateRow, TypeOK, StoreInv, SessionInv, Locals, FsmStates, ActiveStates, TerminalStates
  <2>2. ASSUME NEW q \in Rem, Enqueue(q) \/ RefreshPrState(q) PROVE row'[r].state = "none" => row[r].state = "none"
    BY <1>0, <2>2 DEF Enqueue, NewRow, NoRow, RefreshPrState, TypeOK, Rows
  <2>3. ASSUME NEW q \in Rem, NEW rec \in Recordings, LoadResults(q, rec)
        PROVE row'[r].state = "none" => row[r].state = "none"
    BY <2>3, LoadedRows, RecordingKinds DEF NoRow, GoneRow
  <2> QED
    BY <2>1, <2>2, <2>3, RowSteps
<1>4. CASE AskedFor(r)' = AskedFor(r)
  <2>1. Cardinality(AskedFor(r)) <= 1 + faults /\ (row[r].state = "none" => AskedFor(r) = {})
    BY DEF AskedInv
  <2>2. MayCreate(r)' => Cardinality(AskedFor(r)) <= faults'
    BY <1>1, <1>2, <2>1, DispatchedOnce, FS_EmptySet DEF AskedInv
  <2> QED
    BY <1>1, <1>2, <1>3, <1>4, <2>1, <2>2
<1>5. ASSUME MayCreate(r), row[r].state # "none", NEW s \in Sid, AskedFor(r)' = AskedFor(r) \cup {s},
             ~MayCreate(r)' \/ faults' = faults + 1
      PROVE /\ Cardinality(AskedFor(r)') <= 1 + faults'
            /\ row'[r].state # "none"
            /\ MayCreate(r)' => Cardinality(AskedFor(r)') <= faults'
  <2>1. Cardinality(AskedFor(r)) <= faults
    BY <1>5 DEF AskedInv
  <2>2. Cardinality(AskedFor(r) \cup {s}) \in {Cardinality(AskedFor(r)), Cardinality(AskedFor(r)) + 1}
    BY <1>2, FS_AddElement
  <2> QED
    BY <1>1, <1>2, <1>3, <1>5, <2>1, <2>2
<1>6. ASSUME row[r].state = "none", row'[r].state # "none", ~MayCreate(r)',
             NEW s \in Sid, AskedFor(r)' = AskedFor(r) \cup {s}
      PROVE Cardinality(AskedFor(r)') <= 1 + faults'
  <2>1. AskedFor(r) = {}
    BY <1>6 DEF AskedInv
  <2>2. Cardinality(AskedFor(r) \cup {s}) = 1
    BY <2>1, FS_EmptySet, FS_AddElement
  <2> QED
    BY <1>1, <1>6, <2>2
<1> QED
  BY <1>4, <1>5, <1>6, AskedSteps

-----------------------------------------------------------------------------
(* The state machine of Lifecycle.                                          *)

(* Heals end at the cap, and rows that came with a replacement are not the  *)
(* worker's.                                                                *)
HealsInv ==
  \A r \in Rem : /\ ~Live(r) => row[r].heals = 0
                 /\ row[r].state = "healing" => row[r].heals < MaxHealAttempts
                 /\ r \in loaded => row[r].state \notin ActiveStates \cup {"none"}

(* A row is stored as healing only below the cap.                           *)
LEMMA NextHealsInv ==
  ASSUME StoreInv, HealsInv, [Next]_vars
  PROVE HealsInv'
<1> USE DEF HealsInv
<1>0. TypeOK /\ FreshInv /\ PlanInv /\ plan.event \in EventTypes \cup {"none"}
  BY DEF StoreInv, SessionInv, TypeInv, TypeOK, Plans
<1>a. (\A q \in Rem, rec \in Recordings : ~LoadResults(q, rec)) => UNCHANGED loaded
  BY LoadedSteps
<1>1. CASE UNCHANGED row /\ UNCHANGED loaded
  BY <1>1 DEF Live
<1>2. ASSUME NEW r \in Rem, UpdateRow(r), Live(r) PROVE HealsInv'
  <2>1. /\ row'[r] = plan.row /\ (\A q \in Rem \ {r} : row'[q] = row[q])
        /\ pc = "update" /\ Current(r) /\ UNCHANGED loaded
    BY <1>0, <1>2 DEF UpdateRow, TypeOK, bounds
  <2>2. Fits(r, plan) /\ plan.row.state \in FsmStates
    BY <1>0, <2>1 DEF PlanInv, Owing, StoreInv, SessionInv, Locals
  <2>3. plan.row.state = "healing" => plan.event = "ci_red"
    BY <1>0, <2>2 DEF Fits, To, EventTypes
  <2>4. batch[r].heals \in Nat
    BY <1>0, <2>1 DEF TypeOK, Current, Rows
  <2>5. plan.row.state = "healing" => plan.row.heals < MaxHealAttempts
    BY <2>2, <2>3, <2>4 DEF Fits
  <2>6. r \notin loaded
    <3>1. row[r] = batch[r]
      BY <1>0, <1>2, <2>1 DEF FreshInv, CopyIsFresh, Current
    <3>2. batch[r].state \in ActiveStates
      BY <1>0, <2>1 DEF FreshInv, BatchKinds, Current, ActiveStates, TypeOK
    <3> QED
      BY <3>1, <3>2
  <2> QED
    BY <2>1, <2>2, <2>5, <2>6 DEF Live
<1>3. ASSUME NEW r \in Rem, Enqueue(r) PROVE HealsInv'
  <2>1. UNCHANGED loaded /\ row[r].state = "none"
    BY <1>3 DEF Enqueue, bounds, NextId
  <2> QED
    BY <1>0, <1>3, <2>1 DEF Enqueue, NewRow, NoRow, TypeOK, Live
<1>4. ASSUME NEW r \in Rem, RefreshPrState(r) PROVE HealsInv'
  <2>1. /\ row'[r].state \in {"merged", "awaiting_merge"} /\ \A q \in Rem \ {r} : row'[q] = row[q]
        /\ UNCHANGED loaded
    BY <1>0, <1>4 DEF RefreshPrState, TypeOK, Rows, bounds
  <2> QED
    BY <2>1 DEF Live, FsmStates, ActiveStates, TerminalStates
<1>5. ASSUME NEW r \in Rem, NEW rec \in Recordings, LoadResults(r, rec) PROVE HealsInv'
  <2>1. /\ row'[r].state \in {"merged", "awaiting_merge", "open", "deferred"}
        /\ \A q \in Rem \ {r} : row'[q] = IF Live(q) THEN GoneRow ELSE row[q]
    BY <1>5, LoadedRows, RecordingKinds
  <2>2. \A q \in Rem \ {r} : /\ row'[q].heals = 0
                             /\ row'[q].state \in {row[q].state, "deleted"} \ FsmStates
    BY <2>1 DEF GoneRow, NoRow, Live, FsmStates, ActiveStates, TerminalStates
  <2>3. loaded' = loaded \cup {r}
    BY <1>5 DEF LoadResults
  <2>4. \A q \in Rem \ {r} : q \in loaded => row'[q].state \notin ActiveStates \cup {"none"}
    BY <2>2 DEF ActiveStates
  <2> QED
    BY <2>1, <2>2, <2>3, <2>4 DEF Live, FsmStates, ActiveStates, TerminalStates
<1> QED
  BY <1>a, <1>1, <1>2, <1>3, <1>4, <1>5, RowSteps

(* Every write of a row is a step of Lifecycle.                             *)
LEMMA StepImplementsLifecycle ==
  ASSUME StoreInv, HealsInv, [Next]_vars
  PROVE [L!Next]_(L!lifecycleVars)
<1> USE DEF L!lifecycleVars
<1>0. TypeOK /\ FreshInv /\ PlanInv /\ plan.event \in EventTypes \cup {"none"}
  BY DEF StoreInv, SessionInv, TypeInv, TypeOK, Plans
<1>1. CASE UNCHANGED row
  BY <1>1
<1>2. ASSUME NEW r \in Rem, UpdateRow(r), Live(r) PROVE L!Next
  <2>1. row' = [row EXCEPT ![r] = plan.row] /\ pc = "update" /\ Current(r) /\ batch[r] = row[r]
    BY <1>0, <1>2 DEF UpdateRow, FreshInv, CopyIsFresh, Current
  <2>2. /\ row[r].state \in Froms(plan.event) /\ plan.row.state = To(plan.event)
        /\ plan.row.heals = row[r].heals + (IF plan.event = "self_heal" THEN 1 ELSE 0)
    BY <1>0, <2>1 DEF PlanInv, Owing, Fits
  <2>3. /\ <<row[r].state, plan.row.state>> \in L!Edges
        /\ plan.event = "self_heal" <=> (row[r].state = "healing" /\ plan.row.state = "verifying")
    BY <1>0, <2>2 DEF L!Edges, Froms, To, EventTypes
  <2>4. row[r].heals \in Nat /\ (row[r].state = "healing" => row[r].heals < MaxHealAttempts)
    BY <1>0 DEF HealsInv, TypeOK, Rows
  <2>5. PICK to : to = plan.row.state
    OBVIOUS
  <2>6. \A q \in Rem : row'[q].state = IF q = r THEN to ELSE row[q].state
    BY <1>0, <2>1, <2>5 DEF TypeOK
  <2>7. \A q \in Rem : row'[q].heals = IF q = r THEN plan.row.heals ELSE row[q].heals
    BY <1>0, <2>1 DEF TypeOK
  <2>8. IF row[r].state = "healing" /\ to = "verifying"
        THEN row[r].heals < MaxHealAttempts /\ plan.row.heals = row[r].heals + 1
        ELSE plan.row.heals = row[r].heals
    BY <2>2, <2>3, <2>4, <2>5
  <2>9. L!Move(r, to)
    BY <2>3, <2>5, <2>6, <2>7, <2>8 DEF L!Move
  <2>10. to \in {edge[2] : edge \in L!Edges}
    BY <2>3, <2>5
  <2> QED
    BY <2>9, <2>10 DEF L!Next
<1>3. ASSUME NEW r \in Rem, Enqueue(r) PROVE L!Next
  <2>1. row' = [row EXCEPT ![r] = NewRow] /\ row[r].state = "none" /\ row[r].heals = 0
    BY <1>3 DEF Enqueue, NextId, HealsInv, Live, FsmStates, ActiveStates, TerminalStates
  <2>2. L!Track(r)
    BY <1>0, <2>1 DEF L!Track, NewRow, NoRow, TypeOK
  <2> QED
    BY <2>2 DEF L!Next
<1>4. ASSUME NEW r \in Rem, RefreshPrState(r) PROVE L!Next
  <2>0. PICK to : to = IF row[r].state = "merged" THEN "awaiting_merge" ELSE "merged"
    OBVIOUS
  <2> DEFINE next == [row[r] EXCEPT !.state = to]
  <2>1. row' = [row EXCEPT ![r] = next] /\ row[r].state \in {"merged", "awaiting_merge"}
    BY <1>4, <2>0 DEF RefreshPrState
  <2>2. next.state = to /\ next.heals = row[r].heals
    BY <1>0 DEF TypeOK, Rows
  <2>3. <<row[r].state, to>> \in L!Edges /\ to \in {edge[2] : edge \in L!Edges}
    BY <2>0, <2>1 DEF L!Edges
  <2> HIDE DEF next
  <2>4. L!Move(r, to)
    BY <1>0, <2>1, <2>2, <2>3 DEF L!Move, TypeOK
  <2> QED
    BY <2>3, <2>4 DEF L!Next
<1>5. ASSUME NEW r \in Rem, NEW rec \in Recordings, LoadResults(r, rec) PROVE L!Next
  <2>1. /\ row[r].state = "none" /\ row'[r].state = rec.state
        /\ \A q \in Rem \ {r} : row'[q] = IF Live(q) THEN GoneRow ELSE row[q]
    BY <1>5, LoadedRows
  <2>2. \A q \in Rem \ {r} : row'[q].state = IF row[q].state = "none" THEN "none" ELSE "deleted"
    BY <1>0, <2>1 DEF GoneRow, NoRow, TypeOK, Rows, Live, FsmStates, ActiveStates, TerminalStates
  <2>3. \A q \in Rem \ {r} : row'[q].heals = 0
    BY <2>1 DEF GoneRow, NoRow, HealsInv
  <2>4. row'[r].heals \in Nat /\ rec.state \in L!Inert
    BY <1>5, LoadedRows, RecordingKinds DEF L!Inert
  <2>5. PICK to \in L!Inert : to = rec.state
    BY <2>4
  <2>6. [q \in Rem |-> row'[q].heals] \in [Rem -> Nat]
    BY <2>3, <2>4
  <2>7. L!Replace(r, to)
    BY <2>1, <2>2, <2>3, <2>5, <2>6 DEF L!Replace
  <2> QED
    BY <2>7 DEF L!Next
<1> QED
  BY <1>1, <1>2, <1>3, <1>4, <1>5, RowSteps

-----------------------------------------------------------------------------
WorldInv == StoreInv /\ CountInv /\ OrphanInv /\ HealsInv

(* Nothing was sent, created or healed before the first step.               *)
LEMMA InitWorldInv == Init => WorldInv
<1> SUFFICES ASSUME Init PROVE WorldInv
  OBVIOUS
<1>1. \A r \in Rem : row[r].state = "none" /\ row[r].heals = 0 /\ sent[r] = 0
  BY DEF Init, NoRow
<1>2. \A r \in Rem : ~Live(r)
  BY <1>1 DEF Live, FsmStates, ActiveStates, TerminalStates
<1>3. Orphans = {} /\ faults = 0 /\ loaded = {}
  BY DEF Init, Orphans
<1>4. OrphanInv
  BY <1>1, <1>3, FS_EmptySet DEF OrphanInv, OrphansOnlyByFault
<1> QED
  BY <1>1, <1>2, <1>3, <1>4, InitStoreInv DEF WorldInv, CountInv, MessagesMatchAttempts, HealsInv,
     FsmStates, ActiveStates, TerminalStates

(* Together, inductive.                                                     *)
LEMMA NextWorldInv == WorldInv /\ [Next]_vars => WorldInv'
BY NextStoreInv, NextCountInv, NextOrphanInv, NextHealsInv DEF WorldInv

(* The invariant of the store and what it has to do with the world.         *)
LEMMA WorldCorrect == Spec => []WorldInv
BY InitWorldInv, NextWorldInv, PTL DEF Spec

-----------------------------------------------------------------------------
(* A session the store knows was created, and the one about to be inserted  *)
(* is not in the store yet.                                                 *)
OwnedInv ==
  /\ \A s \in Sid : Recorded(s) => owner[s] # NoRem
  /\ pc = "insert" => sid \in Sid /\ owner[sid] # NoRem /\ sess[sid].rem = NoRem

(* Ids are handed out once.                                                 *)
LEMMA NextOwnedInv ==
  ASSUME WorldInv, OwnedInv, [Next]_vars
  PROVE OwnedInv'
<1> USE DEF OwnedInv, Recorded
<1>0. TypeOK /\ TypeInv
  BY DEF WorldInv, StoreInv, SessionInv, TypeInv
<1>1. \A s \in Sid : owner[s] # NoRem => owner'[s] # NoRem
  <2>1. ASSUME NEW r \in Rem, NEW rec \in Recordings, LoadResults(r, rec)
        PROVE \A s \in Sid : owner[s] # NoRem => owner'[s] # NoRem
    BY <2>1, LoadedSessions, NullAssumption
  <2> QED
    BY <1>0, <2>1, OwnerSteps, NullAssumption DEF DispatchCreate, CreateResponseLost, TypeOK
<1>2. ASSUME NEW s \in Sid, sess'[s].rem # NoRem, sess[s].rem = NoRem
      PROVE \/ pc = "insert" /\ sid = s /\ pc' = "update"
            \/ owner'[s] # NoRem /\ s # sid /\ UNCHANGED <<pc, sid>>
  <2>1. ASSUME NEW q \in Rem, InsertSession(q) PROVE pc = "insert" /\ sid = s /\ pc' = "update"
    BY <1>0, <1>2, <2>1 DEF InsertSession, Goto, TypeOK
  <2>2. ASSUME NEW q \in Rem, NEW t \in Sid, NEW shot \in Snapshots, Poll(q, t, shot) PROVE FALSE
    BY <1>0, <1>2, <2>2 DEF Poll, TypeOK, SessionRows
  <2>3. ASSUME CloseSession \/ \E q \in Rem : ReleaseSession(q) PROVE FALSE
    BY <1>0, <1>2, <2>3 DEF CloseSession, ReleaseSession, TypeOK, SessionRows
  <2>4. ASSUME NEW q \in Rem, NEW rec \in Recordings, LoadResults(q, rec)
        PROVE owner'[s] # NoRem /\ s # sid /\ UNCHANGED <<pc, sid>>
    <3>1. UNCHANGED <<pc, sid>>
      BY <2>4 DEF LoadResults, worker
    <3>2. PICK old \in {t \in Sid \ {sid} : owner[t] = NoRem} \cup {NoSid} :
            /\ \A t \in Sid \ {old} : sess'[t] = NoSession
            /\ \A t \in Sid : t = old => owner'[t] = q
      BY <2>4, LoadedSessions
    <3>3. s = old
      BY <1>2, <3>2 DEF NoSession
    <3> QED
      BY <3>1, <3>2, <3>3, NullAssumption
  <2> QED
    BY <1>2, <2>1, <2>2, <2>3, <2>4, SessSteps
<1>3. \A s \in Sid : sess'[s].rem # NoRem => owner'[s] # NoRem
  BY <1>1, <1>2
<1>4. ASSUME pc' = "insert"
      PROVE \/ pc = "insert" /\ UNCHANGED sid
            \/ \E r \in Rem, s \in Sid : DispatchCreate(r, s)
  BY <1>0, <1>4, PlanSteps DEF worker, PollNothing, Poll, Decides, Start, InsertSession, UpdateRow, AddEvent,
     CloseSession, Goto, Done
<1>5. ASSUME NEW r \in Rem, NEW s \in Sid, DispatchCreate(r, s)
      PROVE sid' \in Sid /\ owner'[sid'] # NoRem /\ sess'[sid'].rem = NoRem
  BY <1>0, <1>5, NullAssumption DEF DispatchCreate, store, TypeOK
<1>6. pc' = "insert" => sid' \in Sid /\ owner'[sid'] # NoRem /\ sess'[sid'].rem = NoRem
  BY <1>1, <1>2, <1>4, <1>5
<1> QED
  BY <1>3, <1>6

-----------------------------------------------------------------------------
(* How often Devin is messaged.                                             *)

(* A remediation whose heal message may still be sent: it is healing in the *)
(* store or in the list of the tick, and no write of its handler is owed.   *)
MaySend(r) ==
  /\ row[r].state = "healing" \/ (r \in DOMAIN batch /\ batch[r].state = "healing")
  /\ ~(Current(r) /\ Owing)

SendInv ==
  \A r \in Rem : /\ sent[r] <= MaxHealAttempts + faults
                 /\ MaySend(r) => sent[r] < MaxHealAttempts + faults

(* A handler that owes writes does so until it leaves its row or the tick   *)
(* ends.                                                                    *)
LEMMA OwedUntilLeft ==
  ASSUME TypeOK, [Next]_vars, NEW r \in Rem, Current(r), Owing
  PROVE (Owing' /\ UNCHANGED batch) \/ batch' = Without(r) \/ batch' = NoBatch
<1>0. \A q \in Rem : Current(q) => q = r
  BY CurrentUnique
<1> USE DEF Owing
<1>1. CASE DispatchPass
  BY <1>1 DEF DispatchPass, BeginTick, DispatchSkip, InsertSession, InsertFails, DispatchCreate, Goto, Reset
<1>2. CASE AdvancePass
  BY <1>2 DEF AdvancePass, BeginAdvance, PollNothing, AdvanceDispatched, AdvancePrOpened, HealWithoutSession,
     AdvanceHealing, EndTick, Handling
<1>3. CASE Write
  BY <1>0, <1>3 DEF Write, CloseSession, UpdateRow, AddEvent, ReleaseSession, Goto, Done
<1>4. CASE Observe
  BY <1>4 DEF Observe, Poll, AdvanceVerifying, Handling
<1>5. CASE Fault
  BY <1>5 DEF Fault, TickError, Crash, MessageResponseLost, CreateResponseLost, worker, Reset
<1>6. CASE Web
  BY <1>6 DEF Web, Enqueue, RefreshPrState, LoadResults, worker
<1>7. CASE UNCHANGED vars
  BY <1>7 DEF vars, worker
<1> QED
  BY <1>1, <1>2, <1>3, <1>4, <1>5, <1>6, <1>7 DEF Next

(* Of a row that is gone only a copy can be healing, and it was copied      *)
(* before.                                                                  *)
LEMMA GoneMaySend ==
  ASSUME TypeOK, [Next]_vars, NEW r \in Rem, MaySend(r)', row'[r].state # "healing"
  PROVE MaySend(r)
<1>1. r \in DOMAIN batch' /\ batch'[r].state = "healing" /\ ~(Current(r)' /\ Owing')
  BY DEF MaySend
<1>2. CASE UNCHANGED batch
  <2>1. Current(r)' = Current(r)
    BY <1>2 DEF Current
  <2>2. r \in DOMAIN batch
    BY <1>1, <1>2
  <2>3. ~(Current(r) /\ Owing)
    <3> SUFFICES ASSUME Current(r), Owing PROVE FALSE
      OBVIOUS
    <3>1. ~Owing'
      BY <1>1, <2>1
    <3>2. r \notin DOMAIN NoBatch /\ r \notin DOMAIN Without(r)
      BY DEF NoBatch, Without
    <3>3. batch # NoBatch /\ batch # Without(r)
      BY <2>2, <3>2
    <3> QED
      BY <1>2, <3>1, <3>3, OwedUntilLeft
  <2> QED
    BY <1>1, <1>2, <2>3 DEF MaySend
<1>3. CASE BeginTick \/ BeginAdvance
  BY <1>1, <1>3 DEF BeginTick, BeginAdvance, Select, store
<1>4. ASSUME NEW q \in Rem, Done(q), Current(q) PROVE MaySend(r)
  <2>1. r # q /\ r \in DOMAIN batch /\ batch'[r] = batch[r]
    BY <1>1, <1>4 DEF Done, Without
  <2>2. ~Current(r)
    BY <1>4, <2>1, CurrentUnique
  <2> QED
    BY <1>1, <2>1, <2>2 DEF MaySend
<1>5. batch' # NoBatch
  BY <1>1 DEF NoBatch
<1> QED
  BY <1>2, <1>3, <1>4, <1>5, BatchSteps

(* The cap is asked for when a heal is decided, and the attempt is counted  *)
(* by the write after the message.                                          *)
LEMMA NextSendInv ==
  ASSUME StoreInv, StoreInv', CountInv', HealsInv', SendInv, [Next]_vars
  PROVE SendInv'
<1> SUFFICES ASSUME NEW r \in Rem
             PROVE /\ sent'[r] <= MaxHealAttempts + faults'
                   /\ MaySend(r)' => sent'[r] < MaxHealAttempts + faults'
  BY DEF SendInv
<1>0. /\ TypeOK /\ TypeOK'
      /\ faults \in Nat /\ faults' \in Nat /\ MaxHealAttempts \in Nat /\ sent[r] \in Nat /\ sent'[r] \in Nat
  BY BoundAssumption, HealAssumption DEF StoreInv, SessionInv, TypeInv, TypeOK
<1>1. faults' = faults \/ faults' = faults + 1
  BY BoundsSteps
<1>2. sent[r] <= MaxHealAttempts + faults /\ (MaySend(r) => sent[r] < MaxHealAttempts + faults)
  BY DEF SendInv
<1>3. CASE sent'[r] = sent[r]
  <2>1. ASSUME MaySend(r)', row'[r].state = "healing" PROVE sent'[r] < MaxHealAttempts + faults'
    <3>1. Live(r)' /\ Uncounted(r)' = 0
      BY <2>1 DEF Live, FsmStates, ActiveStates, MaySend, Owing, Uncounted
    <3>2. row'[r].heals \in Nat /\ row'[r].heals < MaxHealAttempts
      BY <1>0, <2>1 DEF HealsInv, TypeOK, Rows
    <3>3. sent'[r] <= row'[r].heals + faults'
      BY <1>0, <2>1, <3>1, <3>2 DEF CountInv, MessagesMatchAttempts, HealsInv, ActiveStates
    <3> QED
      BY <1>0, <3>2, <3>3
  <2>2. ASSUME MaySend(r)', row'[r].state # "healing" PROVE sent'[r] < MaxHealAttempts + faults'
    <3>1. MaySend(r)
      BY <1>0, <2>2, GoneMaySend
    <3> QED
      BY <1>0, <1>1, <1>2, <1>3, <3>1
  <2> QED
    BY <1>0, <1>1, <1>2, <1>3, <2>1, <2>2
<1>4. ASSUME AdvanceHealing(r) \/ MessageResponseLost(r), sent'[r] = sent[r] + 1
      PROVE /\ sent'[r] <= MaxHealAttempts + faults'
            /\ MaySend(r)' => sent'[r] < MaxHealAttempts + faults'
  <2>1. MaySend(r)
    BY <1>4 DEF AdvanceHealing, MessageResponseLost, Handling, MaySend, Current, Owing
  <2>2. CASE AdvanceHealing(r)
    <3>1. ~MaySend(r)'
      BY <2>2 DEF AdvanceHealing, Handling, Start, MaySend, Owing, Current
    <3> QED
      BY <1>0, <1>1, <1>2, <1>4, <2>1, <3>1
  <2>3. CASE MessageResponseLost(r)
    <3>1. faults' = faults + 1
      BY <2>3 DEF MessageResponseLost
    <3> QED
      BY <1>0, <1>2, <1>4, <2>1, <3>1
  <2> QED
    BY <1>4, <2>2, <2>3
<1>5. sent'[r] = sent[r] \/ ((AdvanceHealing(r) \/ MessageResponseLost(r)) /\ sent'[r] = sent[r] + 1)
  BY <1>0, SentSteps DEF AdvanceHealing, MessageResponseLost, TypeOK
<1> QED
  BY <1>3, <1>4, <1>5

(* Nothing was sent before the first step, and nothing may be.              *)
LEMMA InitSendInv == Init => SendInv
<1> SUFFICES ASSUME Init, NEW r \in Rem PROVE /\ sent[r] <= MaxHealAttempts + faults
                                              /\ MaySend(r) => sent[r] < MaxHealAttempts + faults
  BY DEF SendInv
<1>1. ~MaySend(r)
  BY DEF Init, MaySend, NoBatch, NoRow
<1> QED
  BY <1>1, HealAssumption DEF Init

(* The cap counts what Devin is really asked: no remediation is messaged    *)
(* more often than the cap allows and faults happened, also one whose row   *)
(* was deleted in the middle of the tick that heals it.                     *)
THEOREM HealCapHolds == Spec => []MessagesWithinCap
<1>1. SendInv => MessagesWithinCap
  BY DEF SendInv, MessagesWithinCap
<1>2. WorldInv /\ WorldInv' /\ SendInv /\ [Next]_vars => SendInv'
  BY NextSendInv DEF WorldInv
<1> QED
  BY <1>1, <1>2, InitSendInv, WorldCorrect, PTL DEF Spec

-----------------------------------------------------------------------------
(* Reservations nobody releases.                                            *)

(* A row that no pass advances and that holds an active session: it was     *)
(* left queued by a crash between the two writes of a dispatch, or went to  *)
(* needs_human without closing the session (loop.py:218-220).               *)
Parked(r) ==
  /\ row[r].state \in {"queued", "needs_human"} /\ ActiveSessionsOf(r) # {}
  /\ ~(Current(r) /\ Owing)

(* The step that empties the whole store.                                   *)
Replaced == \E q \in Rem, rec \in Recordings : LoadResults(q, rec)

(* The advance pass has no such row in its list.                            *)
LEMMA ParkedIsNotListed ==
  ASSUME StoreInv, NEW r \in Rem, Parked(r), r \in DOMAIN batch
  PROVE pass = "dispatch" /\ row[r].state = "queued"
<1>0. TypeOK /\ FreshInv /\ BatchStates
  BY DEF StoreInv, SessionInv, TypeInv
<1>1. Live(r)
  BY DEF Parked, Live, FsmStates, ActiveStates, TerminalStates
<1>2. batch[r] = row[r]
  BY <1>0, <1>1 DEF FreshInv, CopyIsFresh, Parked, Owing
<1>3. pass # "advance"
  BY <1>0, <1>2 DEF FreshInv, BatchKinds, Parked, ActiveStates
<1> QED
  BY <1>0, <1>2, <1>3 DEF TypeOK, FreshInv, BatchKinds

(* Its session is not the one in hand.                                      *)
LEMMA ParkedKeepsSession ==
  ASSUME StoreInv, OwnedInv, [Next]_vars, NEW r \in Rem, Parked(r), ~Replaced
  PROVE ActiveSessionsOf(r)' # {}
<1>0. TypeOK /\ Locals
  BY DEF StoreInv, SessionInv, TypeInv
<1>1. PICK s \in Sid : sess[s].rem = r /\ sess[s].active
  BY DEF Parked, ActiveSessionsOf, SessionsOf
<1>2. Recorded(s)
  BY <1>1, NullAssumption DEF Recorded
<1>3. sess'[s].rem = r /\ sess'[s].active
  <2>1. ASSUME NEW q \in Rem, NEW t \in Sid, NEW shot \in Snapshots, Poll(q, t, shot)
        PROVE sess'[s].rem = r /\ sess'[s].active
    BY <1>0, <1>1, <2>1 DEF Poll, TypeOK, SessionRows
  <2>2. ASSUME CloseSession \/ \E q \in Rem : ReleaseSession(q) PROVE sess'[s].rem = r /\ sess'[s].active
    <3>1. pass = "advance" /\ pc \in {"close", "release"} /\ sess' = [sess EXCEPT ![sid].active = FALSE]
      BY <1>0, <2>2 DEF CloseSession, ReleaseSession, Locals
    <3>2. s # sid
      BY <1>0, <1>1, <1>2, <3>1, ParkedIsNotListed DEF Locals
    <3> QED
      BY <1>0, <1>1, <3>1, <3>2 DEF TypeOK
  <2>3. ASSUME NEW q \in Rem, InsertSession(q) PROVE sess'[s].rem = r /\ sess'[s].active
    <3>1. sid # s
      BY <1>1, <2>3, NullAssumption DEF InsertSession, OwnedInv
    <3> QED
      BY <1>0, <1>1, <2>3, <3>1 DEF InsertSession, TypeOK
  <2>4. ASSUME NEW q \in Rem, NEW rec \in Recordings, LoadResults(q, rec) PROVE FALSE
    BY <2>4 DEF Replaced
  <2> QED
    BY <1>1, <2>1, <2>2, <2>3, <2>4, SessSteps
<1> QED
  BY <1>3 DEF ActiveSessionsOf, SessionsOf

(* Such a row is never taken up again and its session holds its reservation *)
(* for ever, whatever the worker, the web process and crashes do, until the *)
(* whole store is replaced: neither restart nor retry repairs what          *)
(* loop.py:145-151 and loop.py:218-220 leave behind.                        *)
THEOREM ParkedForEver == Spec => [][\A r \in Rem : Parked(r) /\ ~Replaced => Parked(r)']_vars
<1> DEFINE Stays == \A r \in Rem : Parked(r) /\ ~Replaced => Parked(r)'
<1>1. WorldInv /\ OwnedInv /\ [Next]_vars => Stays
  <2> SUFFICES ASSUME WorldInv, OwnedInv, [Next]_vars, NEW r \in Rem, Parked(r), ~Replaced
               PROVE Parked(r)'
    OBVIOUS
  <2>0. StoreInv /\ TypeInv /\ TypeOK /\ Locals
    BY DEF WorldInv, StoreInv, SessionInv, TypeInv
  <2>1. ActiveSessionsOf(r)' # {}
    BY <2>0, ParkedKeepsSession
  <2>2. UNCHANGED row[r]
    <3>1. ASSUME NEW q \in Rem, UpdateRow(q), Live(q) PROVE UNCHANGED row[r]
      BY <2>0, <3>1 DEF UpdateRow, Parked, Owing, TypeOK
    <3>2. ASSUME NEW q \in Rem, Enqueue(q) \/ RefreshPrState(q) PROVE UNCHANGED row[r]
      BY <2>0, <3>2 DEF Enqueue, NextId, RefreshPrState, Parked, TypeOK
    <3>3. ASSUME NEW q \in Rem, NEW rec \in Recordings, LoadResults(q, rec) PROVE FALSE
      BY <3>3 DEF Replaced
    <3> QED
      BY <3>1, <3>2, <3>3, RowSteps
  <2>3. ~(Current(r) /\ Owing)'
    <3> SUFFICES ASSUME Current(r)', Owing' PROVE FALSE
      OBVIOUS
    <3>1. CASE UNCHANGED worker
      BY <3>1 DEF Parked, Current, Owing, worker
    <3>2. ASSUME NEW q \in Rem, NEW p \in Plans, Decides(q, p) PROVE FALSE
      <4>1. Current(r) /\ pass = "advance"
        BY <2>0, <3>2 DEF Decides, Start, Current, Locals
      <4> QED
        BY <2>0, <4>1, ParkedIsNotListed DEF Current
    <3>3. ASSUME NEW q \in Rem, NEW s \in Sid, DispatchCreate(q, s) PROVE FALSE
      <4>1. q = r
        BY <2>0, <3>3, CurrentUnique DEF DispatchCreate, Current
      <4> QED
        BY <3>3, <4>1 DEF DispatchCreate, AlreadyRunning, Parked
    <3>4. ASSUME NEW q \in Rem, InsertSession(q) \/ UpdateRow(q) \/ AddEvent(q) PROVE FALSE
      <4>1. Owing /\ Current(q)
        BY <3>4 DEF InsertSession, UpdateRow, AddEvent, Owing
      <4>2. UNCHANGED batch
        BY <3>4 DEF InsertSession, UpdateRow, AddEvent, Goto, Done, Owing
      <4> QED
        BY <4>1, <4>2 DEF Parked, Current
    <3>5. ~CloseSession
      BY DEF CloseSession, Goto, Parked, Current, Owing
    <3> QED
      BY <2>0, <3>1, <3>2, <3>3, <3>4, <3>5, PlanSteps DEF Poll, PollNothing, Owing
  <2> QED
    BY <2>1, <2>2, <2>3 DEF Parked
<1>2. WorldInv /\ OwnedInv /\ [Next]_vars => [Stays]_vars
  BY <1>1
<1>3. Init => OwnedInv
  BY DEF Init, OwnedInv, Recorded, NoSession
<1> QED
  BY <1>2, <1>3, NextOwnedInv, WorldCorrect, PTL DEF Spec

-----------------------------------------------------------------------------
(* heal_attempts of a row that the control plane tracked itself is the      *)
(* number of messages sent, short of one in flight and of one for each      *)
(* crash or lost answer.                                                    *)
THEOREM AttemptsAreMessages == Spec => []MessagesMatchAttempts
<1>1. WorldInv => MessagesMatchAttempts
  BY DEF WorldInv, CountInv
<1> QED
  BY <1>1, WorldCorrect, PTL

(* At most one session that nobody knows of for each crash or lost answer.  *)
THEOREM OrphansCostFaults == Spec => []OrphansOnlyByFault
<1>1. WorldInv => OrphansOnlyByFault
  BY DEF WorldInv, OrphanInv
<1> QED
  BY <1>1, WorldCorrect, PTL

(* No remediation costs a second session but by a fault: whatever else the  *)
(* worker and the web process do, each is dispatched once.                  *)
THEOREM DispatchAsksOnce == Spec => []OneSessionAskedFor
<1>1. Init => AskedInv
  <2> SUFFICES ASSUME Init PROVE AskedInv
    OBVIOUS
  <2>1. \A r \in Rem : AskedFor(r) = {}
    BY NullAssumption DEF Init, AskedFor
  <2> QED
    BY <2>1, FS_EmptySet DEF Init, AskedInv
<1>2. AskedInv => OneSessionAskedFor
  BY DEF AskedInv, OneSessionAskedFor
<1> QED
  BY <1>1, <1>2, NextAskedInv, StoreCorrect, PTL DEF Spec

(* The reconciler, its crashes and the web process, replacements of the     *)
(* store included, implement the state machine of Lifecycle with its cap on *)
(* heals.                                                                   *)
THEOREM ImplementsLifecycle == Spec => FollowsLifecycle
<1>1. Init => L!Init
  BY DEF Init, L!Init, NoRow
<1>2. WorldInv /\ [Next]_vars => [L!Next]_(L!lifecycleVars)
  BY StepImplementsLifecycle DEF WorldInv
<1> QED
  BY <1>1, <1>2, WorldCorrect, PTL DEF Spec, FollowsLifecycle, L!Spec

=============================================================================
