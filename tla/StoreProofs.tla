---------------------------- MODULE StoreProofs ----------------------------
(***************************************************************************)
(* What the store of Reconciler shows, for every value of the constants:   *)
(* the copies a tick works on, the writes a handler owes, the activity     *)
(* log, the sessions of settled rows, and the budget guard.  Each layer of *)
(* the invariant rests on the ones before it.                              *)
(***************************************************************************)
EXTENDS ReconcilerProofs

(* The only steps that write the table of remediations.                     *)
LEMMA RowSteps ==
  ASSUME [Next]_vars
  PROVE \/ UNCHANGED row
        \/ \E r \in Rem : \/ UpdateRow(r) /\ Live(r)
                          \/ Enqueue(r)
                          \/ RefreshPrState(r)
                          \/ \E rec \in Recordings : LoadResults(r, rec)
<1>1. CASE DispatchPass
  BY <1>1 DEF DispatchPass, BeginTick, DispatchSkip, InsertSession, InsertFails, DispatchCreate, store
<1>2. CASE AdvancePass
  BY <1>2 DEF AdvancePass, BeginAdvance, PollNothing, AdvanceDispatched, AdvancePrOpened, HealWithoutSession,
     AdvanceHealing, EndTick, store
<1>3. CASE Write
  BY <1>3 DEF Write, CloseSession, UpdateRow, AddEvent, ReleaseSession
<1>4. CASE Observe
  BY <1>4 DEF Observe, Poll, AdvanceVerifying, store
<1>5. CASE Fault
  BY <1>5 DEF Fault, TickError, Crash, MessageResponseLost, CreateResponseLost, store
<1>6. CASE Web
  BY <1>6 DEF Web
<1>7. CASE UNCHANGED vars
  BY <1>7 DEF vars, store
<1> QED
  BY <1>1, <1>2, <1>3, <1>4, <1>5, <1>6, <1>7 DEF Next

(* What a step does to the list of the tick.                                *)
LEMMA BatchSteps ==
  ASSUME [Next]_vars
  PROVE \/ UNCHANGED <<pc, pass, batch>>
        \/ pc' = "idle" /\ batch' = NoBatch
        \/ BeginTick
        \/ BeginAdvance
        \/ \E r \in Rem : Done(r) /\ UNCHANGED pass /\ Current(r)
        \/ UNCHANGED <<pass, batch>> /\ {pc, pc'} \cap {"event", "release"} = {}
        \/ UNCHANGED <<pass, batch>> /\ pc' \in {"event", "release"}
<1>1. CASE DispatchPass
  BY <1>1 DEF DispatchPass, DispatchSkip, InsertSession, InsertFails, DispatchCreate, Goto, Reset
<1>2. CASE AdvancePass
  BY <1>2 DEF AdvancePass, PollNothing, AdvanceDispatched, AdvancePrOpened, HealWithoutSession,
     AdvanceHealing, EndTick, Handling, Start, Reset
<1>3. CASE Write
  BY <1>3 DEF Write, CloseSession, UpdateRow, AddEvent, ReleaseSession, Goto
<1>4. CASE Observe
  BY <1>4 DEF Observe, Poll, AdvanceVerifying, Handling, Start
<1>5. CASE Fault
  BY <1>5 DEF Fault, TickError, Crash, MessageResponseLost, CreateResponseLost, worker, Reset
<1>6. CASE Web
  BY <1>6 DEF Web, Enqueue, RefreshPrState, LoadResults, worker
<1>7. CASE UNCHANGED vars
  BY <1>7 DEF vars, worker
<1> QED
  BY <1>1, <1>2, <1>3, <1>4, <1>5, <1>6, <1>7 DEF Next

-----------------------------------------------------------------------------
(* The copies.                                                              *)

(* A tick copies rows of its pass, and none of them can be handed out again. *)
BatchKinds ==
  \A r \in DOMAIN batch :
    /\ row[r].state # "none"
    /\ pass = "dispatch" => batch[r].state = "queued"
    /\ pass = "advance" => batch[r].state \in ActiveStates \ {"queued"}

FreshInv == BatchKinds /\ CopyIsFresh

(* The web process enqueues and loads ids that no tick has copied, and      *)
(* refreshes rows whose handler, if there is one, is past its update.       *)
LEMMA NextFreshInv ==
  ASSUME SessionInv, SessionInv', FreshInv, [Next]_vars
  PROVE FreshInv'
<1> USE DEF FreshInv, BatchKinds, CopyIsFresh, Live
<1>0. TypeOK /\ \A r \in DOMAIN batch : r \in Rem
  BY DEF SessionInv, TypeInv, TypeOK
<1>1. CASE UNCHANGED row
  <2>1. CASE UNCHANGED <<pc, pass, batch>>
    BY <1>1, <2>1 DEF Current
  <2>2. CASE batch' = NoBatch
    BY <2>2 DEF NoBatch
  <2>3. CASE BeginTick \/ BeginAdvance
    BY <1>0, <1>1, <2>3 DEF BeginTick, BeginAdvance, Select, ActiveStates, TypeOK
  <2>4. CASE \E r \in Rem : Done(r) /\ UNCHANGED pass /\ Current(r)
    BY <1>0, <1>1, <2>4, CurrentUnique DEF Done, Without
  <2>5. CASE UNCHANGED <<pass, batch>> /\ {pc, pc'} \cap {"event", "release"} = {}
    BY <1>1, <2>5
  <2>6. CASE UNCHANGED <<pass, batch>> /\ pc' \in {"event", "release"}
    BY <1>1, <2>6 DEF Current
  <2> QED
    BY <2>1, <2>2, <2>3, <2>4, <2>5, <2>6, BatchSteps
<1>2. ASSUME NEW r \in Rem, UpdateRow(r), Live(r) PROVE FreshInv'
  <2>1. \A q \in DOMAIN batch \ {r} : row'[q] = row[q]
    BY <1>0, <1>2 DEF UpdateRow, TypeOK
  <2>2. row'[r].state # "none"
    BY <1>0, <1>2 DEF UpdateRow, TypeOK, SessionInv, Locals, FsmStates, ActiveStates, TerminalStates
  <2>3. pc = "update" /\ Current(r) /\ UNCHANGED pass /\ (Done(r) \/ (UNCHANGED batch /\ pc' = "event"))
    BY <1>2 DEF UpdateRow, Goto
  <2>4. \A q \in DOMAIN batch' : q \in DOMAIN batch /\ batch'[q] = batch[q] /\ row'[q].state # "none"
    BY <2>1, <2>2, <2>3 DEF Done, Without
  <2>5. CASE Done(r)
    BY <2>1, <2>3, <2>4, <2>5 DEF Done, Without
  <2>6. CASE UNCHANGED batch /\ pc' = "event"
    BY <2>1, <2>3, <2>4, <2>6 DEF Current
  <2> QED
    BY <2>3, <2>5, <2>6
<1>3. ASSUME NEW r \in Rem, Enqueue(r) PROVE FreshInv'
  <2>1. r \notin DOMAIN batch /\ UNCHANGED worker
    BY <1>3 DEF Enqueue, NextId
  <2>2. \A q \in DOMAIN batch : row'[q] = row[q]
    BY <1>0, <1>3, <2>1 DEF Enqueue, TypeOK
  <2> QED
    BY <2>1, <2>2 DEF worker, Current
<1>4. ASSUME NEW r \in Rem, RefreshPrState(r) PROVE FreshInv'
  <2>1. /\ UNCHANGED <<pc, pass, batch>> /\ row[r].state \in {"merged", "awaiting_merge"}
        /\ row'[r].state \in {"merged", "awaiting_merge"}
        /\ \A q \in Rem \ {r} : row'[q] = row[q]
    BY <1>0, <1>4 DEF RefreshPrState, worker, TypeOK, Rows
  <2>2. r \in DOMAIN batch => batch[r] # row[r]
    BY <1>0, <2>1 DEF TypeOK, ActiveStates
  <2>3. r \in DOMAIN batch => Current(r) /\ pc \in {"event", "release"}
    BY <2>1, <2>2 DEF FsmStates, TerminalStates
  <2> QED
    BY <1>0, <2>1, <2>3 DEF Current
<1>5. ASSUME NEW r \in Rem, NEW rec \in Recordings, LoadResults(r, rec) PROVE FreshInv'
  <2>1. r \notin DOMAIN batch /\ UNCHANGED worker
    BY <1>5 DEF LoadResults, NextId
  <2>2. \A q \in Rem \ {r} : row'[q] = IF Live(q) THEN GoneRow ELSE row[q]
    BY <1>5, LoadedRows
  <2>3. \A q \in Rem \ {r} : ~Live(q)' /\ (row[q].state # "none" => row'[q].state # "none")
    BY <2>2 DEF GoneRow, NoRow, FsmStates, ActiveStates, TerminalStates
  <2> QED
    BY <1>0, <2>1, <2>3 DEF worker
<1> QED
  BY <1>1, <1>2, <1>3, <1>4, <1>5, RowSteps

-----------------------------------------------------------------------------
(* The writes a handler owes.                                               *)

(* The states a handler finds when it decides on an event, the state it     *)
(* moves the row to, and when it closes the session.                        *)
Froms(event) ==
  CASE event = "dispatched" -> {"queued"}
    [] event \in {"pr_opened", "refused", "failed"} -> {"dispatched"}
    [] event = "needs_human" -> {"dispatched", "healing"}
    [] event = "none" -> {"pr_opened"}
    [] event \in {"false_green_detected", "heal_cap", "ci_red", "verified_green"} -> {"verifying"}
    [] event = "self_heal" -> {"healing"}

To(event) ==
  CASE event \in {"needs_human", "false_green_detected", "heal_cap"} -> "needs_human"
    [] event \in {"none", "self_heal"} -> "verifying"
    [] event = "ci_red" -> "healing"
    [] event = "verified_green" -> "awaiting_merge"
    [] event \in {"dispatched", "pr_opened", "refused", "failed"} -> event

Closing(event) ==
  CASE event \in {"refused", "failed", "false_green_detected", "heal_cap"} -> "first"
    [] event = "verified_green" -> "last"
    [] event \in {"dispatched", "pr_opened", "needs_human", "ci_red", "self_heal", "none"} -> "never"

Fits(r, p) ==
  /\ batch[r].state \in Froms(p.event)
  /\ p.row.state = To(p.event)
  /\ p.close = Closing(p.event)
  /\ p.row.heals = batch[r].heals + (IF p.event = "self_heal" THEN 1 ELSE 0)
  /\ p.event = "ci_red" => batch[r].heals < MaxHealAttempts
  /\ p.event # "ci_red" => p.row.healed = batch[r].healed
  /\ IF p.event = "pr_opened" THEN snap # NoSnap /\ p.row.pr = snap.pr ELSE p.row.pr = batch[r].pr

Owing == pc \in {"insert", "close", "update", "event", "release"}

(* Its own update is in the row; the pull request may be merged since.      *)
Stored(r) ==
  row[r].state = plan.row.state \/ (plan.event = "verified_green" /\ row[r].state = "merged")

PlanInv ==
  \A r \in Rem : Current(r) =>
    /\ Owing => Fits(r, plan)
    /\ pc = "close" => plan.close = "first"
    /\ pc = "release" => plan.close = "last"
    /\ pc \in {"event", "release"} /\ Live(r) => Stored(r)

(* What a copy with another state has in common with it.                    *)
LEMMA BecomesKeeps ==
  ASSUME NEW r, batch[r] \in Rows, NEW state
  PROVE /\ Becomes(r, state).state = state /\ Becomes(r, state).heals = batch[r].heals
        /\ Becomes(r, state).healed = batch[r].healed /\ Becomes(r, state).pr = batch[r].pr
BY DEF Becomes, Rows

LEMMA DispatchedPlansFit ==
  ASSUME NEW r, batch[r] \in Rows, batch[r].state = "dispatched", snap \in Snapshots \cup {NoSnap}
  PROVE \A p \in DispatchedPlans(r) : Fits(r, p)
<1> USE DEF Fits, Froms, To, Closing
<1>1. CASE snap = NoSnap
  BY <1>1 DEF DispatchedPlans
<1>2. CASE snap # NoSnap /\ snap.pr # "none"
  <2> DEFINE opened == [Becomes(r, "pr_opened") EXCEPT !.pr = snap.pr]
  <2>1. opened.state = "pr_opened" /\ opened.heals = batch[r].heals /\ batch[r].heals \in Nat
        /\ opened.healed = batch[r].healed /\ opened.pr = snap.pr
    BY BecomesKeeps DEF Becomes, Rows
  <2>2. DispatchedPlans(r) = {[close |-> "never", row |-> opened, event |-> "pr_opened"]}
    BY <1>2 DEF DispatchedPlans
  <2> HIDE DEF opened
  <2> QED
    BY <1>2, <2>1, <2>2
<1>3. CASE snap # NoSnap /\ snap.pr = "none"
  <2>1. batch[r].heals \in Nat
    BY DEF Rows
  <2>2. ASSUME NEW p \in DispatchedPlans(r) PROVE p.event # "pr_opened" /\ p.row.pr = batch[r].pr
    BY <1>3, BecomesKeeps, OutcomeTyped DEF DispatchedPlans, Outcomes
  <2>3. ASSUME NEW p \in DispatchedPlans(r)
        PROVE /\ p.event \in {"refused", "failed", "needs_human"} /\ p.row.state = To(p.event)
              /\ p.close = Closing(p.event) /\ p.row.heals = batch[r].heals /\ p.row.healed = batch[r].healed
    BY <1>3, <2>1, BecomesKeeps, OutcomeTyped DEF DispatchedPlans, Outcomes
  <2> QED
    BY <2>1, <2>2, <2>3
<1> QED
  BY <1>1, <1>2, <1>3

LEMMA VerifyingPlansFit ==
  ASSUME NEW r, batch[r] \in Rows, batch[r].state = "verifying", NEW result \in CheckResults
  PROVE \A p \in VerifyingPlans(r, result) : Fits(r, p)
<1> DEFINE healing == [Becomes(r, "healing") EXCEPT !.healed = result.head_sha]
           human == Becomes(r, "needs_human")
           awaiting == Becomes(r, "awaiting_merge")
<1>1. result.state \in {"pending", "green", "red"} /\ batch[r].heals \in Nat
  BY DEF CheckResults, Rows
<1>2. /\ healing.state = "healing" /\ human.state = "needs_human" /\ awaiting.state = "awaiting_merge"
      /\ {healing.heals, human.heals, awaiting.heals} = {batch[r].heals}
      /\ {human.healed, awaiting.healed} = {batch[r].healed}
      /\ {healing.pr, human.pr, awaiting.pr} = {batch[r].pr}
  BY BecomesKeeps DEF Becomes, Rows
<1>3. \A p \in VerifyingPlans(r, result) :
        \/ p \in {[close |-> "first", row |-> human, event |-> "false_green_detected"],
                  [close |-> "first", row |-> human, event |-> "heal_cap"],
                  [close |-> "last", row |-> awaiting, event |-> "verified_green"]}
        \/ p = [close |-> "never", row |-> healing, event |-> "ci_red"] /\ ~CapReached(r)
  BY <1>1 DEF VerifyingPlans
<1>4. ~CapReached(r) => batch[r].heals < MaxHealAttempts
  BY <1>1, HealAssumption DEF CapReached
<1> HIDE DEF healing, human, awaiting
<1> QED
  <2>1. ASSUME NEW p \in VerifyingPlans(r, result)
        PROVE /\ p.event \in {"false_green_detected", "heal_cap", "verified_green", "ci_red"}
              /\ p.row.pr = batch[r].pr /\ p.row.heals = batch[r].heals
              /\ p.row.state = To(p.event) /\ p.close = Closing(p.event)
    BY <1>2, <1>3 DEF To, Closing
  <2>2. ASSUME NEW p \in VerifyingPlans(r, result)
        PROVE IF p.event = "ci_red" THEN batch[r].heals < MaxHealAttempts ELSE p.row.healed = batch[r].healed
    BY <1>2, <1>3, <1>4
  <2> QED
    BY <1>1, <2>1, <2>2 DEF Fits, Froms

Decides(r, p) == pc = "handle" /\ Current(r) /\ Start(p) /\ Fits(r, p) /\ UNCHANGED store

(* A handler that decides to write starts on a plan that fits its row.      *)
LEMMA AdvanceFits ==
  ASSUME TypeInv, AdvancePass \/ Observe
  PROVE \/ pc' \in {"idle", "next"}
        \/ \E r \in Rem : PollNothing(r) \/ \E s \in Sid, shot \in Snapshots : Poll(r, s, shot)
        \/ \E r \in Rem, p \in Plans : Decides(r, p)
<1> USE DEF TypeInv, TypeOK, Decides
<1>1. CASE BeginAdvance \/ EndTick
  BY <1>1 DEF BeginAdvance, EndTick, Reset
<1>2. \A r \in Rem : Current(r) => batch[r] \in Rows
  BY DEF Current
<1>3. ASSUME NEW r \in Rem, AdvanceDispatched(r)
      PROVE pc' = "next" \/ \E p \in Plans : Decides(r, p)
  BY <1>2, <1>3, DispatchedPlansFit, DispatchedPlansTyped DEF AdvanceDispatched, Handling, Done
<1>4. ASSUME NEW r \in Rem, NEW result \in CheckResults, AdvanceVerifying(r, result)
      PROVE pc' = "next" \/ \E p \in Plans : Decides(r, p)
  BY <1>2, <1>4, VerifyingPlansFit, VerifyingPlansTyped DEF AdvanceVerifying, Handling, Done
<1>5. ASSUME NEW r \in Rem, AdvancePrOpened(r)
      PROVE \E p \in Plans : Decides(r, p)
  <2> DEFINE verifying == Becomes(r, "verifying")
             p == [close |-> "never", row |-> verifying, event |-> "none"]
  <2>1. Start(p) /\ Current(r) /\ batch[r].state = "pr_opened" /\ UNCHANGED store /\ pc = "handle"
    BY <1>5 DEF AdvancePrOpened, Handling
  <2>2. verifying \in Rows /\ verifying.state = "verifying" /\ verifying.heals = batch[r].heals
        /\ batch[r].heals \in Nat /\ verifying.healed = batch[r].healed /\ verifying.pr = batch[r].pr
    BY <1>2, <2>1, BecomesKeeps, BecomesTyped DEF FsmStates, ActiveStates, Rows
  <2> HIDE DEF verifying
  <2>3. p \in Plans /\ Fits(r, p)
    BY <2>1, <2>2 DEF Plans, Fits, Froms, To, Closing
  <2> QED
    BY <2>1, <2>3
<1>6. ASSUME NEW r \in Rem, HealWithoutSession(r)
      PROVE \E p \in Plans : Decides(r, p)
  <2> DEFINE human == Becomes(r, "needs_human")
             p == [close |-> "never", row |-> human, event |-> "needs_human"]
  <2>1. Start(p) /\ Current(r) /\ batch[r].state = "healing" /\ UNCHANGED store /\ pc = "handle"
    BY <1>6 DEF HealWithoutSession, Handling
  <2>2. human \in Rows /\ human.state = "needs_human" /\ human.heals = batch[r].heals
        /\ batch[r].heals \in Nat /\ human.healed = batch[r].healed /\ human.pr = batch[r].pr
    BY <1>2, <2>1, BecomesKeeps, BecomesTyped DEF FsmStates, TerminalStates, Rows
  <2> HIDE DEF human
  <2>3. p \in Plans /\ Fits(r, p)
    BY <2>1, <2>2 DEF Plans, Fits, Froms, To, Closing, EventTypes
  <2> QED
    BY <2>1, <2>3
<1>7. ASSUME NEW r \in Rem, AdvanceHealing(r)
      PROVE \E p \in Plans : Decides(r, p)
  <2> DEFINE healed == [Becomes(r, "verifying") EXCEPT !.heals = @ + 1]
             p == [close |-> "never", row |-> healed, event |-> "self_heal"]
  <2>1. Start(p) /\ Current(r) /\ batch[r].state = "healing" /\ UNCHANGED store /\ pc = "handle"
    BY <1>7 DEF AdvanceHealing, Handling
  <2>2. Becomes(r, "verifying") \in Rows /\ Becomes(r, "verifying").state = "verifying"
        /\ Becomes(r, "verifying").heals = batch[r].heals /\ Becomes(r, "verifying").healed = batch[r].healed
        /\ Becomes(r, "verifying").pr = batch[r].pr
    BY <1>2, <2>1, BecomesKeeps, BecomesTyped DEF FsmStates, ActiveStates
  <2>3. healed \in Rows
    <3>1. PICK copy \in Rows : copy = Becomes(r, "verifying")
      BY <2>2
    <3>2. [copy EXCEPT !.heals = @ + 1] \in Rows
      BY DEF Rows
    <3> QED
      BY <3>1, <3>2
  <2>4. /\ healed.state = "verifying" /\ healed.heals = batch[r].heals + 1
        /\ healed.healed = batch[r].healed /\ healed.pr = batch[r].pr
    BY <2>2 DEF Rows
  <2> HIDE DEF healed
  <2>5. p \in Plans /\ Fits(r, p)
    BY <2>1, <2>3, <2>4 DEF Plans, Fits, Froms, To, Closing, EventTypes
  <2> QED
    BY <2>1, <2>5
<1>8. CASE AdvancePass
  BY <1>1, <1>3, <1>5, <1>6, <1>7, <1>8 DEF AdvancePass
<1>9. CASE Observe
  BY <1>4, <1>9 DEF Observe
<1> QED
  BY <1>8, <1>9

(* What a step does to what is owed.                                        *)
LEMMA PlanSteps ==
  ASSUME TypeInv, [Next]_vars
  PROVE \/ UNCHANGED worker
        \/ pc' \in {"idle", "next"}
        \/ \E r \in Rem : PollNothing(r) \/ \E s \in Sid, shot \in Snapshots : Poll(r, s, shot)
        \/ \E r \in Rem, s \in Sid : DispatchCreate(r, s)
        \/ \E r \in Rem, p \in Plans : Decides(r, p)
        \/ \E r \in Rem : InsertSession(r) \/ UpdateRow(r) \/ AddEvent(r)
        \/ CloseSession
<1>1. CASE DispatchPass
  BY <1>1 DEF DispatchPass, BeginTick, DispatchSkip, InsertFails, Done, Reset
<1>2. CASE AdvancePass \/ Observe
  BY <1>2, AdvanceFits
<1>3. CASE Write
  BY <1>3 DEF Write, ReleaseSession, Done
<1>4. CASE Fault
  BY <1>4 DEF Fault, TickError, Crash, MessageResponseLost, CreateResponseLost, worker, store, Reset
<1>5. CASE Web
  BY <1>5 DEF Web, Enqueue, RefreshPrState, LoadResults, worker
<1>6. CASE UNCHANGED vars
  BY <1>6 DEF vars, worker, store
<1> QED
  BY <1>1, <1>2, <1>3, <1>4, <1>5, <1>6 DEF Next

(* The awaited state of a row that is owed an event is reached by the       *)
(* update before it, and left by the refresh of a pull request only.        *)
LEMMA NextPlanInv ==
  ASSUME SessionInv, SessionInv', FreshInv, PlanInv, [Next]_vars
  PROVE PlanInv'
<1> USE DEF PlanInv, Owing
<1>0. TypeInv /\ TypeOK
  BY DEF SessionInv, TypeInv
<1>1. ASSUME UNCHANGED <<pc, batch, snap, plan>> PROVE PlanInv'
  <2> SUFFICES ASSUME NEW r \in Rem, Current(r), Live(r)', pc \in {"event", "release"}
               PROVE Stored(r)'
    BY <1>1 DEF Current, Fits
  <2>1. Live(r) => Stored(r) /\ plan.row.state = To(plan.event)
    BY DEF Fits
  <2>2. row[r].state # "none"
    BY DEF FreshInv, BatchKinds, Current
  <2>3. CASE UNCHANGED row
    BY <1>1, <2>1, <2>3 DEF Stored, Live
  <2>4. ASSUME NEW q \in Rem, UpdateRow(q) PROVE FALSE
    BY <2>4 DEF UpdateRow
  <2>5. ASSUME NEW q \in Rem, Enqueue(q) PROVE Stored(r)'
    <3>1. q # r /\ row'[r] = row[r]
      BY <1>0, <2>2, <2>5 DEF Enqueue, NextId, TypeOK
    <3> QED
      BY <1>1, <2>1, <3>1 DEF Stored, Live
  <2>6. ASSUME NEW q \in Rem, RefreshPrState(q) PROVE Stored(r)'
    <3>1. CASE q # r
      <4>1. row'[r] = row[r]
        BY <1>0, <2>6, <3>1 DEF RefreshPrState, TypeOK
      <4> QED
        BY <1>1, <2>1, <4>1 DEF Stored, Live
    <3>2. CASE q = r
      <4>1. row[r].state \in {"merged", "awaiting_merge"} /\ row'[r].state \in {"merged", "awaiting_merge"}
        BY <1>0, <2>6, <3>2 DEF RefreshPrState, TypeOK, Rows
      <4>2. plan.event \in EventTypes \cup {"none"}
        BY <1>0 DEF TypeOK, Plans
      <4>3. plan.event = "verified_green" /\ plan.row.state = "awaiting_merge"
        BY <2>1, <4>1, <4>2 DEF Stored, Live, FsmStates, TerminalStates, To, EventTypes
      <4> QED
        BY <1>1, <4>1, <4>3 DEF Stored
    <3> QED
      BY <3>1, <3>2
  <2>7. ASSUME NEW q \in Rem, NEW rec \in Recordings, LoadResults(q, rec) PROVE FALSE
    <3>1. q # r /\ row'[r] = IF Live(r) THEN GoneRow ELSE row[r]
      BY <2>2, <2>7, LoadedRows
    <3> QED
      BY <3>1 DEF Live, GoneRow, NoRow, FsmStates, ActiveStates, TerminalStates
  <2> QED
    BY <2>3, <2>4, <2>5, <2>6, <2>7, RowSteps
<1>2. CASE \/ pc' \in {"idle", "next"}
          \/ \E r \in Rem : PollNothing(r) \/ \E s \in Sid, shot \in Snapshots : Poll(r, s, shot)
  BY <1>2 DEF PollNothing, Poll
<1>3. ASSUME NEW r \in Rem, NEW s \in Sid, DispatchCreate(r, s) PROVE PlanInv'
  <2>1. batch[r] \in Rows /\ batch[r].state = "queued" /\ r \in DOMAIN batch
    BY <1>0, <1>3 DEF DispatchCreate, Current, TypeOK, FreshInv, BatchKinds
  <2>2. /\ plan' = [close |-> "never", row |-> [batch[r] EXCEPT !.state = "dispatched"], event |-> "dispatched"]
        /\ UNCHANGED batch /\ pc' = "insert" /\ Current(r)
    BY <1>3 DEF DispatchCreate
  <2>3. /\ plan'.event = "dispatched" /\ plan'.close = "never" /\ plan'.row.state = "dispatched"
        /\ plan'.row.heals = batch[r].heals /\ batch[r].heals \in Nat /\ plan'.row.healed = batch[r].healed
        /\ plan'.row.pr = batch[r].pr
    BY <2>1, <2>2 DEF Rows
  <2>4. Fits(r, plan')
    BY <2>1, <2>3 DEF Fits, Froms, To, Closing
  <2>5. \A q \in Rem : Current(q)' => q = r
    BY <1>0, <2>2, CurrentUnique DEF Current
  <2> QED
    BY <2>2, <2>4, <2>5 DEF Fits
<1>4. ASSUME NEW r \in Rem, NEW p \in Plans, Decides(r, p) PROVE PlanInv'
  <2>1. \A q \in Rem : Current(q)' => q = r
    BY <1>0, <1>4, CurrentUnique DEF Decides, Start, Current
  <2> QED
    BY <1>4, <2>1 DEF Decides, Start, Fits
<1>5. CASE CloseSession \/ \E r \in Rem : InsertSession(r)
  BY <1>5 DEF CloseSession, InsertSession, Goto, Fits, Current
<1>6. ASSUME NEW r \in Rem, UpdateRow(r) PROVE PlanInv'
  <2>1. CASE Done(r)
    BY <2>1 DEF Done
  <2>2. CASE Goto("event")
    <3>1. \A q \in Rem : Current(q)' => q = r
      BY <1>0, <1>6, <2>2, CurrentUnique DEF Goto, UpdateRow, Current
    <3>2. Live(r)' => row'[r] = plan.row
      BY <1>0, <1>6 DEF UpdateRow, TypeOK, Live
    <3> QED
      BY <1>6, <2>2, <3>1, <3>2 DEF Goto, UpdateRow, Fits, Stored
  <2> QED
    BY <1>6, <2>1, <2>2 DEF UpdateRow
<1>7. ASSUME NEW r \in Rem, AddEvent(r) PROVE PlanInv'
  <2>1. CASE Done(r)
    BY <2>1 DEF Done
  <2>2. CASE Goto("release") /\ plan.close = "last"
    <3>1. UNCHANGED <<row, batch, snap, plan>> /\ pc' = "release" /\ pc = "event"
      BY <1>7, <2>2 DEF Goto, AddEvent
    <3> QED
      BY <2>2, <3>1 DEF Fits, Current, Live, Stored
  <2> QED
    BY <1>7, <2>1, <2>2 DEF AddEvent
<1> QED
  BY <1>0, <1>1, <1>2, <1>3, <1>4, <1>5, <1>6, <1>7, PlanSteps DEF worker

-----------------------------------------------------------------------------
(* The activity log.                                                        *)

Ledger == LedgerNeverAhead /\ \A r \in Rem : row[r].state = "none" => events[r] = {}

(* The only steps that write the log.                                       *)
LEMMA EventSteps ==
  ASSUME [Next]_vars
  PROVE \/ UNCHANGED events
        \/ \E r \in Rem : AddEvent(r) \/ \E rec \in Recordings : LoadResults(r, rec)
<1>1. CASE DispatchPass
  BY <1>1 DEF DispatchPass, BeginTick, DispatchSkip, InsertSession, InsertFails, DispatchCreate, store
<1>2. CASE AdvancePass
  BY <1>2 DEF AdvancePass, BeginAdvance, PollNothing, AdvanceDispatched, AdvancePrOpened, HealWithoutSession,
     AdvanceHealing, EndTick, store
<1>3. CASE Write \/ Observe
  BY <1>3 DEF Write, CloseSession, UpdateRow, ReleaseSession, Observe, Poll, AdvanceVerifying, store
<1>4. CASE Fault
  BY <1>4 DEF Fault, TickError, Crash, MessageResponseLost, CreateResponseLost, store
<1>5. CASE Web
  BY <1>5 DEF Web, Enqueue, RefreshPrState
<1>6. CASE UNCHANGED vars
  BY <1>6 DEF vars, store
<1> QED
  BY <1>1, <1>2, <1>3, <1>4, <1>5, <1>6 DEF Next

(* What was true after an event stays true along each handler's move.       *)
LEMMA AfterIsStable ==
  ASSUME NEW event \in EventTypes, NEW next \in EventTypes \cup {"none"},
         NEW from \in After(event) \cap Froms(next)
  PROVE To(next) \in After(event)
<1>1. CASE event = "dispatched"
  BY <1>1 DEF After, Froms, To, EventTypes, FsmStates, ActiveStates, TerminalStates
<1>2. CASE event = "pr_opened"
  BY <1>2 DEF After, Froms, To, EventTypes, FsmStates, ActiveStates, TerminalStates
<1>3. CASE event \in {"ci_red", "self_heal"}
  BY <1>3 DEF After, Froms, To, EventTypes
<1>4. CASE event \in EventTypes \ {"dispatched", "pr_opened", "ci_red", "self_heal"}
  BY <1>4 DEF After, Froms, To, EventTypes
<1> QED
  BY <1>1, <1>2, <1>3, <1>4

(* An event is logged when its row is stored, and a row that an event is    *)
(* told of moves on only where the event allows it.                         *)
LEMMA NextLedger ==
  ASSUME SessionInv, SessionInv', FreshInv, PlanInv, Ledger, [Next]_vars
  PROVE Ledger'
<1> USE DEF Ledger, LedgerNeverAhead
<1>0. TypeOK /\ plan.event \in EventTypes \cup {"none"} /\ \A r \in Rem : events[r] \subseteq EventTypes
  BY DEF SessionInv, TypeInv, TypeOK, Plans
<1>1. ASSUME NEW r \in Rem, AddEvent(r) PROVE Ledger'
  <2>1. /\ UNCHANGED row /\ events'[r] = events[r] \cup {plan.event} /\ plan.event # "none"
        /\ \A q \in Rem \ {r} : events'[q] = events[q]
    BY <1>0, <1>1 DEF AddEvent, TypeOK, SessionInv, TypeInv
  <2>2. Live(r) => Stored(r) /\ plan.row.state = To(plan.event)
    BY <1>1 DEF AddEvent, PlanInv, Owing, Fits
  <2>3. Live(r) => row[r].state \in After(plan.event)
    BY <1>0, <2>1, <2>2 DEF Stored, To, After, EventTypes, FsmStates, ActiveStates, TerminalStates
  <2>4. row[r].state # "none"
    BY <1>1 DEF AddEvent, Current, FreshInv, BatchKinds
  <2> QED
    BY <2>1, <2>3, <2>4 DEF Live
<1>2. ASSUME NEW r \in Rem, NEW rec \in Recordings, LoadResults(r, rec) PROVE Ledger'
  <2>1. row'[r].state = rec.state /\ rec.state # "none" /\ \A event \in rec.events : rec.state \in After(event)
    BY <1>2, LoadedRows, RecordingKinds
  <2>2. events'[r] = rec.events /\ \A q \in Rem \ {r} : events'[q] = {}
    BY <1>2 DEF LoadResults
  <2> QED
    BY <2>1, <2>2
<1>3. CASE UNCHANGED events
  <2>1. CASE UNCHANGED row
    BY <1>3, <2>1 DEF Live
  <2>2. ASSUME NEW r \in Rem, UpdateRow(r), Live(r) PROVE Ledger'
    <3>1. row'[r] = plan.row /\ \A q \in Rem \ {r} : row'[q] = row[q]
      BY <1>0, <2>2 DEF UpdateRow, TypeOK
    <3>2. pc = "update" /\ Current(r)
      BY <2>2 DEF UpdateRow
    <3>3. row[r].state \in Froms(plan.event) /\ plan.row.state = To(plan.event)
      BY <2>2, <3>2 DEF Current, FreshInv, CopyIsFresh, PlanInv, Owing, Fits
    <3>4. \A event \in events[r] : row'[r].state \in After(event)
      BY <1>0, <2>2, <3>1, <3>3, AfterIsStable
    <3>5. row'[r].state # "none"
      BY <3>1, <3>2 DEF SessionInv, Locals, FsmStates, ActiveStates, TerminalStates
    <3> QED
      BY <1>3, <3>1, <3>4, <3>5 DEF Live
  <2>3. ASSUME NEW r \in Rem, Enqueue(r) PROVE Ledger'
    <3>1. row[r].state = "none" /\ row'[r].state = "queued" /\ \A q \in Rem \ {r} : row'[q] = row[q]
      BY <1>0, <2>3 DEF Enqueue, NextId, TypeOK, NewRow, NoRow
    <3> QED
      BY <1>3, <3>1 DEF Live
  <2>4. ASSUME NEW r \in Rem, RefreshPrState(r) PROVE Ledger'
    <3>1. /\ row[r].state \in {"merged", "awaiting_merge"} /\ row'[r].state \in {"merged", "awaiting_merge"}
          /\ \A q \in Rem \ {r} : row'[q] = row[q]
      BY <1>0, <2>4 DEF RefreshPrState, TypeOK, Rows
    <3>2. \A event \in EventTypes : row[r].state \in After(event) => row'[r].state \in After(event)
      BY <3>1 DEF After, EventTypes, FsmStates, TerminalStates
    <3>3. \A event \in events[r] : row'[r].state \in After(event)
      BY <1>0, <3>1, <3>2 DEF Live, FsmStates, TerminalStates
    <3> QED
      BY <1>3, <3>1, <3>3 DEF Live
  <2>5. ASSUME NEW r \in Rem, NEW rec \in Recordings, LoadResults(r, rec) PROVE Ledger'
    BY <1>2, <2>5
  <2> QED
    BY <2>1, <2>2, <2>3, <2>4, <2>5, RowSteps
<1> QED
  BY <1>1, <1>2, <1>3, EventSteps

-----------------------------------------------------------------------------
(* Settled rows and their sessions.                                         *)

(* A handler that polled knows every active session of its row, and an      *)
(* off-ramp has closed it before it stores anything.                        *)
ClosedFirst ==
  \A r \in Rem : Current(r) =>
    /\ pc \in {"handle", "close"} => ActiveSessionsOf(r) \subseteq {sid}
    /\ pc \in {"update", "event"} /\ plan.close = "first" => ActiveSessionsOf(r) = {}

(* The only steps that write the table of sessions.                         *)
LEMMA SessSteps ==
  ASSUME [Next]_vars
  PROVE \/ UNCHANGED sess
        \/ \E r \in Rem, s \in Sid, shot \in Snapshots : Poll(r, s, shot)
        \/ CloseSession
        \/ \E r \in Rem : \/ InsertSession(r) \/ ReleaseSession(r)
                          \/ \E rec \in Recordings : LoadResults(r, rec)
<1>1. CASE DispatchPass
  BY <1>1 DEF DispatchPass, BeginTick, DispatchSkip, InsertFails, DispatchCreate, store
<1>2. CASE AdvancePass
  BY <1>2 DEF AdvancePass, BeginAdvance, PollNothing, AdvanceDispatched, AdvancePrOpened, HealWithoutSession,
     AdvanceHealing, EndTick, store
<1>3. CASE Write \/ Observe
  BY <1>3 DEF Write, UpdateRow, AddEvent, Observe, AdvanceVerifying, store
<1>4. CASE Fault
  BY <1>4 DEF Fault, TickError, Crash, MessageResponseLost, CreateResponseLost, store
<1>5. CASE Web
  BY <1>5 DEF Web, Enqueue, RefreshPrState
<1>6. CASE UNCHANGED vars
  BY <1>6 DEF vars, store
<1> QED
  BY <1>1, <1>2, <1>3, <1>4, <1>5, <1>6 DEF Next

(* A replacement leaves no session active.                                  *)
LEMMA NothingActiveLoaded ==
  ASSUME NEW r \in Rem, NEW rec \in Recordings, LoadResults(r, rec)
  PROVE \A s \in Sid : ~sess'[s].active /\ sess'[s].acus = 0
BY DEF LoadResults, NoSession

(* Only an insert makes a session active.                                   *)
LEMMA ActiveOnlyByInsert ==
  ASSUME TypeOK, [Next]_vars, NEW r \in Rem, ~InsertSession(r)
  PROVE ActiveSessionsOf(r)' \subseteq ActiveSessionsOf(r)
<1> USE DEF ActiveSessionsOf, SessionsOf
<1>1. ASSUME NEW q \in Rem, InsertSession(q) PROVE ActiveSessionsOf(r)' \subseteq ActiveSessionsOf(r)
  BY <1>1 DEF InsertSession, TypeOK, SessionRows
<1>2. ASSUME NEW q \in Rem, NEW rec \in Recordings, LoadResults(q, rec)
      PROVE ActiveSessionsOf(r)' \subseteq ActiveSessionsOf(r)
  BY <1>2, NothingActiveLoaded
<1>3. ASSUME NEW q \in Rem, NEW s \in Sid, NEW shot \in Snapshots, Poll(q, s, shot)
      PROVE ActiveSessionsOf(r)' \subseteq ActiveSessionsOf(r)
  BY <1>3 DEF Poll, TypeOK, SessionRows
<1>4. ASSUME CloseSession \/ \E q \in Rem : ReleaseSession(q)
      PROVE ActiveSessionsOf(r)' \subseteq ActiveSessionsOf(r)
  BY <1>4 DEF CloseSession, ReleaseSession, TypeOK, SessionRows
<1> QED
  BY <1>1, <1>2, <1>3, <1>4, SessSteps

(* The poll finds the one active session there can be (OneSessionRow).      *)
LEMMA NextClosedFirst ==
  ASSUME SessionInv, SessionInv', ClosedFirst, [Next]_vars
  PROVE ClosedFirst'
<1>0. TypeInv /\ TypeOK /\ OneSessionRow /\ Locals
  BY DEF SessionInv, TypeInv
<1> SUFFICES ASSUME NEW r \in Rem, Current(r)'
             PROVE /\ pc' \in {"handle", "close"} => ActiveSessionsOf(r)' \subseteq {sid'}
                   /\ pc' \in {"update", "event"} /\ plan'.close = "first" => ActiveSessionsOf(r)' = {}
  BY DEF ClosedFirst
<1>1. CASE UNCHANGED worker
  <2>1. ~InsertSession(r) /\ Current(r)
    BY <1>1 DEF InsertSession, Goto, worker, Current
  <2> QED
    BY <1>0, <1>1, <2>1, ActiveOnlyByInsert DEF ClosedFirst, worker
<1>2. CASE pc' \in {"idle", "next"}
  BY <1>2
<1>3. ASSUME NEW q \in Rem, PollNothing(q)
      PROVE pc' = "handle" /\ ActiveSessionsOf(r)' = {}
  <2>1. q = r
    BY <1>0, <1>3, CurrentUnique DEF PollNothing, Current
  <2> QED
    BY <1>3, <2>1 DEF PollNothing, ActiveSessionsOf, SessionsOf, store
<1>4. ASSUME NEW q \in Rem, NEW s \in Sid, NEW shot \in Snapshots, Poll(q, s, shot)
      PROVE pc' = "handle" /\ ActiveSessionsOf(r)' \subseteq {sid'}
  <2>1. q = r /\ pc' = "handle" /\ sid' = s /\ s \in ActiveSessionsOf(r)
    BY <1>0, <1>4, CurrentUnique DEF Poll, Current
  <2>2. ~InsertSession(r)
    BY <1>4 DEF Poll, InsertSession
  <2>3. ActiveSessionsOf(r) \subseteq {s}
    BY <1>0, <2>1, NullAssumption DEF ActiveSessionsOf, SessionsOf, OneSessionRow, Recorded
  <2> QED
    BY <1>0, <2>1, <2>2, <2>3, ActiveOnlyByInsert
<1>5. ASSUME NEW q \in Rem, NEW s \in Sid, DispatchCreate(q, s) PROVE pc' = "insert"
  BY <1>5 DEF DispatchCreate
<1>6. ASSUME NEW q \in Rem, NEW p \in Plans, Decides(q, p)
      PROVE \/ pc' = "close" /\ ActiveSessionsOf(r)' \subseteq {sid'}
            \/ pc' = "update" /\ (plan'.close = "first" => ActiveSessionsOf(r)' = {})
  <2>1. /\ Current(r) /\ pc = "handle" /\ UNCHANGED <<sess, sid>> /\ plan' = p
        /\ pc' = IF p.close = "first" /\ sid # NoSid THEN "close" ELSE "update"
    BY <1>6 DEF Decides, Start, Current, store
  <2>2. ActiveSessionsOf(r)' \subseteq {sid} /\ ActiveSessionsOf(r)' \subseteq Sid
    BY <2>1 DEF ClosedFirst, ActiveSessionsOf, SessionsOf
  <2> QED
    BY <2>1, <2>2, NullAssumption
<1>7. ASSUME NEW q \in Rem, InsertSession(q) PROVE pc' = "update" /\ plan'.close = "never"
  <2>1. plan.close = "never"
    BY <1>0, <1>7 DEF InsertSession, Locals
  <2> QED
    BY <1>7, <2>1 DEF InsertSession, Goto
<1>8. CASE CloseSession
  <2>1. Current(r) /\ pc = "close" /\ pc' = "update"
    BY <1>8 DEF CloseSession, Goto, Current
  <2>2. ~InsertSession(r)
    BY <2>1 DEF InsertSession
  <2>3. ActiveSessionsOf(r)' \subseteq {sid} /\ sid \notin ActiveSessionsOf(r)'
    BY <1>0, <1>8, <2>1, <2>2, ActiveOnlyByInsert
    DEF ClosedFirst, CloseSession, ActiveSessionsOf, SessionsOf, TypeOK, SessionRows
  <2> QED
    BY <2>1, <2>3
<1>9. ASSUME NEW q \in Rem, UpdateRow(q)
      PROVE pc' = "next" \/ (pc' = "event" /\ (plan'.close = "first" => ActiveSessionsOf(r)' = {}))
  <2>1. CASE Goto("event")
    <3>1. Current(r) /\ pc = "update" /\ UNCHANGED <<sess, plan>> /\ pc' = "event"
      BY <1>9, <2>1 DEF UpdateRow, Goto, Current
    <3> QED
      BY <3>1 DEF ClosedFirst, ActiveSessionsOf, SessionsOf
  <2> QED
    BY <1>9, <2>1 DEF UpdateRow, Done
<1>10. ASSUME NEW q \in Rem, AddEvent(q) PROVE pc' \in {"next", "release"}
  BY <1>10 DEF AddEvent, Goto, Done
<1> QED
  BY <1>0, <1>1, <1>2, <1>3, <1>4, <1>5, <1>6, <1>7, <1>8, <1>9, <1>10, PlanSteps

OffRamped(r) == row[r].state \in {"refused", "failed"} \/ events[r] \cap {"heal_cap", "false_green_detected"} # {}

(* A row settles where its session is closed already; a session is recorded *)
(* for a row that no such event was logged for (Ledger).                    *)
LEMMA NextSettledReleased ==
  ASSUME SessionInv, SessionInv', FreshInv, PlanInv, Ledger, ClosedFirst, SettledReleased, [Next]_vars
  PROVE SettledReleased'
<1>0. TypeInv /\ TypeOK /\ BatchStates /\ Locals /\ plan.event \in EventTypes \cup {"none"}
  BY DEF SessionInv, TypeInv, TypeOK, Plans
<1> SUFFICES ASSUME NEW r \in Rem, OffRamped(r)' PROVE ActiveSessionsOf(r)' = {}
  BY DEF SettledReleased, OffRamped
<1>1. CASE InsertSession(r)
  <2>1. UNCHANGED <<row, events>> /\ Live(r) /\ pc = "insert" /\ Current(r)
    BY <1>1 DEF InsertSession
  <2>2. row[r].state = "queued"
    BY <1>0, <2>1 DEF BatchStates, Locals, Current, Live, FsmStates, ActiveStates, TerminalStates
  <2>3. events[r] \cap {"heal_cap", "false_green_detected"} = {}
    BY <2>1, <2>2 DEF Ledger, LedgerNeverAhead, After
  <2> QED
    BY <2>1, <2>2, <2>3 DEF OffRamped
<1>2. ASSUME ~InsertSession(r), OffRamped(r) \/ ActiveSessionsOf(r) = {} PROVE ActiveSessionsOf(r)' = {}
  BY <1>0, <1>2, ActiveOnlyByInsert DEF SettledReleased, OffRamped
<1>3. ASSUME NEW q \in Rem, NEW rec \in Recordings, LoadResults(q, rec) PROVE ActiveSessionsOf(r)' = {}
  BY <1>3, NothingActiveLoaded DEF ActiveSessionsOf, SessionsOf
<1>4. ASSUME NEW q \in Rem, AddEvent(q) PROVE OffRamped(r) \/ ActiveSessionsOf(r) = {}
  <2>1. /\ UNCHANGED row /\ pc = "event" /\ Current(q)
        /\ events'[r] = events[r] \/ (q = r /\ events'[r] = events[r] \cup {plan.event})
    BY <1>0, <1>4 DEF AddEvent, TypeOK
  <2>2. OffRamped(r) \/ (q = r /\ plan.event \in {"heal_cap", "false_green_detected"})
    BY <2>1 DEF OffRamped
  <2>3. Fits(q, plan)
    BY <2>1 DEF PlanInv, Owing
  <2> QED
    BY <2>1, <2>2, <2>3 DEF Fits, Closing, ClosedFirst
<1>5. ASSUME NEW q \in Rem, UpdateRow(q), Live(q) PROVE OffRamped(r) \/ ActiveSessionsOf(r) = {}
  <2>1. /\ UNCHANGED events /\ pc = "update" /\ Current(q)
        /\ row'[r] = row[r] \/ (q = r /\ row'[r] = plan.row)
    BY <1>0, <1>5 DEF UpdateRow, TypeOK
  <2>2. OffRamped(r) \/ (q = r /\ plan.row.state \in {"refused", "failed"})
    BY <2>1 DEF OffRamped
  <2>3. Fits(q, plan)
    BY <2>1 DEF PlanInv, Owing
  <2>4. plan.row.state \in {"refused", "failed"} => plan.close = "first"
    BY <1>0, <2>3 DEF Fits, To, Closing, EventTypes
  <2> QED
    BY <2>1, <2>2, <2>4 DEF ClosedFirst
<1>6. ASSUME NEW q \in Rem, Enqueue(q) \/ RefreshPrState(q) PROVE OffRamped(r)
  <2>1. UNCHANGED events /\ (row'[r] = row[r] \/ row'[r].state \in {"queued", "merged", "awaiting_merge"})
    BY <1>0, <1>6 DEF Enqueue, RefreshPrState, NewRow, NoRow, TypeOK, Rows
  <2> QED
    BY <2>1 DEF OffRamped
<1>7. CASE UNCHANGED row
  BY <1>1, <1>2, <1>3, <1>4, <1>7, EventSteps DEF OffRamped
<1> QED
  BY <1>1, <1>2, <1>3, <1>5, <1>6, <1>7, RowSteps

-----------------------------------------------------------------------------
StoreInv ==
  SessionInv /\ FreshInv /\ PlanInv /\ Ledger /\ ClosedFirst /\ SettledReleased

(* The empty store satisfies every layer,                                   *)
LEMMA InitStoreInv == Init => StoreInv
<1> SUFFICES ASSUME Init PROVE StoreInv
  OBVIOUS
<1>1. SessionInv
  BY InitSessionInv
<1>2. FreshInv /\ PlanInv /\ ClosedFirst
  BY DEF Init, NoBatch, FreshInv, BatchKinds, CopyIsFresh, PlanInv, ClosedFirst, Current
<1>3. \A r \in Rem : row[r].state = "none" /\ events[r] = {}
  BY DEF Init, NoRow
<1> QED
  BY <1>1, <1>2, <1>3 DEF StoreInv, Ledger, LedgerNeverAhead, SettledReleased

(* and each step keeps them.                                                *)
LEMMA NextStoreInv == StoreInv /\ [Next]_vars => StoreInv'
BY NextSessionInv, NextFreshInv, NextPlanInv, NextLedger, NextClosedFirst, NextSettledReleased DEF StoreInv

(* The state machine of the store as one inductive invariant.               *)
LEMMA StoreCorrect == Spec => []StoreInv
BY InitStoreInv, NextStoreInv, PTL DEF Spec

(* When a row's turn comes, the copy the tick made of it is what the store  *)
(* holds, however many rows were handled and requests served before.        *)
THEOREM CopiesAreFresh == Spec => []CopyIsFresh
<1>1. StoreInv => CopyIsFresh
  BY DEF StoreInv, FreshInv
<1> QED
  BY <1>1, StoreCorrect, PTL

(* The activity log only tells what its row has stored and never taken back. *)
THEOREM LogIsNeverAhead == Spec => []LedgerNeverAhead
<1>1. StoreInv => LedgerNeverAhead
  BY DEF StoreInv, Ledger
<1> QED
  BY <1>1, StoreCorrect, PTL

(* No crash leaves a reservation to a row that an off-ramp has settled.     *)
THEOREM SettledRowsHoldNothing == Spec => []SettledReleased
<1>1. StoreInv => SettledReleased
  BY DEF StoreInv
<1> QED
  BY <1>1, StoreCorrect, PTL

-----------------------------------------------------------------------------
(* The budget guard.  A sum over sessions is the number of their ACUs, so   *)
(* that the argument is about finite sets.                                  *)

Amounts == [Sid -> 0 .. MaxAcuLimit]

Acus == [s \in Sid |-> sess[s].acus]

(* The ACUs one session can cost.                                           *)
LEMMA CapIsFinite == IsFiniteSet(1 .. MaxAcuLimit) /\ Cardinality(1 .. MaxAcuLimit) = MaxAcuLimit
BY FS_Interval, AcuAssumption

LEMMA AcusAreFinite ==
  ASSUME NEW amount \in Amounts
  PROVE IsFiniteSet(AcusOf(amount)) /\ Cardinality(AcusOf(amount)) \in Nat
<1>1. AcusOf(amount) \subseteq Sid \X (1 .. MaxAcuLimit)
  BY AcuAssumption DEF AcusOf, Amounts
<1>2. IsFiniteSet(Sid \X (1 .. MaxAcuLimit))
  BY FS_Product, CapIsFinite, SidAssumption
<1> QED
  BY <1>1, <1>2, FS_Subset, FS_CardinalityType

(* Who spends less, session by session, spends less in all.                 *)
LEMMA AcusAreMonotone ==
  ASSUME NEW less \in Amounts, NEW more \in Amounts, \A s \in Sid : less[s] <= more[s]
  PROVE Cardinality(AcusOf(less)) <= Cardinality(AcusOf(more))
<1>1. AcusOf(less) \subseteq AcusOf(more)
  <2>1. ASSUME NEW s \in Sid PROVE 1 .. less[s] \subseteq 1 .. more[s]
    BY AcuAssumption DEF Amounts
  <2> QED
    BY <2>1 DEF AcusOf
<1> QED
  BY <1>1, AcusAreFinite, FS_Subset

(* Sessions raised to the cap add no more than the cap each.                *)
LEMMA RaisedAcus ==
  ASSUME NEW amount \in Amounts, NEW raised \in Amounts, NEW S \in SUBSET Sid,
         \A s \in Sid \ S : raised[s] = amount[s]
  PROVE Cardinality(AcusOf(raised)) <= Cardinality(AcusOf(amount)) + Cardinality(S) * MaxAcuLimit
<1> DEFINE caps == S \X (1 .. MaxAcuLimit)
<1>1. IsFiniteSet(S) /\ Cardinality(S) \in Nat
  BY SidAssumption, FS_Subset, FS_CardinalityType
<1>2. IsFiniteSet(caps) /\ Cardinality(caps) = Cardinality(S) * MaxAcuLimit
  BY <1>1, CapIsFinite, FS_Product
<1>3. AcusOf(raised) \subseteq AcusOf(amount) \cup caps
  <2>1. ASSUME NEW s \in Sid PROVE {s} \X (1 .. raised[s]) \subseteq AcusOf(amount) \cup caps
    <3>1. CASE s \in S
      BY <3>1, AcuAssumption DEF Amounts
    <3>2. CASE s \notin S
      BY <3>2 DEF AcusOf
    <3> QED
      BY <3>1, <3>2
  <2> HIDE DEF caps
  <2> QED
    BY <2>1 DEF AcusOf
<1> HIDE DEF caps
<1>4. IsFiniteSet(AcusOf(amount)) /\ Cardinality(AcusOf(amount)) \in Nat
  BY AcusAreFinite
<1>5. /\ IsFiniteSet(AcusOf(amount) \cup caps)
      /\ Cardinality(AcusOf(amount) \cup caps)
           = Cardinality(AcusOf(amount)) + Cardinality(caps) - Cardinality(AcusOf(amount) \cap caps)
  BY <1>2, <1>4, FS_Union
<1>6. Cardinality(AcusOf(amount) \cap caps) \in Nat
  BY <1>2, FS_Intersection, FS_CardinalityType
<1>7. Cardinality(caps) \in Nat
  BY <1>2, FS_CardinalityType
<1>8. Cardinality(AcusOf(raised)) \in Nat
  BY AcusAreFinite
<1>9. Cardinality(AcusOf(raised)) <= Cardinality(AcusOf(amount) \cup caps)
  BY <1>3, <1>5, FS_Subset
<1>10. Cardinality(AcusOf(raised)) <= Cardinality(AcusOf(amount)) + Cardinality(caps)
  BY <1>4, <1>5, <1>6, <1>7, <1>8, <1>9
<1> QED
  BY <1>2, <1>10

-----------------------------------------------------------------------------
(* Between the decision to create a session and its record the ceiling has  *)
(* room for one cap more.                                                   *)
BudgetInv ==
  /\ \A s \in Sid : sess[s].acus <= MaxAcuLimit
  /\ RecordedSpendWithinBudget
  /\ pc = "insert" => Cardinality(AcusOf(Committed)) + MaxAcuLimit <= GlobalAcuBudget

LEMMA Amounted ==
  ASSUME TypeOK, \A s \in Sid : sess[s].acus <= MaxAcuLimit
  PROVE Committed \in Amounts /\ Acus \in Amounts
BY AcuAssumption DEF TypeOK, SessionRows, Committed, Acus, Amounts

(* What the guard adds up is no less than what is committed.                *)
LEMMA GuardReserves ==
  ASSUME TypeOK, BudgetInv, BudgetAllows
  PROVE Cardinality(AcusOf(Committed)) + MaxAcuLimit <= GlobalAcuBudget
<1>1. Committed \in Amounts /\ Acus \in Amounts
  BY Amounted DEF BudgetInv
<1>2. \A s \in Sid \ ActiveSessions : Committed[s] = Acus[s]
  BY DEF Committed, Acus, ActiveSessions
<1>3. Cardinality(AcusOf(Committed)) <= Cardinality(AcusOf(Acus)) + Cardinality(ActiveSessions) * MaxAcuLimit
  BY <1>1, <1>2, RaisedAcus DEF ActiveSessions
<1>4. TotalAcus = Cardinality(AcusOf(Acus))
  BY DEF TotalAcus, Acus
<1>5. IsFiniteSet(ActiveSessions) /\ Cardinality(ActiveSessions) \in Nat
  BY SidAssumption, FS_Subset, FS_CardinalityType DEF ActiveSessions
<1>6. Cardinality(ActiveSessions) * MaxAcuLimit \in Nat
  BY <1>5, AcuAssumption
<1>7. Cardinality(AcusOf(Committed)) \in Nat /\ Cardinality(AcusOf(Acus)) \in Nat
  BY <1>1, AcusAreFinite
<1> QED
  BY <1>3, <1>4, <1>6, <1>7, AcuAssumption DEF BudgetAllows

(* A step that commits no session to more than before keeps the invariant.  *)
LEMMA NothingMore ==
  ASSUME TypeOK, TypeOK', BudgetInv, \A s \in Sid : sess'[s].acus <= MaxAcuLimit,
         \A s \in Sid : Committed'[s] <= Committed[s], pc' = "insert" => pc = "insert"
  PROVE BudgetInv'
<1>1. Committed \in Amounts
  BY Amounted DEF BudgetInv
<1>2. Committed' \in Amounts
  BY AcuAssumption DEF TypeOK, SessionRows, Committed, Amounts
<1>3. Cardinality(AcusOf(Committed')) <= Cardinality(AcusOf(Committed))
  BY <1>1, <1>2, AcusAreMonotone
<1>4. Cardinality(AcusOf(Committed')) \in Nat /\ Cardinality(AcusOf(Committed)) \in Nat
  BY <1>1, <1>2, AcusAreFinite
<1>5. AcusOf(Committed)' = AcusOf(Committed')
  BY DEF AcusOf
<1> QED
  BY <1>3, <1>4, <1>5, AcuAssumption DEF BudgetInv, RecordedSpendWithinBudget

LEMMA InitBudgetInv == Init => BudgetInv
<1> SUFFICES ASSUME Init PROVE BudgetInv
  OBVIOUS
<1>1. \A s \in Sid : sess[s].acus = 0 /\ ~sess[s].active
  BY DEF Init, NoSession
<1>2. AcusOf(Committed) = {}
  BY <1>1 DEF AcusOf, Committed
<1> QED
  BY <1>1, <1>2, FS_EmptySet, AcuAssumption DEF Init, BudgetInv, RecordedSpendWithinBudget

(* Only a dispatch that the guard has let through is about to record one.   *)
LEMMA InsertComesFromGuard ==
  ASSUME [Next]_vars, pc' = "insert", pc # "insert"
  PROVE BudgetAllows /\ UNCHANGED sess
<1>1. CASE DispatchPass
  BY <1>1 DEF DispatchPass, BeginTick, DispatchSkip, InsertSession, InsertFails, DispatchCreate, Done, Goto,
     Reset, store
<1>2. CASE AdvancePass
  BY <1>2 DEF AdvancePass, BeginAdvance, PollNothing, AdvanceDispatched, AdvancePrOpened, HealWithoutSession,
     AdvanceHealing, EndTick, Done, Start, Reset
<1>3. CASE Write
  BY <1>3 DEF Write, CloseSession, UpdateRow, AddEvent, ReleaseSession, Done, Goto
<1>4. CASE Observe
  BY <1>4 DEF Observe, Poll, AdvanceVerifying, Done, Start
<1>5. CASE Fault
  BY <1>5 DEF Fault, TickError, Crash, MessageResponseLost, CreateResponseLost, Reset, worker
<1>6. CASE Web
  BY <1>6 DEF Web, Enqueue, RefreshPrState, LoadResults, worker
<1>7. CASE UNCHANGED vars
  BY <1>7 DEF vars, worker
<1> QED
  BY <1>1, <1>2, <1>3, <1>4, <1>5, <1>6, <1>7 DEF Next

(* A session is recorded at the price the guard has set aside for it.       *)
LEMMA InsertKeepsBudgetInv ==
  ASSUME TypeOK, TypeOK', BudgetInv, NEW r \in Rem, InsertSession(r)
  PROVE BudgetInv'
<1>1. \A s \in Sid : sess'[s].acus <= MaxAcuLimit
  BY AcuAssumption DEF InsertSession, TypeOK, BudgetInv
<1>2. Committed \in Amounts /\ Committed' \in Amounts
  BY <1>1, Amounted, AcuAssumption DEF BudgetInv, TypeOK, SessionRows, Committed, Amounts
<1> DEFINE new == {sid} \cap Sid
<1>3. \A s \in Sid \ new : Committed'[s] = Committed[s]
  BY DEF InsertSession, TypeOK, Committed
<1>4. Cardinality(AcusOf(Committed')) <= Cardinality(AcusOf(Committed)) + Cardinality(new) * MaxAcuLimit
  BY <1>2, <1>3, RaisedAcus
<1>5. Cardinality(new) \in {0, 1}
  <2>1. new = {} \/ new = {sid}
    OBVIOUS
  <2>2. Cardinality({}) = 0 /\ Cardinality({sid}) = 1
    BY FS_EmptySet, FS_Singleton
  <2> HIDE DEF new
  <2> QED
    BY <2>1, <2>2
<1>6. Cardinality(new) * MaxAcuLimit <= MaxAcuLimit
  BY <1>5, AcuAssumption
<1>7. Cardinality(AcusOf(Committed')) \in Nat /\ Cardinality(AcusOf(Committed)) \in Nat
  BY <1>2, AcusAreFinite
<1>8. Cardinality(new) * MaxAcuLimit \in Nat
  BY <1>5, AcuAssumption
<1>9. AcusOf(Committed)' = AcusOf(Committed')
  BY DEF AcusOf
<1>10. pc = "insert" /\ pc' # "insert"
  BY DEF InsertSession, Goto
<1> HIDE DEF new
<1> QED
  BY <1>1, <1>4, <1>6, <1>7, <1>8, <1>9, <1>10, AcuAssumption DEF BudgetInv, RecordedSpendWithinBudget

LEMMA NextBudgetInv ==
  ASSUME TypeOK, TypeOK', BudgetInv, [Next]_vars
  PROVE BudgetInv'
<1> USE DEF TypeOK, SessionRows, BudgetInv, Committed
<1>1. CASE UNCHANGED sess
  <2>1. BudgetAllows => Cardinality(AcusOf(Committed)) + MaxAcuLimit <= GlobalAcuBudget
    BY GuardReserves
  <2>2. Committed' = Committed
    BY <1>1
  <2>3. AcusOf(Committed)' = AcusOf(Committed)
    BY <2>2 DEF AcusOf
  <2> QED
    BY <1>1, <2>1, <2>3, InsertComesFromGuard DEF RecordedSpendWithinBudget
<1>2. CASE ~UNCHANGED sess
  <2>1. pc' = "insert" => pc = "insert"
    BY <1>2, InsertComesFromGuard
  <2>2. ASSUME NEW r \in Rem, InsertSession(r) PROVE BudgetInv'
    BY <2>2, InsertKeepsBudgetInv
  <2>3. ASSUME NEW r \in Rem, NEW s \in Sid, NEW shot \in Snapshots, Poll(r, s, shot) PROVE BudgetInv'
    <3>1. shot.acus <= MaxAcuLimit
      BY SnapshotAssumption
    <3>2. \A t \in Sid : sess'[t].acus <= MaxAcuLimit /\ Committed'[t] <= Committed[t]
      BY <2>3, <3>1, AcuAssumption DEF Poll, ActiveSessionsOf, SessionsOf
    <3> QED
      BY <2>1, <3>2, NothingMore
  <2>4. ASSUME CloseSession \/ \E r \in Rem : ReleaseSession(r) PROVE BudgetInv'
    <3>1. \A t \in Sid : sess'[t].acus <= MaxAcuLimit /\ Committed'[t] <= Committed[t]
      BY <2>4, AcuAssumption DEF CloseSession, ReleaseSession
    <3> QED
      BY <2>1, <3>1, NothingMore
  <2>5. ASSUME NEW r \in Rem, NEW rec \in Recordings, LoadResults(r, rec) PROVE BudgetInv'
    <3>1. \A t \in Sid : sess'[t].acus <= MaxAcuLimit /\ Committed'[t] <= Committed[t]
      <4>1. \A t \in Sid : ~sess'[t].active /\ sess'[t].acus = 0
        BY <2>5, NothingActiveLoaded
      <4>2. \A t \in Sid : Committed'[t] = 0
        BY <4>1
      <4> QED
        BY <4>1, <4>2, AcuAssumption
    <3> QED
      BY <2>1, <3>1, NothingMore
  <2> QED
    BY <1>2, <2>2, <2>3, <2>4, <2>5, SessSteps
<1> QED
  BY <1>1, <1>2

(* Whatever crashes and whoever replaces the store, the sessions on record  *)
(* never commit more than the ceiling: the guard reads spend and active     *)
(* sessions before a remote call and the session is recorded after it, and  *)
(* nothing in between can use up what it found.                             *)
THEOREM SpendStaysWithinBudget == Spec => []RecordedSpendWithinBudget
<1>1. TypeInv => TypeOK
  BY DEF TypeInv
<1>2. TypeInv /\ BudgetInv /\ [Next]_vars => (TypeInv /\ BudgetInv)'
  BY <1>1, NextTypeInv, NextBudgetInv DEF TypeInv
<1>3. BudgetInv => RecordedSpendWithinBudget
  BY DEF BudgetInv
<1> QED
  BY <1>2, <1>3, InitTypeInv, InitBudgetInv, PTL DEF Spec

=============================================================================
