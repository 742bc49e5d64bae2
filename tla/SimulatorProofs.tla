-------------------------- MODULE SimulatorProofs --------------------------
(***************************************************************************)
(* What holds of the reconciler in SIMULATE mode for any rows, scripts and *)
(* number of restarts, although a restart forgets the simulated Devin, its *)
(* ids begin anew and a session may be known to the store alone.           *)
(***************************************************************************)
EXTENDS Simulator, LifecycleProofs

(* What the simulator remembers of a session.                               *)
Memories == [poll : 0 .. 3, outcome : SimOutcomes, pull : Pulls, healed : BOOLEAN]

MemoryOK ==
  /\ desired \in [Rem -> SimOutcomes]
  /\ mem \in [Sid -> Memories \cup {Forgotten}]

(* A snapshot, and a pull request to be stored, come from a session.        *)
SidKnown == snap # NoSnap \/ plan.event = "pr_opened" => sid \in Sid

SimInv == SimTypeOK /\ TypeInv /\ MemoryOK /\ SidKnown

LEMMA ViewIsShot == ASSUME NEW m \in Memories PROVE View(m) \in Snapshots
<1>1. [m EXCEPT !.pull = 0] \in [poll : 0 .. 3, outcome : SimOutcomes, pull : {0}, healed : BOOLEAN]
  BY DEF Memories
<1>2. View(m) = View([m EXCEPT !.pull = 0])
  BY DEF View, Memories
<1> QED
  BY <1>1, <1>2, ShotAssumption DEF SimSnapshots

LEMMA ForgottenIsNone == Forgotten \notin Memories
BY DEF Forgotten, Memories, SimOutcomes

(* A poll finds the session, or makes up one that is about to finish.       *)
LEMMA PolledIsMemory ==
  ASSUME MemoryOK, NEW s \in Sid, NEW m \in Known(s)
  PROVE Advanced(m) \in Memories
<1>1. m \in Memories
  <2>1. CASE mem[s] = Forgotten
    <3>1. m \in Reconstructed
      BY <2>1 DEF Known
    <3>2. PICK number \in Pulls : m = [poll |-> 2, outcome |-> "green", pull |-> number, healed |-> FALSE]
      BY <3>1, Zenon DEF Reconstructed
    <3>3. [poll |-> 2, outcome |-> "green", pull |-> number, healed |-> FALSE] \in Memories
      BY DEF Memories, SimOutcomes
    <3> QED
      BY <3>2, <3>3
  <2>2. CASE mem[s] # Forgotten
    <3>1. m = mem[s]
      BY <2>2 DEF Known
    <3> QED
      BY <2>2, <3>1 DEF MemoryOK
  <2> QED
    BY <2>1, <2>2
<1> QED
  BY <1>1 DEF Advanced, Memories

(* A message puts a session back to work.                                   *)
LEMMA MessagedIsMemory ==
  ASSUME NEW m \in Memories
  PROVE [m EXCEPT !.poll = 1, !.healed = TRUE] \in Memories
<1>1. [m EXCEPT !.poll = 1] \in Memories
  BY DEF Memories
<1>2. \A n \in Memories : [n EXCEPT !.healed = TRUE] \in Memories
  BY DEF Memories
<1>3. [[m EXCEPT !.poll = 1] EXCEPT !.healed = TRUE] \in Memories
  BY <1>1, <1>2
<1> QED
  BY <1>3

(* What a step does to the part of the state that Reconciler has: one of    *)
(* its steps, or the end of a tick and of the memory of the simulator.      *)
Forgets ==
  /\ UNCHANGED <<row, sess, events, sent, loaded>>
  /\ owner' = owner \/ owner' = [s \in Sid |-> NoRem]
  /\ UNCHANGED worker \/ (Reset /\ (pc \in {"insert", "next"} \/ faults' = faults + 1))
  /\ faults' = faults \/ (faults < MaxFaults /\ faults' = faults + 1)

LEMMA SimSteps ==
  ASSUME MemoryOK, [SimNext]_simVars
  PROVE [Next]_vars \/ Forgets
<1> USE DEF Next
<1>1. CASE Unsimulated
  BY <1>1 DEF Unsimulated, DispatchPass, AdvancePass, Write
<1>2. CASE SimEndTick
  BY <1>2 DEF SimEndTick, AdvancePass
<1>3. ASSUME NEW r \in Rem, SimCreate(r) PROVE [Next]_vars
  BY <1>3 DEF SimCreate, DispatchPass
<1>4. ASSUME NEW r \in Rem, SimInsert(r) \/ SimMessage(r) \/ SimUpdate(r) PROVE [Next]_vars
  BY <1>4 DEF SimInsert, SimMessage, SimUpdate, DispatchPass, AdvancePass, Write
<1>5. ASSUME NEW r \in Rem, SimInsertFails(r) PROVE Forgets
  BY <1>5 DEF SimInsertFails, Forgets, store, devin, bounds
<1>6. ASSUME NEW r \in Rem, SimVerify(r) PROVE [Next]_vars
  <2>1. \A state \in {"pending", "green", "red"} :
          [state |-> state, false_green |-> FALSE, head_sha |-> NoSha] \in CheckResults
    BY DEF CheckResults
  <2>2. PICK state \in {"pending", "green", "red"} :
               AdvanceVerifying(r, [state |-> state, false_green |-> FALSE, head_sha |-> NoSha])
    BY <1>6 DEF SimVerify
  <2> QED
    BY <2>1, <2>2 DEF Observe
<1>7. ASSUME NEW r \in Rem, NEW s \in Sid, SimPoll(r, s) PROVE [Next]_vars
  <2>1. PICK m \in Known(s) : mem' = [mem EXCEPT ![s] = Advanced(m)]
    BY <1>7 DEF SimPoll
  <2>2. mem'[s] \in Memories
    BY <2>1, PolledIsMemory DEF MemoryOK
  <2>3. Poll(r, s, View(mem'[s]))
    BY <1>7 DEF SimPoll
  <2> QED
    BY <2>2, <2>3, ViewIsShot DEF Observe
<1>8. CASE SnapshotFails
  BY <1>8 DEF SnapshotFails, Forgets, store, devin
<1>9. CASE Restart
  BY <1>9 DEF Restart, Forget, Forgets, store, bounds
<1>10. CASE Interrupt
  BY <1>10 DEF Interrupt, Forget, Forgets, store
<1>11. CASE SimArrival
  BY <1>11 DEF SimArrival, Web
<1>12. CASE UNCHANGED simVars
  BY <1>12 DEF simVars
<1> QED
  BY <1>1, <1>2, <1>3, <1>4, <1>5, <1>6, <1>7, <1>8, <1>9, <1>10, <1>11, <1>12 DEF SimNext, SimWorker

(* Forgetting leaves the store typed and within the budget.                 *)
LEMMA ForgettingKeeps ==
  ASSUME TypeInv, BudgetInv, Forgets
  PROVE TypeInv' /\ BudgetInv'
<1> USE DEF TypeInv, TypeOK, Forgets
<1>1. TypeInv'
  <2>1. CASE UNCHANGED worker
    BY <2>1, BoundAssumption DEF worker
  <2>2. CASE Reset
    BY <2>2, BoundAssumption DEF Reset, NoBatch, NoPlan, NoRow, Plans, Rows, PrUrls
  <2> QED
    BY <2>1, <2>2
<1>2. AcusOf(Committed)' = AcusOf(Committed)
  BY DEF Committed, AcusOf
<1>3. pc' = "insert" => pc = "insert"
  BY DEF worker, Reset
<1> QED
  BY <1>1, <1>2, <1>3 DEF BudgetInv, RecordedSpendWithinBudget

-----------------------------------------------------------------------------
(* The types of the simulator.                                              *)

LEMMA InitSimInv == SimInit => SimInv
<1> SUFFICES ASSUME SimInit PROVE SimInv
  OBVIOUS
<1>1. TypeInv
  BY InitTypeInv DEF SimInit
<1>2. MemoryOK /\ SidKnown
  BY ScriptAssumption DEF SimInit, Init, MemoryOK, SidKnown, NoPlan
<1>3. SimTypeOK
  BY <1>1, RestartAssumption DEF SimInit, SimTypeOK, TypeInv, Pulls, Unpolled
<1> QED
  BY <1>1, <1>2, <1>3 DEF SimInv

(* Only a poll finds something; whoever leaves a row forgets its session.   *)
LEMMA NextSidKnown ==
  ASSUME TypeOK, SidKnown, [Next]_vars \/ Forgets
  PROVE SidKnown'
<1> USE DEF SidKnown, TypeOK
<1>1. CASE Forgets
  BY <1>1 DEF Forgets, worker, Reset, NoPlan
<1>2. CASE DispatchPass
  BY <1>2 DEF DispatchPass, BeginTick, DispatchSkip, InsertSession, InsertFails, DispatchCreate, Done, Goto,
     Reset, NoPlan
<1>3. CASE BeginAdvance \/ EndTick \/ \E r \in Rem : PollNothing(r)
  BY <1>3 DEF BeginAdvance, PollNothing, EndTick, Reset, NoPlan
<1>4. ASSUME NEW r \in Rem, AdvanceDispatched(r) PROVE SidKnown'
  <2>1. snap = NoSnap => DispatchedPlans(r) = {}
    BY DEF DispatchedPlans
  <2> QED
    BY <1>4, <2>1 DEF AdvanceDispatched, Done, Start, NoPlan
<1>5. ASSUME NEW r \in Rem, AdvancePrOpened(r) \/ HealWithoutSession(r) \/ AdvanceHealing(r) PROVE SidKnown'
  BY <1>5 DEF AdvancePrOpened, HealWithoutSession, AdvanceHealing, Start
<1>6. ASSUME NEW r \in Rem, NEW result \in CheckResults, AdvanceVerifying(r, result) PROVE SidKnown'
  <2>1. \A p \in VerifyingPlans(r, result) : p.event # "pr_opened"
    BY DEF VerifyingPlans, CheckResults
  <2> QED
    BY <1>6, <2>1 DEF AdvanceVerifying, Done, Start, NoPlan
<1>7. ASSUME NEW r \in Rem, NEW s \in Sid, NEW shot \in Snapshots, Poll(r, s, shot) PROVE SidKnown'
  BY <1>7 DEF Poll
<1>8. CASE Write
  BY <1>8 DEF Write, CloseSession, UpdateRow, AddEvent, ReleaseSession, Done, Goto, NoPlan
<1>9. CASE Fault
  BY <1>9 DEF Fault, TickError, Crash, MessageResponseLost, CreateResponseLost, Reset, worker, NoPlan
<1>10. CASE Web
  BY <1>10 DEF Web, Enqueue, RefreshPrState, LoadResults, worker
<1>11. CASE UNCHANGED vars
  BY <1>11 DEF vars, worker
<1> QED
  BY <1>1, <1>2, <1>3, <1>4, <1>5, <1>6, <1>7, <1>8, <1>9, <1>10, <1>11 DEF Next, AdvancePass, Observe

(* What the simulator has handed out is what the store asked it for.        *)
LEMMA NextMemoryOK ==
  ASSUME SimInv, [SimNext]_simVars
  PROVE MemoryOK'
<1> USE DEF SimInv, MemoryOK
<1>1. desired' = desired
  BY DEF SimNext, SimWorker, Unsimulated, SimEndTick, SimCreate, SimInsert, SimInsertFails, SimMessage, SimVerify,
     SimUpdate, SimPoll, SnapshotFails, Restart, Interrupt, SimArrival, simVars, simStore
<1>2. ASSUME NEW r \in Rem, SimCreate(r) PROVE MemoryOK'
  <2>1. [poll |-> 0, outcome |-> desired[r], pull |-> IssueNumber[r], healed |-> FALSE] \in Memories
    BY DEF Memories, Pulls
  <2> QED
    BY <1>1, <1>2, <2>1 DEF SimCreate
<1>3. ASSUME NEW r \in Rem, NEW s \in Sid, SimPoll(r, s) PROVE MemoryOK'
  BY <1>1, <1>3, PolledIsMemory DEF SimPoll
<1>4. ASSUME NEW r \in Rem, SimMessage(r) PROVE MemoryOK'
  <2>1. sid \in Sid
    BY <1>4 DEF SimMessage, AdvanceHealing, TypeInv, TypeOK
  <2>2. CASE mem[sid] = Forgotten
    BY <1>1, <1>4, <2>1, <2>2, PolledIsMemory DEF SimMessage, Known
  <2>3. CASE mem[sid] # Forgotten
    <3>1. mem' = [mem EXCEPT ![sid].poll = 1, ![sid].healed = TRUE] /\ mem[sid] \in Memories
      BY <1>4, <2>1, <2>3 DEF SimMessage
    <3>2. [mem[sid] EXCEPT !.poll = 1, !.healed = TRUE] \in Memories
      BY <3>1, MessagedIsMemory
    <3> QED
      BY <1>1, <3>1, <3>2
  <2> QED
    BY <2>2, <2>3
<1>5. CASE Restart \/ Interrupt
  BY <1>1, <1>5 DEF Restart, Interrupt, Forget, simMemory
<1>6. CASE UNCHANGED mem
  BY <1>1, <1>6
<1>7. \/ UNCHANGED mem \/ Restart \/ Interrupt
      \/ \E r \in Rem : SimCreate(r) \/ SimMessage(r) \/ \E s \in Sid : SimPoll(r, s)
  BY DEF SimNext, SimWorker, Unsimulated, SimEndTick, SimInsert, SimInsertFails, SimVerify, SimUpdate,
     SnapshotFails, SimArrival, simVars, simMemory
<1> QED
  BY <1>2, <1>3, <1>4, <1>5, <1>6, <1>7

(* The number stored with a pull request is one the simulator knows.        *)
LEMMA NextSimTypes ==
  ASSUME SimInv, TypeOK', MemoryOK', [SimNext]_simVars
  PROVE SimTypeOK'
<1> USE DEF SimInv, SimTypeOK
<1>1. \A s \in Sid : mem'[s] # Forgotten => View(mem'[s]) \in Snapshots
  BY ViewIsShot DEF MemoryOK
<1>2. desired' \in Scripts
  BY DEF SimNext, SimWorker, Unsimulated, SimEndTick, SimCreate, SimInsert, SimInsertFails, SimMessage, SimVerify,
     SimUpdate, SimPoll, SnapshotFails, Restart, Interrupt, SimArrival, simVars, simStore
<1>3. pull' \in [Rem -> Pulls]
  <2>1. CASE UNCHANGED pull
    BY <2>1
  <2>2. ASSUME NEW r \in Rem, SimUpdate(r) PROVE pull' \in [Rem -> Pulls]
    <3>1. CASE plan.event = "pr_opened"
      <4>1. mem[sid] \in Memories \cup {Forgotten}
        BY <3>1 DEF MemoryOK, SidKnown
      <4>2. mem[sid].pull \in Pulls
        BY <4>1 DEF Memories, Forgotten, Pulls
      <4> QED
        BY <2>2, <3>1, <4>2 DEF SimUpdate
    <3> QED
      BY <2>2, <3>1 DEF SimUpdate
  <2>3. UNCHANGED pull \/ \E r \in Rem : SimUpdate(r)
    BY DEF SimNext, SimWorker, Unsimulated, SimEndTick, SimCreate, SimInsert, SimInsertFails, SimMessage,
       SimVerify, SimPoll, SnapshotFails, Restart, Interrupt, SimArrival, simVars, simStore
  <2> QED
    BY <2>1, <2>2, <2>3
<1>4. counter' \in Sid \cup {0} /\ reissued' \subseteq Sid
  <2>1. CASE UNCHANGED <<counter, reissued>>
    BY <2>1
  <2>2. CASE counter' = 0 /\ reissued' = reissued
    BY <2>2
  <2>3. ASSUME NEW r \in Rem, SimCreate(r) PROVE counter' \in Sid \cup {0} /\ reissued' \subseteq Sid
    BY <2>3 DEF SimCreate
  <2>4. \/ UNCHANGED <<counter, reissued>>
        \/ counter' = 0 /\ reissued' = reissued
        \/ \E r \in Rem : SimCreate(r)
    BY DEF SimNext, SimWorker, Unsimulated, SimEndTick, SimInsert, SimInsertFails, SimMessage, SimVerify,
       SimUpdate, SimPoll, SnapshotFails, Restart, Interrupt, Forget, SimArrival, simVars, simMemory
  <2> QED
    BY <2>1, <2>2, <2>3, <2>4
<1>6. restarts' \in 0 .. MaxRestarts
  <2>1. UNCHANGED restarts \/ (restarts < MaxRestarts /\ restarts' = restarts + 1)
    BY DEF SimNext, SimWorker, Unsimulated, SimEndTick, SimCreate, SimInsert, SimInsertFails, SimMessage,
       SimVerify, SimUpdate, SimPoll, SnapshotFails, Restart, Interrupt, SimArrival, simVars
  <2> QED
    BY <2>1, RestartAssumption
<1>5. polls' \in [Pulls \X (0 .. MaxHealAttempts) -> 0 .. 2]
  <2>1. CASE UNCHANGED polls
    BY <2>1
  <2>2. CASE polls' = Unpolled
    BY <2>2 DEF Unpolled
  <2>3. ASSUME NEW r \in Rem, SimVerify(r) PROVE polls' \in [Pulls \X (0 .. MaxHealAttempts) -> 0 .. 2]
    <3>1. polls' = [polls EXCEPT ![<<pull[r], row[r].heals>>] = IF @ < 2 THEN @ + 1 ELSE 2]
      BY <2>3 DEF SimVerify
    <3> DEFINE looks == Pulls \X (0 .. MaxHealAttempts)
               key == <<pull[r], row[r].heals>>
    <3>2. polls \in [looks -> 0 .. 2]
      OBVIOUS
    <3> HIDE DEF looks, key
    <3>3. \A k \in looks : (IF polls[k] < 2 THEN polls[k] + 1 ELSE 2) \in 0 .. 2
      BY <3>2
    <3> QED
      BY <3>1, <3>2, <3>3 DEF looks, key
  <2>4. UNCHANGED polls \/ polls' = Unpolled \/ \E r \in Rem : SimVerify(r)
    BY DEF SimNext, SimWorker, Unsimulated, SimEndTick, SimCreate, SimInsert, SimInsertFails, SimMessage,
       SimUpdate, SimPoll, SnapshotFails, Restart, Interrupt, Forget, SimArrival, simVars, simMemory
  <2> QED
    BY <2>1, <2>2, <2>3, <2>4
<1> QED
  BY <1>1, <1>2, <1>3, <1>4, <1>5, <1>6

(* The types and the budget together, since the one needs the snapshots the *)
(* simulator makes up and the other the caps they respect.                  *)
LEMMA NextSimInv ==
  ASSUME SimInv, BudgetInv, [SimNext]_simVars
  PROVE SimInv' /\ BudgetInv'
<1>1. [Next]_vars \/ Forgets
  BY SimSteps DEF SimInv
<1>2. TypeInv' /\ BudgetInv'
  <2>1. CASE [Next]_vars
    <3>1. TypeInv'
      BY <2>1, NextTypeInv DEF SimInv
    <3> QED
      BY <2>1, <3>1, NextBudgetInv DEF SimInv, TypeInv
  <2>2. CASE Forgets
    BY <2>2, ForgettingKeeps DEF SimInv
  <2> QED
    BY <1>1, <2>1, <2>2
<1>3. SidKnown'
  BY <1>1, NextSidKnown DEF SimInv, TypeInv
<1>4. MemoryOK'
  BY NextMemoryOK
<1>5. SimTypeOK'
  BY <1>2, <1>4, NextSimTypes DEF TypeInv
<1> QED
  BY <1>2, <1>3, <1>4, <1>5 DEF SimInv

LEMMA SimCorrect == SimSpec => [](SimInv /\ BudgetInv)
<1>1. SimInit => SimInv /\ BudgetInv
  BY InitSimInv, InitBudgetInv DEF SimInit
<1>2. SimInv /\ BudgetInv /\ [SimNext]_simVars => (SimInv /\ BudgetInv)'
  BY NextSimInv
<1> QED
  BY <1>1, <1>2, PTL DEF SimSpec

(* Every state of the demo is well typed: a poll finds a snapshot the code  *)
(* can make, also of a session nobody created since the start.              *)
THEOREM SimTypeCorrect == SimSpec => []SimTypeOK
<1>1. SimInv => SimTypeOK
  BY DEF SimInv
<1> QED
  BY <1>1, SimCorrect, PTL

(* The ceiling holds in SIMULATE mode as well, where ids are handed out     *)
(* again, inserts fail and sessions are made up after a restart.            *)
THEOREM SimSpendStaysWithinBudget == SimSpec => []RecordedSpendWithinBudget
<1>1. BudgetInv => RecordedSpendWithinBudget
  BY DEF BudgetInv
<1> QED
  BY <1>1, SimCorrect, PTL

-----------------------------------------------------------------------------
(* The demo.  A row ends as it asks for because the session created for it  *)
(* remembers that, unless a restart has made it forget, and because the     *)
(* simulated CI asks the row itself.                                        *)

(* Forgetting does not touch the store, and a tick that is ended owes       *)
(* nothing.                                                                 *)
LEMMA ForgettingKeepsStoreInv ==
  ASSUME StoreInv, TypeInv', Forgets
  PROVE StoreInv'
<1>1. UNCHANGED <<row, sess, events>>
  BY DEF Forgets
<1>2. CASE UNCHANGED worker
  <2>1. SessionInv'
    BY <1>1, <1>2 DEF StoreInv, SessionInv, BatchStates, Locals, ForeignKey, ClosedNotQueued, OneSessionRow,
       Recorded, SessionsOf, Current, Live, worker
  <2>2. FreshInv' /\ PlanInv' /\ ClosedFirst'
    BY <1>1, <1>2 DEF StoreInv, FreshInv, BatchKinds, CopyIsFresh, PlanInv, Owing, Fits, Stored, ClosedFirst,
       ActiveSessionsOf, SessionsOf, Current, Live, worker
  <2> QED
    BY <1>1, <2>1, <2>2 DEF StoreInv, Ledger, LedgerNeverAhead, SettledReleased, ActiveSessionsOf, SessionsOf, Live
<1>3. CASE Reset
  <2>1. DOMAIN batch' = {} /\ pc' = "idle" /\ pass' = "dispatch" /\ sid' = NoSid
    BY <1>3 DEF Reset, NoBatch
  <2>2. SessionInv'
    BY <1>1, <2>1 DEF StoreInv, SessionInv, BatchStates, Locals, ForeignKey, ClosedNotQueued, OneSessionRow,
       Recorded, Live
  <2>3. FreshInv' /\ PlanInv' /\ ClosedFirst'
    BY <2>1 DEF FreshInv, BatchKinds, CopyIsFresh, PlanInv, ClosedFirst, Current
  <2> QED
    BY <1>1, <2>2, <2>3 DEF StoreInv, Ledger, LedgerNeverAhead, SettledReleased, ActiveSessionsOf, SessionsOf, Live
<1> QED
  BY <1>2, <1>3 DEF Forgets

(* A message that was sent and not counted is cut off by a fault only.      *)
LEMMA ForgettingKeepsCounts ==
  ASSUME StoreInv, CountInv, HealsInv, Forgets
  PROVE CountInv' /\ HealsInv'
<1>0. UNCHANGED <<row, sent, loaded>> /\ TypeOK
  BY DEF Forgets, StoreInv, SessionInv, TypeInv
<1>1. HealsInv'
  BY <1>0 DEF HealsInv, Live
<1>2. faults \in Nat /\ (faults' = faults \/ faults' = faults + 1)
  BY <1>0, BoundAssumption DEF Forgets, TypeOK
<1>3. ASSUME NEW r \in Rem
      PROVE /\ Uncounted(r)' = Uncounted(r) \/ (Uncounted(r)' = 0 /\ faults' = faults + 1)
            /\ Uncounted(r) \in {0, 1}
  <2>1. CASE UNCHANGED worker
    BY <2>1 DEF Uncounted, Current, worker
  <2>2. CASE Reset /\ (pc \in {"insert", "next"} \/ faults' = faults + 1)
    BY <2>2 DEF Uncounted, Reset
  <2> QED
    BY <2>1, <2>2 DEF Forgets, Uncounted
<1>4. MessagesMatchAttempts'
  <2> SUFFICES ASSUME NEW r \in Rem \ loaded, Live(r)
               PROVE /\ row[r].heals + Uncounted(r)' <= sent[r]
                     /\ sent[r] <= row[r].heals + Uncounted(r)' + faults'
    BY <1>0 DEF MessagesMatchAttempts, Live
  <2>1. row[r].heals + Uncounted(r) <= sent[r] /\ sent[r] <= row[r].heals + Uncounted(r) + faults
    BY DEF CountInv, MessagesMatchAttempts
  <2>2. row[r].heals \in Nat /\ sent[r] \in Nat
    BY <1>0 DEF TypeOK, Rows
  <2> QED
    BY <1>2, <1>3, <2>1, <2>2
<1> QED
  BY <1>0, <1>1, <1>4 DEF CountInv

(* A message may be sent again only where a fault kept the attempt from     *)
(* being counted.                                                           *)
LEMMA ForgettingKeepsSendInv ==
  ASSUME StoreInv, SendInv, Forgets
  PROVE SendInv'
<1> SUFFICES ASSUME NEW r \in Rem
             PROVE /\ sent'[r] <= MaxHealAttempts + faults'
                   /\ MaySend(r)' => sent'[r] < MaxHealAttempts + faults'
  BY DEF SendInv
<1>0. /\ faults \in Nat /\ (faults' = faults \/ faults' = faults + 1)
      /\ MaxHealAttempts \in Nat /\ sent[r] \in Nat /\ sent'[r] = sent[r]
  BY BoundAssumption, HealAssumption DEF Forgets, StoreInv, SessionInv, TypeInv, TypeOK
<1>1. sent[r] <= MaxHealAttempts + faults /\ (MaySend(r) => sent[r] < MaxHealAttempts + faults)
  BY DEF SendInv
<1>2. MaySend(r)' => MaySend(r) \/ faults' = faults + 1
  <2>1. CASE UNCHANGED worker
    BY <2>1 DEF Forgets, worker, MaySend, Current, Owing
  <2>2. CASE Reset /\ (pc \in {"insert", "next"} \/ faults' = faults + 1)
    <3>1. r \notin DOMAIN batch'
      BY <2>2 DEF Reset, NoBatch
    <3>2. pc = "next" => ~Owing
      BY DEF Owing
    <3>3. ASSUME pc = "insert", Current(r) PROVE row[r].state # "healing"
      BY <3>3 DEF StoreInv, SessionInv, FreshInv, CopyIsFresh, BatchStates, Locals, Current, Live, FsmStates, ActiveStates
    <3> QED
      BY <2>2, <3>1, <3>2, <3>3 DEF Forgets, MaySend
  <2> QED
    BY <2>1, <2>2 DEF Forgets
<1> QED
  BY <1>0, <1>1, <1>2

(* What is proved of the store holds in SIMULATE mode too.                  *)
SimStoreInv == SimInv /\ BudgetInv /\ StoreInv /\ CountInv /\ HealsInv /\ SendInv

LEMMA NextSimStoreInv == SimStoreInv /\ [SimNext]_simVars => SimStoreInv'
<1> SUFFICES ASSUME SimStoreInv, [SimNext]_simVars PROVE SimStoreInv'
  OBVIOUS
<1>1. SimInv' /\ BudgetInv'
  BY NextSimInv DEF SimStoreInv
<1>2. [Next]_vars \/ Forgets
  BY SimSteps DEF SimStoreInv, SimInv
<1>3. StoreInv'
  BY <1>1, <1>2, NextStoreInv, ForgettingKeepsStoreInv DEF SimStoreInv, SimInv
<1>4. CountInv' /\ HealsInv'
  BY <1>2, <1>3, NextCountInv, NextHealsInv, ForgettingKeepsCounts DEF SimStoreInv
<1>5. SendInv'
  BY <1>2, <1>3, <1>4, NextSendInv, ForgettingKeepsSendInv DEF SimStoreInv
<1> QED
  BY <1>1, <1>3, <1>4, <1>5 DEF SimStoreInv

LEMMA SimStoreCorrect == SimSpec => []SimStoreInv
<1>1. SimInit => SimStoreInv
  BY InitSimInv, InitBudgetInv, InitWorldInv, InitSendInv DEF SimInit, SimStoreInv, WorldInv
<1> QED
  BY <1>1, NextSimStoreInv, PTL DEF SimSpec

(* A restart that forgets the sessions, ids that come back and inserts that *)
(* fail leave the store as orderly as in real operation: one session per    *)
(* remediation, a log that is never ahead, no reservation of a row that     *)
(* left by an off-ramp, attempts that match the messages sent, and no more  *)
(* of those than the cap.                                                   *)
THEOREM SimKeepsStore ==
  SimSpec => [](/\ OneSessionRow /\ CopyIsFresh /\ LedgerNeverAhead /\ SettledReleased
                /\ MessagesMatchAttempts /\ MessagesWithinCap)
<1>1. SimStoreInv => /\ OneSessionRow /\ CopyIsFresh /\ LedgerNeverAhead /\ SettledReleased
                     /\ MessagesMatchAttempts /\ MessagesWithinCap
  BY DEF SimStoreInv, StoreInv, SessionInv, FreshInv, Ledger, CountInv, SendInv, MessagesWithinCap
<1> QED
  BY <1>1, SimStoreCorrect, PTL

(* The demo walks the documented state machine and no other, heal cap       *)
(* included, whatever it forgets.                                           *)
THEOREM SimImplementsLifecycle == SimSpec => FollowsLifecycle
<1>1. SimInit => L!Init
  BY DEF SimInit, Init, L!Init, NoRow
<1>2. SimStoreInv /\ [SimNext]_simVars => [L!Next]_(L!lifecycleVars)
  <2> SUFFICES ASSUME SimStoreInv, [SimNext]_simVars PROVE [L!Next]_(L!lifecycleVars)
    OBVIOUS
  <2>1. CASE [Next]_vars
    BY <2>1, StepImplementsLifecycle DEF SimStoreInv
  <2>2. CASE Forgets
    BY <2>2 DEF Forgets, L!lifecycleVars
  <2> QED
    BY <2>1, <2>2, SimSteps DEF SimStoreInv, SimInv
<1> QED
  BY <1>1, <1>2, SimStoreCorrect, PTL DEF SimSpec, FollowsLifecycle, L!Spec

-----------------------------------------------------------------------------
(* The scripts.                                                             *)

(* The steps that write what the demo is about.                             *)
LEMMA SimWrites ==
  ASSUME [SimNext]_simVars
  PROVE /\ desired' = desired
        /\ UNCHANGED row \/ (\E r \in Rem : SimUpdate(r)) \/ SimArrival
        /\ \/ UNCHANGED sess \/ CloseSession
           \/ \E r \in Rem : \/ SimInsert(r) \/ ReleaseSession(r)
                             \/ \E s \in Sid : SimPoll(r, s)
        /\ \/ UNCHANGED mem \/ Restart \/ Interrupt
           \/ \E r \in Rem : SimCreate(r) \/ SimMessage(r) \/ \E s \in Sid : SimPoll(r, s)
        /\ UNCHANGED reissued \/ \E r \in Rem : SimCreate(r)
<1>1. CASE Unsimulated
  BY <1>1 DEF Unsimulated, BeginTick, BeginAdvance, CloseSession, DispatchSkip, PollNothing, AdvanceDispatched,
     AdvancePrOpened, HealWithoutSession, AddEvent, ReleaseSession, store, simStore, simMemory
<1>2. CASE SimEndTick \/ SnapshotFails \/ Restart \/ Interrupt
  BY <1>2 DEF SimEndTick, EndTick, SnapshotFails, Restart, Interrupt, store, simStore, simMemory
<1>3. ASSUME NEW r \in Rem,
             SimCreate(r) \/ SimInsert(r) \/ SimInsertFails(r) \/ SimMessage(r) \/ SimVerify(r) \/ SimUpdate(r)
      PROVE /\ desired' = desired
            /\ UNCHANGED row \/ SimUpdate(r)
            /\ UNCHANGED sess \/ SimInsert(r)
            /\ UNCHANGED mem \/ SimCreate(r) \/ SimMessage(r)
            /\ UNCHANGED reissued \/ SimCreate(r)
  BY <1>3 DEF SimCreate, DispatchCreate, SimInsert, InsertSession, SimInsertFails, SimMessage, AdvanceHealing,
     SimVerify, AdvanceVerifying, SimUpdate, UpdateRow, store, simStore, simMemory
<1>4. ASSUME NEW r \in Rem, NEW s \in Sid, SimPoll(r, s)
      PROVE desired' = desired /\ UNCHANGED row /\ UNCHANGED reissued
  BY <1>4 DEF SimPoll, Poll, simStore
<1>5. CASE SimArrival
  BY <1>5 DEF SimArrival, Enqueue, simStore, simMemory
<1>6. CASE UNCHANGED simVars
  BY <1>6 DEF simVars, vars, store, simStore, simMemory
<1> QED
  BY <1>1, <1>2, <1>3, <1>4, <1>5, <1>6 DEF SimNext, SimWorker

(* What the steps do to the memory of the worker.                           *)
SimDecides(r) ==
  \/ AdvanceDispatched(r) \/ AdvancePrOpened(r) \/ HealWithoutSession(r) \/ SimMessage(r) \/ SimVerify(r)

LEMMA SimLocal ==
  ASSUME [SimNext]_simVars
  PROVE \/ UNCHANGED worker
        \/ Reset
        \/ BeginTick \/ BeginAdvance
        \/ \E r \in Rem : Current(r) /\ Done(r) /\ UNCHANGED pass
        \/ \E r \in Rem : PollNothing(r) \/ SimCreate(r) \/ SimInsert(r) \/ SimUpdate(r) \/ AddEvent(r)
        \/ \E r \in Rem, s \in Sid : SimPoll(r, s)
        \/ \E r \in Rem : SimDecides(r) /\ UNCHANGED store
        \/ CloseSession
<1>1. CASE Unsimulated
  BY <1>1 DEF Unsimulated, DispatchSkip, ReleaseSession, SimDecides, AdvanceDispatched, AdvancePrOpened,
     HealWithoutSession
<1>2. CASE SimEndTick \/ SnapshotFails \/ Restart \/ Interrupt
  BY <1>2 DEF SimEndTick, EndTick, SnapshotFails, Restart, Interrupt
<1>3. ASSUME NEW r \in Rem, SimInsertFails(r) PROVE Reset
  BY <1>3 DEF SimInsertFails
<1>4. ASSUME NEW r \in Rem, SimMessage(r) \/ SimVerify(r) PROVE SimDecides(r) /\ UNCHANGED store
  BY <1>4 DEF SimDecides, SimMessage, AdvanceHealing, SimVerify, AdvanceVerifying
<1>5. CASE SimArrival
  BY <1>5 DEF SimArrival, Enqueue
<1>6. CASE UNCHANGED simVars
  BY <1>6 DEF simVars, vars
<1> QED
  BY <1>1, <1>2, <1>3, <1>4, <1>5, <1>6 DEF SimNext, SimWorker

(* A decision of a handler: nothing to write, or the first of its writes.   *)
LEMMA DecidingStarts ==
  ASSUME NEW r \in Rem, SimDecides(r)
  PROVE pc = "handle" /\ Current(r) /\ UNCHANGED pass /\ (Done(r) \/ \E p \in {plan'} : Start(p))
BY DEF SimDecides, AdvanceDispatched, AdvancePrOpened, HealWithoutSession, SimMessage, AdvanceHealing,
   SimVerify, AdvanceVerifying, Handling, Start

(* Something was forgotten or cut short.                                    *)
Tainted == restarts + faults > 0

(* What has happened stays so.                                              *)
LEMMA History ==
  ASSUME SimInv, SessionInv, [SimNext]_simVars
  PROVE /\ Tainted => Tainted'
        /\ Restart \/ Interrupt => Tainted'
        /\ \A r \in Rem : SessionsOf(r) \subseteq SessionsOf(r)' /\ (Aliased(r) => Aliased(r)')
<1> USE DEF SimInv, TypeInv, TypeOK, SimTypeOK
<1>1. restarts \in Nat /\ faults \in Nat
  BY RestartAssumption, BoundAssumption
<1>2. restarts' = restarts \/ restarts' = restarts + 1
  BY DEF SimNext, SimWorker, Unsimulated, SimEndTick, SimCreate, SimInsert, SimInsertFails, SimMessage, SimVerify,
     SimUpdate, SimPoll, SnapshotFails, Restart, Interrupt, SimArrival, simVars
<1>3. faults' = faults \/ faults' = faults + 1
  BY SimSteps, BoundsSteps DEF Forgets
<1>4. Restart => restarts' = restarts + 1
  BY DEF Restart
<1>5. Interrupt => faults' = faults + 1
  BY DEF Interrupt
<1>6. ASSUME NEW r \in Rem PROVE SessionsOf(r) \subseteq SessionsOf(r)'
  <2>1. ASSUME NEW q \in Rem, SimInsert(q) PROVE SessionsOf(r) \subseteq SessionsOf(r)'
    <3>1. sid \in Sid /\ sess[sid].rem = NoRem
      BY <2>1 DEF SimInsert, InsertSession, SessionInv, Locals, Recorded
    <3> QED
      BY <2>1, <3>1, NullAssumption DEF SimInsert, InsertSession, SessionsOf
  <2>2. ASSUME NEW q \in Rem, NEW s \in Sid, SimPoll(q, s) PROVE SessionsOf(r) \subseteq SessionsOf(r)'
    BY <2>2 DEF SimPoll, Poll, SessionsOf, SessionRows
  <2>3. ASSUME CloseSession \/ \E q \in Rem : ReleaseSession(q) PROVE SessionsOf(r) \subseteq SessionsOf(r)'
    BY <2>3 DEF CloseSession, ReleaseSession, SessionsOf, SessionRows
  <2>4. CASE UNCHANGED sess
    BY <2>4 DEF SessionsOf
  <2> QED
    BY <2>1, <2>2, <2>3, <2>4, SimWrites
<1>7. reissued \subseteq reissued'
  BY SimWrites DEF SimCreate
<1> QED
  BY <1>1, <1>2, <1>3, <1>4, <1>5, <1>6, <1>7 DEF Tainted, Aliased

(* What the session of a remediation may say: what the row asks for, or,    *)
(* once it may have been forgotten, nothing or green.                       *)
Possible(r) == {desired[r]} \cup (IF Tainted THEN {"unknown", "green"} ELSE {})

Remembered ==
  /\ pc = "insert" => \A r \in Rem : Current(r) => mem[sid].outcome = desired[r]
  /\ \A r \in Rem : \A s \in ActiveSessionsOf(r) \ reissued : mem[s].outcome \in Possible(r)

(* The session in hand is the row's, and the snapshot what it says.         *)
Shown ==
  /\ pc \in {"idle", "next"} => snap = NoSnap
  /\ pc \in {"handle", "close", "update", "event", "release"} /\ pass = "advance" /\ sid # NoSid =>
       \E r \in Rem : Current(r) /\ sid \in SessionsOf(r)
  /\ pc = "handle" /\ snap # NoSnap => \A r \in Rem : Current(r) =>
       sid \in ActiveSessionsOf(r) /\ mem[sid] \in Memories /\ snap = View(mem[sid])

(* A session that is only made up says it is a green one.                   *)
LEMMA RememberedOrGreen ==
  ASSUME MemoryOK, NEW s \in Sid, NEW r \in Rem, mem[s].outcome \in Possible(r), NEW m \in Known(s)
  PROVE Advanced(m).outcome \in Possible(r)
<1>1. CASE mem[s] = Forgotten
  <2>1. mem[s].outcome = "unknown" /\ m.outcome = "green" /\ Advanced(m).outcome = "green"
    <3>1. PICK number \in Pulls : m = [poll |-> 2, outcome |-> "green", pull |-> number, healed |-> FALSE]
      BY <1>1, Zenon DEF Known, Reconstructed
    <3> QED
      BY <1>1, <3>1 DEF Forgotten, Advanced
  <2>2. desired[r] # "unknown"
    BY DEF MemoryOK, SimOutcomes
  <2> QED
    BY <2>1, <2>2 DEF Possible
<1>2. CASE mem[s] # Forgotten
  <2>1. m = mem[s] /\ m \in Memories
    BY <1>2 DEF Known, MemoryOK
  <2>2. Advanced(m).outcome = m.outcome
    BY <2>1 DEF Advanced, Memories
  <2> QED
    BY <2>1, <2>2
<1> QED
  BY <1>1, <1>2

(* A dispatch asks for what the row wants, and what was asked for stays     *)
(* until it is forgotten or the id given away.                              *)
LEMMA NextRemembered ==
  ASSUME SimInv, SessionInv, Remembered, [SimNext]_simVars
  PROVE Remembered'
<1> USE DEF SimInv, TypeInv, TypeOK, MemoryOK
<1>0. /\ desired' = desired /\ (Tainted => Tainted')
      /\ \A r \in Rem : Possible(r) \subseteq Possible(r)'
  BY SimWrites, History DEF Possible
<1>1. ASSUME NEW r \in Rem, SimCreate(r) PROVE Remembered'
  <2>1. counter + 1 \in Sid /\ sid' = counter + 1 /\ pc' = "insert" /\ UNCHANGED <<sess, batch>> /\ Current(r)
    BY <1>1 DEF SimCreate, DispatchCreate, store
  <2>2. mem'[counter + 1].outcome = desired[r] /\ \A s \in Sid \ {counter + 1} : mem'[s] = mem[s]
    BY <1>1, <2>1 DEF SimCreate
  <2>3. \A q \in Rem : Current(q)' => q = r
    BY <2>1, CurrentUnique DEF Current
  <2>4. reissued \subseteq reissued' /\ (sess[counter + 1].active => counter + 1 \in reissued')
    BY <1>1 DEF SimCreate
  <2>5. \A q \in Rem : ActiveSessionsOf(q)' = ActiveSessionsOf(q)
    BY <2>1 DEF ActiveSessionsOf, SessionsOf
  <2>6. \A q \in Rem : \A s \in ActiveSessionsOf(q)' \ reissued' :
          s # counter + 1 /\ s \in Sid /\ s \in ActiveSessionsOf(q) \ reissued
    BY <2>4, <2>5 DEF ActiveSessionsOf, SessionsOf
  <2> QED
    BY <1>0, <2>1, <2>2, <2>3, <2>6 DEF Remembered
<1>2. ASSUME NEW r \in Rem, SimInsert(r) PROVE Remembered'
  <2>1. /\ pc = "insert" /\ pc' = "update" /\ Current(r) /\ sid \in Sid /\ UNCHANGED <<mem, reissued>>
        /\ sess' = [sess EXCEPT ![sid] = [rem |-> r, active |-> TRUE, acus |-> 0]]
    BY <1>2 DEF SimInsert, InsertSession, Goto, simMemory, SessionInv, Locals
  <2>2. \A q \in Rem : \A s \in ActiveSessionsOf(q)' :
          s \in ActiveSessionsOf(q) \/ (s = sid /\ q = r)
    BY <2>1 DEF ActiveSessionsOf, SessionsOf
  <2>3. mem[sid].outcome \in Possible(r)
    BY <2>1 DEF Remembered, Possible
  <2> QED
    BY <1>0, <2>1, <2>2, <2>3 DEF Remembered
<1>3. ASSUME NEW r \in Rem, NEW s \in Sid, SimPoll(r, s) PROVE Remembered'
  <2>1. PICK m \in Known(s) : mem' = [mem EXCEPT ![s] = Advanced(m)]
    BY <1>3 DEF SimPoll
  <2>2. s \in ActiveSessionsOf(r) /\ pc' = "handle" /\ UNCHANGED reissued
    BY <1>3 DEF SimPoll, Poll
  <2>3. \A q \in Rem : ActiveSessionsOf(q)' \subseteq ActiveSessionsOf(q)
    BY <1>3 DEF SimPoll, Poll, ActiveSessionsOf, SessionsOf, SessionRows
  <2>4. \A q \in Rem : s \in ActiveSessionsOf(q) => q = r
    BY <2>2 DEF ActiveSessionsOf, SessionsOf
  <2>5. s \notin reissued => Advanced(m).outcome \in Possible(r)
    BY <2>2, RememberedOrGreen DEF Remembered
  <2>6. \A t \in Sid : mem'[t] = IF t = s THEN Advanced(m) ELSE mem[t]
    BY <2>1
  <2>7. \A q \in Rem : \A t \in ActiveSessionsOf(q)' \ reissued' : mem'[t].outcome \in Possible(q)
    BY <2>2, <2>3, <2>4, <2>5, <2>6 DEF Remembered, ActiveSessionsOf, SessionsOf
  <2> QED
    BY <1>0, <2>2, <2>7 DEF Remembered
<1>4. ASSUME NEW r \in Rem, SimMessage(r) PROVE Remembered'
  <2>1. sid \in Sid /\ pc' \in {"close", "update"} /\ UNCHANGED <<reissued, sess>>
    BY <1>4 DEF SimMessage, AdvanceHealing, Start, store
  <2>2. ASSUME NEW q \in Rem, sid \in ActiveSessionsOf(q) \ reissued PROVE mem'[sid].outcome \in Possible(q)
    <3>1. mem[sid].outcome \in Possible(q)
      BY <2>2 DEF Remembered
    <3>2. CASE mem[sid] = Forgotten
      <4>1. PICK m \in Reconstructed : mem' = [mem EXCEPT ![sid] = Advanced(m)]
        BY <1>4, <3>2 DEF SimMessage
      <4>2. m \in Known(sid)
        BY <3>2 DEF Known
      <4> QED
        BY <2>1, <3>1, <4>1, <4>2, RememberedOrGreen
    <3>3. CASE mem[sid] # Forgotten
      <4>1. mem' = [mem EXCEPT ![sid].poll = 1, ![sid].healed = TRUE] /\ mem[sid] \in Memories
        BY <1>4, <2>1, <3>3 DEF SimMessage
      <4>2. mem'[sid] = [mem[sid] EXCEPT !.poll = 1, !.healed = TRUE]
        BY <2>1, <4>1
      <4>3. mem'[sid].outcome = mem[sid].outcome
        BY <4>1, <4>2 DEF Memories
      <4> QED
        BY <3>1, <4>3
    <3> QED
      BY <3>2, <3>3
  <2>3. \A t \in Sid \ {sid} : mem'[t] = mem[t]
    BY <1>4, <2>1 DEF SimMessage
  <2>4. \A q \in Rem : ActiveSessionsOf(q)' = ActiveSessionsOf(q) /\ ActiveSessionsOf(q) \subseteq Sid
    BY <2>1 DEF ActiveSessionsOf, SessionsOf
  <2> QED
    BY <1>0, <2>1, <2>2, <2>3, <2>4 DEF Remembered
<1>5. CASE Restart \/ Interrupt
  <2>1. pc' = "idle" /\ UNCHANGED <<sess, reissued>> /\ Tainted'
    BY <1>5, History DEF Restart, Interrupt, Reset, store, worker
  <2>2. mem' = mem \/ \A s \in Sid : mem'[s].outcome = "unknown"
    BY <1>5 DEF Restart, Interrupt, Forget, Forgotten, simMemory
  <2>3. \A q \in Rem : ActiveSessionsOf(q)' = ActiveSessionsOf(q) /\ ActiveSessionsOf(q) \subseteq Sid
    BY <2>1 DEF ActiveSessionsOf, SessionsOf
  <2>4. \A q \in Rem : "unknown" \in Possible(q)'
    BY <2>1 DEF Possible
  <2> QED
    BY <1>0, <2>1, <2>2, <2>3, <2>4 DEF Remembered
<1>6. ASSUME UNCHANGED mem,
             ~Restart, ~Interrupt, \A r \in Rem : ~SimInsert(r) /\ ~SimCreate(r) /\ \A s \in Sid : ~SimPoll(r, s)
      PROVE Remembered'
  <2>1. pc' = "insert" => UNCHANGED worker
    <3>1. ASSUME NEW r \in Rem, SimDecides(r) PROVE pc' \in {"next", "close", "update"}
      BY <3>1, DecidingStarts DEF Start, Done
    <3>2. ASSUME NEW r \in Rem, PollNothing(r) \/ SimUpdate(r) \/ AddEvent(r) PROVE pc' # "insert"
      BY <3>2 DEF PollNothing, SimUpdate, UpdateRow, AddEvent, Goto, Done
    <3> QED
      BY <1>6, <3>1, <3>2, SimLocal DEF BeginTick, BeginAdvance, CloseSession, Goto, Done, Reset
  <2>2. \A r \in Rem : ActiveSessionsOf(r)' \subseteq ActiveSessionsOf(r)
    BY <1>6, SimWrites DEF CloseSession, ReleaseSession, ActiveSessionsOf, SessionsOf, SessionRows
  <2>3. UNCHANGED reissued
    BY <1>6, SimWrites
  <2> QED
    BY <1>0, <1>6, <2>1, <2>2, <2>3 DEF Remembered, worker, Current
<1> QED
  BY <1>1, <1>2, <1>3, <1>4, <1>5, <1>6, SimWrites

(* A poll shows what the session says, and until the row is left only its   *)
(* handler touches the session.                                             *)
LEMMA NextShown ==
  ASSUME SimInv, SessionInv, Shown, [SimNext]_simVars
  PROVE Shown'
<1> USE DEF SimInv, TypeInv, TypeOK
<1>1. \A r \in Rem : SessionsOf(r) \subseteq SessionsOf(r)'
  BY History
<1>2. CASE pc' \in {"idle", "next"} /\ snap' = NoSnap
  BY <1>2 DEF Shown
<1>3. CASE UNCHANGED worker
  <2>1. pc = "handle" => UNCHANGED <<sess, mem>>
    BY <1>3, SimWrites DEF CloseSession, SimInsert, InsertSession, ReleaseSession, SimPoll, Poll, Restart, Interrupt,
       Reset, SimCreate, DispatchCreate, SimMessage, AdvanceHealing, Start, worker, Goto, Done
  <2> QED
    BY <1>1, <1>3, <2>1 DEF Shown, worker, Current, ActiveSessionsOf, SessionsOf
<1>4. CASE UNCHANGED <<pass, batch, sid>> /\ pc' \in {"close", "update", "event", "release"}
           /\ (pc \in {"handle", "close", "update", "event", "release"} \/ pass = "dispatch")
  BY <1>1, <1>4 DEF Shown, Current
<1>5. ASSUME NEW r \in Rem, PollNothing(r) PROVE Shown'
  BY <1>5 DEF Shown, PollNothing, SessionInv, Locals
<1>6. ASSUME NEW r \in Rem, NEW s \in Sid, SimPoll(r, s) PROVE Shown'
  <2>1. PICK m \in Known(s) : mem' = [mem EXCEPT ![s] = Advanced(m)]
    BY <1>6 DEF SimPoll
  <2>2. mem'[s] \in Memories
    BY <2>1, PolledIsMemory DEF MemoryOK
  <2>3. /\ pc' = "handle" /\ sid' = s /\ snap' = View(mem'[s]) /\ UNCHANGED <<pass, batch>>
        /\ s \in ActiveSessionsOf(r) /\ sess' = [sess EXCEPT ![s].acus = snap'.acus] /\ Current(r)
    BY <1>6 DEF SimPoll, Poll
  <2>4. s \in ActiveSessionsOf(r)' /\ s \in SessionsOf(r)'
    BY <2>3 DEF ActiveSessionsOf, SessionsOf, SessionRows
  <2>5. Current(r)' /\ \A q \in Rem : Current(q)' => q = r
    BY <2>3, CurrentUnique DEF Current
  <2> QED
    BY <2>2, <2>3, <2>4, <2>5 DEF Shown
<1>7. ASSUME NEW r \in Rem, SimDecides(r) PROVE Shown'
  BY <1>2, <1>4, <1>7, DecidingStarts DEF Done, Start
<1>8. ASSUME NEW r \in Rem, SimCreate(r) PROVE Shown'
  BY <1>8 DEF SimCreate, DispatchCreate, Shown
<1>9. ASSUME NEW r \in Rem, SimInsert(r) \/ SimUpdate(r) \/ AddEvent(r) PROVE Shown'
  <2>1. SimInsert(r) => pass = "dispatch"
    BY DEF SimInsert, InsertSession, SessionInv, Locals
  <2>2. \/ pc' \in {"idle", "next"} /\ snap' = NoSnap
        \/ UNCHANGED <<pass, batch, sid>> /\ pc' \in {"close", "update", "event", "release"}
           /\ (pc \in {"handle", "close", "update", "event", "release"} \/ pass = "dispatch")
    BY <1>9, <2>1 DEF SimInsert, InsertSession, SimUpdate, UpdateRow, AddEvent, Goto, Done
  <2> QED
    BY <1>2, <1>4, <2>2
<1>10. CASE CloseSession
  BY <1>4, <1>10 DEF CloseSession, Goto
<1>11. CASE BeginTick \/ BeginAdvance
  BY <1>2, <1>11 DEF BeginTick, BeginAdvance, Shown
<1>12. CASE Reset \/ \E r \in Rem : Done(r)
  BY <1>2, <1>12 DEF Reset, Done
<1> QED
  BY <1>3, <1>5, <1>6, <1>7, <1>8, <1>9, <1>10, <1>11, <1>12, SimLocal

(* A session with a pull request is one that goes green, at once or after a *)
(* heal; one without it has refused, failed or not finished, and no session *)
(* waits for a person.                                                      *)
LEMMA ViewSays ==
  ASSUME NEW m \in Memories
  PROVE /\ View(m).pr # "none" => m.outcome \in {"green", "heal"}
        /\ View(m).pr = "none" =>
             /\ DeriveOutcome(View(m)) # "needs_input"
             /\ DeriveOutcome(View(m)) = "refused" => m.outcome = "refuse"
             /\ DeriveOutcome(View(m)) = "failure" => m.outcome = "fail"
<1>1. m.poll \in 0 .. 3 /\ m.outcome \in {"green", "heal", "refuse", "fail"}
  BY DEF Memories, SimOutcomes
<1> USE DEF DeriveOutcome, Refused, Broken, Finished, Remediated, HasPrUrl, Coding, Coded
<1>2. CASE m.outcome = "fail" /\ m.poll > 0
  <2>1. View(m) = [status |-> "error", detail |-> "error", verdict |-> "absent", pr |-> "none", acus |-> 5]
    BY <1>1, <1>2 DEF View
  <2> QED
    BY <1>2, <2>1
<1>3. CASE m.outcome = "refuse" /\ m.poll > 0
  <2>1. View(m) = Coded("refused", "none", 4)
    BY <1>1, <1>3 DEF View
  <2> QED
    BY <1>3, <2>1
<1>4. CASE m.poll = 0
  <2>1. View(m) = Coding("none", 2) \/ View(m) = Coding("none", 3)
    BY <1>1, <1>4 DEF View
  <2> QED
    BY <2>1
<1>5. CASE m.outcome \in {"green", "heal"} /\ m.poll > 0
  <2>1. View(m) = Coding("none", 7) \/ View(m).pr = "numbered"
    BY <1>1, <1>5 DEF View
  <2> QED
    BY <1>5, <2>1
<1> QED
  BY <1>1, <1>2, <1>3, <1>4, <1>5

NoneDeleted == \A r \in Rem : row[r].state # "deleted"

Undecided == {"pr_opened", "verifying", "healing"}

(* A row that waits for its checks has its session.                         *)
Attended ==
  /\ \A r \in Rem : row[r].state \in Undecided => ActiveSessionsOf(r) # {}
  /\ pc \in {"close", "update"} =>
       \A r \in Rem : Current(r) /\ plan.row.state \in Undecided => ActiveSessionsOf(r) # {}

(* No row is handed to a person.                                            *)
NoOffRamp == plan.event \notin {"needs_human", "heal_cap", "false_green_detected"}

(* How far a row may be that asks for what it asks for.                     *)
Scripted(r, line) ==
  /\ line.state \in ActiveStates \cup {"refused", "failed", "awaiting_merge"}
  /\ line.heals <= (IF desired[r] = "heal" THEN 1 ELSE 0)
  /\ line.state \in {"queued", "dispatched", "healing"} => line.heals = 0
  /\ line.state \in Undecided \cup {"awaiting_merge"} => desired[r] \in {"green", "heal"} \/ Tainted
  /\ line.state = "healing" => desired[r] = "heal"
  /\ line.state = "awaiting_merge" /\ desired[r] = "heal" => line.heals = 1
  /\ line.state = "refused" => desired[r] = "refuse"
  /\ line.state = "failed" => desired[r] = "fail"

RowsScripted == \A r \in Rem : Live(r) /\ ~Aliased(r) => Scripted(r, row[r])

PlanScripted ==
  pc \in {"insert", "close", "update"} =>
    \A r \in Rem : Current(r) /\ ~Aliased(r) => Scripted(r, plan.row)

Standing == SimInv /\ StoreInv /\ NoneDeleted /\ Remembered /\ Shown

DemoInv == Standing /\ BudgetInv /\ Attended /\ NoOffRamp /\ RowsScripted /\ PlanScripted

(* The copy at hand is the row.                                             *)
LEMMA CopyIsRow ==
  ASSUME Standing, NEW r \in Rem, Current(r), pc \notin {"event", "release"}
  PROVE batch[r] = row[r] /\ row[r] \in Rows /\ Live(r)
<1>1. TypeOK /\ FreshInv /\ r \in DOMAIN batch
  BY DEF Standing, SimInv, TypeInv, StoreInv, Current
<1>2. row[r] \in Rows /\ row[r].state \notin {"none", "deleted"}
  BY <1>1 DEF TypeOK, FreshInv, BatchKinds, Standing, NoneDeleted
<1>3. Live(r)
  BY <1>2 DEF Rows, Live
<1> QED
  BY <1>1, <1>2, <1>3 DEF FreshInv, CopyIsFresh

(* What the session in hand was asked for.                                  *)
LEMMA SessionIsScripted ==
  ASSUME Standing, pc = "handle", snap # NoSnap, NEW r \in Rem, Current(r)
  PROVE \E m \in Memories : snap = View(m) /\ (~Aliased(r) => m.outcome \in Possible(r))
BY DEF Standing, Shown, Remembered, Aliased, ActiveSessionsOf

(* A first look at a session never hands the row to a person.               *)
LEMMA DispatchedAsScripted ==
  ASSUME Standing, RowsScripted, NEW r \in Rem, AdvanceDispatched(r), NEW p \in DispatchedPlans(r)
  PROVE /\ p.event \in {"pr_opened", "refused", "failed"}
        /\ p.row.state \in Undecided => ActiveSessionsOf(r) # {}
        /\ ~Aliased(r) => Scripted(r, p.row)
<1>1. pc = "handle" /\ Current(r) /\ batch[r].state = "dispatched"
  BY DEF AdvanceDispatched, Handling
<1>2. batch[r] = row[r] /\ row[r] \in Rows /\ Live(r)
  BY <1>1, CopyIsRow
<1>3. ~Aliased(r) => row[r].heals = 0
  BY <1>1, <1>2 DEF RowsScripted, Scripted
<1>4. snap # NoSnap
  BY DEF DispatchedPlans
<1>5. PICK m \in Memories : snap = View(m) /\ (~Aliased(r) => m.outcome \in Possible(r))
  BY <1>1, <1>4, SessionIsScripted
<1>6. ActiveSessionsOf(r) # {}
  BY <1>1, <1>4 DEF Standing, Shown
<1>7. CASE snap.pr # "none"
  <2>1. p.event = "pr_opened" /\ p.row = [Becomes(r, "pr_opened") EXCEPT !.pr = snap.pr]
    BY <1>4, <1>7 DEF DispatchedPlans
  <2>2. p.row.state = "pr_opened" /\ p.row.heals = row[r].heals
    BY <1>2, <2>1 DEF Becomes, Rows
  <2>3. ~Aliased(r) => desired[r] \in {"green", "heal"} \/ Tainted
    BY <1>5, <1>7, ViewSays DEF Possible
  <2> QED
    BY <1>3, <1>6, <2>1, <2>2, <2>3 DEF Scripted, ActiveStates, Undecided
<1>8. CASE snap.pr = "none"
  <2>1. DeriveOutcome(snap) # "needs_input" /\ DeriveOutcome(snap) \in Outcomes
    BY <1>5, <1>8, ViewSays, OutcomeTyped
  <2>2. \/ p.event = "refused" /\ p.row = Becomes(r, "refused") /\ DeriveOutcome(snap) = "refused"
        \/ p.event = "failed" /\ p.row = Becomes(r, "failed") /\ DeriveOutcome(snap) = "failure"
    BY <1>4, <1>8, <2>1 DEF DispatchedPlans, Outcomes
  <2>3. p.row.state = p.event /\ p.row.heals = row[r].heals
    BY <1>2, <2>2, BecomesKeeps
  <2>4. ~Aliased(r) => (p.event = "refused" => desired[r] = "refuse") /\ (p.event = "failed" => desired[r] = "fail")
    BY <1>5, <1>8, <2>2, ViewSays DEF Possible
  <2> QED
    BY <1>3, <2>2, <2>3, <2>4 DEF Scripted, ActiveStates, Undecided
<1> QED
  BY <1>7, <1>8

(* The simulated CI is red for a row to be healed until it was, once.       *)
LEMMA VerifiedAsScripted ==
  ASSUME MaxHealAttempts > 0, Standing, Attended, RowsScripted, NEW r \in Rem, SimVerify(r), ~Done(r)
  PROVE \E p \in {plan'} :
          /\ Start(p)
          /\ p.event \in {"ci_red", "verified_green"}
          /\ p.row.state \in Undecided => ActiveSessionsOf(r) # {}
          /\ ~Aliased(r) => Scripted(r, p.row)
<1>1. PICK state \in {"pending", "green", "red"} :
             /\ AdvanceVerifying(r, [state |-> state, false_green |-> FALSE, head_sha |-> NoSha])
             /\ state = "red" => IsRed(r)
             /\ state = "green" => ~IsRed(r)
  BY DEF SimVerify
<1> DEFINE result == [state |-> state, false_green |-> FALSE, head_sha |-> NoSha]
<1>2. pc = "handle" /\ Current(r) /\ batch[r].state = "verifying"
  BY <1>1 DEF AdvanceVerifying, Handling
<1>3. batch[r] = row[r] /\ row[r] \in Rows /\ Live(r)
  BY <1>2, CopyIsRow
<1>4. ActiveSessionsOf(r) # {}
  BY <1>2, <1>3 DEF Attended, Undecided
<1>5. PICK p \in VerifyingPlans(r, result) : Start(p)
  BY <1>1 DEF AdvanceVerifying
<1>6. p = plan'
  BY <1>5 DEF Start
<1>7. row[r].heals \in Nat
  BY <1>3 DEF Rows
<1>8. ~Aliased(r) => Scripted(r, row[r])
  BY <1>3 DEF RowsScripted
<1>9. CASE state = "red"
  <2>1. desired[r] = "heal" /\ row[r].heals = 0
    BY <1>1, <1>9 DEF IsRed
  <2>2. ~CapReached(r)
    BY <1>3, <2>1, HealAssumption DEF CapReached
  <2>3. p = [close |-> "never", row |-> [Becomes(r, "healing") EXCEPT !.healed = NoSha], event |-> "ci_red"]
    BY <1>5, <1>9, <2>2 DEF VerifyingPlans
  <2>4. p.event = "ci_red" /\ p.row.state = "healing" /\ p.row.heals = row[r].heals
    BY <1>3, <2>3, BecomesKeeps DEF Becomes, Rows
  <2> QED
    BY <1>4, <1>5, <1>6, <2>1, <2>4 DEF Scripted, ActiveStates, Undecided
<1>10. CASE state = "green"
  <2>1. p = [close |-> "last", row |-> Becomes(r, "awaiting_merge"), event |-> "verified_green"]
    BY <1>5, <1>10 DEF VerifyingPlans
  <2>2. p.event = "verified_green" /\ p.row.state = "awaiting_merge" /\ p.row.heals = row[r].heals
    BY <1>3, <2>1, BecomesKeeps
  <2>3. desired[r] = "heal" => row[r].heals # 0
    BY <1>1, <1>10 DEF IsRed
  <2> QED
    BY <1>2, <1>3, <1>5, <1>6, <1>7, <1>8, <2>2, <2>3 DEF Scripted, Undecided
<1>11. state # "pending"
  BY <1>5 DEF VerifyingPlans
<1> QED
  BY <1>9, <1>10, <1>11

(* Whatever a handler decides to write is in the script.                    *)
LEMMA DecidedAsScripted ==
  ASSUME MaxHealAttempts > 0, Standing, Attended, RowsScripted, NEW r \in Rem, SimDecides(r), ~Done(r)
  PROVE \E p \in {plan'} :
          /\ Start(p)
          /\ p.event \in {"pr_opened", "refused", "failed", "none", "self_heal", "ci_red", "verified_green"}
          /\ p.row.state \in Undecided => ActiveSessionsOf(r) # {}
          /\ ~Aliased(r) => Scripted(r, p.row)
<1>1. pc = "handle" /\ Current(r)
  BY DecidingStarts
<1>2. batch[r] = row[r] /\ row[r] \in Rows /\ Live(r)
  BY <1>1, CopyIsRow
<1>3. row[r].state \in Undecided => ActiveSessionsOf(r) # {}
  BY DEF Attended
<1>4. ~Aliased(r) => Scripted(r, row[r])
  BY <1>2 DEF RowsScripted
<1>5. CASE AdvanceDispatched(r)
  BY <1>5, DispatchedAsScripted DEF AdvanceDispatched, Start
<1>6. CASE AdvancePrOpened(r)
  <2>1. row[r].state = "pr_opened"
    BY <1>2, <1>6 DEF AdvancePrOpened, Handling
  <2> DEFINE p == [close |-> "never", row |-> Becomes(r, "verifying"), event |-> "none"]
  <2>2. Start(p) /\ p = plan'
    BY <1>6 DEF AdvancePrOpened, Start
  <2>3. p.event = "none" /\ p.row.state = "verifying" /\ p.row.heals = row[r].heals
    BY <1>2, BecomesKeeps
  <2> HIDE DEF p
  <2> QED
    BY <1>3, <1>4, <2>1, <2>2, <2>3 DEF Scripted, ActiveStates, Undecided
<1>7. CASE HealWithoutSession(r)
  <2>1. row[r].state = "healing" /\ sid = NoSid
    BY <1>2, <1>7 DEF HealWithoutSession, Handling
  <2>2. ActiveSessionsOf(r) \subseteq {sid} /\ ActiveSessionsOf(r) \subseteq Sid
    BY <1>1 DEF Standing, StoreInv, ClosedFirst, ActiveSessionsOf, SessionsOf
  <2> QED
    BY <1>3, <2>1, <2>2, NullAssumption DEF Undecided
<1>8. CASE SimMessage(r)
  <2>1. row[r].state = "healing"
    BY <1>2, <1>8 DEF SimMessage, AdvanceHealing, Handling
  <2> DEFINE line == [Becomes(r, "verifying") EXCEPT !.heals = @ + 1]
             p == [close |-> "never", row |-> line, event |-> "self_heal"]
  <2>2. Start(p) /\ p = plan'
    BY <1>8 DEF SimMessage, AdvanceHealing, Start
  <2>3. p.event = "self_heal" /\ p.row.state = "verifying" /\ p.row.heals = row[r].heals + 1
    BY <1>2 DEF Becomes, Rows
  <2> HIDE DEF p
  <2> QED
    BY <1>3, <1>4, <2>1, <2>2, <2>3 DEF Scripted, ActiveStates, Undecided
<1>9. CASE SimVerify(r)
  BY <1>9, VerifiedAsScripted
<1> QED
  BY <1>5, <1>6, <1>7, <1>8, <1>9 DEF SimDecides

(* A session is closed before its row is refused or failed,                 *)
LEMMA ClosingSettles ==
  ASSUME DemoInv, pc = "close", NEW r \in Rem, Current(r)
  PROVE row[r].state \notin Undecided /\ plan.row.state \notin Undecided
<1>1. Fits(r, plan) /\ plan.close = "first" /\ plan.event \in EventTypes \cup {"none"}
  BY DEF DemoInv, Standing, StoreInv, PlanInv, Owing, SimInv, TypeInv, TypeOK, Plans
<1>2. plan.event \in {"refused", "failed"}
  BY <1>1 DEF Fits, Closing, EventTypes, DemoInv, NoOffRamp
<1>3. batch[r].state = "dispatched" /\ plan.row.state \in {"refused", "failed"}
  BY <1>1, <1>2 DEF Fits, Froms, To
<1> QED
  BY <1>3, CopyIsRow DEF DemoInv, Undecided

(* or after it was found green.                                             *)
LEMMA ReleasingSettles ==
  ASSUME DemoInv, pc = "release", NEW r \in Rem, Current(r)
  PROVE row[r].state \notin Undecided
<1>1. Fits(r, plan) /\ plan.close = "last" /\ plan.event \in EventTypes \cup {"none"} /\ (Live(r) => Stored(r))
  BY DEF DemoInv, Standing, StoreInv, PlanInv, Owing, SimInv, TypeInv, TypeOK, Plans
<1>2. plan.event = "verified_green"
  BY <1>1 DEF Fits, Closing, EventTypes
<1>3. plan.row.state = "awaiting_merge"
  BY <1>1, <1>2 DEF Fits, To
<1> QED
  BY <1>1, <1>3 DEF Stored, Live, Undecided, FsmStates, ActiveStates

(* What is owed stays in the script until it is written.                    *)
LEMMA NextOwed ==
  ASSUME MaxHealAttempts > 0, DemoInv, [SimNext]_simVars
  PROVE /\ NoOffRamp' /\ PlanScripted'
        /\ pc' \in {"close", "update"} =>
             \A r \in Rem : Current(r)' /\ plan'.row.state \in Undecided => ActiveSessionsOf(r)' # {}
<1> DEFINE Covered == pc' \in {"close", "update"} =>
             \A r \in Rem : Current(r)' /\ plan'.row.state \in Undecided => ActiveSessionsOf(r)' # {}
           Goal == NoOffRamp' /\ PlanScripted' /\ Covered
<1> USE DEF DemoInv, Standing, NoOffRamp
<1>0. /\ TypeOK /\ SessionInv
      /\ desired' = desired /\ (Tainted => Tainted') /\ \A r \in Rem : ~Aliased(r)' => ~Aliased(r)
  BY SimWrites, History DEF SimInv, TypeInv, StoreInv
<1>1. CASE pc' \in {"idle", "next", "handle", "event", "release"} /\ plan' \in {plan, NoPlan}
  BY <1>1 DEF PlanScripted, NoPlan
<1>2. CASE UNCHANGED worker
  <2>1. pc \in {"close", "update"} => UNCHANGED sess
    BY <1>2, SimWrites DEF CloseSession, SimInsert, InsertSession, ReleaseSession, SimPoll, Poll, Goto, worker
  <2>2. Covered
    BY <1>2, <2>1 DEF worker, Current, ActiveSessionsOf, SessionsOf, Attended
  <2> QED
    BY <1>0, <1>2, <2>2 DEF worker, Current, PlanScripted, Scripted
<1>3. ASSUME NEW r \in Rem, SimCreate(r) PROVE Goal
  <2>1. /\ pc = "next" /\ pass = "dispatch" /\ Current(r) /\ pc' = "insert" /\ UNCHANGED batch
        /\ plan' = [close |-> "never", row |-> [batch[r] EXCEPT !.state = "dispatched"], event |-> "dispatched"]
    BY <1>3 DEF SimCreate, DispatchCreate
  <2>2. batch[r] = row[r] /\ row[r] \in Rows /\ Live(r) /\ batch[r].state = "queued"
    BY <2>1, CopyIsRow DEF StoreInv, FreshInv, BatchKinds, Current
  <2>3. ~Aliased(r) => row[r].heals = 0
    BY <2>2 DEF RowsScripted, Scripted
  <2>4. plan'.row.state = "dispatched" /\ plan'.row.heals = row[r].heals /\ plan'.event = "dispatched"
    BY <2>1, <2>2 DEF Rows
  <2>5. \A q \in Rem : Current(q)' => q = r
    BY <1>0, <2>1, CurrentUnique DEF Current
  <2> QED
    BY <1>0, <2>1, <2>3, <2>4, <2>5 DEF PlanScripted, Scripted, ActiveStates, Undecided
<1>4. ASSUME NEW r \in Rem, SimInsert(r) PROVE Goal
  <2>1. /\ pc = "insert" /\ pc' = "update" /\ Current(r) /\ sid \in Sid /\ UNCHANGED <<batch, plan>>
        /\ sess' = [sess EXCEPT ![sid] = [rem |-> r, active |-> TRUE, acus |-> 0]]
    BY <1>0, <1>4 DEF SimInsert, InsertSession, Goto, SessionInv, Locals
  <2>2. sid \in ActiveSessionsOf(r)'
    BY <1>0, <2>1 DEF ActiveSessionsOf, SessionsOf, TypeOK
  <2>3. \A q \in Rem : Current(q)' => q = r
    BY <1>0, <2>1, CurrentUnique DEF Current
  <2> QED
    BY <1>0, <2>1, <2>2, <2>3 DEF PlanScripted, Scripted, Current
<1>5. ASSUME NEW r \in Rem, SimDecides(r) PROVE Goal
  <2>1. pc = "handle" /\ Current(r) /\ (Done(r) => pc' = "next" /\ plan' = NoPlan)
    BY <1>5, DecidingStarts DEF Done
  <2>2. ASSUME ~Done(r) PROVE Goal
    <3>1. /\ Start(plan') /\ NoOffRamp'
          /\ plan'.row.state \in Undecided => ActiveSessionsOf(r) # {}
          /\ ~Aliased(r) => Scripted(r, plan'.row)
      BY <1>5, <2>2, DecidedAsScripted
    <3>2. \A q \in Rem : Current(q)' => q = r
      BY <1>0, <2>1, <3>1, CurrentUnique DEF Current, Start
    <3>3. UNCHANGED sess
      BY <2>1, <3>1, SimWrites DEF CloseSession, SimInsert, InsertSession, ReleaseSession, SimPoll, Poll
    <3>4. Covered
      BY <3>1, <3>2, <3>3 DEF ActiveSessionsOf, SessionsOf
    <3>5. PlanScripted'
      BY <1>0, <3>1, <3>2 DEF PlanScripted, Scripted
    <3> QED
      BY <3>1, <3>4, <3>5
  <2> QED
    BY <1>1, <2>1, <2>2
<1>6. CASE CloseSession
  <2>1. pc = "close" /\ pc' = "update" /\ UNCHANGED <<plan, batch>>
    BY <1>6 DEF CloseSession, Goto
  <2>2. \A r \in Rem : Current(r) => plan.row.state \notin Undecided
    BY <2>1, ClosingSettles
  <2> QED
    BY <1>0, <2>1, <2>2 DEF PlanScripted, Scripted, Current
<1>7. ASSUME NEW r \in Rem, PollNothing(r) \/ SimUpdate(r) \/ AddEvent(r) \/ \E s \in Sid : SimPoll(r, s)
      PROVE Goal
  <2>1. pc' \in {"idle", "next", "handle", "event", "release"} /\ plan' \in {plan, NoPlan}
    BY <1>7 DEF PollNothing, SimUpdate, UpdateRow, AddEvent, SimPoll, Poll, Goto, Done
  <2> QED
    BY <1>1, <2>1
<1>8. CASE Reset \/ BeginTick \/ BeginAdvance \/ \E r \in Rem : Done(r)
  <2>1. pc' \in {"idle", "next", "handle", "event", "release"} /\ plan' \in {plan, NoPlan}
    BY <1>8 DEF Reset, BeginTick, BeginAdvance, Done
  <2> QED
    BY <1>1, <2>1
<1> QED
  BY <1>1, <1>2, <1>3, <1>4, <1>5, <1>6, <1>7, <1>8, SimLocal

(* What is written was owed, and a session is closed only for a row that    *)
(* ends.                                                                    *)
LEMMA NextWritten ==
  ASSUME DemoInv, [SimNext]_simVars
  PROVE /\ NoneDeleted' /\ RowsScripted'
        /\ \A r \in Rem : row'[r].state \in Undecided => ActiveSessionsOf(r)' # {}
<1> DEFINE Covered == \A r \in Rem : row'[r].state \in Undecided => ActiveSessionsOf(r)' # {}
<1> USE DEF DemoInv, Standing
<1>0. /\ TypeOK /\ SessionInv
      /\ desired' = desired /\ (Tainted => Tainted') /\ \A r \in Rem : ~Aliased(r)' => ~Aliased(r)
  BY SimWrites, History DEF SimInv, TypeInv, StoreInv
<1>1. ASSUME NEW r \in Rem, SimUpdate(r) PROVE NoneDeleted' /\ RowsScripted' /\ Covered
  <2>1. pc = "update" /\ Current(r) /\ row' = (IF Live(r) THEN [row EXCEPT ![r] = plan.row] ELSE row) /\ UNCHANGED sess
    BY <1>1 DEF SimUpdate, UpdateRow
  <2>2. plan.row.state \in FsmStates
    BY <1>0, <2>1 DEF SessionInv, Locals
  <2>3. \A q \in Rem : row'[q] = row[q] \/ (q = r /\ row'[q] = plan.row)
    BY <1>0, <2>1 DEF TypeOK
  <2>4. NoneDeleted'
    BY <2>2, <2>3 DEF NoneDeleted, FsmStates, ActiveStates, TerminalStates
  <2>5. RowsScripted'
    BY <1>0, <2>1, <2>3, CopyIsRow DEF RowsScripted, PlanScripted, Scripted, Live
  <2>6. Covered
    BY <2>1, <2>3 DEF Attended, ActiveSessionsOf, SessionsOf
  <2> QED
    BY <2>4, <2>5, <2>6
<1>2. CASE SimArrival
  <2>1. UNCHANGED sess /\ \A q \in Rem : row'[q] = row[q] \/ row'[q] = NewRow
    BY <1>0, <1>2 DEF SimArrival, Enqueue, TypeOK
  <2>2. NewRow.state = "queued" /\ NewRow.heals = 0
    BY DEF NewRow, NoRow
  <2>3. NoneDeleted' /\ Covered
    BY <2>1, <2>2 DEF NoneDeleted, Undecided, Attended, ActiveSessionsOf, SessionsOf
  <2>4. RowsScripted'
    BY <1>0, <2>1, <2>2 DEF RowsScripted, Scripted, ActiveStates, Undecided, Live
  <2> QED
    BY <2>3, <2>4
<1>3. CASE UNCHANGED row
  <2>1. NoneDeleted' /\ RowsScripted'
    BY <1>0, <1>3 DEF NoneDeleted, RowsScripted, Scripted, Live
  <2>2. CASE UNCHANGED sess
    BY <1>3, <2>1, <2>2 DEF Attended, ActiveSessionsOf, SessionsOf
  <2>3. ASSUME NEW r \in Rem, SimInsert(r) PROVE Covered
    <3>1. sid \in Sid /\ sess[sid].rem = NoRem /\ sess' = [sess EXCEPT ![sid] = [rem |-> r, active |-> TRUE, acus |-> 0]]
      BY <1>0, <2>3 DEF SimInsert, InsertSession, SessionInv, Locals, Recorded
    <3>2. \A q \in Rem : ActiveSessionsOf(q) \subseteq ActiveSessionsOf(q)'
      BY <3>1, NullAssumption DEF ActiveSessionsOf, SessionsOf
    <3> QED
      BY <1>3, <3>2 DEF Attended
  <2>4. ASSUME NEW r \in Rem, NEW s \in Sid, SimPoll(r, s) PROVE Covered
    <3>1. \A q \in Rem : ActiveSessionsOf(q) \subseteq ActiveSessionsOf(q)'
      BY <1>0, <2>4 DEF SimPoll, Poll, ActiveSessionsOf, SessionsOf, TypeOK, SessionRows
    <3> QED
      BY <1>3, <3>1 DEF Attended
  <2>5. CASE CloseSession
    <3>1. pc = "close" /\ pass = "advance" /\ sess' = [sess EXCEPT ![sid].active = FALSE]
      BY <1>0, <2>5 DEF CloseSession, SessionInv, Locals
    <3>2. CASE sid = NoSid
      BY <1>3, <2>2, <3>1, <3>2, NullAssumption, <1>0 DEF TypeOK
    <3>3. CASE sid # NoSid
      <4>1. PICK r \in Rem : Current(r) /\ sid \in SessionsOf(r)
        BY <3>1, <3>3 DEF Shown
      <4>2. row[r].state \notin Undecided
        BY <3>1, <4>1, ClosingSettles
      <4>3. \A q \in Rem \ {r} : ActiveSessionsOf(q) \subseteq ActiveSessionsOf(q)'
        BY <1>0, <3>1, <4>1 DEF ActiveSessionsOf, SessionsOf, TypeOK, SessionRows
      <4> QED
        BY <1>3, <2>1, <4>2, <4>3 DEF Attended
    <3> QED
      BY <3>2, <3>3
  <2>6. ASSUME NEW r \in Rem, ReleaseSession(r) PROVE Covered
    <3>1. pc = "release" /\ pass = "advance" /\ Current(r) /\ sess' = [sess EXCEPT ![sid].active = FALSE]
      BY <1>0, <2>6 DEF ReleaseSession, SessionInv, Locals
    <3>2. CASE sid = NoSid
      BY <1>3, <2>2, <3>1, <3>2, NullAssumption, <1>0 DEF TypeOK
    <3>3. CASE sid # NoSid
      <4>1. sid \in SessionsOf(r)
        BY <1>0, <3>1, <3>3, CurrentUnique DEF Shown
      <4>2. row[r].state \notin Undecided
        BY <3>1, ReleasingSettles
      <4>3. \A q \in Rem \ {r} : ActiveSessionsOf(q) \subseteq ActiveSessionsOf(q)'
        BY <1>0, <3>1, <4>1 DEF ActiveSessionsOf, SessionsOf, TypeOK, SessionRows
      <4> QED
        BY <1>3, <4>2, <4>3 DEF Attended
    <3> QED
      BY <3>2, <3>3
  <2> QED
    BY <2>1, <2>2, <2>3, <2>4, <2>5, <2>6, SimWrites
<1> QED
  BY <1>1, <1>2, <1>3, SimWrites

LEMMA InitDemoInv == SimInit => DemoInv
<1> SUFFICES ASSUME SimInit PROVE DemoInv
  OBVIOUS
<1> USE DEF SimInit, Init
<1>1. SimInv /\ StoreInv /\ BudgetInv
  BY InitSimInv, InitStoreInv, InitBudgetInv
<1>2. Remembered /\ Shown
  BY NullAssumption DEF Remembered, Shown, ActiveSessionsOf, SessionsOf, NoSession
<1>3. NoneDeleted /\ Attended /\ NoOffRamp /\ RowsScripted /\ PlanScripted
  BY DEF NoneDeleted, Attended, NoOffRamp, RowsScripted, PlanScripted, NoRow, NoPlan, Live, Undecided, FsmStates,
     ActiveStates, TerminalStates
<1> QED
  BY <1>1, <1>2, <1>3 DEF DemoInv, Standing

LEMMA NextDemoInv ==
  ASSUME MaxHealAttempts > 0, DemoInv, [SimNext]_simVars
  PROVE DemoInv'
<1>1. SimInv /\ SessionInv /\ StoreInv /\ BudgetInv /\ Remembered /\ Shown
  BY DEF DemoInv, Standing, StoreInv
<1>2. SimInv' /\ BudgetInv'
  BY <1>1, NextSimInv
<1>3. StoreInv'
  <2>1. [Next]_vars \/ Forgets
    BY <1>1, SimSteps DEF SimInv
  <2> QED
    BY <1>1, <1>2, <2>1, NextStoreInv, ForgettingKeepsStoreInv DEF SimInv
<1>4. Remembered' /\ Shown'
  BY <1>1, NextRemembered, NextShown
<1>5. NoOffRamp' /\ PlanScripted' /\ NoneDeleted' /\ RowsScripted' /\ Attended'
  BY NextOwed, NextWritten DEF Attended
<1> QED
  BY <1>2, <1>3, <1>4, <1>5 DEF DemoInv, Standing

(* A row that has settled has followed its script to the end.               *)
LEMMA SettledAsScripted == DemoInv => EndsAsScripted
<1> SUFFICES ASSUME DemoInv, NEW r \in Rem, Settled(r), ~Aliased(r)
             PROVE CASE desired[r] = "green" -> row[r].state = "awaiting_merge" /\ row[r].heals = 0
                     [] desired[r] = "heal" -> row[r].state = "awaiting_merge" /\ row[r].heals = 1
                     [] desired[r] = "refuse" -> row[r].state \in {"refused"} \cup
                          (IF restarts + faults > 0 THEN {"awaiting_merge"} ELSE {})
                     [] desired[r] = "fail" -> row[r].state \in {"failed"} \cup
                          (IF restarts + faults > 0 THEN {"awaiting_merge"} ELSE {})
  BY DEF EndsAsScripted
<1>1. Live(r)
  BY DEF Settled, Live, FsmStates, TerminalStates
<1>2. Scripted(r, row[r])
  BY <1>1 DEF DemoInv, RowsScripted
<1>3. row[r].heals \in Nat /\ desired[r] \in {"green", "heal", "refuse", "fail"}
  BY DEF DemoInv, Standing, SimInv, TypeInv, TypeOK, Rows, MemoryOK, SimOutcomes
<1>4. row[r].state \in {"refused", "failed", "awaiting_merge"}
  BY <1>2 DEF Settled, Scripted, ActiveStates
<1>5. CASE desired[r] = "green"
  <2>1. row[r].state = "awaiting_merge" /\ row[r].heals = 0
    BY <1>2, <1>3, <1>4, <1>5 DEF Scripted
  <2> QED
    BY <1>5, <2>1
<1>6. CASE desired[r] = "heal"
  <2>1. row[r].state = "awaiting_merge" /\ row[r].heals = 1
    BY <1>2, <1>4, <1>6 DEF Scripted
  <2> QED
    BY <1>6, <2>1
<1>7. CASE desired[r] \in {"refuse", "fail"}
  <2>1. \/ row[r].state = "refused" /\ desired[r] = "refuse"
        \/ row[r].state = "failed" /\ desired[r] = "fail"
        \/ row[r].state = "awaiting_merge" /\ restarts + faults > 0
    BY <1>2, <1>4, <1>7 DEF Scripted, Tainted
  <2> QED
    BY <1>7, <2>1
<1> QED
  BY <1>3, <1>5, <1>6, <1>7

(* However the demo is crashed and restarted, each row ends as its script   *)
(* says, or green where a session may have been forgotten, unless its id    *)
(* was given away; a row is healed once, provided that one heal is allowed. *)
THEOREM DemoEndsAsScripted ==
  ASSUME MaxHealAttempts > 0
  PROVE SimSpec => []EndsAsScripted
<1>1. SimInit => DemoInv
  BY InitDemoInv
<1>2. DemoInv /\ [SimNext]_simVars => DemoInv'
  BY NextDemoInv
<1> QED
  BY <1>1, <1>2, SettledAsScripted, PTL DEF SimSpec

=============================================================================
