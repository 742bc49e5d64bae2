----------------------------- MODULE Simulator -----------------------------
(***************************************************************************)
(* The reconciler in SIMULATE mode: the simulated Devin                    *)
(* (src/devin/simulate.py), the simulated CI (src/github/verifier.py) and  *)
(* the burn-down series, in a worker that is restarted.                    *)
(*                                                                         *)
(* Devin and the CI live in the memory of the worker here, so a restart    *)
(* forgets them while the store remembers: ids are handed out again from   *)
(* one, and a session the store knows may be unknown to the simulator or   *)
(* be another one's by now.  owner, of Reconciler, is the simulator's      *)
(* memory of whom an id was created for.                                   *)
(*                                                                         *)
(* Costs are in tenths of an ACU.  Polls saturate at the last step they    *)
(* tell apart.  A simulated pull request exists nowhere, so nothing is     *)
(* merged, and nobody replaces the store.                                  *)
(***************************************************************************)
EXTENDS Reconciler

CONSTANTS
  Scripts,      \* bound: which outcomes the rows may ask for
  IssueNumber,  \* per remediation; the simulated pull request is numbered after it
  MaxRestarts   \* bound: orderly restarts, between two ticks

SimOutcomes == {"green", "heal", "refuse", "fail"}

ASSUME ScriptAssumption == Scripts \subseteq [Rem -> SimOutcomes]
ASSUME IssueAssumption == IssueNumber \in [Rem -> Nat \ {0}]
ASSUME IdAssumption == Sid = 1 .. Cardinality(Sid)
ASSUME RestartAssumption == MaxRestarts \in Nat

VARIABLES
  desired,      \* store: remediations.sim_outcome
  pull,         \* store: remediations.pr_number
  tail,         \* store: the last row of metrics_snapshots
  counter,      \* the simulated Devin: ids handed out since the start
  mem,          \* the simulated Devin: its sessions
  polls,        \* the simulated CI: looks at a pull request, per heal attempt
  last_counts,  \* the reconciler: what it believes to have appended last
  restarts,
  reissued      \* history: ids handed out again while their session was active

simStore  == <<desired, pull>>
simMemory == <<counter, mem, polls>>
series    == <<tail, last_counts>>
simVars   == <<vars, simStore, simMemory, series, restarts, reissued>>

(* The number in a reconstructed url is a hash: any of these, or another's. *)
Pulls == {IssueNumber[r] : r \in Rem} \cup {0}

Forgotten == [poll |-> -1, outcome |-> "unknown", pull |-> 0, healed |-> FALSE]

NoCounts == [open |-> -1, merged |-> 0, in_flight |-> 0, failed |-> 0, acus |-> 0]

Unpolled == [key \in Pulls \X (0 .. MaxHealAttempts) |-> 0]

SimInit ==
  /\ Init
  /\ desired \in Scripts
  /\ pull = [r \in Rem |-> 0]
  /\ tail = NoCounts /\ last_counts = NoCounts
  /\ counter = 0 /\ mem = [s \in Sid |-> Forgotten] /\ polls = Unpolled
  /\ restarts = 0 /\ reissued = {}

-----------------------------------------------------------------------------
(* The simulated Devin.                                                     *)

Coded(verdict, pr, acus) ==
  [status |-> "exit", detail |-> "finished", verdict |-> verdict, pr |-> pr, acus |-> acus]

Coding(pr, acus) ==
  [status |-> "running", detail |-> "working", verdict |-> "absent", pr |-> pr, acus |-> acus]

(* _snapshot of a session: what it says at each poll.                       *)
View(m) ==
  CASE m.outcome = "fail" /\ m.poll > 0 ->
         [status |-> "error", detail |-> "error", verdict |-> "absent", pr |-> "none", acus |-> 5]
    [] m.outcome = "refuse" /\ m.poll > 0 -> Coded("refused", "none", 4)
    [] m.outcome = "refuse" /\ m.poll = 0 -> Coding("none", 2)
    [] m.outcome # "refuse" /\ m.poll = 0 -> Coding("none", 3)
    [] m.outcome \in {"green", "heal"} /\ m.poll = 1 -> Coding("none", 7)
    [] m.outcome \in {"green", "heal"} /\ m.poll = 2 -> Coding("numbered", 11)
    [] m.outcome \in {"green", "heal"} /\ m.poll = 3 ->
         Coded("remediated", "numbered", IF m.healed THEN 20 ELSE 16)

SimSnapshots ==
  {View(m) : m \in [poll : 0 .. 3, outcome : SimOutcomes, pull : {0}, healed : BOOLEAN]}

ASSUME ShotAssumption == SimSnapshots \subseteq Snapshots

(* An id nobody created since the start: a green session about to finish.   *)
Reconstructed == [poll : {2}, outcome : {"green"}, pull : Pulls, healed : {FALSE}]

Known(s) == IF mem[s] = Forgotten THEN Reconstructed ELSE {mem[s]}

Advanced(m) == [m EXCEPT !.poll = IF @ < 3 THEN @ + 1 ELSE 3]

(* create_session; the first snapshot, taken at once, is poll 0.            *)
SimCreate(r) ==
  /\ counter + 1 \in Sid
  /\ DispatchCreate(r, counter + 1)
  /\ counter' = counter + 1
  /\ mem' = [mem EXCEPT ![counter + 1] =
               [poll |-> 0, outcome |-> desired[r], pull |-> IssueNumber[r], healed |-> FALSE]]
  /\ reissued' = IF sess[counter + 1].active THEN reissued \cup {counter + 1} ELSE reissued
  /\ UNCHANGED <<simStore, polls, series, restarts>>

SimInsert(r) ==
  /\ InsertSession(r)
  /\ ~Recorded(sid)
  /\ UNCHANGED <<simStore, simMemory, series, restarts, reissued>>

(* Variant: an id whose insert failed is handed out again.                  *)
SimInsertFailsAndReturnsId(r) ==
  /\ pc = "insert" /\ Current(r) /\ Recorded(sid)
  /\ Reset
  /\ counter' = counter - 1 /\ owner' = [owner EXCEPT ![sid] = NoRem]
  /\ UNCHANGED <<store, sent, bounds, simStore, mem, polls, series, restarts, reissued>>

(* session_id is UNIQUE: an id the store has seen raises, which ends the    *)
(* tick; the row stays queued and the next tick takes the next id.          *)
SimInsertFails(r) ==
  /\ pc = "insert" /\ Current(r) /\ Recorded(sid)
  /\ Reset
  /\ UNCHANGED <<store, devin, bounds, simStore, simMemory, series, restarts, reissued>>

SimPoll(r, s) ==
  /\ \E m \in Known(s) : mem' = [mem EXCEPT ![s] = Advanced(m)]
  /\ Poll(r, s, View(mem'[s]))
  /\ UNCHANGED <<simStore, counter, polls, series, restarts, reissued>>

(* message_session: a session it knows is back at work; another one is      *)
(* polled instead.                                                          *)
SimMessage(r) ==
  /\ AdvanceHealing(r)
  /\ mem' \in IF mem[sid] = Forgotten
              THEN {[mem EXCEPT ![sid] = Advanced(m)] : m \in Reconstructed}
              ELSE {[mem EXCEPT ![sid].poll = 1, ![sid].healed = TRUE]}
  /\ UNCHANGED <<simStore, counter, polls, series, restarts, reissued>>

-----------------------------------------------------------------------------
(* The simulated CI: pending at first sight; a pull request to be healed is *)
(* red until it was.                                                        *)

(* Variant: red however often it was healed.                                *)
StaysRed(r) == desired[r] = "heal"

IsRed(r) == desired[r] = "heal" /\ row[r].heals = 0

SimVerify(r) ==
  LET key == <<pull[r], row[r].heals>>
      state == IF polls[key] = 0 THEN "pending" ELSE IF IsRed(r) THEN "red" ELSE "green"
  IN /\ AdvanceVerifying(r, [state |-> state, false_green |-> FALSE, head_sha |-> NoSha])
     /\ polls' = [polls EXCEPT ![key] = IF @ < 2 THEN @ + 1 ELSE 2]
     /\ UNCHANGED <<simStore, counter, mem, series, restarts, reissued>>

-----------------------------------------------------------------------------
(* The burn-down.                                                           *)

Count(states) == Cardinality({r \in Rem : row[r].state \in states})

(* _snapshot_metrics counts rows by state and what the sessions cost.       *)
Counts ==
  [open |-> Count(FsmStates \ {"merged"}), merged |-> Count({"merged"}),
   in_flight |-> Count(ActiveStates),
   failed |-> Count({"failed", "refused", "needs_human", "expired"}), acus |-> TotalAcus]

(* Variant: only the number of open rows is compared.                       *)
BacklogChanged == Counts.open # last_counts.open

Changed == Counts # last_counts

SimEndTick ==
  /\ EndTick
  /\ last_counts' = Counts
  /\ tail' = IF Changed THEN Counts ELSE tail
  /\ UNCHANGED <<simStore, simMemory, restarts, reissued>>

(* The counts are remembered before the row is written: when the write      *)
(* fails, the next tick believes it to be there.                            *)
SnapshotFails ==
  /\ pc = "next" /\ pass = "advance" /\ DOMAIN batch = {}
  /\ Changed /\ faults < MaxFaults
  /\ faults' = faults + 1
  /\ last_counts' = Counts
  /\ Reset
  /\ UNCHANGED <<store, devin, loaded, simStore, simMemory, tail, restarts, reissued>>

-----------------------------------------------------------------------------
(* What the worker forgets.                                                 *)

Forget ==
  /\ counter' = 0 /\ mem' = [s \in Sid |-> Forgotten] /\ polls' = Unpolled
  /\ owner' = [s \in Sid |-> NoRem]
  /\ last_counts' = NoCounts

(* SIGTERM: the loop finishes its tick.                                     *)
Restart ==
  /\ pc = "idle" /\ restarts < MaxRestarts
  /\ restarts' = restarts + 1
  /\ Forget
  /\ UNCHANGED <<store, sent, worker, bounds, simStore, tail, reissued>>

(* Killed in the middle of a tick, or an exception that the loop survives.  *)
Interrupt ==
  /\ pc # "idle" /\ faults < MaxFaults
  /\ faults' = faults + 1
  /\ Reset
  /\ \/ Forget
     \/ UNCHANGED <<owner, simMemory, last_counts>>
  /\ UNCHANGED <<store, sent, loaded, simStore, tail, restarts, reissued>>

-----------------------------------------------------------------------------

(* Variant: numbered after the session, not after the pull request.         *)
SimUpdateStoresId(r) ==
  /\ UpdateRow(r)
  /\ pull' = IF plan.event = "pr_opened" THEN [pull EXCEPT ![r] = sid] ELSE pull
  /\ UNCHANGED <<desired, simMemory, series, restarts, reissued>>

(* The number of the pull request is stored with its url.                   *)
SimUpdate(r) ==
  /\ UpdateRow(r)
  /\ pull' = IF plan.event = "pr_opened" THEN [pull EXCEPT ![r] = mem[sid].pull] ELSE pull
  /\ UNCHANGED <<desired, simMemory, series, restarts, reissued>>

Unsimulated ==
  /\ \/ BeginTick \/ BeginAdvance \/ CloseSession
     \/ \E r \in Rem : \/ DispatchSkip(r) \/ PollNothing(r) \/ AdvanceDispatched(r)
                       \/ AdvancePrOpened(r) \/ HealWithoutSession(r)
                       \/ AddEvent(r) \/ ReleaseSession(r)
  /\ UNCHANGED <<simStore, simMemory, series, restarts, reissued>>

SimWorker ==
  \/ Unsimulated \/ SimEndTick
  \/ \E r \in Rem : SimCreate(r) \/ SimInsert(r) \/ SimInsertFails(r) \/ SimMessage(r)
                    \/ SimVerify(r) \/ SimUpdate(r)
  \/ \E r \in Rem, s \in Sid : SimPoll(r, s)

SimArrival ==
  /\ \E r \in Rem : Enqueue(r)
  /\ UNCHANGED <<simStore, simMemory, series, restarts, reissued>>

SimNext == SimWorker \/ SnapshotFails \/ Restart \/ Interrupt \/ SimArrival

(* The loop of the worker goes on, also after a restart.                    *)
SimSpec == SimInit /\ [][SimNext]_simVars /\ WF_simVars(SimWorker)

-----------------------------------------------------------------------------
(* Properties.                                                              *)

SimTypeOK ==
  /\ TypeOK
  /\ desired \in Scripts /\ pull \in [Rem -> Pulls]
  /\ counter \in Sid \cup {0} /\ polls \in [Pulls \X (0 .. MaxHealAttempts) -> 0 .. 2]
  /\ \A s \in Sid : mem[s] # Forgotten => View(mem[s]) \in Snapshots
  /\ restarts \in 0 .. MaxRestarts /\ reissued \subseteq Sid

Settled(r) == row[r].state \in {"refused", "needs_human", "failed", "awaiting_merge"}

(* Another remediation was given the id of its session while that ran.      *)
Aliased(r) == SessionsOf(r) \cap reissued # {}

(* The demo ends as the row asks for, across crashes and restarts, unless   *)
(* its session id was given away: a session the simulator has forgotten may *)
(* turn a refusal or a failure into a green one, but never a green one into *)
(* anything else ("a late poll never drags the FSM back", simulate.py:106), *)
(* and the one that self-heals does so exactly once.                        *)
EndsAsScripted ==
  \A r \in Rem : Settled(r) /\ ~Aliased(r) =>
    CASE desired[r] = "green" -> row[r].state = "awaiting_merge" /\ row[r].heals = 0
      [] desired[r] = "heal" -> row[r].state = "awaiting_merge" /\ row[r].heals = 1
      [] desired[r] = "refuse" ->
           row[r].state \in {"refused"} \cup (IF restarts + faults > 0 THEN {"awaiting_merge"} ELSE {})
      [] desired[r] = "fail" ->
           row[r].state \in {"failed"} \cup (IF restarts + faults > 0 THEN {"awaiting_merge"} ELSE {})

(* "Nothing in-flight lives only in memory, so a restart resumes cleanly"   *)
(* (loop.py:4-5): what is queued ends, also when the worker is restarted    *)
(* between two ticks and the ids begin anew, unless one that is running is  *)
(* given away, which leaves two remediations with one session.              *)
EndsAcrossRestarts ==
  [](faults = 0) => \A r \in Rem : row[r].state = "queued" ~> Settled(r) \/ \E q \in Rem : Aliased(q)

(* The burn-down catches up with the store, also after a restart has        *)
(* forgotten what was appended, as long as no append fails.                 *)
SeriesCatchesUp == [](faults = 0) => []<>(tail = Counts)

=============================================================================
