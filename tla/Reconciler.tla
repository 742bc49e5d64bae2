----------------------------- MODULE Reconciler -----------------------------
(***************************************************************************)
(* The reconciler (src/reconciler/loop.py) over the SQLite store           *)
(* (src/store/db.py), with the web process writing to the same store.      *)
(*                                                                         *)
(* Every store method opens a connection, runs and commits, so a handler   *)
(* is not atomic: it is a sequence of transactions and of calls to Devin   *)
(* and GitHub.  The model takes one step per transaction or call, and the  *)
(* worker can die, or its tick can raise, between any two.  What the       *)
(* worker holds in memory (the list it is walking, the snapshot it polled, *)
(* the writes it still owes) is in the variables pc .. plan and is lost    *)
(* then; the store and what Devin was asked to do stay.                    *)
(*                                                                         *)
(* Two reads or a read and the first write after it are one step where     *)
(* nothing another process does between them is visible afterwards: the    *)
(* dedupe and budget reads of a dispatch with the create call that follows *)
(* them, and the poll of a session with the update of its row.             *)
(*                                                                         *)
(* The environment is open here: a poll may return any member of Snapshots *)
(* and a verification any result.  ControlPlane closes it.                 *)
(*                                                                         *)
(* A definition whose comment begins with "Variant" is a plausible bug: it *)
(* is not part of the specification and is put in the place of the one     *)
(* that follows it to see that a property notices.                         *)
(***************************************************************************)
EXTENDS Integers, FiniteSets, Schemas

CONSTANTS
  Rem,              \* remediation ids; AUTOINCREMENT hands them out in order, once
  Sid,              \* session ids that Devin can hand out
  Sha,              \* commits of the pull requests
  NoRem, NoSid, NoSha, NoSnap,
  Snapshots,        \* what a poll may return
  MaxAcuLimit,      \* max_acu_limit: the cap passed on every create
  GlobalAcuBudget,  \* global_acu_budget: the ceiling
  MaxHealAttempts,  \* max_heal_attempts
  MaxFaults,        \* bound: crashes in the middle of a handler and lost responses
  MaxLoads          \* bound: replacements of the whole store

ASSUME RemAssumption == Rem \subseteq Nat /\ IsFiniteSet(Rem)
ASSUME SidAssumption == IsFiniteSet(Sid)
ASSUME NullAssumption == NoRem \notin Rem /\ NoSid \notin Sid /\ NoSha \notin Sha
ASSUME AcuAssumption == MaxAcuLimit \in Nat /\ GlobalAcuBudget \in Nat
ASSUME HealAssumption == MaxHealAttempts \in Nat
ASSUME BoundAssumption == MaxFaults \in Nat /\ MaxLoads \in Nat
(* Devin stops a session at the cap it was created with. *)
ASSUME SnapshotAssumption ==
  /\ Snapshots \subseteq Snapshot
  /\ \A shot \in Snapshots : shot.acus <= MaxAcuLimit
  /\ NoSnap \notin Snapshots

ActiveStates == {"queued", "dispatched", "pr_opened", "verifying", "healing"}

TerminalStates == {"merged", "refused", "needs_human", "failed", "expired", "open", "deferred"}

FsmStates == ActiveStates \cup TerminalStates \cup {"awaiting_merge"}

EventTypes == {"dispatched", "pr_opened", "refused", "failed", "needs_human", "false_green_detected",
               "heal_cap", "ci_red", "verified_green", "self_heal"}

VARIABLES
  row,     \* remediations: per id the columns fsm_state, pr_url/pr_number, heal_attempts, last_healed_sha
  sess,    \* sessions: per session_id the columns remediation_id, is_active, acus_consumed
  events,  \* events: per remediation the types logged so far
  owner,   \* Devin: the remediation a created session is tagged with
  sent,    \* Devin: heal messages delivered per remediation
  pc, pass, batch, sid, snap, plan,  \* the worker's memory
  faults,  \* how many crashes in a handler and lost responses there have been
  loaded   \* the ids of the rows that came with a replacement of the store

store  == <<row, sess, events>>
devin  == <<owner, sent>>
worker == <<pc, pass, batch, sid, snap, plan>>
bounds == <<faults, loaded>>
vars   == <<store, devin, worker, bounds>>

(* "none" is an id not handed out yet, "deleted" one whose row is gone. *)
NoRow == [state |-> "none", pr |-> "none", heals |-> 0, healed |-> NoSha]
GoneRow == [NoRow EXCEPT !.state = "deleted"]
NewRow == [NoRow EXCEPT !.state = "queued"]

NoSession == [rem |-> NoRem, active |-> FALSE, acus |-> 0]

(* The writes a handler still owes: the row it will store, the event it     *)
(* will log, and when it closes the session.                                *)
NoPlan == [close |-> "never", row |-> NoRow, event |-> "none"]

Rows == [state : FsmStates \cup {"none", "deleted"}, pr : PrUrls, heals : Nat, healed : Sha \cup {NoSha}]

SessionRows == [rem : Rem \cup {NoRem}, active : BOOLEAN, acus : Nat]

Plans == [close : {"first", "last", "never"}, row : Rows, event : EventTypes \cup {"none"}]

(* The list a tick walks, as the rows read for the ids still to be handled. *)
NoBatch == [r \in {} |-> NoRow]

Live(r) == row[r].state \in FsmStates

Recorded(s) == sess[s].rem # NoRem

SessionsOf(r) == {s \in Sid : sess[s].rem = r}

(* active_session_for, as the set of its at most one answer (OneSessionRow). *)
ActiveSessionsOf(r) == {s \in SessionsOf(r) : sess[s].active}

ActiveSessions == {s \in Sid : sess[s].active}

(* The ACUs of all sessions, one by one.                                    *)
AcusOf(amount) == UNION {{s} \X (1 .. amount[s]) : s \in Sid}

(* total_acus: SUM(acus_consumed).                                          *)
TotalAcus == Cardinality(AcusOf([s \in Sid |-> sess[s].acus]))

(* Variant: the session about to be created is not reserved for.            *)
BudgetForgetsTheNewOne ==
  TotalAcus + Cardinality(ActiveSessions) * MaxAcuLimit <= GlobalAcuBudget

(* BudgetGuard.evaluate: sessions that run count twice, at what they have   *)
(* consumed and at their cap.                                               *)
BudgetAllows ==
  TotalAcus + Cardinality(ActiveSessions) * MaxAcuLimit + MaxAcuLimit <= GlobalAcuBudget

(* The row the for loop is at: ORDER BY id.                                 *)
Current(r) == r \in DOMAIN batch /\ \A q \in DOMAIN batch : r <= q

Without(r) == [q \in DOMAIN batch \ {r} |-> batch[q]]

Select(states) == [r \in {q \in Rem : row[q].state \in states} |-> row[r]]

Init ==
  /\ row = [r \in Rem |-> NoRow]
  /\ sess = [s \in Sid |-> NoSession]
  /\ events = [r \in Rem |-> {}]
  /\ owner = [s \in Sid |-> NoRem]
  /\ sent = [r \in Rem |-> 0]
  /\ pc = "idle" /\ pass = "dispatch" /\ batch = NoBatch
  /\ sid = NoSid /\ snap = NoSnap /\ plan = NoPlan
  /\ faults = 0 /\ loaded = {}

-----------------------------------------------------------------------------
(* The skeleton every handler shares: Done(r) leaves the row and goes on    *)
(* with the list, Start(p) begins the writes of p, Next... follow in order. *)

Done(r) ==
  /\ pc' = "next" /\ batch' = Without(r)
  /\ sid' = NoSid /\ snap' = NoSnap /\ plan' = NoPlan

(* Variant: no handler closes its session before it updates the row.        *)
StartWithoutClose(p) ==
  /\ plan' = p
  /\ pc' = "update"
  /\ UNCHANGED <<batch, sid, snap>>

(* Variant: every handler closes the session it polled.                     *)
StartAlwaysCloses(p) ==
  /\ plan' = p
  /\ pc' = IF sid # NoSid THEN "close" ELSE "update"
  /\ UNCHANGED <<batch, sid, snap>>

Start(p) ==
  /\ plan' = p
  /\ pc' = IF p.close = "first" /\ sid # NoSid THEN "close" ELSE "update"
  /\ UNCHANGED <<batch, sid, snap>>

Goto(l) == pc' = l /\ UNCHANGED <<pass, batch, sid, snap, plan>>

Reset ==
  /\ pc' = "idle" /\ pass' = "dispatch" /\ batch' = NoBatch
  /\ sid' = NoSid /\ snap' = NoSnap /\ plan' = NoPlan

-----------------------------------------------------------------------------
(* tick and _dispatch.                                                      *)

(* Variant: no dedupe on the active session.                                *)
NeverRunning(r) == FALSE

AlreadyRunning(r) == ActiveSessionsOf(r) # {}

BeginTick ==
  /\ pc = "idle"
  /\ pc' = "next" /\ pass' = "dispatch" /\ batch' = Select({"queued"})
  /\ UNCHANGED <<store, devin, bounds, sid, snap, plan>>

(* Variant: the dedupe and budget tests come after the create call.         *)
DispatchSkipAfterCreate(r) ==
  /\ pc = "next" /\ pass = "dispatch" /\ Current(r)
  /\ AlreadyRunning(r) \/ ~BudgetAllows
  /\ \E s \in Sid : owner[s] = NoRem /\ owner' = [owner EXCEPT ![s] = r]
  /\ Done(r)
  /\ UNCHANGED <<store, sent, bounds, pass>>

DispatchSkip(r) ==
  /\ pc = "next" /\ pass = "dispatch" /\ Current(r)
  /\ AlreadyRunning(r) \/ ~BudgetAllows
  /\ Done(r)
  /\ UNCHANGED <<store, devin, bounds, pass>>

(* devin.create_session: from here on the session runs and costs money.     *)
DispatchCreate(r, s) ==
  /\ pc = "next" /\ pass = "dispatch" /\ Current(r)
  /\ ~AlreadyRunning(r) /\ BudgetAllows
  /\ owner[s] = NoRem
  /\ owner' = [owner EXCEPT ![s] = r]
  /\ pc' = "insert" /\ sid' = s
  /\ plan' = [close |-> "never", row |-> [batch[r] EXCEPT !.state = "dispatched"], event |-> "dispatched"]
  /\ UNCHANGED <<store, bounds, sent, pass, batch, snap>>

(* The client posts again when an answer is a 5xx (client.py:60-64), also   *)
(* when the session was created all the same.                               *)
CreateResponseLost(r, s) ==
  /\ pc = "next" /\ pass = "dispatch" /\ Current(r)
  /\ ~AlreadyRunning(r) /\ BudgetAllows
  /\ owner[s] = NoRem
  /\ owner' = [owner EXCEPT ![s] = r]
  /\ faults < MaxFaults /\ faults' = faults + 1
  /\ UNCHANGED <<store, sent, worker, loaded>>

(* store.create_session: is_active = 1.                                     *)
InsertSession(r) ==
  /\ pc = "insert" /\ Current(r) /\ Live(r)
  /\ sess' = [sess EXCEPT ![sid] = [rem |-> r, active |-> TRUE, acus |-> 0]]
  /\ Goto("update")
  /\ UNCHANGED <<row, events, devin, bounds>>

(* The remediation was deleted meanwhile: the foreign key fails, the        *)
(* exception ends the tick and the session stays unrecorded.                *)
InsertFails(r) ==
  /\ pc = "insert" /\ Current(r) /\ ~Live(r)
  /\ Reset
  /\ UNCHANGED <<store, devin, bounds>>

-----------------------------------------------------------------------------
(* _advance and its four handlers.                                          *)

(* Variant: the list of active remediations leaves out healing.             *)
BeginAdvanceWithoutHealing ==
  /\ pc = "next" /\ pass = "dispatch" /\ DOMAIN batch = {}
  /\ pass' = "advance" /\ batch' = Select(ActiveStates \ {"queued", "healing"})
  /\ UNCHANGED <<store, devin, bounds, pc, sid, snap, plan>>

BeginAdvance ==
  /\ pc = "next" /\ pass = "dispatch" /\ DOMAIN batch = {}
  /\ pass' = "advance" /\ batch' = Select(ActiveStates \ {"queued"})
  /\ UNCHANGED <<store, devin, bounds, pc, sid, snap, plan>>

(* _refresh_session: the row takes over what the snapshot says.             *)
Poll(r, s, shot) ==
  /\ pc = "next" /\ pass = "advance" /\ Current(r)
  /\ s \in ActiveSessionsOf(r)
  /\ sess' = [sess EXCEPT ![s].acus = shot.acus]
  /\ pc' = "handle" /\ sid' = s /\ snap' = shot
  /\ UNCHANGED <<row, events, devin, bounds, pass, batch, plan>>

PollNothing(r) ==
  /\ pc = "next" /\ pass = "advance" /\ Current(r)
  /\ ActiveSessionsOf(r) = {}
  /\ pc' = "handle"
  /\ UNCHANGED <<store, devin, bounds, pass, batch, sid, snap, plan>>

Handling(r, state) == pc = "handle" /\ Current(r) /\ batch[r].state = state

Becomes(r, state) == [batch[r] EXCEPT !.state = state]

(* What _advance_dispatched owes for a row and a snapshot: no plan, or one. *)
DispatchedPlans(r) ==
  CASE snap = NoSnap -> {}
    [] snap # NoSnap /\ snap.pr # "none" ->
         {[close |-> "never", row |-> [Becomes(r, "pr_opened") EXCEPT !.pr = snap.pr],
           event |-> "pr_opened"]}
    [] snap # NoSnap /\ snap.pr = "none" ->
         LET outcome == DeriveOutcome(snap)
         IN CASE outcome = "refused" ->
                   {[close |-> "first", row |-> Becomes(r, "refused"), event |-> "refused"]}
              [] outcome = "failure" ->
                   {[close |-> "first", row |-> Becomes(r, "failed"), event |-> "failed"]}
              [] outcome = "needs_input" ->
                   {[close |-> "never", row |-> Becomes(r, "needs_human"), event |-> "needs_human"]}
              [] outcome \in {"in_flight", "success"} -> {}

AdvanceDispatched(r) ==
  /\ Handling(r, "dispatched")
  /\ \/ DispatchedPlans(r) = {} /\ Done(r)
     \/ \E p \in DispatchedPlans(r) : Start(p)
  /\ UNCHANGED <<store, devin, bounds, pass>>

AdvancePrOpened(r) ==
  /\ Handling(r, "pr_opened")
  /\ Start([close |-> "never", row |-> Becomes(r, "verifying"), event |-> "none"])
  /\ UNCHANGED <<store, devin, bounds, pass>>

(* CheckResult: the verdict on the checks of one commit; the simulated      *)
(* verifier names no commit.                                                *)
CheckResults ==
  {c \in [state : {"pending", "green", "red"}, false_green : BOOLEAN, head_sha : Sha \cup {NoSha}] :
     c.false_green => c.state = "red"}

(* Variant: the session is left out of the decision to heal.                *)
NeverWorking == FALSE

SessionWorking == snap # NoSnap /\ Working(snap)

(* Variant: the cooldown is per remediation, not per commit.                *)
HealedBefore(r, result) == batch[r].healed # NoSha

AlreadyHealed(r, result) == result.head_sha # NoSha /\ result.head_sha = batch[r].healed

(* Variant: the cap is off by one.                                          *)
CapPassed(r) == batch[r].heals > MaxHealAttempts

CapReached(r) == batch[r].heals >= MaxHealAttempts

(* Variant: green with a pull request, whatever the verdict.                *)
PrIsEnough(r) == HasPrUrl(batch[r])

(* GREEN needs a pull request and the verdict of the session, or no session. *)
VerdictOk(r) == HasPrUrl(batch[r]) /\ (snap = NoSnap \/ Remediated(snap))

VerifyingPlans(r, result) ==
  CASE result.state = "pending" -> {}
    [] result.false_green ->
         {[close |-> "first", row |-> Becomes(r, "needs_human"), event |-> "false_green_detected"]}
    [] result.state = "red" /\ ~result.false_green ->
         IF SessionWorking \/ AlreadyHealed(r, result) THEN {}
         ELSE IF CapReached(r)
         THEN {[close |-> "first", row |-> Becomes(r, "needs_human"), event |-> "heal_cap"]}
         ELSE {[close |-> "never", row |-> [Becomes(r, "healing") EXCEPT !.healed = result.head_sha],
                event |-> "ci_red"]}
    [] result.state = "green" ->
         IF VerdictOk(r)
         THEN {[close |-> "last", row |-> Becomes(r, "awaiting_merge"), event |-> "verified_green"]}
         ELSE {}

(* Without a pull request number there is nothing to look at: pending.      *)
AdvanceVerifying(r, result) ==
  /\ Handling(r, "verifying")
  /\ batch[r].pr # "numbered" => result.state = "pending"
  /\ \/ VerifyingPlans(r, result) = {} /\ Done(r)
     \/ \E p \in VerifyingPlans(r, result) : Start(p)
  /\ UNCHANGED <<store, devin, bounds, pass>>

(* Variant: a heal without a session starts over in the queue.              *)
HealRequeues(r) ==
  /\ Handling(r, "healing") /\ sid = NoSid
  /\ Start([close |-> "never", row |-> Becomes(r, "queued"), event |-> "self_heal"])
  /\ UNCHANGED <<store, devin, bounds, pass>>

HealWithoutSession(r) ==
  /\ Handling(r, "healing") /\ sid = NoSid
  /\ Start([close |-> "never", row |-> Becomes(r, "needs_human"), event |-> "needs_human"])
  /\ UNCHANGED <<store, devin, bounds, pass>>

(* Variant: the attempt is not written back.                                *)
AdvanceHealingUncounted(r) ==
  /\ Handling(r, "healing") /\ sid # NoSid
  /\ sent' = [sent EXCEPT ![r] = @ + 1]
  /\ Start([close |-> "never", row |-> Becomes(r, "verifying"), event |-> "self_heal"])
  /\ UNCHANGED <<store, owner, bounds, pass>>

(* devin.message_session, whatever the session is doing by now; the attempt *)
(* is counted by the write that follows.                                    *)
AdvanceHealing(r) ==
  /\ Handling(r, "healing") /\ sid # NoSid
  /\ sent' = [sent EXCEPT ![r] = @ + 1]
  /\ Start([close |-> "never", row |-> [Becomes(r, "verifying") EXCEPT !.heals = @ + 1],
            event |-> "self_heal"])
  /\ UNCHANGED <<store, owner, bounds, pass>>

(* The same retry: the message was delivered and is sent again.             *)
MessageResponseLost(r) ==
  /\ Handling(r, "healing") /\ sid # NoSid
  /\ sent' = [sent EXCEPT ![r] = @ + 1]
  /\ faults < MaxFaults /\ faults' = faults + 1
  /\ UNCHANGED <<store, owner, worker, loaded>>

-----------------------------------------------------------------------------
(* The writes of a handler, one transaction each.  An update names columns; *)
(* the ones it does not name keep their value, which is the copy's as long  *)
(* as the row is there (CopyIsFresh).  Updates of a deleted row or session  *)
(* match nothing, and an event needs no row.                                *)

CloseSession ==
  /\ pc = "close"
  /\ sess' = [sess EXCEPT ![sid].active = FALSE]
  /\ Goto("update")
  /\ UNCHANGED <<row, events, devin, bounds>>

UpdateRow(r) ==
  /\ pc = "update" /\ Current(r)
  /\ row' = IF Live(r) THEN [row EXCEPT ![r] = plan.row] ELSE row
  /\ IF plan.event = "none" THEN Done(r) /\ UNCHANGED pass ELSE Goto("event")
  /\ UNCHANGED <<sess, events, devin, bounds>>

AddEvent(r) ==
  /\ pc = "event" /\ Current(r)
  /\ events' = [events EXCEPT ![r] = @ \cup {plan.event}]
  /\ IF plan.close = "last" /\ sid # NoSid THEN Goto("release") ELSE Done(r) /\ UNCHANGED pass
  /\ UNCHANGED <<row, sess, devin, bounds>>

(* The green path closes its session after everything else.                 *)
ReleaseSession(r) ==
  /\ pc = "release" /\ Current(r)
  /\ sess' = [sess EXCEPT ![sid].active = FALSE]
  /\ Done(r)
  /\ UNCHANGED <<row, events, devin, bounds, pass>>

EndTick ==
  /\ pc = "next" /\ pass = "advance" /\ DOMAIN batch = {}
  /\ Reset
  /\ UNCHANGED <<store, devin, bounds>>

(* An exception or a restart between two rows, or before the first write of *)
(* a handler: nothing is owed, so these are not counted.                    *)
TickError ==
  /\ pc \in {"next", "handle"}
  /\ Reset
  /\ UNCHANGED <<store, devin, bounds>>

(* ... and with writes owed: they are lost.                                 *)
Crash ==
  /\ pc \in {"insert", "close", "update", "event", "release"}
  /\ faults < MaxFaults
  /\ faults' = faults + 1
  /\ Reset
  /\ UNCHANGED <<store, devin, loaded>>

-----------------------------------------------------------------------------
(* The web process.                                                         *)

NextId(r) == row[r].state = "none" /\ \A q \in Rem : q < r => row[q].state # "none"

(* get_or_create_remediation when no row has the key.                       *)
Enqueue(r) ==
  /\ NextId(r)
  /\ row' = [row EXCEPT ![r] = NewRow]
  /\ UNCHANGED <<sess, events, devin, worker, bounds>>

(* The rows of data/real_results.json, one of each kind: what was reached,  *)
(* how often it had been healed and what was logged on the way.  "ran" says *)
(* that a session comes with the row; it is closed and has cost nothing.    *)
Recordings == {
  [state |-> "merged", pr |-> "numbered", heals |-> 2, ran |-> TRUE,
   events |-> {"dispatched", "pr_opened", "ci_red", "self_heal", "verified_green"}],
  [state |-> "awaiting_merge", pr |-> "numbered", heals |-> 0, ran |-> TRUE,
   events |-> {"dispatched", "pr_opened", "verified_green"}],
  [state |-> "open", pr |-> "none", heals |-> 0, ran |-> FALSE, events |-> {}],
  [state |-> "deferred", pr |-> "none", heals |-> 0, ran |-> FALSE, events |-> {}]}

(* load_real_results: the tables are emptied and the recorded rows take new *)
(* ids; one of them stands for all.  Devin handed the recorded sessions out *)
(* to another deployment, so their ids are none that this one has got or    *)
(* will get.                                                                *)
LoadResults(r, rec) ==
  /\ Cardinality(loaded) < MaxLoads /\ loaded' = loaded \cup {r}
  /\ NextId(r)
  /\ row' = [q \in Rem |->
               IF q = r THEN [NoRow EXCEPT !.state = rec.state, !.pr = rec.pr, !.heals = rec.heals]
               ELSE IF Live(q) THEN GoneRow ELSE row[q]]
  /\ events' = [q \in Rem |-> IF q = r THEN rec.events ELSE {}]
  /\ \E old \in {s \in Sid \ {sid} : owner[s] = NoRem} \cup {NoSid} :
       /\ rec.ran <=> old # NoSid
       /\ sess' = [s \in Sid |-> IF s = old THEN [NoSession EXCEPT !.rem = r] ELSE NoSession]
       /\ owner' = [s \in Sid |-> IF s = old THEN r ELSE owner[s]]
  /\ UNCHANGED <<sent, worker, faults>>

(* Variant: the state of the pull request is stored as the row state.       *)
RefreshStoresPrState(r) ==
  /\ row[r].state \in {"merged", "awaiting_merge"} /\ row[r].pr = "numbered"
  /\ row' = [row EXCEPT ![r].state = IF @ = "merged" THEN "awaiting_merge" ELSE "closed"]
  /\ UNCHANGED <<sess, events, devin, worker, bounds>>

(* Variant: every row with a pull request is refreshed.                     *)
RefreshAnyState(r) ==
  /\ row[r].pr = "numbered"
  /\ row' = [row EXCEPT ![r].state = IF @ = "merged" THEN "awaiting_merge" ELSE "merged"]
  /\ UNCHANGED <<sess, events, devin, worker, bounds>>

(* _refresh_pr_states for one row whose state on GitHub differs.            *)
RefreshPrState(r) ==
  /\ row[r].state \in {"merged", "awaiting_merge"} /\ row[r].pr = "numbered"
  /\ row' = [row EXCEPT ![r].state = IF @ = "merged" THEN "awaiting_merge" ELSE "merged"]
  /\ UNCHANGED <<sess, events, devin, worker, bounds>>

-----------------------------------------------------------------------------
DispatchPass ==
  \/ BeginTick
  \/ \E r \in Rem : DispatchSkip(r) \/ InsertSession(r) \/ InsertFails(r)
  \/ \E r \in Rem, s \in Sid : DispatchCreate(r, s)

AdvancePass ==
  \/ BeginAdvance
  \/ \E r \in Rem : PollNothing(r) \/ AdvanceDispatched(r) \/ AdvancePrOpened(r)
                    \/ HealWithoutSession(r) \/ AdvanceHealing(r)
  \/ EndTick

Write ==
  \/ CloseSession
  \/ \E r \in Rem : UpdateRow(r) \/ AddEvent(r) \/ ReleaseSession(r)

Observe ==
  \/ \E r \in Rem, s \in Sid, shot \in Snapshots : Poll(r, s, shot)
  \/ \E r \in Rem, result \in CheckResults : AdvanceVerifying(r, result)

Fault ==
  \/ TickError \/ Crash
  \/ \E r \in Rem : MessageResponseLost(r)
  \/ \E r \in Rem, s \in Sid : CreateResponseLost(r, s)

Web ==
  \/ \E r \in Rem : Enqueue(r) \/ RefreshPrState(r)
  \/ \E r \in Rem, rec \in Recordings : LoadResults(r, rec)

Next == DispatchPass \/ AdvancePass \/ Write \/ Observe \/ Fault \/ Web

Spec == Init /\ [][Next]_vars


-----------------------------------------------------------------------------
(* Properties.                                                              *)

(* Every column and every local of the worker holds a value the code can    *)
(* store there.                                                             *)
TypeOK ==
  /\ row \in [Rem -> Rows]
  /\ sess \in [Sid -> SessionRows]
  /\ events \in [Rem -> SUBSET EventTypes]
  /\ owner \in [Sid -> Rem \cup {NoRem}]
  /\ sent \in [Rem -> Nat]
  /\ pc \in {"idle", "next", "insert", "handle", "close", "update", "event", "release"}
  /\ pass \in {"dispatch", "advance"}
  /\ DOMAIN batch \subseteq Rem /\ batch \in [DOMAIN batch -> Rows]
  /\ sid \in Sid \cup {NoSid}
  /\ snap \in Snapshots \cup {NoSnap}
  /\ plan \in Plans
  /\ faults \in 0 .. MaxFaults
  /\ loaded \subseteq Rem /\ Cardinality(loaded) <= MaxLoads

(* The store never holds two sessions for one remediation, active or not,   *)
(* across crashes, retries and store replacements: active_session_for never *)
(* has a choice to make, and the dedupe of _dispatch (loop.py:119) is       *)
(* enough although it looks at active sessions only.                        *)
OneSessionRow ==
  \A s, t \in Sid : Recorded(s) /\ sess[s].rem = sess[t].rem => s = t

(* A row that ended refused, failed, at the heal cap or on a false green    *)
(* holds no budget reservation: those paths close the session before they   *)
(* settle the row, so no crash in between can leave it reserved.            *)
SettledReleased ==
  \A r \in Rem :
    row[r].state \in {"refused", "failed"} \/ events[r] \cap {"heal_cap", "false_green_detected"} # {}
      => ActiveSessionsOf(r) = {}

(* The states a row can be in once an event of each type is logged.         *)
After(event) ==
  CASE event = "dispatched" -> FsmStates \ {"queued"}
    [] event = "pr_opened" -> FsmStates \ {"queued", "dispatched", "refused", "failed"}
    [] event \in {"ci_red", "self_heal"} ->
         {"healing", "verifying", "needs_human", "awaiting_merge", "merged"}
    [] event \in {"needs_human", "heal_cap", "false_green_detected"} -> {"needs_human"}
    [] event = "verified_green" -> {"awaiting_merge", "merged"}
    [] event \in {"refused", "failed"} -> {event}

(* The activity log never runs ahead of the row: whatever it tells has been *)
(* stored before, and later steps never take it back, although the two are  *)
(* written in separate transactions.  The worker reads it back for the text *)
(* of a heal message only (loop.py:294), which is left out.                 *)
LedgerNeverAhead ==
  \A r \in Rem : Live(r) => \A event \in events[r] : row[r].state \in After(event)

(* The message of the handler that is about to store its attempt.           *)
Uncounted(r) == IF pc = "update" /\ plan.event = "self_heal" /\ Current(r) THEN 1 ELSE 0

(* heal_attempts is the number of messages Devin got: no attempt is counted *)
(* that was not sent, and one sent and not counted is in flight, was sent   *)
(* again by the client, or was cut off by a crash between message_session   *)
(* and the update (loop.py:301-302).  A row that came with a replacement    *)
(* counts the messages of the deployment it was recorded in, so nothing is  *)
(* said of it.                                                              *)
MessagesMatchAttempts ==
  \A r \in Rem \ loaded : Live(r) =>
    /\ row[r].heals + Uncounted(r) <= sent[r]
    /\ sent[r] <= row[r].heals + Uncounted(r) + faults

(* "cap 2 heal attempts" (docs/DESIGN.md 5.2) bounds what Devin is asked    *)
(* and not only what is counted: a crash or a lost answer is worth one      *)
(* message more, a replacement of the store none.                           *)
MessagesWithinCap == \A r \in Rem : sent[r] <= MaxHealAttempts + faults

(* What the recorded sessions have cost, plus what the running ones still   *)
(* may, stays within the ceiling (budget.py:1-3).  Only sessions the store  *)
(* knows are counted; what Devin bills besides is not bounded by it.        *)
Committed == [s \in Sid |-> IF sess[s].active THEN MaxAcuLimit ELSE sess[s].acus]

RecordedSpendWithinBudget == Cardinality(AcusOf(Committed)) <= GlobalAcuBudget

(* Sessions that cost money and that the store does not know.               *)
Orphans == {s \in Sid : owner[s] # NoRem /\ ~Recorded(s) /\ ~(pc = "insert" /\ sid = s)}

(* As long as nobody replaces the store, a crash or a lost response costs   *)
(* at most one orphan and nothing else does.                                *)
OrphansOnlyByFault == loaded = {} => Cardinality(Orphans) <= faults

(* The sessions Devin was asked to create for a remediation.                *)
AskedFor(r) == {s \in Sid : owner[s] = r}

(* "never double-spawns a paid session" (docs/DESIGN.md 5.3): Devin is      *)
(* asked for one session per remediation and for one more per crash or lost *)
(* answer, although the dedupe reads the store and not Devin, and even when *)
(* the store is replaced while the list of the tick still names the row.    *)
OneSessionAskedFor == \A r \in Rem : Cardinality(AskedFor(r)) <= 1 + faults

(* The rows a tick read at its start are still what the store holds when    *)
(* their turn comes, except for the one whose update is done: neither the   *)
(* rows handled before nor the web process touch a row of the list, short   *)
(* of deleting it.                                                          *)
CopyIsFresh ==
  \A r \in DOMAIN batch :
    Live(r) => batch[r] = row[r] \/ (Current(r) /\ pc \in {"event", "release"})

(* Every step, crash or reload included, moves each remediation along an    *)
(* edge of Lifecycle or not at all, counts an attempt only on the way back  *)
(* from healing and below the cap, and a reload brings inert rows only,     *)
(* with the attempts they were recorded with.                               *)
L == INSTANCE Lifecycle WITH state <- [r \in Rem |-> row[r].state],
                             attempts <- [r \in Rem |-> row[r].heals]

FollowsLifecycle == L!Spec

=============================================================================
