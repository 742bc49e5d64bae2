------------------------------- MODULE Worker -------------------------------
(***************************************************************************)
(* The loop of the worker process (src/reconciler/__main__.py): in each    *)
(* pass a scan and a resync if they are due, then a tick, which walks the  *)
(* queued rows and after them the active ones (loop.py).  Any of them may  *)
(* raise, which ends the pass; the loop catches it, backs off and starts   *)
(* over.  A scan lists findings as issues, a resync turns issues into      *)
(* rows: what they do inside is in Ingest, what a handler does to a row in *)
(* Reconciler.  Here it only matters who gets a turn and what comes of it: *)
(* the turn of a queued row passes without effect while its session is     *)
(* active already or the ceiling has no room, and the room comes back in   *)
(* the turns of the active rows.                                           *)
(***************************************************************************)
EXTENDS Integers, FiniteSets

CONSTANTS
  Rem,        \* remediation ids, in the order of ORDER BY id
  ScanEvery,  \* ticks_per_scan: ticks between two scans, 0 for none
  SyncEvery,  \* ticks_per_resync, 0 when issue sync is off
  Room,       \* how many sessions at their cap the ceiling has room for
  MaxBreaks   \* bound: how often a part begins to raise

ASSUME WorkerAssumption ==
  /\ Rem \subseteq Nat /\ IsFiniteSet(Rem) /\ Room \in Nat
  /\ ScanEvery \in Nat /\ SyncEvery \in Nat /\ MaxBreaks \in Nat

(* What can raise: the three calls around the rows, and the handler of a row. *)
Scanning == <<"scan", 0>>

Syncing == <<"resync", 0>>

Counting == <<"metrics", 0>>

Row(r) == <<"row", r>>

Parts == {Scanning, Syncing, Counting} \cup {Row(r) : r \in Rem}

VARIABLES
  work,     \* per remediation how far it has come
  taken,    \* caps of the ceiling that ended sessions have used up
  broken,   \* the parts that raise when their turn comes
  breaks,   \* how often that has begun
  turn,     \* where the loop is
  todo,     \* the rows the current pass of the tick has still to handle
  tick_no,  \* modulo the two periods
  backoff,
  running   \* _running: FALSE once a signal came

vars == <<work, taken, broken, breaks, turn, todo, tick_no, backoff, running>>

(* "stranded" is a queued row whose session is active: its dispatch was cut *)
(* off between the two writes (loop.py:145-151).                            *)
Stages == {"finding", "listed", "queued", "stranded", "active", "settled"}

MaxBackoff == 5

Period == (IF ScanEvery = 0 THEN 1 ELSE ScanEvery) * (IF SyncEvery = 0 THEN 1 ELSE SyncEvery)

(* Variant: the first turn comes one tick late, and never if it is every    *)
(* tick's.                                                                  *)
DueLater(every) == every # 0 /\ tick_no % every = 1

Due(every) == every # 0 /\ tick_no % every = 0

At(stage) == {r \in Rem : work[r] = stage}

(* The budget guard, counted in caps: an active session reserves one.       *)
Allows == taken + Cardinality(At("active") \cup At("stranded")) < Room

Init ==
  /\ work \in [Rem -> {"finding", "queued", "active"}]
  /\ Cardinality(At("active")) <= Room /\ taken = 0
  /\ \A q, r \in Rem : q < r /\ work[q] = "finding" => work[r] = "finding"
  /\ broken = {} /\ breaks = 0
  /\ turn = "sleep" /\ todo = {} /\ tick_no = 0 /\ backoff = 0
  /\ running = TRUE

-----------------------------------------------------------------------------
(* One pass.                                                                *)

(* Variant: the backoff grows without bound.                                *)
RaiseUncapped ==
  /\ turn' = "sleep" /\ todo' = {}
  /\ backoff' = backoff + 1
  /\ UNCHANGED <<broken, breaks, tick_no, running>>

(* The except clause; tick_no stands, so what was due is due again.  What   *)
(* the part has stored before it raised, its action says.                   *)
Raise ==
  /\ turn' = "sleep" /\ todo' = {}
  /\ backoff' = IF backoff < MaxBackoff THEN backoff + 1 ELSE MaxBackoff
  /\ UNCHANGED <<broken, breaks, tick_no, running>>

(* Variant: the loop is only left between two passes that succeed.          *)
WakeUnlessBackedOff ==
  /\ turn = "sleep"
  /\ turn' = IF running \/ backoff > 0 THEN "scan" ELSE "stopped"
  /\ UNCHANGED <<work, taken, broken, breaks, todo, tick_no, backoff, running>>

(* The delay is over, or cut short by a signal.                             *)
Wake ==
  /\ turn = "sleep"
  /\ turn' = IF running THEN "scan" ELSE "stopped"
  /\ UNCHANGED <<work, taken, broken, breaks, todo, tick_no, backoff, running>>

(* scan_and_open, if it is due.                                             *)
Scan ==
  /\ turn = "scan"
  /\ \/ Due(ScanEvery) /\ Scanning \in broken /\ Raise /\ UNCHANGED work
     \/ /\ Due(ScanEvery) => Scanning \notin broken
        /\ work' = [r \in Rem |-> IF Due(ScanEvery) /\ work[r] = "finding" THEN "listed" ELSE work[r]]
        /\ turn' = "resync"
        /\ UNCHANGED <<broken, breaks, todo, tick_no, backoff, running>>
  /\ UNCHANGED taken

(* resync, if it is due, and the list of queued rows the tick begins with.  *)
Resync ==
  /\ turn = "resync"
  /\ \/ Due(SyncEvery) /\ Syncing \in broken /\ Raise /\ UNCHANGED work
     \/ /\ Due(SyncEvery) => Syncing \notin broken
        /\ work' = [r \in Rem |-> IF Due(SyncEvery) /\ work[r] = "listed" THEN "queued" ELSE work[r]]
        /\ turn' = "dispatch" /\ todo' = {r \in Rem : work'[r] \in {"queued", "stranded"}}
        /\ UNCHANGED <<broken, breaks, tick_no, backoff, running>>
  /\ UNCHANGED taken

(* Variant: the newest row first.                                           *)
NewestFirst(r) == r \in todo /\ \A q \in todo : q <= r

(* ORDER BY id.                                                             *)
First(r) == r \in todo /\ \A q \in todo : r <= q

Goes(r, stage) == [work EXCEPT ![r] = stage]

(* The handler of a row has had its turn, or raises.                        *)
TurnOf(r) ==
  IF Row(r) \in broken
  THEN Raise
  ELSE todo' = todo \ {r} /\ UNCHANGED <<broken, breaks, turn, tick_no, backoff, running>>

(* _dispatch turns the row away without a call to Devin, so it cannot raise *)
(* and the row stays as it is.                                              *)
TurnedAway(r) ==
  /\ turn = "dispatch" /\ First(r)
  /\ work[r] = "stranded" \/ ~Allows
  /\ todo' = todo \ {r}
  /\ UNCHANGED <<work, taken, broken, breaks, turn, tick_no, backoff, running>>

(* A dispatch that raises may have made some of its writes.                 *)
Dispatch(r) ==
  /\ turn = "dispatch" /\ First(r) /\ work[r] = "queued" /\ Allows
  /\ TurnOf(r)
  /\ work' \in IF Row(r) \in broken
                THEN {work, Goes(r, "stranded"), Goes(r, "active")}
                ELSE {Goes(r, "active")}
  /\ UNCHANGED taken

(* Variant: the active rows wait until no row is queued.                    *)
BeginAdvanceWhenDispatched ==
  /\ turn = "dispatch" /\ todo = {}
  /\ turn' = "advance" /\ todo' = IF At("queued") = {} THEN At("active") ELSE {}
  /\ UNCHANGED <<work, taken, broken, breaks, tick_no, backoff, running>>

(* The active rows are read when the dispatch pass is through.              *)
BeginAdvance ==
  /\ turn = "dispatch" /\ todo = {}
  /\ turn' = "advance" /\ todo' = At("active")
  /\ UNCHANGED <<work, taken, broken, breaks, tick_no, backoff, running>>

(* An ended session has used up its cap or less, and one that nobody closed *)
(* (loop.py:218-220) keeps its reservation too.                             *)
Ended == {t \in 0 .. Room : taken <= t /\ t <= taken + 2}

(* The handlers of an active row: it stays under way or settles.            *)
Advance(r) ==
  /\ turn = "advance" /\ First(r)
  /\ TurnOf(r)
  /\ \/ UNCHANGED <<work, taken>>
     \/ work' = Goes(r, "settled") /\ taken' \in Ended

(* _snapshot_metrics, and the end of a pass that went well.                 *)
EndTick ==
  /\ turn = "advance" /\ todo = {}
  /\ \/ Counting \in broken /\ Raise
     \/ /\ Counting \notin broken
        /\ turn' = "sleep" /\ tick_no' = (tick_no + 1) % Period /\ backoff' = 0
        /\ UNCHANGED <<broken, breaks, todo, running>>
  /\ UNCHANGED <<work, taken>>

-----------------------------------------------------------------------------
(* Around it.                                                               *)

(* SIGTERM or SIGINT, at any time.                                          *)
Stop ==
  /\ running /\ running' = FALSE
  /\ UNCHANGED <<work, taken, broken, breaks, turn, todo, tick_no, backoff>>

(* The container is started again.                                          *)
Start ==
  /\ turn = "stopped"
  /\ turn' = "scan" /\ running' = TRUE /\ tick_no' = 0 /\ backoff' = 0
  /\ UNCHANGED <<work, taken, broken, breaks, todo>>

(* The checkout is gone, GitHub or Devin answers one request with an error. *)
Break(p) ==
  /\ p \notin broken /\ breaks < MaxBreaks
  /\ broken' = broken \cup {p} /\ breaks' = breaks + 1
  /\ UNCHANGED <<work, taken, turn, todo, tick_no, backoff, running>>

Mend(p) ==
  /\ p \in broken /\ broken' = broken \ {p}
  /\ UNCHANGED <<work, taken, breaks, turn, todo, tick_no, backoff, running>>

Pass ==
  \/ Wake \/ Scan \/ Resync \/ BeginAdvance \/ EndTick
  \/ \E r \in Rem : TurnedAway(r) \/ Dispatch(r) \/ Advance(r)

Next ==
  \/ Pass \/ Stop \/ Start
  \/ \E p \in Parts : Break(p) \/ Mend(p)

(* The loop goes on as long as the process lives.  Nothing says that a part *)
(* is ever mended, that anybody sends a signal or starts the process again. *)
Spec == Init /\ [][Next]_vars /\ WF_vars(Pass)

-----------------------------------------------------------------------------
(* Properties.                                                              *)

TypeOK ==
  /\ work \in [Rem -> Stages] /\ taken \in 0 .. Room
  /\ broken \subseteq Parts /\ breaks \in 0 .. MaxBreaks
  /\ turn \in {"sleep", "scan", "resync", "dispatch", "advance", "stopped"}
  /\ todo \subseteq Rem /\ (turn \in {"sleep", "scan", "resync", "stopped"} => todo = {})
  /\ tick_no \in 0 .. Period - 1 /\ backoff \in 0 .. MaxBackoff
  /\ running \in BOOLEAN

Before(r) == {Scanning, Syncing} \cup {Row(q) : q \in {p \in Rem : p <= r}}

(* Once nothing that comes before a queued row in a pass raises any more    *)
(* and the ceiling has room, the row is dispatched: what is broken behind   *)
(* it (later rows, the advance pass, the metrics) holds it back only by     *)
(* keeping the sessions that fill the ceiling from being closed.  The rows  *)
(* behind a broken one, and everything behind a broken scan, wait as long   *)
(* as it is broken.                                                         *)
OnlyWhatIsAheadHoldsUp ==
  \A r \in Rem :
    <>[]running /\ <>[](broken \cap Before(r) = {}) /\ <>[]Allows
      => (work[r] = "queued" ~> work[r] # "queued")

(* The same for the second pass: an active row gets its turn in tick after  *)
(* tick as long as nothing before it raises, which takes in every row still *)
(* queued, later ones too, unless it is turned away.  A broken later row    *)
(* that is active already does not matter, nor does a queue that waits for  *)
(* room: those who could make it do not wait for those who need it.         *)
AdvanceWaitsForDispatch ==
  \A r \in Rem :
    <>[]running /\ <>[](broken \cap (Before(r) \cup {Row(q) : q \in At("queued")}) = {})
      => <>[](work[r] # "active") \/ []<><<Advance(r)>>_vars

(* Caps that never come back: of ended sessions and of stranded rows.       *)
UsedUp == taken + Cardinality(At("stranded")) >= Room

(* Where scan and sync are scheduled and the sessions end, a finding gets a *)
(* session in the end if the failures do, or the ceiling is used up: a      *)
(* scan, a resync or a tick that raised is made up for, the process may     *)
(* have been restarted in between, and who was turned away comes to its     *)
(* turn again.                                                              *)
BacklogFlows ==
  \A r \in Rem :
    <>[]running /\ <>[](broken = {}) /\ (\A q \in Rem : []<>(work[q] # "active"))
      => (work[r] \in {"finding", "queued"} ~> work[r] \in {"active", "stranded"} \/ UsedUp)

(* A signal is honoured whatever is broken, and however far the loop has    *)
(* backed off.                                                              *)
StopIsHonoured == ~running ~> turn = "stopped"

=============================================================================
