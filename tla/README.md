# Helmsman, specified in TLA+

Helmsman is an event-driven control plane: labelled GitHub issues become
*remediations*, a worker dispatches a paid Devin session for each, follows the
pull request the session opens, verifies its CI, messages the session when CI is
red, and parks the result at a human gate. This directory holds its TLA+
specifications, the TLC configurations that check them on small instances, and
the TLAPS proofs of what holds for every instance. Paths below are relative to
the repository.

## 1. Inventory

| component | state it keeps | operations | talks to |
|---|---|---|---|
| reconciler (`src/reconciler/loop.py`) | nothing between ticks but the last burn-down counts; within a tick the list it walks, the polled snapshot, the writes it still owes | `resync`, `tick`: `_dispatch` for queued rows, `_advance` (`_refresh_session` and one handler per state) for the others, `_snapshot_metrics` | store, budget, Devin client, verifier |
| budget guard (`budget.py`) | none | `evaluate`: recorded spend + active sessions × cap + one more cap ≤ ceiling | store |
| store (`store/db.py`, `schema.sql`) | remediations, sessions, events, metric snapshots (SQLite) | one connection and one commit per method; `load_real_results` replaces everything | shared by worker and web |
| Devin client (`devin/client.py`) | none | create, get, message a session; a 429/5xx is repeated up to five times, POSTs included | Devin v3 API |
| session schemas (`devin/schemas.py`) | none | `derive_outcome` | – |
| verifier (`github/verifier.py`, `rest.py`) | the simulated one: poll counts, in memory | `verify`: head commit, check runs, files, then the pure `analyze_check_runs` | GitHub |
| worker process (`reconciler/__main__.py`) | tick number, backoff, the flag a signal clears | a loop of scan and resync, when due, and tick; any exception ends the pass | reconciler, scanner |
| ingest / web (`ingest/app.py`, `webhook.py`) | none | webhook → `get_or_create_remediation`; `/load-results`; refresh of pull request states | store, GitHub |
| Devin simulator (`devin/simulate.py`) | sessions, counter, in memory | the client's three calls | – |
| scanner (`scanner/scan.py`) | within a scan the list of open titles | `open_issues`: one labelled issue per finding whose title is not open | issue source |
| issue source (`github/issues.py`) | none | list the open labelled issues, create one | GitHub |
| metrics, dashboard, prompts, scripts | – | read-only or one-off | – |

**What is hard.** Every store method commits by itself, so a handler is a row of
transactions and remote calls with no transaction around it. The worker can die,
or an exception can end the tick, between any two; the web process writes to the
same tables in between; a POST whose answer is lost is sent again; Devin
sessions wake up, push, ask and cost money on their own; CI moves while it is
read. The whole list, each at its line and with the properties that watch over
it, is `hazards` in `PROJECT.json`.

**What makes each component correct.**

* *Reconciler and store*: a remediation only walks the state machine of `Lifecycle`
  and is healed at most `max_heal_attempts` times; never two sessions for one
  remediation; the log never tells what the row does not say; the attempts
  counted are the messages sent; an off-ramp gives its reservation back; queued
  work is dispatched, started work comes to rest.
* *Budget*: recorded spend plus the caps of what runs stays below the ceiling.
* *Gate*: nothing waits for a human merge without the verdict of its session and
  green checks in which the gating job ran.
* *Verifier*: a green is earned by the commit it names; the verdict settles on
  the head commit; what has ended is judged.
* *Worker process*: a part that raises holds up what comes after it in a pass, and,
  through the sessions it keeps from being closed, what waits for room under the
  ceiling; nothing else. What failed is made up for; a signal ends the loop.
* *Simulator*: a demo ends as its rows ask for, across restarts that forget the
  simulated sessions.
* *Ingest*: one remediation, and one `queued` event, for each version of an issue,
  however often it is delivered; what stays in the backlog is tracked in the end;
  a finding has one open issue.

## 2. Modules

| module | models | shape |
|---|---|---|
| `Schemas` | the session snapshot and `derive_outcome` | operators |
| `Reconciler` | worker and web process over the shared store | one action per transaction or remote call, over any answers |
| `Lifecycle` | the state machine of `docs/DESIGN.md` 5.2 with the edges that only the code has, and the heal cap | abstract specification |
| `ControlPlane` | `Reconciler` composed with Devin and CI | the worker's actions, fed by what the services are in |
| `Verifier` | the three GETs of `verify` against a moving pull request, and `analyze_check_runs` | state machine |
| `Ingest` | webhook, `resync` and scheduled scan against the issues of the fork | state machine |
| `Simulator` | `Reconciler` in SIMULATE mode: the simulated Devin and CI, the burn-down series, restarts | the worker's actions, fed by what the worker's own memory says |
| `Worker` | the loop of `__main__.py` and who gets a turn in it | state machine |
| `MCReconciler`, `MCControlPlane`, `MCVerifier`, `MCSimulator` | instances for TLC (`Ingest` and `Worker` need none: their constants fit in the `.cfg`) | constants |
| `ReconcilerProofs`, `StoreProofs`, `LifecycleProofs`, `ControlPlaneProofs`, `SimulatorProofs`, `WorkerProofs`, `VerifierProofs`, `IngestProofs` | theorems | proofs |

`ControlPlane` and `Simulator` both extend `Reconciler` and close its environment
in two ways; `Reconciler` extends `Schemas` and instantiates `Lifecycle`. Each
`...Proofs` module extends the one it is about; `StoreProofs` builds on
`ReconcilerProofs`, `LifecycleProofs` on `StoreProofs`, and the proofs of the two
compositions on those.

### Reconciler

The store is `row`, `sess` and `events`: the tables reduced to the columns a
decision reads. `owner` and `sent` are what Devin was asked to do and survive a
crash. `pc`, `pass`, `batch`, `sid`, `snap`, `plan` are the worker's memory:
`batch` holds the *copies* of the rows still to be handled, as read at the start
of the pass, and `plan` the writes the current handler still owes.

A handler is one action that decides (`AdvanceDispatched`, `AdvanceVerifying`,
...) and puts its writes in `plan`; `CloseSession`, `UpdateRow`, `AddEvent` and
`ReleaseSession` then carry them out in the order of the code: the off-ramps
close the session first, the green path last. `UpdateRow` writes the copy back;
the code names columns, which is the same as long as the copy is fresh, and that
is the invariant `CopyIsFresh`. Reads are merged with the call or write that
follows them where nothing another process does in between can be seen
(the head of the module says which).

`Crash` loses what is owed, at any point and `MaxFaults` times; `TickError` ends a
tick where nothing is owed, without bound. `CreateResponseLost` and
`MessageResponseLost` are the repeated POSTs of the client. `Enqueue`,
`LoadResults` and `RefreshPrState` are the web process. Ids are handed out in
order and never twice (`AUTOINCREMENT`); `"deleted"` marks an id whose row a
`LoadResults` removed, so that a late write to it can be seen to miss.

`LoadResults` empties the tables and inserts one recorded row, of the kinds
`data/real_results.json` has (`Recordings`), with the heals, the closed session and
the log it was recorded with; `loaded` remembers the ids of such rows. The messages
behind those heals were sent in another deployment, so `MessagesMatchAttempts` speaks
of the rows this one has tracked itself, and `Lifecycle!Replace` lets a row that
comes with a replacement bring any number of attempts.

`Sid` is finite, the pool of session ids of Devin. When it is used up no session
can be created; the instances have an id for every remediation and fault.

### ControlPlane

`dev`, `spend`, `head` and `commit` are the services. `DevinMoves` is a set of
`<<before, after, how>>`, so the assumption a run makes about Devin is a
constant: `Headstrong` stops without a verdict, pushes when it likes and wakes
by itself; `Unruly` is the part of it that starts at work and neither asks nor breaks;
`Cooperative` pushes once per message and ends each stretch of work
with the verdict; `Brisk` is its shortest form and `BriskAsking` may also ask.
A message sets the session to `resuming / working`, whatever it was doing.
`Verify` hands the reconciler the verdict on the head of the pull request in one
step; how that verdict comes about in three is `Verifier`.

### Verifier

`runs[h]` is how far each check run of a commit is. Names of jobs are their kind:
the anchor, a unit-test job, a frontend job, a name that hints at both, others.
Conclusions are the three classes the code tells apart. `PageSize` is what one
GET of check runs returns at most (the code asks for one page).

### Ingest

`issue` is GitHub; `versions` the bodies an issue has had while it was labelled,
each of which a webhook may have been sent for. `HandleWebhook` delivers any of
them at any time, any number of times or never, which is late, repeated and lost
delivery in one. `tracked` is the table of remediations reduced to its unique
key, and `queued` counts the events logged for a key. A row and its event are two
transactions: `owed` is what a process has inserted and not logged yet. The two
processes compute the key by themselves, and a hash is a pair of the text and of
what it stands for: the body, or the number (webhook) or the title (`resync`) when
there is none. `scan` and `listed` are what the worker took from GitHub before a
loop and works through while the issues change. Each remediation then goes its
way in `Reconciler`, whose `Enqueue` is `GetOrCreate` with a new key.

### Simulator

In SIMULATE mode Devin (`mem`, `counter`) and the CI (`polls`) are objects in the
worker's memory, while `row` and `sess` survive it. `View` is `_snapshot`: what a
session says at its n-th poll for each of the four outcomes. `Known` is
`get_session`: a session it remembers, or one it makes up (green, about to
finish) for an id nobody created since the start. `Restart` is an orderly stop
between two ticks, `Interrupt` a kill or an exception inside one; `Forget` is what
both lose, which includes `last_counts`, the counts the worker believes to have
appended last to the series (`tail` is its last row).

Ids begin anew after a restart. Where the store has seen one, `SimInsertFails`:
the `UNIQUE` column raises, the tick ends, and the next one takes the next id. But
the id may also be that of a session that still runs for another row, created
before the restart: `create_session` has replaced what the simulator knew of it
by the time the insert fails, and the older row goes on with the other's outcome. `reissued` records those ids and `Aliased` the rows they belong to;
`EndsAsScripted` and `EndsAcrossRestarts` except them.

The simulated pull request is numbered after the issue, so two remediations of
one issue share one and its poll count; `IssueNumber` makes them do so in the run.

### Worker

`turn` is where the loop is and `todo` the rows a pass of the tick has still to
handle, in the order of their ids; `work` is how far each row has come. What a
handler does is in `Reconciler`; here its turn comes, and it may raise (`broken`,
which `Break` and `Mend` change as they like). Two returns of `_dispatch` end a
turn without effect (`TurnedAway`): the row has an active session already, which is
what a dispatch that raised between its writes leaves (`"stranded"`), or the budget
guard refuses. The guard is counted in caps: `Room` of them fit under the ceiling, an
active session reserves one, and `taken` are those ended sessions keep, for what
they have cost or because nobody closed them. So a queued row may wait for an
`Advance`, which comes after it in the same tick. `Advance` leaves its row under way
or settles it; a row that needs many ticks has many turns.

`Raise` is the `except` clause: the pass ends, the backoff grows to its fifth step,
`tick_no` stands. So a scan that is due is due again in the next pass, and one that
is not due yet is put off for as long as anything raises.

## 3. Runs

| run | instance | shows |
|---|---|---|
| `reconciler` | 2 remediations, 3 session ids, 2 commits, cap 2, ceiling 5, 1 heal, 1 fault, 1 replacement of the store; symmetric in session ids and commits | `TypeOK`; `OneSessionRow`; `SettledReleased`; `LedgerNeverAhead`; `MessagesMatchAttempts`; `MessagesWithinCap`; `OrphansOnlyByFault`; `OneSessionAskedFor`; `CopyIsFresh`; refinement of `Lifecycle` (`FollowsLifecycle`) |
| `control_safety` | 2 remediations, 3 session ids, 2 commits, 2 heals, cap 1, ceiling 1, 1 fault, `Unruly`; symmetric in session ids | `ControlTypeOK`, `GateHasVerdictUndisturbed`, `InFlightIsWatchedUndisturbed`, `GateWasGreen` (with a crash), `HealsOncePerCommit`, `OverrunIsAccounted` |
| `control_settles` | 1 remediation, 2 session ids, 3 commits, 2 heals, cap 1, ceiling 1, 1 fault, `Cooperative`, fair | `HealingIsDelivered` in spite of a crash; `SettlesUndisturbed`; `HealsOnlyIdleUndisturbed` |
| `verifier` | 2 commits, 3 kinds of job, 3 check runs in all, fair | `GreenIsEarned`, `RedIsEarned`, `VerdictConverges`, `EndedIsJudged` |
| `ingest` | 2 issues, 1 finding, 2 bodies and the empty one, 1 edit, 1 fault, fair | `OneRowPerWrittenVersion`, `QueuedOnce`, `FindingOpenedOnce`, `BacklogIsTracked` |
| `simulated` | 3 remediations, 6 ids, two scripts that have every outcome, one pull request number for all, cap 10.0, ceiling 21.0, 1 restart, 1 fault, fair | `SimTypeOK`, `EndsAsScripted`, `RecordedSpendWithinBudget`, `EndsAcrossRestarts` (a blocked row is dispatched once a session has closed, and ends), `SeriesCatchesUp` |
| `worker` | 3 rows, room for 2 sessions, a scan every second pass and a resync in each, parts begin to raise twice, fair | `TypeOK`, `OnlyWhatIsAheadHoldsUp`, `AdvanceWaitsForDispatch`, `BacklogFlows`, `StopIsHonoured` |
| `ingest_twice` | violated | an issue without a body is enqueued under two keys |
| `restart_strands` | violated | crash between the two writes of a dispatch: a queued row with an active session is never touched again |
| `gate_without_verdict` | violated | crash on the false-green path, later green: at the gate without a verdict |
| `spend_beyond_ceiling` | violated | a session closed in the store goes on spending, and the guard allows another |
| `budget_leak` | violated | waiting for the user never releases the reservation; the queue starves |

The five violated ones each check one sentence of the documentation or of a
comment, quoted in `findings` of `PROJECT.json` with the line of the code.

**Bounds and why they are enough.** Two remediations are what it takes for one
tick to handle a row while another waits, for a budget to be contended and for
the dedupe to matter; three session ids let each have one and a fault cost one.
Cap 2 and ceiling 5 make the guard refuse a second session in some states and
allow it in others. Exceeding a ceiling takes one session more than it has room
for, which is why `simulated` has three remediations under a ceiling for two; its
six ids leave one for every remediation and one for every id that a restart makes
the store refuse. In `worker` three rows put one before and one behind a row that
raises, and two breaks let a part raise while another does, or the same one
again; with room for two, the third waits for one of the others to end. In
`control_safety` a ceiling for one session of two remediations lets the guard
refuse, and lets a session that was closed while it works go on spending after
the next one was dispatched in its place. Sessions that ask or break are not in it (`Unruly`); what
it checks is proved for them too. The scan and resync periods differ, so that a pass has neither, one or both. One heal
reaches the cap and its refusal; two heals and three commits let the cooldown
per commit and the cap act separately. One fault reaches every pair of adjacent
steps; the properties that mention `faults` are stated for any number. One
replacement of the store hits every point of a tick. Two issues let a person's
and a finding's, or two of the same finding, exist side by side, and three
bodies and an edit let every pair of keys differ; a page holds them all, so what
the limit of a page hides is left out (`hazards`). `MaxFaults`, `MaxLoads`, `MaxRuns`, `MaxEdits`, `MaxRestarts`, `MaxBreaks`, `Scripts`
and the number of issues are the only bounds that are not the code's. The
snapshots of `MCReconciler` are one of each kind a handler tells apart;
`MCControlPlane` allows all of them.

**Fairness.** `ControlPlane!Fairness`: weak fairness of the worker (one thread,
`while _running`, every exception caught at `__main__.py:64`, and
`restart: unless-stopped` in `docker-compose.yml`), of each commit's CI, and of
each session, which does not stay for ever where it can move. The last two are
assumptions on Devin and GitHub, without which no progress can be expected.
Worker fairness covers its steps together, since it is one thread. Errors that
lose nothing (`TickError`) are left out of `ControlPlane`: a tick that always
fails makes no progress, and nothing in the code bounds that.
`Ingest!FairSpec` asks it of the worker's loop alone, so `BacklogIsTracked` holds
without any webhook. `Simulator!SimSpec` and `Worker!Spec` ask it of the worker alone as well; in `Worker`
nothing says that a part that raises is ever mended, that anybody sends a signal
or starts the process again, and the properties say what they need of that in
their premises. `Verifier!FairSpec` asks fairness of the three GETs alone; CI and pushes may stop
anywhere. Settling is claimed for `Cooperative` only: with a Devin that stops
without pushing, a row does stay in `verifying` (`docs/DESIGN.md:233`).

**Deadlock** is checked in every run: the worker always has a step.

A definition whose comment begins with "Variant" is a plausible bug that a
mutant run puts in place of the definition after it; every property of a passing
run is violated by one of them.

## 4. Proofs

For every value of the constants that their assumptions allow, all invariants
that the runs check are proved (three properties under a condition that is named
below), and so is the refinement of `Lifecycle`. An invariant of the worker is seldom inductive by itself, because a
handler decides in one step and writes in others; the proofs are layered, each
layer using the ones before.

`ReconcilerProofs`

* `TypeCorrect`: `Spec => []TypeOK`. `TypeOK` alone is not inductive: `AddEvent`
  logs `plan.event`, which has to be a type and not `"none"`; `TypeInv` adds
  that. One step per action; the plans a handler may owe are typed in two lemmas
  of their own.
* `OneSessionPerRemediation`: `Spec => []OneSessionRow`. The dedupe looks at
  *active* sessions only, so the argument has to show that a queued row has no
  closed one (`ClosedNotQueued`): sessions are closed by handlers of the advance
  pass, for rows that have left `queued`, and no owed row goes back there
  (`Locals`). `BatchStates` ties the rows of the list to the pass, `ForeignKey`
  the sessions to live rows, which a replacement of the store needs. The
  conjunction `SessionInv` is inductive.

`StoreProofs`, on top of `SessionInv`

* `CopiesAreFresh`: the web process can only touch rows that no tick has copied,
  or whose handler is past its update (`BatchKinds`).
* `LogIsNeverAhead`: `PlanInv` says that what a handler owes fits the row it found
  (`Fits`: from which state, to which, closing when) and that an event is owed only
  once the row is stored. That the log stays true later is `AfterIsStable`: no
  edge leaves the states an event allows.
* `SettledRowsHoldNothing`: a handler that has polled knows every active session of
  its row, and an off-ramp has closed it before it stores anything (`ClosedFirst`).
* `SpendStaysWithinBudget`: between the guard's read and the record of the session
  the ceiling has room for one cap more (`BudgetInv`). A sum over sessions is the
  size of a set of ACUs (`AcusOf`), so the argument is one about finite sets.

`LifecycleProofs`

* `AttemptsAreMessages` and `OrphansCostFaults` relate the store to what Devin was
  asked to do; `HealsInv`, `CountInv` and `OrphanInv` say what is in flight. The first
  excepts rows that came with a replacement of the store: they bring attempts this
  deployment sent no message for. `HealsInv` says that such a row is never active, so
  no handler counts on top of what it brought, and `LoadedRows` what it looks like.
* `DispatchAsksOnce`: `OneSessionAskedFor`. The dedupe reads the store, so the
  invariant counts what Devin was asked for: a remediation that may still be
  dispatched (`MayCreate`: in the table or in the list of the tick) has cost no
  more creates than faults. A replacement of the store takes nothing away from
  that, because ids are not handed out again, and
  a row that comes with it brings one session at most and is not dispatched (`LoadedAsked`).
* `HealCapHolds`: `MessagesWithinCap`. The cap is asked for when a heal is decided,
  on what the row counts. As long as a message may still be sent (`MaySend`) fewer
  went out than the cap and the faults allow; `CountInv` ties the two counts at the
  decision, and a row that was replaced meanwhile is healing in the list only.
* `ParkedForEver`: what `restart_strands` and `budget_leak` reach is permanent. A queued
  row with an active session, and an active session of a row handed to a person,
  stay so through every step but a replacement of the store (`Replaced`): the first is skipped by
  both passes, and only a handler of its row closes the second. `OwnedInv` (ids are
  handed out once) keeps the session from being given to another row.
* `ImplementsLifecycle`: `Spec => FollowsLifecycle`, the refinement: each step is one
  of `Lifecycle`'s or a stutter, since an update moves a row from the state its
  copy has (`CopyIsFresh`) along the edge its plan fits, and a heal is decided below the cap.
  A replacement deletes what there was and brings one row at rest, with any attempts.

`ControlPlaneProofs`, for any Devin whose moves are in `DevinMoves`

* `ControlImplementsReconciler`: `ControlSpec => Spec`. What a GET returns is a
  snapshot (`ViewAssumption`), what a commit's checks say a `CheckResult`; so all of
  the above holds of the composition.
* `ControlTypeCorrect`.
* `GateIsEarned`: `GateWasGreen`, crash or not. `HeadsInv` says that the head of a pull
  request was pushed by the session of the row; `GateInv` that a row whose update to
  `awaiting_merge` is owed has such a commit already. Checks never change once they ended.
* `HealsArePaidFor`: `HealsOncePerCommit`. `HealInv` counts, in store order, the red
  commits a row was healed for: each is at or below `last_healed_sha`, and the
  head is beyond it whenever a heal is decided.
* `GateVerdictHolds`: `GateHasVerdictUndisturbed`. While no handler was cut short, a row
  that is being verified has its session (`AttendedInv`), so the poll found one;
  and a session does not take a verdict back (`VerdictAssumption`, `VerdictInv`).
* `InFlightWatched`: `InFlightIsWatchedUndisturbed`, from the same `AttendedInv`.
* `RealSpendIsAccounted`: `OverrunIsAccounted`. What Devin bills beyond what the
  guard committed was spent by sessions the guard does not see (`Unseen`): closed
  ones, those a fault kept from the record, and the one whose insert is pending, for
  which `BudgetInv` still holds a cap free. `SeenAreCommitted` and `UnseenAreFew` bound
  the two parts; the rest is counting.
* `HealsFindSessionIdle`: `HealsOnlyIdleUndisturbed`, where only messages wake a
  session that has a pull request (`WokenByMessageOnly`; `MCControlPlane` assumes it
  of `Inquisitive`, whose moves contain those of `Cooperative`). The decision is taken
  in one tick and carried out in another, so the invariant carries what was seen over
  the boundary: a row with a pull request has it from its session (`PrInv`), what a
  handler has polled is not busier than what it saw (`SeenInv`), and from the decision
  to the message the session rests (`IdleInv`).

`SimulatorProofs`

* `SimTypeCorrect`: `SimSpec => []SimTypeOK`, and `SimSpendStaysWithinBudget`. A step is
  one of `Reconciler`'s or forgets something (`SimSteps`), so `TypeInv` and
  `BudgetInv` are used as they are. What is added is that every poll, also of a
  session that is made up, returns a snapshot (`MemoryOK`), and that a pull
  request is stored only where a session is known (`SidKnown`).
* `SimKeepsStore` carries one session row each, the fresh copies, the log, the off-ramps
  and the count and cap of heals over to SIMULATE mode, and `SimImplementsLifecycle` the state
  machine: `SimStoreInv` is kept by `Reconciler`'s steps as shown there, and forgetting
  changes no table, only the list of the tick and what it was about to do.
* `DemoEndsAsScripted`, where at least one heal is allowed (with none the row to be
  healed ends at the cap). What is asked for is remembered in the session until it
  is forgotten or its id given away (`Remembered`), what a handler has polled is
  what the session of its row says (`Shown`), and a row that waits for its checks has its
  session (`Attended`), so none is handed to a person; with these, what is owed
  and what is stored stay in the script of the row (`PlanScripted`, `RowsScripted`).

`WorkerProofs`: `WorkerTypeCorrect`.

`VerifierProofs`, for any sets of commits, check runs and file sets and any page
size

* `VerifierTypeCorrect`.
* `GreenIsAlwaysGated`: `Spec => []GreenIsEarned`, and `RedIsAlwaysAFailure`:
  `Spec => []RedIsEarned`. The three GETs are not atomic,
  so the invariant (`ResultInv`) says what survives from one to the next: an end that was
  answered stands (`AnswersStand`), and the commit asked about is the head or one
  the head has left for good (`NotAhead`). If it still is the head at the end,
  the files just read are its own.

`IngestProofs`, for any sets of issues, findings and bodies, any page size, any
number of edits and faults

* `IngestTypeCorrect`.
* `OneRemediationPerVersion`: `Spec => []OneRowPerWrittenVersion`. A row can come
  from a copy that is long out of date, so the invariant traces each key back to
  a version its issue has had (`TrackedByVersion`), and says the same of what is
  labelled and of what is still listed (`LabelledIsVersion`, `ListedIsVersion`).
  Versions are only added. Counting is then an injection from the rows of an
  issue into its versions.
* `QueuedIsLoggedOnce`: whoever inserted a row is the only one to owe its event
  (`QueueInv`); each fault loses one.
* `FindingsOpenOnce`, for a backlog that fits one page (`Cardinality(Issue) <=
  PageSize`; beyond it the property fails by the design of the listing): a finding
  the scan still means to open has no open issue but those of lost answers (`ScanInv`).

The assumptions are the named `ASSUME`s of the modules: ids are numbers, the sets
are finite, null values lie outside, a snapshot never costs more than the cap. Two
are about Devin: `ViewAssumption`, that a session may be found in any combination of
the fields up to its cap (so it restricts the instance, not Devin), and
`VerdictAssumption`, that a verdict which was reported is not taken back.

Only model-checked: what is temporal (`HealingIsDelivered`,
`SettlesUndisturbed`, `VerdictConverges`, `EndedIsJudged`, `BacklogIsTracked`,
`EndsAcrossRestarts`, `SeriesCatchesUp` and the four of `Worker`), since liveness
under fairness and `ENABLED` are beyond the prover. The five
violated runs are counterexamples of one instance each. No module uses a
RECURSIVE operator.

## 5. Abstractions and omissions

* Costs are whole ACUs. Urls are the four kinds that `_pr_number` and truthiness
  tell apart. In `Reconciler` events are the set of types logged; their text, the
  queued event (see `Ingest`) and which log a heal message quotes are left out.
* A session that wakes up by itself can be messaged while it works: the tick that
  sends the message does not look at the snapshot it has just polled
  (`loop.py:294-301`). `HealsOnlyIdleUndisturbed` is checked where nothing but a
  message wakes a session.
* In `Ingest` issues are not relabelled or reopened, there is one scanner, and an
  issue has its node id (the code's stand-ins for a missing one differ too).
* A write of the burn-down series that fails loses its point until a count changes:
  the counts are remembered before the row is written (`loop.py:327-328`).
  `SeriesCatchesUp` is therefore stated for runs in which none does; no other
  decision reads the series.
* In `Simulator` costs are tenths of an ACU and polls saturate at the last step
  they tell apart. The number of a pull request that is made up for a forgotten
  session is a hash in the code and any of the numbers here. Nothing is merged and
  nobody replaces the store.
* `LoadResults` inserts one recorded row of the six in the file, each kind of row in
  turn; the others would add rows that no handler takes up. Recorded sessions cost
  nothing and are closed, as they are in the file.
* `Worker` counts the ceiling in whole caps. That the guard counts what a running
  session has consumed on top of its reservation (`budget.py:30`) is in `Reconciler`;
  in `Worker` it would only turn more rows away while a session runs.
* In `Verifier` a finished check run is never re-run and a commit never comes
  back; the list of files is complete (the code reads at most 100).
**Not modelled.**

* The five attempts of the clients with `Retry-After`, and what is left when they
  are used up: seen from the store, giving up is an exception (`TickError`, `Crash`)
  and a repeated POST is `...ResponseLost`.
* `terminate_session`, which nothing calls.
* Metrics roll-ups, dashboard and the read-only queries of the store: pure reads.
* Prompts and playbooks, configuration, logging, bootstrap: text and wiring; the
  settings that a decision reads are CONSTANTS.
* Signature and size checks of the webhook: they turn requests away and change nothing.
* The rules by which the scanner finds things, label management, and the command
  line scanner next to a scheduled one (`hazards` says what that does).
* The scripts: tools an operator runs once, outside the two processes.

## 6. Plan

Done, in this order: the core (`Reconciler`, `Lifecycle`, `ControlPlane`), `Verifier`,
`Ingest`, `Simulator`, `Worker`; the proofs of section 4. What is left, by worth:

1. `Verifier` under `ControlPlane`: a verification that takes three steps while the
   session pushes, and pages of check runs and files.
2. The client: its five attempts and what may have happened when they are used up.
3. A second scanner beside the scheduled one.
