------------------------------- MODULE Ingest -------------------------------
(***************************************************************************)
(* How labelled issues become remediations, and findings issues.           *)
(*                                                                         *)
(* Two processes enqueue: the web process on a webhook                     *)
(* (src/ingest/app.py, webhook.py), the worker when it resyncs with the    *)
(* fork (Reconciler.resync).  Both go through the unique key               *)
(* (issue_id, spec_hash) and each computes that key by itself.  The        *)
(* worker's scheduled scan opens issues (src/scanner/scan.py).  GitHub is  *)
(* the environment: people open, label, edit and close issues; a webhook   *)
(* arrives late, twice or never.  An issue is its node id and its number.  *)
(*                                                                         *)
(* A definition whose comment begins with "Variant" is a plausible bug put *)
(* in the place of the one that follows it.                                *)
(***************************************************************************)
EXTENDS Integers, FiniteSets

CONSTANTS
  Issue,       \* numbers of the issues the fork may come to have (a bound)
  Findings,    \* titles of the scanner's findings
  OtherTitle,  \* title of an issue opened by a person
  Body,        \* what a body may say
  NoBody,      \* a body left empty
  PageSize,    \* issues one listing returns at most
  MaxEdits,    \* bound: bodies edited
  MaxFaults    \* bound: crashes and lost answers

ASSUME IssueAssumption == Issue \subseteq Nat \ {0} /\ IsFiniteSet(Issue)
ASSUME TextAssumption == IsFiniteSet(Body) /\ NoBody \notin Body /\ OtherTitle \notin Findings
ASSUME IngestBoundAssumption == PageSize \in Nat /\ MaxEdits \in Nat /\ MaxFaults \in Nat

Titles == Findings \cup {OtherTitle}
Bodies == Body \cup {NoBody}

VARIABLES
  issue,     \* GitHub: the issues
  versions,  \* GitHub: the bodies an issue has had while labelled, each of them sent or listed
  tracked,   \* remediations: the keys of the rows
  queued,    \* events: "queued" events logged for a key
  owed,      \* web, worker: the row just inserted whose event is still to be logged
  turn,      \* worker: where in its loop
  scan,      \* worker: the findings the scan has still to open an issue for
  listed,    \* worker: the copies of the listed issues resync has still to handle
  edits, faults

github == <<issue, versions>>
store  == <<tracked, queued>>
ingestVars == <<github, store, owed, turn, scan, listed, edits, faults>>

NoIssue == [state |-> "none", title |-> OtherTitle, body |-> NoBody, label |-> FALSE]

(* spec_hash tells texts apart; the kind says which text was hashed.        *)
Hashes == ({"body"} \X Body) \cup ({"number"} \X Issue) \cup ({"title"} \X Titles)

Keys == [number : Issue, hash : Hashes]

NoKey == [number |-> 0, hash |-> <<"none", 0>>]

NothingListed == [i \in {} |-> NoIssue]

(* Variant: nothing stands in for an empty body.                            *)
WebhookKeyOfBody(i, body) == [number |-> i, hash |-> <<"body", body>>]

(* parse_issue_labeled: body or number.                                     *)
WebhookKey(i, body) ==
  [number |-> i, hash |-> IF body # NoBody THEN <<"body", body>> ELSE <<"number", i>>]

(* Variant: the title is hashed, body or not.                               *)
ResyncKeyByTitle(i, title, body) == [number |-> i, hash |-> <<"title", title>>]

(* resync: body or title.                                                   *)
ResyncKey(i, title, body) ==
  [number |-> i, hash |-> IF body # NoBody THEN <<"body", body>> ELSE <<"title", title>>]

Backlog == {i \in Issue : issue[i].state = "open" /\ issue[i].label}

(* Variant: one short of a page.                                            *)
ShortPage == {i \in Backlog : Cardinality({j \in Backlog : j >= i}) < PageSize}

(* list_labeled: open issues with the label, one page, the newest first.    *)
Page == {i \in Backlog : Cardinality({j \in Backlog : j > i}) < PageSize}

(* Numbers left, those that the scan will want set aside.                   *)
Free == {i \in Issue : issue[i].state = "none"}
RoomFor(n) == Cardinality(Free) >= Cardinality(scan) + n
NextNumber(i) == i \in Free /\ \A j \in Free : i <= j

Init ==
  /\ issue = [i \in Issue |-> NoIssue]
  /\ versions = [i \in Issue |-> {}]
  /\ tracked = {} /\ queued = [k \in Keys |-> 0]
  /\ owed = [p \in {"web", "worker"} |-> NoKey]
  /\ turn = "loop" /\ scan = {} /\ listed = NothingListed
  /\ edits = 0 /\ faults = 0

-----------------------------------------------------------------------------
(* GitHub and the people who use it.                                        *)

Appears(i, title, body, label) ==
  /\ NextNumber(i)
  /\ issue' = [issue EXCEPT ![i] = [state |-> "open", title |-> title, body |-> body, label |-> label]]
  /\ versions' = IF label THEN [versions EXCEPT ![i] = @ \cup {body}] ELSE versions

PersonOpens(i) ==
  /\ RoomFor(1)
  /\ \E body \in Bodies, label \in BOOLEAN : Appears(i, OtherTitle, body, label)
  /\ UNCHANGED <<store, owed, turn, scan, listed, edits, faults>>

PersonLabels(i) ==
  /\ issue[i].state # "none" /\ ~issue[i].label
  /\ issue' = [issue EXCEPT ![i].label = TRUE]
  /\ versions' = [versions EXCEPT ![i] = @ \cup {issue[i].body}]
  /\ UNCHANGED <<store, owed, turn, scan, listed, edits, faults>>

(* An edit before the issue is labelled makes no difference to Helmsman.    *)
PersonEdits(i) ==
  /\ issue[i].label /\ edits < MaxEdits
  /\ \E body \in Bodies \ {issue[i].body} :
       /\ issue' = [issue EXCEPT ![i].body = body]
       /\ versions' = [versions EXCEPT ![i] = @ \cup {body}]
  /\ edits' = edits + 1
  /\ UNCHANGED <<store, owed, turn, scan, listed, faults>>

PersonCloses(i) ==
  /\ issue[i].state = "open"
  /\ issue' = [issue EXCEPT ![i].state = "closed"]
  /\ UNCHANGED <<versions, store, owed, turn, scan, listed, edits, faults>>

-----------------------------------------------------------------------------
(* Enqueueing: the row in one transaction, its event in the next.           *)

(* Variant: the event is owed whether the row is new or not.                *)
GetOrCreateLogsAlways(p, k) ==
  /\ tracked' = tracked \cup {k}
  /\ owed' = [owed EXCEPT ![p] = k]

(* INSERT ... ON CONFLICT DO NOTHING: only who created the row logs.        *)
GetOrCreate(p, k) ==
  /\ tracked' = tracked \cup {k}
  /\ owed' = [owed EXCEPT ![p] = IF k \in tracked THEN NoKey ELSE k]

AddQueuedEvent(p) ==
  /\ owed[p] # NoKey
  /\ queued' = [queued EXCEPT ![owed[p]] = @ + 1]
  /\ owed' = [owed EXCEPT ![p] = NoKey]
  /\ UNCHANGED <<github, tracked, turn, scan, listed, edits, faults>>

(* POST /webhook, signed by GitHub, for a label put on the issue when it    *)
(* said `body`; every further label on it sends another one.  The handler   *)
(* does not await between its two writes: one delivery at a time.           *)
HandleWebhook(i, body) ==
  /\ owed["web"] = NoKey /\ body \in versions[i]
  /\ GetOrCreate("web", WebhookKey(i, body))
  /\ UNCHANGED <<github, queued, turn, scan, listed, edits, faults>>

-----------------------------------------------------------------------------
(* The worker's loop: scan, resync, and then the tick (module Reconciler).  *)

(* Variant: titles that are open already are not skipped.                   *)
OpensEverything == Findings

(* open_issues: the findings without an open, labelled issue of that title. *)
ToOpen == Findings \ {issue[i].title : i \in Page}

BeginScan ==
  /\ turn = "loop" /\ RoomFor(Cardinality(ToOpen))
  /\ scan' = ToOpen
  /\ turn' = "scan"
  /\ UNCHANGED <<github, store, owed, listed, edits, faults>>

(* create_issue for the next finding of the list made before the loop.      *)
OpenIssue(i) ==
  /\ \E title \in scan, body \in Body :
       Appears(i, title, body, TRUE) /\ scan' = scan \ {title}
  /\ UNCHANGED <<store, owed, turn, listed, edits, faults>>

(* The answer to the POST is lost: the client sends it again.               *)
OpenIssueResponseLost(i) ==
  /\ faults < MaxFaults /\ RoomFor(1)
  /\ \E title \in scan, body \in Body : Appears(i, title, body, TRUE)
  /\ faults' = faults + 1
  /\ UNCHANGED <<store, owed, turn, scan, listed, edits>>

BeginResync ==
  /\ turn \in {"loop", "scan"} /\ scan = {}
  /\ listed' = [i \in Page |-> issue[i]]
  /\ turn' = "resync"
  /\ UNCHANGED <<github, store, owed, scan, edits, faults>>

Resync(i) ==
  /\ turn = "resync" /\ owed["worker"] = NoKey /\ i \in DOMAIN listed
  /\ \A j \in DOMAIN listed : j <= i
  /\ GetOrCreate("worker", ResyncKey(i, listed[i].title, listed[i].body))
  /\ listed' = [j \in DOMAIN listed \ {i} |-> listed[j]]
  /\ UNCHANGED <<github, queued, turn, scan, edits, faults>>

EndResync ==
  /\ turn = "resync" /\ owed["worker"] = NoKey /\ DOMAIN listed = {}
  /\ turn' = "loop"
  /\ UNCHANGED <<github, store, owed, scan, listed, edits, faults>>

(* A crash, or an exception that ends the pass of the loop.                 *)
WorkerDies ==
  /\ faults < MaxFaults /\ turn # "loop"
  /\ turn' = "loop" /\ owed' = [owed EXCEPT !["worker"] = NoKey]
  /\ scan' = {} /\ listed' = NothingListed
  /\ faults' = faults + 1
  /\ UNCHANGED <<github, store, edits>>

WebDies ==
  /\ faults < MaxFaults /\ owed["web"] # NoKey
  /\ owed' = [owed EXCEPT !["web"] = NoKey]
  /\ faults' = faults + 1
  /\ UNCHANGED <<github, store, turn, scan, listed, edits>>

WorkerStep ==
  \/ BeginScan \/ BeginResync \/ EndResync \/ AddQueuedEvent("worker")
  \/ \E i \in Issue : OpenIssue(i) \/ Resync(i)

Next ==
  \/ \E i \in Issue : PersonOpens(i) \/ PersonLabels(i) \/ PersonEdits(i) \/ PersonCloses(i)
  \/ \E i \in Issue, body \in Bodies : HandleWebhook(i, body)
  \/ AddQueuedEvent("web")
  \/ WorkerStep
  \/ WorkerDies \/ WebDies \/ \E i \in Issue : OpenIssueResponseLost(i)

Spec == Init /\ [][Next]_ingestVars

(* The worker's loop goes on; webhooks may never arrive.                    *)
FairSpec == Spec /\ WF_ingestVars(WorkerStep)

-----------------------------------------------------------------------------
(* Properties.                                                              *)

Issues == [state : {"none", "open", "closed"}, title : Titles, body : Bodies, label : BOOLEAN]

(* Only keys that the two processes can compute are tracked.                *)
TypeOK ==
  /\ issue \in [Issue -> Issues]
  /\ versions \in [Issue -> SUBSET Bodies]
  /\ tracked \subseteq Keys /\ queued \in [Keys -> Nat]
  /\ owed \in [{"web", "worker"} -> Keys \cup {NoKey}]
  /\ turn \in {"loop", "scan", "resync"}
  /\ scan \subseteq Findings
  /\ DOMAIN listed \subseteq Issue /\ \A i \in DOMAIN listed : listed[i] \in Issues
  /\ edits \in 0 .. MaxEdits /\ faults \in 0 .. MaxFaults

RowsOf(i) == {k \in tracked : k.number = i}

(* "one remediation per (issue, spec)": re-delivered webhooks and resyncs,  *)
(* early, late or both at once, collapse onto one row (schema.sql:26-27),   *)
(* so an issue has no more rows, and paid sessions, than it had bodies.     *)
OneRowPerVersion == \A i \in Issue : Cardinality(RowsOf(i)) <= Cardinality(versions[i])

(* ... for the issues that always said something.                           *)
OneRowPerWrittenVersion ==
  \A i \in Issue : NoBody \notin versions[i] => Cardinality(RowsOf(i)) <= Cardinality(versions[i])

(* The log says queued once for every remediation, whoever of the two       *)
(* processes wins the insert; one is missing only where somebody died.      *)
QueuedOnce ==
  /\ \A k \in Keys : queued[k] <= 1 /\ (queued[k] = 1 => k \in tracked)
  /\ Cardinality({k \in tracked : queued[k] = 0 /\ k \notin {owed["web"], owed["worker"]}}) <= faults

OpenFor(title) == {i \in Backlog : issue[i].title = title}

(* "idempotently (skips titles that already exist open)"                    *)
(* (src/scanner/__main__.py:4): a finding has one open issue, and at most   *)
(* one more for each answer lost, whatever is closed, or the scan cut       *)
(* short, between the listing and the issues opened from it.                *)
FindingOpenedOnce == \A f \in Findings : Cardinality(OpenFor(f)) <= 1 + faults

Tracked(i) ==
  {WebhookKey(i, issue[i].body), ResyncKey(i, issue[i].title, issue[i].body)} \cap tracked # {}

(* Level-triggered: an issue that stays open and labelled gets a            *)
(* remediation for what it says in the end, although its webhook never      *)
(* arrived and the worker died on the way (docs/DESIGN.md 5.1).             *)
BacklogIsTracked == \A i \in Issue : i \in Backlog ~> Tracked(i) \/ i \notin Backlog

=============================================================================
