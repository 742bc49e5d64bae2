---------------------------- MODULE IngestProofs ----------------------------
(***************************************************************************)
(* The dedupe of remediations, for every set of issues, findings and       *)
(* bodies, any page size, and any number of edits and faults: the key of a *)
(* row comes from what its issue said while it was labelled, whichever     *)
(* process computed it and however old the copy it was computed from.      *)
(***************************************************************************)
EXTENDS Ingest, FiniteSetTheorems, TLAPS

KeyOf(k, i, title, body) == k = WebhookKey(i, body) \/ k = ResyncKey(i, title, body)

(* Every row goes back to a version of its issue.                           *)
TrackedByVersion ==
  \A k \in tracked : \E i \in Issue, title \in Titles : \E body \in versions[i] : KeyOf(k, i, title, body)

(* What GitHub lists, and what resync still holds of it, are versions.      *)
LabelledIsVersion == \A i \in Issue : issue[i].label => issue[i].body \in versions[i]
ListedIsVersion == \A i \in DOMAIN listed : listed[i].body \in versions[i]

DedupeInv == TypeOK /\ TrackedByVersion /\ LabelledIsVersion /\ ListedIsVersion

(* A key computed from a version is one of the keys a row can have.         *)
LEMMA ComputedKeys ==
  ASSUME NEW i \in Issue, NEW title \in Titles, NEW body \in Bodies
  PROVE /\ WebhookKey(i, body) \in Keys /\ WebhookKey(i, body).number = i
        /\ ResyncKey(i, title, body) \in Keys /\ ResyncKey(i, title, body).number = i
BY DEF WebhookKey, ResyncKey, Keys, Hashes, Bodies

(* An insert under such a key, by either process.                           *)
LEMMA GetOrCreateKeepsTypes ==
  ASSUME TypeOK, NEW p \in {"web", "worker"}, NEW k \in Keys, GetOrCreate(p, k)
  PROVE tracked' \subseteq Keys /\ owed' \in [{"web", "worker"} -> Keys \cup {NoKey}]
BY DEF TypeOK, GetOrCreate

(* Rows stay accounted for as long as versions are only added.              *)
LEMMA VersionsGrow ==
  ASSUME TrackedByVersion, \A i \in Issue : versions[i] \subseteq versions'[i], tracked' = tracked
  PROVE TrackedByVersion'
BY DEF TrackedByVersion, KeyOf, WebhookKey, ResyncKey

(* Nobody is listed, tracked or labelled at the start.                      *)
LEMMA InitDedupeInv == Init => DedupeInv
BY IngestBoundAssumption
DEF Init, DedupeInv, TypeOK, TrackedByVersion, LabelledIsVersion, ListedIsVersion, NoIssue,
    NothingListed, Issues, Titles, Bodies

(* An issue appears, by a person or the scan.                               *)
LEMMA AppearsKeeps ==
  ASSUME DedupeInv, NEW i \in Issue, NEW title \in Titles, NEW body \in Bodies, NEW label \in BOOLEAN,
         Appears(i, title, body, label), UNCHANGED <<tracked, listed>>
  PROVE /\ issue' \in [Issue -> Issues] /\ versions' \in [Issue -> SUBSET Bodies]
        /\ TrackedByVersion' /\ LabelledIsVersion' /\ ListedIsVersion'
<1>1. issue' \in [Issue -> Issues] /\ versions' \in [Issue -> SUBSET Bodies]
  BY DEF Appears, DedupeInv, TypeOK, Issues
<1>2. \A j \in Issue : versions[j] \subseteq versions'[j]
  BY DEF Appears, DedupeInv, TypeOK
<1>3. TrackedByVersion'
  BY <1>2, VersionsGrow DEF DedupeInv
<1>4. LabelledIsVersion' /\ ListedIsVersion'
  BY <1>2 DEF Appears, DedupeInv, TypeOK, LabelledIsVersion, ListedIsVersion
<1> QED
  BY <1>1, <1>3, <1>4

(* Every step of people, the web process and the worker keeps it.           *)
LEMMA NextDedupeInv == DedupeInv /\ [Next]_ingestVars => DedupeInv'
<1> SUFFICES ASSUME DedupeInv, [Next]_ingestVars PROVE DedupeInv'
  OBVIOUS
<1> USE DEF github, store
<1>1. ASSUME NEW i \in Issue, PersonOpens(i) PROVE DedupeInv'
  <2>1. PICK body \in Bodies, label \in BOOLEAN : Appears(i, OtherTitle, body, label)
    BY <1>1 DEF PersonOpens
  <2> QED
    BY <1>1, <2>1, AppearsKeeps DEF PersonOpens, DedupeInv, TypeOK, Titles
<1>2. ASSUME NEW i \in Issue, PersonLabels(i) PROVE DedupeInv'
  <2>1. \A j \in Issue : versions[j] \subseteq versions'[j]
    BY <1>2 DEF PersonLabels, DedupeInv, TypeOK
  <2>2. TypeOK'
    BY <1>2 DEF PersonLabels, DedupeInv, TypeOK, Issues
  <2>3. TrackedByVersion'
    BY <1>2, <2>1, VersionsGrow DEF PersonLabels, DedupeInv
  <2>4. LabelledIsVersion' /\ ListedIsVersion'
    BY <1>2, <2>1 DEF PersonLabels, DedupeInv, TypeOK, LabelledIsVersion, ListedIsVersion
  <2> QED
    BY <2>2, <2>3, <2>4 DEF DedupeInv
<1>3. ASSUME NEW i \in Issue, PersonEdits(i) PROVE DedupeInv'
  <2>1. PICK body \in Bodies :
          /\ issue' = [issue EXCEPT ![i].body = body]
          /\ versions' = [versions EXCEPT ![i] = @ \cup {body}]
    BY <1>3 DEF PersonEdits
  <2>2. \A j \in Issue : versions[j] \subseteq versions'[j]
    BY <2>1 DEF DedupeInv, TypeOK
  <2>3. TypeOK'
    BY <1>3, <2>1, IngestBoundAssumption DEF PersonEdits, DedupeInv, TypeOK, Issues
  <2>4. TrackedByVersion'
    BY <1>3, <2>2, VersionsGrow DEF PersonEdits, DedupeInv
  <2>5. LabelledIsVersion' /\ ListedIsVersion'
    BY <1>3, <2>1, <2>2 DEF PersonEdits, DedupeInv, TypeOK, LabelledIsVersion, ListedIsVersion
  <2> QED
    BY <2>3, <2>4, <2>5 DEF DedupeInv
<1>4. ASSUME NEW i \in Issue, PersonCloses(i) PROVE DedupeInv'
  <2>1. TypeOK' /\ LabelledIsVersion'
    BY <1>4 DEF PersonCloses, DedupeInv, TypeOK, Issues, LabelledIsVersion
  <2>2. TrackedByVersion' /\ ListedIsVersion'
    BY <1>4 DEF PersonCloses, DedupeInv, TrackedByVersion, KeyOf, WebhookKey, ResyncKey, ListedIsVersion
  <2> QED
    BY <2>1, <2>2 DEF DedupeInv
<1>5. ASSUME NEW i \in Issue, NEW body \in Bodies, HandleWebhook(i, body) PROVE DedupeInv'
  <2> DEFINE k == WebhookKey(i, body)
  <2>1. k \in Keys /\ GetOrCreate("web", k) /\ OtherTitle \in Titles
    BY <1>5, ComputedKeys DEF HandleWebhook, Titles
  <2>2. TypeOK'
    BY <1>5, <2>1, GetOrCreateKeepsTypes DEF HandleWebhook, DedupeInv, TypeOK
  <2>3. tracked' = tracked \cup {k} /\ versions' = versions /\ body \in versions[i]
    BY <1>5 DEF HandleWebhook, GetOrCreate
  <2>4. TrackedByVersion'
    <3>1. KeyOf(k, i, OtherTitle, body)
      BY DEF KeyOf
    <3> QED
      BY <2>1, <2>3, <3>1 DEF DedupeInv, TrackedByVersion, KeyOf, WebhookKey, ResyncKey
  <2>5. LabelledIsVersion' /\ ListedIsVersion'
    BY <1>5 DEF HandleWebhook, DedupeInv, LabelledIsVersion, ListedIsVersion
  <2> QED
    BY <2>2, <2>4, <2>5 DEF DedupeInv
<1>6. ASSUME NEW p \in {"web", "worker"}, AddQueuedEvent(p) PROVE DedupeInv'
  <2>1. TypeOK'
    BY <1>6 DEF AddQueuedEvent, DedupeInv, TypeOK
  <2>2. TrackedByVersion' /\ LabelledIsVersion' /\ ListedIsVersion'
    BY <1>6 DEF AddQueuedEvent, DedupeInv, TrackedByVersion, KeyOf, WebhookKey, ResyncKey,
                LabelledIsVersion, ListedIsVersion
  <2> QED
    BY <2>1, <2>2 DEF DedupeInv
<1>7. CASE BeginScan
  <2>1. TypeOK'
    BY <1>7 DEF BeginScan, ToOpen, DedupeInv, TypeOK
  <2>2. TrackedByVersion' /\ LabelledIsVersion' /\ ListedIsVersion'
    BY <1>7 DEF BeginScan, DedupeInv, TrackedByVersion, KeyOf, WebhookKey, ResyncKey,
                LabelledIsVersion, ListedIsVersion
  <2> QED
    BY <2>1, <2>2 DEF DedupeInv
<1>8. ASSUME NEW i \in Issue, OpenIssue(i) PROVE DedupeInv'
  <2>1. PICK title \in scan, body \in Body : Appears(i, title, body, TRUE) /\ scan' = scan \ {title}
    BY <1>8 DEF OpenIssue
  <2>2. title \in Titles /\ body \in Bodies
    BY <2>1 DEF DedupeInv, TypeOK, Titles, Bodies
  <2> QED
    BY <1>8, <2>1, <2>2, AppearsKeeps DEF OpenIssue, DedupeInv, TypeOK
<1>9. ASSUME NEW i \in Issue, OpenIssueResponseLost(i) PROVE DedupeInv'
  <2>1. PICK title \in scan, body \in Body : Appears(i, title, body, TRUE)
    BY <1>9 DEF OpenIssueResponseLost
  <2>2. title \in Titles /\ body \in Bodies
    BY <2>1 DEF DedupeInv, TypeOK, Titles, Bodies
  <2>3. /\ issue' \in [Issue -> Issues] /\ versions' \in [Issue -> SUBSET Bodies]
        /\ TrackedByVersion' /\ LabelledIsVersion' /\ ListedIsVersion'
    BY <1>9, <2>1, <2>2, AppearsKeeps DEF OpenIssueResponseLost
  <2>4. TypeOK'
    BY <1>9, <2>3, IngestBoundAssumption DEF OpenIssueResponseLost, DedupeInv, TypeOK
  <2> QED
    BY <2>3, <2>4 DEF DedupeInv
<1>10. CASE BeginResync
  <2>1. TypeOK'
    BY <1>10 DEF BeginResync, Page, Backlog, DedupeInv, TypeOK
  <2>2. ListedIsVersion'
    BY <1>10 DEF BeginResync, Page, Backlog, DedupeInv, TypeOK, LabelledIsVersion, ListedIsVersion
  <2>3. TrackedByVersion' /\ LabelledIsVersion'
    BY <1>10 DEF BeginResync, DedupeInv, TrackedByVersion, KeyOf, WebhookKey, ResyncKey, LabelledIsVersion
  <2> QED
    BY <2>1, <2>2, <2>3 DEF DedupeInv
<1>11. ASSUME NEW i \in Issue, Resync(i) PROVE DedupeInv'
  <2> DEFINE k == ResyncKey(i, listed[i].title, listed[i].body)
  <2>1. i \in DOMAIN listed /\ listed[i].title \in Titles /\ listed[i].body \in Bodies
        /\ listed[i].body \in versions[i]
    BY <1>11 DEF Resync, DedupeInv, TypeOK, Issues, ListedIsVersion
  <2>2. k \in Keys /\ GetOrCreate("worker", k)
    BY <1>11, <2>1, ComputedKeys DEF Resync
  <2>3. TypeOK'
    BY <1>11, <2>2, GetOrCreateKeepsTypes DEF Resync, DedupeInv, TypeOK
  <2>4. tracked' = tracked \cup {k} /\ versions' = versions
    BY <1>11 DEF Resync, GetOrCreate
  <2>5. TrackedByVersion'
    <3>1. KeyOf(k, i, listed[i].title, listed[i].body)
      BY DEF KeyOf
    <3> HIDE DEF k
    <3> QED
      BY <2>1, <2>4, <3>1 DEF DedupeInv, TrackedByVersion, KeyOf, WebhookKey, ResyncKey
  <2>6. LabelledIsVersion' /\ ListedIsVersion'
    BY <1>11 DEF Resync, DedupeInv, LabelledIsVersion, ListedIsVersion
  <2> QED
    BY <2>3, <2>5, <2>6 DEF DedupeInv
<1>12. CASE EndResync
  <2>1. TypeOK'
    BY <1>12 DEF EndResync, DedupeInv, TypeOK
  <2>2. TrackedByVersion' /\ LabelledIsVersion' /\ ListedIsVersion'
    BY <1>12 DEF EndResync, DedupeInv, TrackedByVersion, KeyOf, WebhookKey, ResyncKey,
                 LabelledIsVersion, ListedIsVersion
  <2> QED
    BY <2>1, <2>2 DEF DedupeInv
<1>13. CASE WorkerDies \/ WebDies
  <2>1. TypeOK'
    BY <1>13, IngestBoundAssumption DEF WorkerDies, WebDies, NothingListed, DedupeInv, TypeOK
  <2>2. TrackedByVersion' /\ LabelledIsVersion' /\ ListedIsVersion'
    BY <1>13 DEF WorkerDies, WebDies, NothingListed, DedupeInv, TrackedByVersion, KeyOf, WebhookKey,
                 ResyncKey, LabelledIsVersion, ListedIsVersion
  <2> QED
    BY <2>1, <2>2 DEF DedupeInv
<1>14. CASE UNCHANGED ingestVars
  BY <1>14 DEF ingestVars, DedupeInv, TypeOK, TrackedByVersion, KeyOf, WebhookKey, ResyncKey,
               LabelledIsVersion, ListedIsVersion
<1> QED
  BY <1>1, <1>2, <1>3, <1>4, <1>5, <1>6, <1>7, <1>8, <1>9, <1>10, <1>11, <1>12, <1>13, <1>14
  DEF Next, WorkerStep

(* The rows of an issue that always said something are told apart by what   *)
(* it said, so there are no more of them than versions.                     *)
LEMMA DedupeInvCounts == DedupeInv => OneRowPerWrittenVersion
<1> SUFFICES ASSUME DedupeInv, NEW i \in Issue, NoBody \notin versions[i]
             PROVE Cardinality(RowsOf(i)) <= Cardinality(versions[i])
  BY DEF OneRowPerWrittenVersion
<1> DEFINE said == [k \in RowsOf(i) |-> k.hash[2]]
<1>1. \A k \in RowsOf(i) : \E body \in versions[i] : k = [number |-> i, hash |-> <<"body", body>>]
  <2> TAKE k \in RowsOf(i)
  <2>1. PICK j \in Issue, title \in Titles : \E body \in versions[j] : KeyOf(k, j, title, body)
    BY DEF RowsOf, DedupeInv, TrackedByVersion
  <2>2. PICK body \in versions[j] : KeyOf(k, j, title, body)
    BY <2>1
  <2>3. j = i
    BY <2>2 DEF RowsOf, KeyOf, WebhookKey, ResyncKey
  <2>4. body # NoBody
    BY <2>2, <2>3
  <2> QED
    BY <2>2, <2>3, <2>4 DEF KeyOf, WebhookKey, ResyncKey
<1>2. \A k \in RowsOf(i) : said[k] \in versions[i] /\ k = [number |-> i, hash |-> <<"body", said[k]>>]
  BY <1>1
<1>3. said \in Injection(RowsOf(i), versions[i])
  <2>1. said \in [RowsOf(i) -> versions[i]]
    BY <1>2
  <2>2. \A k, l \in RowsOf(i) : said[k] = said[l] => k = l
    BY <1>2
  <2> QED
    BY <2>1, <2>2 DEF Injection, IsInjective
<1>4. IsFiniteSet(versions[i])
  <2>1. IsFiniteSet(Bodies)
    BY TextAssumption, FS_AddElement DEF Bodies
  <2>2. versions[i] \in SUBSET Bodies
    BY DEF DedupeInv, TypeOK
  <2> QED
    BY <2>1, <2>2, FS_Subset
<1> QED
  BY <1>3, <1>4, FS_Injection

(* Only keys of issues of the fork, from a text one of the two processes    *)
(* hashes, are tracked (webhook.py:33, loop.py:93), owed or logged.         *)
THEOREM IngestTypeCorrect == Spec => []TypeOK
<1>1. Init => DedupeInv
  BY InitDedupeInv
<1>2. DedupeInv /\ [Next]_ingestVars => DedupeInv'
  BY NextDedupeInv
<1>3. DedupeInv => TypeOK
  BY DEF DedupeInv
<1> QED
  BY <1>1, <1>2, <1>3, PTL DEF Spec

(* Webhooks delivered late, twice or never, and resyncs from old listings,  *)
(* never give an issue more remediations than it had bodies                 *)
(* (schema.sql:26-27), as long as none of them was empty.                   *)
THEOREM OneRemediationPerVersion == Spec => []OneRowPerWrittenVersion
<1>1. Init => DedupeInv
  BY InitDedupeInv
<1>2. DedupeInv /\ [Next]_ingestVars => DedupeInv'
  BY NextDedupeInv
<1>3. DedupeInv => OneRowPerWrittenVersion
  BY DedupeInvCounts
<1> QED
  BY <1>1, <1>2, <1>3, PTL DEF Spec

(* The same invariant for what follows.                                     *)
LEMMA DedupeCorrect == Spec => []DedupeInv
BY InitDedupeInv, NextDedupeInv, PTL DEF Spec

-----------------------------------------------------------------------------
(* The log of what was queued.                                              *)

Unlogged == {k \in tracked : queued[k] = 0 /\ k \notin {owed["web"], owed["worker"]}}

QueueInv ==
  /\ \A k \in Keys : queued[k] <= 1 /\ (queued[k] = 1 => k \in tracked)
  /\ \A p \in {"web", "worker"} : owed[p] # NoKey => owed[p] \in tracked /\ queued[owed[p]] = 0
  /\ owed["web"] # NoKey => owed["web"] # owed["worker"]
  /\ IsFiniteSet(Unlogged) /\ Cardinality(Unlogged) <= faults

(* A null is not a key.                                                     *)
LEMMA NoKeyIsNone == NoKey \notin Keys
BY IssueAssumption DEF NoKey, Keys

(* An insert owes an event for a new row and for none other.                *)
LEMMA GetOrCreateKeepsQueueInv ==
  ASSUME TypeOK, QueueInv, NEW p \in {"web", "worker"}, NEW k \in Keys, owed[p] = NoKey, GetOrCreate(p, k),
         UNCHANGED <<queued, faults>>
  PROVE QueueInv'
<1>0. PICK q \in {"web", "worker"} : q # p /\ {p, q} = {"web", "worker"}
  OBVIOUS
<1>1. /\ tracked' = tracked \cup {k} /\ queued' = queued /\ faults' = faults
      /\ owed'[p] = IF k \in tracked THEN NoKey ELSE k
      /\ owed'[q] = owed[q]
  BY <1>0 DEF GetOrCreate, TypeOK
<1>2. k \notin tracked => queued[k] = 0 /\ owed[q] # k
  BY <1>0, NoKeyIsNone DEF QueueInv, TypeOK
<1>3. Unlogged' = Unlogged
  <2>1. \A x : x \in {owed["web"], owed["worker"]} <=> x = owed[p] \/ x = owed[q]
    BY <1>0
  <2>2. \A x : x \in {owed'["web"], owed'["worker"]} <=> x = owed'[p] \/ x = owed'[q]
    BY <1>0
  <2>3. ASSUME NEW x \in tracked' PROVE x \in Unlogged' <=> x \in Unlogged
    BY <1>1, <1>2, <2>1, <2>2, NoKeyIsNone DEF Unlogged, TypeOK
  <2> QED
    BY <1>1, <2>3 DEF Unlogged
<1>4. \A x \in Keys : queued'[x] <= 1 /\ (queued'[x] = 1 => x \in tracked')
  BY <1>1 DEF QueueInv
<1>5. \A o \in {"web", "worker"} : owed'[o] # NoKey => owed'[o] \in tracked' /\ queued'[owed'[o]] = 0
  BY <1>0, <1>1, <1>2 DEF QueueInv
<1>6. owed'["web"] # NoKey => owed'["web"] # owed'["worker"]
  BY <1>0, <1>1, <1>2, NoKeyIsNone DEF QueueInv, TypeOK
<1> QED
  BY <1>1, <1>3, <1>4, <1>5, <1>6 DEF QueueInv

(* Who dies leaves out at most the one event it owed.                       *)
LEMMA DyingKeepsQueueInv ==
  ASSUME TypeOK, QueueInv, NEW p \in {"web", "worker"}, owed' = [owed EXCEPT ![p] = NoKey], faults' = faults + 1,
         UNCHANGED <<tracked, queued>>
  PROVE QueueInv'
<1>1. Unlogged' \subseteq Unlogged \cup {owed[p]}
  BY DEF Unlogged, TypeOK
<1>2. /\ IsFiniteSet(Unlogged \cup {owed[p]})
      /\ Cardinality(Unlogged \cup {owed[p]}) <= Cardinality(Unlogged) + 1
      /\ Cardinality(Unlogged) \in Nat /\ Cardinality(Unlogged \cup {owed[p]}) \in Nat
  <2>1. IsFiniteSet(Unlogged)
    BY DEF QueueInv
  <2>2. Cardinality(Unlogged) \in Nat
    BY <2>1, FS_CardinalityType
  <2>3. /\ IsFiniteSet(Unlogged \cup {owed[p]})
        /\ \/ Cardinality(Unlogged \cup {owed[p]}) = Cardinality(Unlogged)
           \/ Cardinality(Unlogged \cup {owed[p]}) = Cardinality(Unlogged) + 1
    BY <2>1, FS_AddElement
  <2> QED
    BY <2>2, <2>3
<1>3. /\ IsFiniteSet(Unlogged') /\ Cardinality(Unlogged') \in Nat
      /\ Cardinality(Unlogged') <= Cardinality(Unlogged \cup {owed[p]})
  BY <1>1, <1>2, FS_Subset, FS_CardinalityType
<1>4. Cardinality(Unlogged') <= faults'
  BY <1>2, <1>3, IngestBoundAssumption DEF QueueInv, TypeOK
<1> QED
  BY <1>3, <1>4, NoKeyIsNone DEF QueueInv, TypeOK

(* An event is logged once, by the process that owed it.                    *)
LEMMA LoggingKeepsQueueInv ==
  ASSUME TypeOK, QueueInv, NEW p \in {"web", "worker"}, AddQueuedEvent(p)
  PROVE QueueInv'
<1>0. PICK q \in {"web", "worker"} : q # p /\ {p, q} = {"web", "worker"}
  OBVIOUS
<1>1. /\ owed[p] \in Keys /\ owed[p] \in tracked /\ queued[owed[p]] = 0 /\ owed[p] # NoKey
      /\ UNCHANGED <<tracked, faults>> /\ owed'[p] = NoKey /\ owed'[q] = owed[q]
      /\ \A k \in Keys : queued'[k] = IF k = owed[p] THEN 1 ELSE queued[k]
  BY <1>0 DEF AddQueuedEvent, QueueInv, TypeOK, github
<1>2. owed[q] # owed[p]
  BY <1>0, <1>1 DEF QueueInv
<1>3. Unlogged' = Unlogged
  <2>1. ASSUME NEW x \in tracked PROVE x \in Unlogged' <=> x \in Unlogged
    <3>1. x \in Keys /\ x # NoKey
      BY NoKeyIsNone DEF TypeOK
    <3>2. x \in {owed["web"], owed["worker"]} <=> x = owed[p] \/ x = owed[q]
      BY <1>0
    <3>3. x \in {owed'["web"], owed'["worker"]} <=> x = owed[q]
      BY <1>0, <1>1, <3>1
    <3> QED
      BY <1>1, <3>1, <3>2, <3>3 DEF Unlogged
  <2> QED
    BY <1>1, <2>1 DEF Unlogged
<1>4. \A o \in {"web", "worker"} : owed'[o] # NoKey => o = q
  BY <1>0, <1>1
<1>5. owed[q] # NoKey => owed[q] \in Keys
  BY DEF TypeOK
<1>6. \A o \in {"web", "worker"} : owed'[o] # NoKey => owed'[o] \in tracked' /\ queued'[owed'[o]] = 0
  BY <1>1, <1>2, <1>4, <1>5 DEF QueueInv
<1>7. owed'["web"] # NoKey => owed'["web"] # owed'["worker"]
  BY <1>0, <1>1
<1>8. \A k \in Keys : queued'[k] <= 1 /\ (queued'[k] = 1 => k \in tracked')
  BY <1>1 DEF QueueInv
<1> QED
  BY <1>1, <1>3, <1>6, <1>7, <1>8 DEF QueueInv

(* The others leave the log alone.                                          *)
LEMMA NextQueueInv ==
  ASSUME DedupeInv, QueueInv, [Next]_ingestVars
  PROVE QueueInv'
<1>0. TypeOK
  BY DEF DedupeInv
<1>1. ASSUME NEW i \in Issue, NEW body \in Bodies, HandleWebhook(i, body) PROVE QueueInv'
  <2>1. OtherTitle \in Titles
    BY DEF Titles
  <2>2. WebhookKey(i, body) \in Keys
    BY <2>1, ComputedKeys
  <2> QED
    BY <1>0, <1>1, <2>2, GetOrCreateKeepsQueueInv DEF HandleWebhook, github
<1>2. ASSUME NEW i \in Issue, Resync(i) PROVE QueueInv'
  <2>1. ResyncKey(i, listed[i].title, listed[i].body) \in Keys
    BY <1>0, <1>2, ComputedKeys DEF Resync, TypeOK, Issues
  <2> QED
    BY <1>0, <1>2, <2>1, GetOrCreateKeepsQueueInv DEF Resync, github
<1>3. ASSUME NEW p \in {"web", "worker"}, AddQueuedEvent(p) PROVE QueueInv'
  BY <1>0, <1>3, LoggingKeepsQueueInv
<1>4. CASE WorkerDies \/ WebDies
  BY <1>0, <1>4, DyingKeepsQueueInv DEF WorkerDies, WebDies, store, github
<1>5. CASE UNCHANGED <<store, owed>> /\ (faults' = faults \/ faults' = faults + 1)
  <2>1. Unlogged' = Unlogged
    BY <1>5 DEF Unlogged, store
  <2>2. Cardinality(Unlogged) \in Nat /\ faults \in Nat
    BY <1>0, FS_CardinalityType, IngestBoundAssumption DEF QueueInv, TypeOK
  <2>3. Cardinality(Unlogged') <= faults'
    BY <1>5, <2>1, <2>2 DEF QueueInv
  <2> QED
    BY <1>5, <2>1, <2>3 DEF QueueInv, store
<1>6. CASE \E i \in Issue : PersonOpens(i) \/ PersonLabels(i) \/ PersonEdits(i) \/ PersonCloses(i)
  BY <1>5, <1>6 DEF PersonOpens, PersonLabels, PersonEdits, PersonCloses, store
<1>7. CASE BeginScan \/ BeginResync \/ EndResync \/ \E i \in Issue : OpenIssue(i) \/ OpenIssueResponseLost(i)
  BY <1>5, <1>7 DEF BeginScan, BeginResync, EndResync, OpenIssue, OpenIssueResponseLost, store
<1>8. CASE UNCHANGED ingestVars
  BY <1>5, <1>8 DEF ingestVars
<1> QED
  BY <1>1, <1>2, <1>3, <1>4, <1>6, <1>7, <1>8 DEF Next, WorkerStep

(* Two processes insert and log in separate transactions, and still each    *)
(* row is logged as queued once, or lost in somebody's crash.               *)
THEOREM QueuedIsLoggedOnce == Spec => []QueuedOnce
<1>1. Init => QueueInv
  <2> SUFFICES ASSUME Init PROVE QueueInv
    OBVIOUS
  <2>1. Unlogged = {} /\ faults = 0
    BY DEF Init, Unlogged
  <2> QED
    BY <2>1, FS_EmptySet DEF Init, QueueInv
<1>2. DedupeInv /\ QueueInv /\ [Next]_ingestVars => QueueInv'
  BY NextQueueInv
<1>3. QueueInv => QueuedOnce
  BY DEF QueueInv, QueuedOnce, Unlogged
<1> QED
  BY <1>1, <1>2, <1>3, DedupeCorrect, PTL DEF Spec

-----------------------------------------------------------------------------
(* The issues of the scan.                                                  *)

(* Findings still to be opened are not open, short of the answers lost, and *)
(* nobody else's issue has the title of one.                                *)
ScanInv ==
  /\ \A i \in Issue : issue[i].title \in Findings => issue[i].label
  /\ \A f \in Findings : /\ Cardinality(OpenFor(f)) <= 1 + faults
                         /\ f \in scan => Cardinality(OpenFor(f)) <= faults

(* Whatever is open for a finding is finite,                                *)
LEMMA OpenForIsFinite ==
  ASSUME NEW f
  PROVE /\ IsFiniteSet(OpenFor(f)) /\ Cardinality(OpenFor(f)) \in Nat
        /\ IsFiniteSet(OpenFor(f)') /\ Cardinality(OpenFor(f)') \in Nat
BY IssueAssumption, FS_Subset, FS_CardinalityType DEF OpenFor, Backlog

(* and on the page, when a page holds all issues.                           *)
LEMMA PageHoldsAll ==
  ASSUME Cardinality(Issue) <= PageSize
  PROVE Page = Backlog
<1>1. ASSUME NEW i \in Backlog PROVE Cardinality({j \in Backlog : j > i}) < PageSize
  <2> DEFINE newer == {j \in Backlog : j > i}
  <2>1. i \in Issue /\ newer \subseteq Issue \ {i}
    BY IssueAssumption DEF Backlog
  <2>2. IsFiniteSet(Issue \ {i}) /\ Cardinality(Issue \ {i}) = Cardinality(Issue) - 1
    BY <2>1, IssueAssumption, FS_RemoveElement
  <2>3. Cardinality(newer) <= Cardinality(Issue \ {i}) /\ Cardinality(newer) \in Nat
    BY <2>1, <2>2, FS_Subset, FS_CardinalityType
  <2>4. Cardinality(Issue) \in Nat /\ PageSize \in Nat
    BY IssueAssumption, IngestBoundAssumption, FS_CardinalityType
  <2> QED
    BY <2>2, <2>3, <2>4
<1> QED
  BY <1>1 DEF Page

(* An issue opens for its own title only.                                   *)
LEMMA AppearsOpens ==
  ASSUME TypeOK, NEW i \in Issue, NEW title, NEW body, NEW label, Appears(i, title, body, label), NEW f \in Findings
  PROVE /\ title # f => OpenFor(f)' = OpenFor(f)
        /\ OpenFor(f)' \subseteq OpenFor(f) \cup {i}
        /\ Cardinality(OpenFor(f)') <= Cardinality(OpenFor(f)) + 1
<1>1. \A j \in Issue : issue'[j] = IF j = i THEN [state |-> "open", title |-> title, body |-> body, label |-> label]
                                   ELSE issue[j]
  BY DEF Appears, TypeOK
<1>2. i \notin OpenFor(f)
  BY DEF Appears, NextNumber, Free, OpenFor, Backlog
<1>3. (title # f => OpenFor(f)' = OpenFor(f)) /\ OpenFor(f)' \subseteq OpenFor(f) \cup {i}
  BY <1>1, <1>2 DEF OpenFor, Backlog
<1>4. IsFiniteSet(OpenFor(f) \cup {i}) /\ Cardinality(OpenFor(f) \cup {i}) = Cardinality(OpenFor(f)) + 1
  BY <1>2, OpenForIsFinite, FS_AddElement
<1>5. Cardinality(OpenFor(f)') <= Cardinality(OpenFor(f) \cup {i})
  BY <1>3, <1>4, FS_Subset
<1> QED
  BY <1>3, <1>4, <1>5

(* What opens no issue keeps what is open for each finding, or closes it.   *)
LEMMA NothingOpens ==
  ASSUME ScanInv, TypeOK, scan' \subseteq scan, faults' = faults \/ faults' = faults + 1,
         \A i \in Issue : issue'[i].title \in Findings => issue'[i].label,
         \A f \in Findings : OpenFor(f)' \subseteq OpenFor(f)
  PROVE ScanInv'
<1>1. ASSUME NEW f \in Findings
      PROVE /\ Cardinality(OpenFor(f)') <= Cardinality(OpenFor(f))
            /\ Cardinality(OpenFor(f)) \in Nat /\ Cardinality(OpenFor(f)') \in Nat
  BY OpenForIsFinite, FS_Subset
<1>2. faults \in Nat
  BY IngestBoundAssumption DEF TypeOK
<1>3. ASSUME NEW f \in Findings
      PROVE Cardinality(OpenFor(f)') <= 1 + faults' /\ (f \in scan' => Cardinality(OpenFor(f)') <= faults')
  BY <1>1, <1>2 DEF ScanInv
<1> QED
  BY <1>3 DEF ScanInv

(* The list made before the loop stays right: nothing but the loop opens    *)
(* an issue with the title of a finding.                                    *)
LEMMA NextScanInv ==
  ASSUME Cardinality(Issue) <= PageSize, DedupeInv, ScanInv, [Next]_ingestVars
  PROVE ScanInv'
<1>0. TypeOK /\ faults \in Nat
  BY IngestBoundAssumption DEF DedupeInv, TypeOK
<1>1. ASSUME UNCHANGED issue, scan' \subseteq scan, faults' = faults \/ faults' = faults + 1 PROVE ScanInv'
  <2>1. \A f \in Findings : OpenFor(f)' \subseteq OpenFor(f)
    BY <1>1 DEF OpenFor, Backlog
  <2>2. \A i \in Issue : issue'[i].title \in Findings => issue'[i].label
    BY <1>1 DEF ScanInv
  <2> QED
    BY <1>0, <1>1, <2>1, <2>2, NothingOpens
<1>2. ASSUME NEW i \in Issue, PersonOpens(i) PROVE ScanInv'
  <2>1. PICK body \in Bodies, label \in BOOLEAN : Appears(i, OtherTitle, body, label)
    BY <1>2 DEF PersonOpens
  <2>2. \A f \in Findings : OpenFor(f)' = OpenFor(f)
    BY <1>0, <2>1, AppearsOpens, TextAssumption
  <2>3. \A j \in Issue : issue'[j].title \in Findings => issue'[j].label
    BY <1>0, <2>1, TextAssumption DEF Appears, TypeOK, ScanInv
  <2>4. scan' \subseteq scan /\ faults' = faults
    BY <1>2 DEF PersonOpens
  <2> QED
    BY <1>0, <2>2, <2>3, <2>4, NothingOpens
<1>3. ASSUME NEW i \in Issue, PersonLabels(i) \/ PersonEdits(i) \/ PersonCloses(i) PROVE ScanInv'
  <2>1. \A j \in Issue : /\ issue'[j].title = issue[j].title
                         /\ issue[j].label => issue'[j].label
                         /\ issue'[j].state = "open" => issue[j].state = "open"
    BY <1>0, <1>3 DEF PersonLabels, PersonEdits, PersonCloses, TypeOK, Issues
  <2>2. \A j \in Issue : issue'[j].title \in Findings => issue'[j].label
    BY <2>1 DEF ScanInv
  <2>3. \A f \in Findings : OpenFor(f)' \subseteq OpenFor(f)
    BY <2>1 DEF OpenFor, Backlog, ScanInv
  <2>4. scan' \subseteq scan /\ faults' = faults
    BY <1>3 DEF PersonLabels, PersonEdits, PersonCloses
  <2> QED
    BY <1>0, <2>2, <2>3, <2>4, NothingOpens
<1>4. ASSUME NEW i \in Issue, NEW title \in scan, NEW body \in Body, Appears(i, title, body, TRUE),
             \/ scan' = scan \ {title} /\ faults' = faults
             \/ scan' = scan /\ faults' = faults + 1
      PROVE ScanInv'
  <2>1. \A j \in Issue : issue'[j].title \in Findings => issue'[j].label
    BY <1>0, <1>4 DEF Appears, TypeOK, ScanInv
  <2>2. ASSUME NEW f \in Findings
        PROVE Cardinality(OpenFor(f)') <= 1 + faults' /\ (f \in scan' => Cardinality(OpenFor(f)') <= faults')
    <3>1. Cardinality(OpenFor(f)) \in Nat /\ Cardinality(OpenFor(f)') \in Nat
      BY OpenForIsFinite
    <3>2. CASE f = title
      <4>1. Cardinality(OpenFor(f)) <= faults
        BY <1>4, <3>2 DEF ScanInv
      <4>2. Cardinality(OpenFor(f)') <= Cardinality(OpenFor(f)) + 1
        BY <1>0, <1>4, AppearsOpens
      <4> QED
        BY <1>0, <1>4, <3>1, <3>2, <4>1, <4>2
    <3>3. CASE f # title
      <4>1. PICK label \in BOOLEAN : Appears(i, title, body, label)
        BY <1>4
      <4>2. title # f => OpenFor(f)' = OpenFor(f)
        BY <1>0, <4>1, AppearsOpens
      <4>3. OpenFor(f)' = OpenFor(f)
        BY <3>3, <4>2
      <4> QED
        BY <1>0, <1>4, <3>1, <3>3, <4>3 DEF ScanInv
    <3> QED
      BY <3>2, <3>3
  <2> QED
    BY <2>1, <2>2 DEF ScanInv
<1>5. CASE BeginScan
  <2>1. scan' = ToOpen /\ UNCHANGED <<issue, faults>>
    BY <1>5 DEF BeginScan, github
  <2>2. ASSUME NEW f \in Findings
        PROVE Cardinality(OpenFor(f)') <= 1 + faults' /\ (f \in scan' => Cardinality(OpenFor(f)') <= faults')
    <3>1. OpenFor(f)' = OpenFor(f)
      BY <2>1 DEF OpenFor, Backlog
    <3>2. f \in ToOpen => OpenFor(f) = {}
      BY PageHoldsAll DEF ToOpen, OpenFor
    <3>3. f \in ToOpen => Cardinality(OpenFor(f)) = 0
      BY <3>2, FS_EmptySet
    <3> QED
      BY <1>0, <2>1, <3>1, <3>3 DEF ScanInv
  <2> QED
    BY <2>1, <2>2 DEF ScanInv
<1>6. ASSUME NEW i \in Issue, OpenIssue(i) \/ OpenIssueResponseLost(i) PROVE ScanInv'
  BY <1>4, <1>6 DEF OpenIssue, OpenIssueResponseLost
<1>7. CASE \/ \E i \in Issue, body \in Bodies : HandleWebhook(i, body)
           \/ \E p \in {"web", "worker"} : AddQueuedEvent(p)
           \/ BeginResync \/ EndResync \/ \E i \in Issue : Resync(i)
           \/ UNCHANGED ingestVars
  BY <1>1, <1>7 DEF HandleWebhook, AddQueuedEvent, BeginResync, EndResync, Resync, ingestVars, github
<1>8. CASE WorkerDies \/ WebDies
  BY <1>1, <1>8 DEF WorkerDies, WebDies, github
<1> QED
  BY <1>2, <1>3, <1>5, <1>6, <1>7, <1>8 DEF Next, WorkerStep

(* As long as a page holds the backlog, a finding has one open issue, and   *)
(* one more for each answer lost, although the scan opens from a list it    *)
(* made before.                                                             *)
THEOREM FindingsOpenOnce ==
  ASSUME Cardinality(Issue) <= PageSize
  PROVE Spec => []FindingOpenedOnce
<1>1. Init => ScanInv
  <2> SUFFICES ASSUME Init PROVE ScanInv
    OBVIOUS
  <2>1. \A f \in Findings : OpenFor(f) = {}
    BY DEF Init, OpenFor, Backlog, NoIssue
  <2>2. \A f \in Findings : Cardinality(OpenFor(f)) = 0
    BY <2>1, FS_EmptySet
  <2> QED
    BY <2>2, TextAssumption DEF Init, ScanInv, NoIssue
<1>2. DedupeInv /\ ScanInv /\ [Next]_ingestVars => ScanInv'
  BY NextScanInv
<1>3. ScanInv => FindingOpenedOnce
  BY DEF ScanInv, FindingOpenedOnce
<1> QED
  BY <1>1, <1>2, <1>3, DedupeCorrect, PTL DEF Spec

=============================================================================
