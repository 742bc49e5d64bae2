------------------------------ MODULE Verifier ------------------------------
(***************************************************************************)
(* CI verification of one pull request (src/github/verifier.py): three      *)
(* GETs in a row, the head commit, the check runs of that commit and the    *)
(* files of the pull request, and the pure verdict on what they returned.   *)
(* Devin pushes and CI creates and finishes check runs between any two.     *)
(*                                                                          *)
(* A check run is its kind of job and how far it is; of the conclusions     *)
(* only three are told apart: success, the four that count as red           *)
(* ("failing"), and those that count as nothing ("ignored": skipped,        *)
(* cancelled, stale, neutral).  A finished check run stays as it is, and    *)
(* a commit is never pushed twice.                                          *)
(***************************************************************************)
EXTENDS Integers, FiniteSets

CONSTANTS
  Commits,   \* the commits pushed to the pull request, in order
  Checks,    \* the check runs CI may create for a commit
  FileSets,  \* what a commit may make the pull request change
  PageSize,  \* check runs that one GET returns at most
  MaxRuns,   \* bound: check runs that CI creates in all
  NoSha

ASSUME CommitsAssumption == Commits \subseteq Nat /\ NoSha \notin Commits
ASSUME ChecksAssumption ==
  /\ Checks \subseteq {"anchor", "unit", "frontend", "frontend unit", "other"}
  /\ IsFiniteSet(Checks)
ASSUME FilesAssumption == FileSets \subseteq SUBSET {"python", "frontend", "other"}
ASSUME PageAssumption == PageSize \in Nat /\ MaxRuns \in Nat

VARIABLES
  head,    \* the head commit of the pull request
  files,   \* per commit the kinds of files the pull request changes with it
  runs,    \* per commit the check runs: absent, running or how they ended
  pc, sha, seen,  \* verify: the next GET, the commit and the check runs it got
  result   \* the last CheckResult

github == <<head, files, runs>>
call   == <<pc, sha, seen, result>>
verifierVars == <<github, call>>

Progress == {"absent", "running", "success", "failing", "ignored"}

Results == [state : {"pending", "green", "red"}, false_green : BOOLEAN, head_sha : Commits \cup {NoSha}]

(* Variant: the anchor is taken for the job it stands for.                  *)
AnchorIsUnit(check) == check \in {"anchor", "unit", "frontend unit"}

(* The names that hint at the real unit-test job; the anchor's does not.    *)
IsUnitJob(check) == check \in {"unit", "frontend unit"}

IsFrontendJob(check) == check \in {"frontend", "frontend unit"}

(* got: a function from the check runs of an answer to their progress.      *)
Ran(got, Relevant(_)) == \E check \in DOMAIN got : Relevant(check) /\ got[check] = "success"

(* _required_gates: python first, then frontend, else none.                 *)
RequiredGateRan(got, changed) ==
  CASE "python" \in changed -> Ran(got, IsUnitJob)
    [] "python" \notin changed /\ "frontend" \in changed -> Ran(got, IsFrontendJob)
    [] changed \cap {"python", "frontend"} = {} -> TRUE

(* Variant: a skipped job is waited for.                                    *)
FinishedOnlyByResult(got) ==
  DOMAIN got # {} /\ \A check \in DOMAIN got : got[check] \in {"success", "failing"}

Finished(got) == DOMAIN got # {} /\ \A check \in DOMAIN got : got[check] # "running"

Analyze(got, changed, h) ==
  LET Verdict(state, falseGreen) == [state |-> state, false_green |-> falseGreen, head_sha |-> h]
  IN CASE ~Finished(got) -> Verdict("pending", FALSE)
       [] Finished(got) /\ \E check \in DOMAIN got : got[check] = "failing" -> Verdict("red", FALSE)
       [] Finished(got) /\ \A check \in DOMAIN got : got[check] # "failing" ->
            IF RequiredGateRan(got, changed)
            THEN Verdict("green", FALSE) ELSE Verdict("red", TRUE)

Present(h) == {check \in Checks : runs[h][check] # "absent"}

Answer(h, page) == [check \in page |-> runs[h][check]]

NothingSeen == [check \in {} |-> "absent"]

Init ==
  /\ \E h \in Commits : head = h /\ \A g \in Commits : h <= g
  /\ \E changed \in FileSets : files = [h \in Commits |-> changed]
  /\ runs = [h \in Commits |-> [check \in Checks |-> "absent"]]
  /\ pc = "head" /\ sha = NoSha /\ seen = NothingSeen
  /\ result = [state |-> "pending", false_green |-> FALSE, head_sha |-> NoSha]

-----------------------------------------------------------------------------
(* GitHub.                                                                  *)

Push(h) ==
  /\ head < h /\ \A g \in Commits : g <= head \/ h <= g
  /\ head' = h
  /\ \E changed \in FileSets : files' = [files EXCEPT ![h] = changed]
  /\ UNCHANGED <<runs, call>>

(* A job that waits for another one has no check run until that one is done. *)
Create(h, check) ==
  /\ h <= head /\ runs[h][check] = "absent"
  /\ Cardinality({r \in Commits \X Checks : runs[r[1]][r[2]] # "absent"}) < MaxRuns
  /\ runs' = [runs EXCEPT ![h][check] = "running"]
  /\ UNCHANGED <<head, files, call>>

Complete(h, check) ==
  /\ runs[h][check] = "running"
  /\ \E end \in {"success", "failing", "ignored"} : runs' = [runs EXCEPT ![h][check] = end]
  /\ UNCHANGED <<head, files, call>>

-----------------------------------------------------------------------------
(* verify, one step per GET.                                                *)

(* Variant: the head commit is resolved once and kept.                      *)
GetHeadOnce ==
  /\ pc = "head"
  /\ sha' = IF sha = NoSha THEN head ELSE sha
  /\ pc' = "runs"
  /\ UNCHANGED <<github, seen, result>>

GetHeadSha ==
  /\ pc = "head"
  /\ sha' = head /\ pc' = "runs"
  /\ UNCHANGED <<github, seen, result>>

(* Variant: the checks are asked for by name, and one that does not exist kept. *)
GetChecksByName ==
  /\ pc = "runs"
  /\ seen' = Answer(sha, Checks)
  /\ pc' = "files"
  /\ UNCHANGED <<github, sha, result>>

(* One page of the check runs, whichever they are.                          *)
GetCheckRuns ==
  /\ pc = "runs"
  /\ \E page \in SUBSET Present(sha) :
       /\ page = Present(sha) \/ Cardinality(page) = PageSize
       /\ Cardinality(page) <= PageSize
       /\ seen' = Answer(sha, page)
  /\ pc' = "files"
  /\ UNCHANGED <<github, sha, result>>

(* Variant: the verdict is taken for one on the head as it is now.          *)
GetPullFilesAndHead ==
  /\ pc = "files"
  /\ result' = Analyze(seen, files[head], head)
  /\ pc' = "head" /\ seen' = NothingSeen
  /\ UNCHANGED <<github, sha>>

(* The files are those of the pull request as it is now.                    *)
GetPullFiles ==
  /\ pc = "files"
  /\ result' = Analyze(seen, files[head], sha)
  /\ pc' = "head" /\ seen' = NothingSeen
  /\ UNCHANGED <<github, sha>>

Verify == GetHeadSha \/ GetCheckRuns \/ GetPullFiles

Next ==
  \/ \E h \in Commits : Push(h)
  \/ \E h \in Commits, check \in Checks : Create(h, check) \/ Complete(h, check)
  \/ Verify

Spec == Init /\ [][Next]_verifierVars

(* Every tick of the reconciler verifies again; GitHub may stop anywhere.   *)
FairSpec == Spec /\ WF_verifierVars(Verify)

-----------------------------------------------------------------------------
(* Properties.                                                              *)

(* Every answer and verdict is one GitHub or the code can produce.          *)
TypeOK ==
  /\ head \in Commits
  /\ files \in [Commits -> FileSets]
  /\ runs \in [Commits -> [Checks -> Progress]]
  /\ pc \in {"head", "runs", "files"}
  /\ sha \in Commits \cup {NoSha} /\ (pc # "head" => sha \in Commits)
  /\ DOMAIN seen \subseteq Checks /\ seen \in [DOMAIN seen -> Progress \ {"absent"}]
  /\ result \in Results

(* The real unit-test job for a python change, a frontend job for a         *)
(* frontend-only one, succeeded on the commit.                              *)
Gated(h) ==
  /\ "python" \in files[h] => \E check \in {"unit", "frontend unit"} \cap Checks : runs[h][check] = "success"
  /\ "frontend" \in files[h] /\ "python" \notin files[h] =>
       \E check \in {"frontend", "frontend unit"} \cap Checks : runs[h][check] = "success"

(* The guard: a green verdict on the commit that is still the head means    *)
(* that the job relevant to what the pull request changes really ran there  *)
(* and succeeded (verifier.py:3-9), although the three GETs are not one.    *)
GreenIsEarned == result.state = "green" /\ result.head_sha = head => Gated(head)

(* A commit that is told red, and for which Devin is sent a failing log     *)
(* (docs/DESIGN.md 6.4), has a check run that failed: neither the files of  *)
(* another commit nor a push between the GETs makes one red that is not,    *)
(* and a false green is never told as a failure.                            *)
RedIsEarned ==
  result.state = "red" /\ ~result.false_green =>
    \E check \in Checks : runs[result.head_sha][check] = "failing"

(* Once pushes and CI have stopped, the verdict becomes and stays the one   *)
(* on the head commit, all its check runs and its own files, whatever mixed *)
(* or outdated answers were judged on the way.                              *)
VerdictConverges == <>[](result = Analyze(Answer(head, Present(head)), files[head], head))

Ended(h) == Present(h) # {} /\ \A check \in Present(h) : runs[h][check] # "running"

(* A pull request all of whose check runs have ended, skipped ones          *)
(* included, does not stay pending.                                         *)
EndedIsJudged == Ended(head) ~> result.state # "pending" \/ ~Ended(head)

=============================================================================
