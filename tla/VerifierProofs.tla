--------------------------- MODULE VerifierProofs ---------------------------
(***************************************************************************)
(* The verdicts, for every set of commits, check runs and file sets and    *)
(* every page size.  The three GETs of a verification are not atomic; what *)
(* makes green and red sound all the same is that the end of a check run   *)
(* is final, so that one once answered still stands, and that the head     *)
(* never comes back to a commit it has left.                               *)
(***************************************************************************)
EXTENDS Verifier, TLAPS

(* An end that was answered is one.                                         *)
AnswersStand ==
  pc = "files" => \A check \in DOMAIN seen : seen[check] # "running" => runs[sha][check] = seen[check]

(* The commit asked about is the head or one that the head has left.        *)
NotAhead == pc # "head" => sha <= head

(* So is the one a verdict names, and a red one names one.                  *)
Named ==
  /\ result.head_sha # NoSha => result.head_sha <= head
  /\ result.state = "red" => result.head_sha # NoSha

ResultInv == TypeOK /\ AnswersStand /\ NotAhead /\ Named /\ GreenIsEarned /\ RedIsEarned

(* A green verdict rests on the gating job of the files it was given.       *)
LEMMA GreenNeedsTheGate ==
  ASSUME NEW got, NEW changed \in FileSets, NEW h, Analyze(got, changed, h).state = "green"
  PROVE RequiredGateRan(got, changed)
BY DEF Analyze

(* A red one that is no false green on a check run that failed.             *)
LEMMA RedNeedsAFailure ==
  ASSUME NEW got, NEW changed \in FileSets, NEW h,
         Analyze(got, changed, h).state = "red", ~Analyze(got, changed, h).false_green
  PROVE \E check \in DOMAIN got : got[check] = "failing"
BY DEF Analyze

(* A verdict names the commit it was made for.                                *)
LEMMA VerdictNamesItsCommit ==
  ASSUME NEW got, NEW changed \in FileSets, NEW h \in Commits
  PROVE Analyze(got, changed, h) \in Results /\ Analyze(got, changed, h).head_sha = h
BY DEF Analyze, Results

(* The initial states: nothing asked, nothing answered.                     *)
LEMMA InitResultInv == Init => ResultInv
BY CommitsAssumption
DEF Init, ResultInv, TypeOK, AnswersStand, NotAhead, Named, GreenIsEarned, RedIsEarned, NothingSeen, Progress, Results

(* Pushes, check runs and GETs keep it.                                     *)
LEMMA NextResultInv == ResultInv /\ [Next]_verifierVars => ResultInv'
<1> SUFFICES ASSUME ResultInv, [Next]_verifierVars PROVE ResultInv'
  OBVIOUS
<1>1. ASSUME NEW h \in Commits, Push(h) PROVE ResultInv'
  <2>1. head \in Nat /\ h \in Nat /\ head < h /\ (sha \in Commits => sha \in Nat)
        /\ (result.head_sha # NoSha => result.head_sha \in Nat /\ result.head_sha < h)
    BY <1>1, CommitsAssumption DEF Push, ResultInv, TypeOK, Named, Results
  <2>2. TypeOK'
    <3>1. PICK changed \in FileSets : files' = [files EXCEPT ![h] = changed]
      BY <1>1 DEF Push
    <3>2. head' \in Commits /\ files' \in [Commits -> FileSets]
      BY <1>1, <3>1 DEF Push, ResultInv, TypeOK
    <3> QED
      BY <1>1, <3>2 DEF Push, ResultInv, TypeOK, call
  <2>3. AnswersStand' /\ NotAhead' /\ Named'
    BY <1>1, <2>1 DEF Push, ResultInv, TypeOK, AnswersStand, NotAhead, Named, call
  <2>4. GreenIsEarned' /\ RedIsEarned'
    BY <1>1, <2>1, CommitsAssumption DEF Push, ResultInv, GreenIsEarned, RedIsEarned, call
  <2> QED
    BY <2>2, <2>3, <2>4 DEF ResultInv
<1>2. ASSUME NEW h \in Commits, NEW check \in Checks, Create(h, check) PROVE ResultInv'
  <2>1. \A g \in Commits, c \in Checks :
          /\ runs'[g][c] \in Progress
          /\ runs[g][c] \notin {"absent", "running"} => runs'[g][c] = runs[g][c]
    BY <1>2 DEF Create, ResultInv, TypeOK, Progress
  <2>2. TypeOK'
    BY <1>2, <2>1 DEF Create, ResultInv, TypeOK, Progress, call
  <2>3. AnswersStand' /\ NotAhead' /\ Named'
    BY <1>2, <2>1 DEF Create, ResultInv, TypeOK, AnswersStand, NotAhead, Named, call
  <2>4. GreenIsEarned'
    BY <1>2, <2>1 DEF Create, ResultInv, TypeOK, GreenIsEarned, Gated, call
  <2>5. RedIsEarned'
    BY <1>2, <2>1 DEF Create, ResultInv, TypeOK, Results, Named, RedIsEarned, call
  <2> QED
    BY <2>2, <2>3, <2>4, <2>5 DEF ResultInv
<1>3. ASSUME NEW h \in Commits, NEW check \in Checks, Complete(h, check) PROVE ResultInv'
  <2>1. PICK end \in {"success", "failing", "ignored"} : runs' = [runs EXCEPT ![h][check] = end]
    BY <1>3 DEF Complete
  <2>2. \A g \in Commits, c \in Checks :
          /\ runs'[g][c] \in Progress
          /\ runs[g][c] \notin {"absent", "running"} => runs'[g][c] = runs[g][c]
    BY <1>3, <2>1 DEF Complete, ResultInv, TypeOK, Progress
  <2>3. TypeOK'
    BY <1>3, <2>1, <2>2 DEF Complete, ResultInv, TypeOK, Progress, call
  <2>4. AnswersStand' /\ NotAhead' /\ Named'
    BY <1>3, <2>2 DEF Complete, ResultInv, TypeOK, AnswersStand, NotAhead, Named, call
  <2>5. GreenIsEarned'
    BY <1>3, <2>2 DEF Complete, ResultInv, TypeOK, GreenIsEarned, Gated, call
  <2>6. RedIsEarned'
    BY <1>3, <2>2 DEF Complete, ResultInv, TypeOK, Results, Named, RedIsEarned, call
  <2> QED
    BY <2>3, <2>4, <2>5, <2>6 DEF ResultInv
<1>4. CASE GetHeadSha
  <2>1. TypeOK' /\ GreenIsEarned' /\ RedIsEarned'
    BY <1>4 DEF GetHeadSha, ResultInv, TypeOK, GreenIsEarned, RedIsEarned, Gated, github
  <2>2. AnswersStand' /\ NotAhead' /\ Named'
    BY <1>4, CommitsAssumption DEF GetHeadSha, ResultInv, TypeOK, AnswersStand, NotAhead, Named, github
  <2> QED
    BY <2>1, <2>2 DEF ResultInv
<1>5. CASE GetCheckRuns
  <2>1. PICK page \in SUBSET Present(sha) : seen' = Answer(sha, page)
    BY <1>5 DEF GetCheckRuns
  <2>2. sha \in Commits /\ page \subseteq Checks /\ \A check \in page : runs[sha][check] \in Progress \ {"absent"}
    BY <1>5, <2>1 DEF GetCheckRuns, Present, ResultInv, TypeOK
  <2>3. DOMAIN seen' = page /\ seen' \in [page -> Progress \ {"absent"}]
    BY <2>1, <2>2 DEF Answer
  <2>4. TypeOK'
    BY <1>5, <2>2, <2>3 DEF GetCheckRuns, ResultInv, TypeOK, github
  <2>5. AnswersStand' /\ NotAhead' /\ Named' /\ GreenIsEarned' /\ RedIsEarned'
    BY <1>5, <2>1, <2>3
    DEF GetCheckRuns, Answer, ResultInv, AnswersStand, NotAhead, Named, GreenIsEarned, RedIsEarned, Gated, github
  <2> QED
    BY <2>4, <2>5 DEF ResultInv
<1>6. CASE GetPullFiles
  <2>1. Analyze(seen, files[head], sha) \in Results /\ Analyze(seen, files[head], sha).head_sha = sha
    BY <1>6, VerdictNamesItsCommit DEF GetPullFiles, ResultInv, TypeOK
  <2>2. ASSUME result'.state = "green", sha = head PROVE Gated(head)
    <3>1. RequiredGateRan(seen, files[head])
      BY <1>6, <2>2, GreenNeedsTheGate DEF GetPullFiles, ResultInv, TypeOK
    <3> QED
      BY <1>6, <2>2, <3>1, FilesAssumption
      DEF RequiredGateRan, Ran, IsUnitJob, IsFrontendJob, Gated, GetPullFiles, ResultInv, TypeOK, AnswersStand
  <2>3. ASSUME result'.state = "red", ~result'.false_green
        PROVE \E check \in Checks : runs[sha][check] = "failing"
    <3>1. \E check \in DOMAIN seen : seen[check] = "failing"
      BY <1>6, <2>3, RedNeedsAFailure DEF GetPullFiles, ResultInv, TypeOK
    <3> QED
      BY <1>6, <3>1 DEF GetPullFiles, ResultInv, TypeOK, AnswersStand
  <2> QED
    BY <1>6, <2>1, <2>2, <2>3, CommitsAssumption
    DEF GetPullFiles, NothingSeen, ResultInv, TypeOK, AnswersStand, NotAhead, Named, GreenIsEarned, RedIsEarned, Gated,
        github
<1>7. CASE UNCHANGED verifierVars
  BY <1>7
  DEF verifierVars, github, call, ResultInv, TypeOK, AnswersStand, NotAhead, Named, GreenIsEarned, RedIsEarned, Gated
<1> QED
  BY <1>1, <1>2, <1>3, <1>4, <1>5, <1>6, <1>7 DEF Next, Verify

(* The guard holds whatever CI, Devin and the paging of GitHub do.          *)
THEOREM GreenIsAlwaysGated == Spec => []GreenIsEarned
<1>1. ResultInv => GreenIsEarned
  BY DEF ResultInv
<1> QED
  BY <1>1, InitResultInv, NextResultInv, PTL DEF Spec

(* Devin is never asked to repair a commit whose checks did not fail.       *)
THEOREM RedIsAlwaysAFailure == Spec => []RedIsEarned
<1>1. ResultInv => RedIsEarned
  BY DEF ResultInv
<1> QED
  BY <1>1, InitResultInv, NextResultInv, PTL DEF Spec

(* Every answer held and every verdict given is of its type.                *)
THEOREM VerifierTypeCorrect == Spec => []TypeOK
<1>1. ResultInv => TypeOK
  BY DEF ResultInv
<1> QED
  BY <1>1, InitResultInv, NextResultInv, PTL DEF Spec

=============================================================================
