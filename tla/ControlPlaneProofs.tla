------------------------- MODULE ControlPlaneProofs -------------------------
(***************************************************************************)
(* What holds of the reconciler against Devin and the CI, for every value  *)
(* of the constants and every Devin whose moves are within DevinMoves: the *)
(* composition implements the open Reconciler, so that all that is proved  *)
(* there holds here, and closing the environment buys what depends on what *)
(* the services really did.                                                *)
(***************************************************************************)
EXTENDS ControlPlane, LifecycleProofs

(* The only steps the services take part in.                                *)
LEMMA ServiceSteps ==
  ASSUME [ControlNext]_controlVars
  PROVE \/ UNCHANGED services
        \/ \E s \in Sid : DevinMove(s) \/ Consume(s) \/ \E h \in Sha : DevinPush(s, h)
        \/ \E h \in Sha : CiFinishes(h)
        \/ \E r \in Rem : Message(r) \/ MessageLost(r)
        \/ \E r \in Rem, s \in Sid : Create(r, s) \/ CreateLost(r, s)
BY DEF ControlNext, Worker, Internal, Verify, PollSession, Devin, DevinStep, Ci, Failure, Arrival, controlVars

-----------------------------------------------------------------------------
(* The composition implements the reconciler.                               *)

ServicesOK ==
  /\ dev \in [Sid -> Sessions]
  /\ spend \in [Sid -> 0 .. MaxAcuLimit]
  /\ head \in [Sid -> Sha \cup {NoSha}]
  /\ commit \in [Sha -> [by : Sid \cup {NoSid}, ci : CiStates]]

(* Commits are pushed in order, and a head is a commit of its session.      *)
HeadsInv ==
  /\ \A s \in Sid : head[s] # NoSha => commit[head[s]].by = s
  /\ \A h \in Sha : commit[h].by = NoSid <=> commit[h].ci = "none"
  /\ \A g, h \in Sha : g < h /\ commit[h].by # NoSid => commit[g].by # NoSid

ServicesInv == ServicesOK /\ HeadsInv

(* What a GET shows is something the open environment may show, ...         *)
LEMMA ViewIsSnapshot ==
  ASSUME ServicesOK, NEW s \in Sid
  PROVE View(s) \in Snapshots
<1>1. dev[s] \in Sessions /\ spend[s] \in 0 .. MaxAcuLimit
  BY DEF ServicesOK
<1> QED
  BY <1>1, ViewAssumption DEF View, Sessions

(* ... and so are the checks of a commit that was pushed.                   *)
LEMMA ChecksAreResults ==
  ASSUME ServicesInv, NEW r \in Rem, NEW h \in HeadsOf(r)
  PROVE /\ h \in Sha /\ \E s \in SessionsOf(r) : head[s] = h /\ commit[h].by = s
        /\ commit[h].ci \in CiStates \ {"none"}
        /\ Checks(h) \in CheckResults
<1>1. PICK s \in SessionsOf(r) : head[s] = h /\ h \in Sha /\ commit[h].by = s /\ s \in Sid
  BY DEF HeadsOf, SessionsOf, ServicesInv, ServicesOK, HeadsInv
<1>2. commit[h].ci \in CiStates \ {"none"}
  BY <1>1, NullAssumption DEF ServicesInv, ServicesOK, HeadsInv
<1>3. Checks(h) \in CheckResults
  BY <1>1, <1>2 DEF Checks, CheckResults, CiStates
<1> QED
  BY <1>1, <1>2, <1>3

(* Every step is one of Reconciler or leaves it alone.                      *)
LEMMA StepImplementsReconciler ==
  ASSUME ServicesInv, [ControlNext]_controlVars
  PROVE [Next]_vars
<1>1. ASSUME NEW r \in Rem, NEW s \in Sid, PollSession(r, s) PROVE Observe
  <2>1. PICK shot \in Snapshots : shot = View(s)
    BY ViewIsSnapshot DEF ServicesInv
  <2> QED
    BY <1>1, <2>1 DEF PollSession, Observe
<1>2. ASSUME NEW r \in Rem, Verify(r) PROVE Observe
  <2>1. PICK h \in HeadsOf(r) : AdvanceVerifying(r, Checks(h))
    BY <1>2 DEF Verify
  <2>2. PICK result \in CheckResults : result = Checks(h)
    BY ChecksAreResults
  <2> QED
    BY <2>1, <2>2 DEF Observe
<1>3. CASE Worker
  BY <1>1, <1>2, <1>3 DEF Worker, Internal, Message, Create, Next, DispatchPass, AdvancePass, Write
<1>4. CASE Devin \/ Ci \/ UNCHANGED controlVars
  BY <1>4 DEF Devin, DevinStep, DevinMove, DevinPush, Consume, Ci, CiFinishes, controlVars
<1>5. CASE Failure \/ Arrival
  BY <1>5 DEF Failure, MessageLost, CreateLost, Arrival, Next, Fault, Web
<1> QED
  BY <1>3, <1>4, <1>5 DEF ControlNext

(* A message changes what a session does, not what it has reported.         *)
LEMMA ResumedKeeps ==
  ASSUME NEW d \in Sessions
  PROVE Resumed(d) \in Sessions /\ Resumed(d).verdict = d.verdict
BY DEF Resumed, Sessions, Statuses, Details

(* Each step of the services keeps them well formed.                        *)
LEMMA NextServicesInv ==
  ASSUME TypeOK, ServicesInv, [ControlNext]_controlVars
  PROVE ServicesInv'
<1> USE DEF ServicesInv, ServicesOK, HeadsInv
<1>0. \A move \in DevinMoves : move[2] \in Sessions
  BY MovesAssumption
<1>1. CASE UNCHANGED services
  BY <1>1 DEF services
<1>2. ASSUME NEW s \in Sid, DevinMove(s) PROVE ServicesInv'
  BY <1>0, <1>2 DEF DevinMove
<1>3. ASSUME NEW s \in Sid, Consume(s) PROVE ServicesInv'
  BY <1>3, AcuAssumption DEF Consume
<1>4. ASSUME NEW s \in Sid, NEW h \in Sha, DevinPush(s, h) PROVE ServicesInv'
  <2>1. dev' \in [Sid -> Sessions] /\ UNCHANGED spend
    BY <1>0, <1>4 DEF DevinPush
  <2>2. /\ head' = [head EXCEPT ![s] = h]
        /\ commit' = [commit EXCEPT ![h] = [by |-> s, ci |-> "pending"]]
        /\ commit[h].by = NoSid /\ \A g \in Sha : g < h => commit[g].by # NoSid
    BY <1>4 DEF DevinPush, NextCommit
  <2>3. ServicesOK'
    BY <2>1, <2>2 DEF CiStates
  <2>4. /\ \A g \in Sha : commit'[g] = IF g = h THEN [by |-> s, ci |-> "pending"] ELSE commit[g]
        /\ \A t \in Sid : head'[t] = IF t = s THEN h ELSE head[t]
    BY <2>2
  <2>5. HeadsInv'
    <3>1. \A t \in Sid : head[t] # h
      BY <2>2, NullAssumption
    <3>2. \A t \in Sid : head'[t] # NoSha => commit'[head'[t]].by = t
      BY <2>4, <3>1
    <3>3. \A g \in Sha : commit'[g].by = NoSid <=> commit'[g].ci = "none"
      BY <2>4, NullAssumption
    <3>4. \A f, g \in Sha : f < g /\ commit'[g].by # NoSid => commit'[f].by # NoSid
      BY <2>2, <2>4, NullAssumption
    <3> QED
      BY <3>2, <3>3, <3>4
  <2> QED
    BY <2>3, <2>5
<1>5. ASSUME NEW h \in Sha, CiFinishes(h) PROVE ServicesInv'
  <2>1. PICK result \in {"green", "red", "false_green"} :
          commit' = [commit EXCEPT ![h].ci = result] /\ commit[h].ci = "pending" /\ UNCHANGED <<dev, spend, head>>
    BY <1>5 DEF CiFinishes
  <2> QED
    BY <2>1, NullAssumption DEF CiStates
<1>6. ASSUME NEW r \in Rem, NEW s \in Sid, Create(r, s) \/ CreateLost(r, s) PROVE ServicesInv'
  BY <1>6, MovesAssumption DEF Create, CreateLost
<1>7. ASSUME NEW r \in Rem, Message(r) \/ MessageLost(r) PROVE ServicesInv'
  <2>1. dev' = [dev EXCEPT ![sid] = Resumed(@)] /\ UNCHANGED <<spend, head, commit>> /\ sid \in Sid
    BY <1>7 DEF Message, MessageLost, AdvanceHealing, MessageResponseLost, TypeOK
  <2> QED
    BY <2>1, ResumedKeeps
<1> QED
  BY <1>1, <1>2, <1>3, <1>4, <1>5, <1>6, <1>7, ServiceSteps

-----------------------------------------------------------------------------
(* No step replaces the store.                                              *)
LEMMA NothingLoaded ==
  ASSUME loaded = {}, [ControlNext]_controlVars
  PROVE loaded' = {} /\ \A r \in Rem, rec \in Recordings : ~LoadResults(r, rec)
<1>1. Internal => UNCHANGED loaded
  BY DEF Internal, BeginTick, BeginAdvance, EndTick, CloseSession, DispatchSkip, InsertSession, PollNothing,
     AdvanceDispatched, AdvancePrOpened, HealWithoutSession, UpdateRow, AddEvent, ReleaseSession, bounds
<1>2. Worker => Internal \/ UNCHANGED loaded
  BY DEF Worker, Message, AdvanceHealing, Verify, AdvanceVerifying, Create, DispatchCreate, PollSession, Poll, bounds
<1>3. Devin \/ Ci \/ UNCHANGED controlVars => UNCHANGED loaded
  BY DEF Devin, DevinStep, DevinMove, DevinPush, Consume, Ci, CiFinishes, controlVars, vars, bounds
<1>4. Failure \/ Arrival => UNCHANGED loaded
  BY DEF Failure, Crash, MessageLost, MessageResponseLost, CreateLost, CreateResponseLost, Arrival, Enqueue, bounds
<1>5. UNCHANGED loaded
  BY <1>1, <1>2, <1>3, <1>4 DEF ControlNext
<1>6. \A r \in Rem, rec \in Recordings : LoadResults(r, rec) => r \in loaded'
  BY DEF LoadResults
<1> QED
  BY <1>5, <1>6

(* What the store and the services keep between them.                       *)
BaseInv == WorldInv /\ OwnedInv /\ ServicesInv /\ loaded = {}

(* Nothing is pushed before the first step.                                 *)
LEMMA InitBaseInv == ControlInit => BaseInv
BY InitWorldInv, MovesAssumption, AcuAssumption, NullAssumption
DEF ControlInit, Init, OwnedInv, Recorded, NoSession, BaseInv, ServicesInv, ServicesOK, HeadsInv, CiStates

(* Both halves are kept by the steps of either side.                        *)
LEMMA NextBaseInv == BaseInv /\ [ControlNext]_controlVars => BaseInv'
<1>1. BaseInv => TypeOK
  BY DEF BaseInv, WorldInv, StoreInv, SessionInv, TypeInv
<1> QED
  BY <1>1, StepImplementsReconciler, NextWorldInv, NextOwnedInv, NextServicesInv, NothingLoaded DEF BaseInv

(* The base of everything below.                                            *)
LEMMA BaseCorrect == ControlSpec => []BaseInv
BY InitBaseInv, NextBaseInv, PTL DEF ControlSpec

(* What Devin and the CI do, and what the worker reads of them, is within   *)
(* what the open model allows: whatever is proved of Reconciler holds here. *)
THEOREM ControlImplementsReconciler == ControlSpec => Spec
<1>1. ControlInit => Init
  BY DEF ControlInit
<1>2. BaseInv /\ [ControlNext]_controlVars => [Next]_vars
  BY StepImplementsReconciler DEF BaseInv
<1> QED
  BY <1>1, <1>2, BaseCorrect, PTL DEF ControlSpec, Spec

(* Every variable of the worker, the store and the services keeps its type. *)
THEOREM ControlTypeCorrect == ControlSpec => []ControlTypeOK
<1>1. BaseInv => ControlTypeOK
  BY DEF BaseInv, WorldInv, StoreInv, SessionInv, TypeInv, ServicesInv, ServicesOK, ControlTypeOK
<1> QED
  BY <1>1, BaseCorrect, PTL

-----------------------------------------------------------------------------
(* What the closed environment leaves out.                                  *)

(* Nobody replaces the store and nothing is merged.                         *)
LEMMA ControlRowSteps ==
  ASSUME [ControlNext]_controlVars
  PROVE \/ UNCHANGED row
        \/ \E r \in Rem : (UpdateRow(r) /\ Live(r)) \/ Enqueue(r)
<1>1. CASE Internal
  BY <1>1 DEF Internal, BeginTick, BeginAdvance, EndTick, CloseSession, DispatchSkip, InsertSession, PollNothing,
     AdvanceDispatched, AdvancePrOpened, HealWithoutSession, UpdateRow, AddEvent, ReleaseSession, store
<1>2. CASE Worker /\ ~Internal
  BY <1>2 DEF Worker, Message, AdvanceHealing, Verify, AdvanceVerifying, Create, DispatchCreate,
     PollSession, Poll, store
<1>3. CASE Devin \/ Ci \/ UNCHANGED controlVars
  BY <1>3 DEF Devin, DevinStep, DevinMove, DevinPush, Consume, Ci, CiFinishes, controlVars, vars, store
<1>4. CASE Failure \/ Arrival
  BY <1>4 DEF Failure, Crash, MessageLost, MessageResponseLost, CreateLost, CreateResponseLost, Arrival, store
<1> QED
  BY <1>1, <1>2, <1>3, <1>4 DEF ControlNext

(* So a remediation keeps its sessions,                                     *)
LEMMA SessionsStay ==
  ASSUME BaseInv, [ControlNext]_controlVars, NEW r \in Rem
  PROVE SessionsOf(r) \subseteq SessionsOf(r)'
<1> USE DEF SessionsOf, Recorded
<1>0. TypeOK /\ Locals /\ [Next]_vars
  BY StepImplementsReconciler DEF BaseInv, WorldInv, StoreInv, SessionInv, TypeInv
<1>1. ASSUME NEW q \in Rem, InsertSession(q) PROVE SessionsOf(r) \subseteq SessionsOf(r)'
  <2>1. /\ sid \in Sid /\ sess[sid].rem = NoRem
        /\ sess' = [sess EXCEPT ![sid] = [rem |-> q, active |-> TRUE, acus |-> 0]]
    BY <1>0, <1>1 DEF InsertSession, Locals, BaseInv, OwnedInv
  <2> QED
    BY <1>0, <2>1, NullAssumption DEF TypeOK
<1>2. ASSUME NEW q \in Rem, NEW s \in Sid, NEW shot \in Snapshots, Poll(q, s, shot)
      PROVE SessionsOf(r) \subseteq SessionsOf(r)'
  BY <1>0, <1>2 DEF Poll, TypeOK, SessionRows
<1>3. ASSUME CloseSession \/ \E q \in Rem : ReleaseSession(q)
      PROVE SessionsOf(r) \subseteq SessionsOf(r)'
  BY <1>0, <1>3 DEF CloseSession, ReleaseSession, TypeOK, SessionRows
<1>5. \A q \in Rem, rec \in Recordings : ~LoadResults(q, rec)
  BY NothingLoaded DEF BaseInv
<1> QED
  BY <1>0, <1>1, <1>2, <1>3, <1>5, SessSteps

(* and the checks of its commits, once they ended, are final.               *)
LEMMA CommitsStay ==
  ASSUME BaseInv, [ControlNext]_controlVars, NEW h \in Sha
  PROVE /\ commit[h].by # NoSid => commit'[h].by = commit[h].by
        /\ commit[h].ci \notin {"none", "pending"} => commit'[h] = commit[h]
<1>0. ServicesInv
  BY DEF BaseInv
<1>1. ASSUME NEW s \in Sid, NEW g \in Sha, DevinPush(s, g)
      PROVE /\ commit[h].by # NoSid => commit'[h].by = commit[h].by
            /\ commit[h].ci \notin {"none", "pending"} => commit'[h] = commit[h]
  BY <1>0, <1>1 DEF DevinPush, NextCommit, ServicesInv, ServicesOK, HeadsInv
<1>2. ASSUME NEW g \in Sha, CiFinishes(g)
      PROVE /\ commit[h].by # NoSid => commit'[h].by = commit[h].by
            /\ commit[h].ci \notin {"none", "pending"} => commit'[h] = commit[h]
  BY <1>0, <1>2 DEF CiFinishes, ServicesInv, ServicesOK
<1>3. CASE UNCHANGED commit
  BY <1>3
<1> QED
  BY <1>1, <1>2, <1>3, ServiceSteps DEF services, DevinMove, Consume, Message, MessageLost, Create, CreateLost

-----------------------------------------------------------------------------
(* What a decision on the checks of a commit rests on.                      *)

(* Until its update the row at hand is there and is what the tick copied.   *)
LEMMA CopyAtHand ==
  ASSUME BaseInv, NEW r \in Rem, Current(r), pc \notin {"event", "release"}
  PROVE Live(r) /\ batch[r] = row[r]
<1>1. TypeOK /\ FreshInv /\ OrphanInv
  BY DEF BaseInv, WorldInv, StoreInv, SessionInv, TypeInv
<1>2. Live(r)
  BY <1>1 DEF TypeOK, Rows, FreshInv, BatchKinds, OrphanInv, Current, BaseInv, Live
<1> QED
  BY <1>1, <1>2 DEF FreshInv, CopyIsFresh, Current


(* An update that is owed has been owed, is not about checks, or is being   *)
(* decided on by a look at a head of the row.                               *)
LEMMA OwedSteps ==
  ASSUME BaseInv, [ControlNext]_controlVars, NEW r \in Rem, Owing', Current(r)'
  PROVE \/ Owing /\ Current(r) /\ UNCHANGED plan
        \/ plan'.event \notin {"verified_green", "ci_red"}
        \/ Verify(r)
<1> USE DEF Owing
<1>0. TypeOK /\ \A q \in Rem : Current(q) => batch[q] \in Rows
  BY DEF BaseInv, WorldInv, StoreInv, SessionInv, TypeInv, TypeOK, Current
<1>1. CASE UNCHANGED worker
  BY <1>1 DEF worker, Current
<1>2. ASSUME NEW q \in Rem, InsertSession(q) \/ UpdateRow(q) \/ AddEvent(q)
      PROVE Owing /\ Current(r) /\ UNCHANGED plan
  BY <1>2 DEF InsertSession, UpdateRow, AddEvent, Goto, Done, Current
<1>3. CASE CloseSession
  BY <1>3 DEF CloseSession, Goto, Current
<1>4. ASSUME NEW q \in Rem, NEW s \in Sid, DispatchCreate(q, s) PROVE plan'.event = "dispatched"
  BY <1>4 DEF DispatchCreate
<1>5. ASSUME NEW q \in Rem, AdvanceDispatched(q) PROVE plan'.event \notin {"verified_green", "ci_red"}
  <2>1. CASE Done(q)
    BY <2>1 DEF Done
  <2>2. ASSUME NEW p \in DispatchedPlans(q), Start(p) PROVE plan'.event \notin {"verified_green", "ci_red"}
    <3>1. Fits(q, p) /\ batch[q].state = "dispatched" /\ plan' = p
      BY <1>0, <1>5, <2>2, DispatchedPlansFit DEF AdvanceDispatched, Handling, Start, TypeOK
    <3> QED
      BY <3>1 DEF Fits, Froms
  <2> QED
    BY <1>5, <2>1, <2>2 DEF AdvanceDispatched
<1>6. ASSUME NEW q \in Rem, AdvancePrOpened(q) \/ HealWithoutSession(q) \/ AdvanceHealing(q)
      PROVE plan'.event \in {"none", "needs_human", "self_heal"}
  BY <1>6 DEF AdvancePrOpened, HealWithoutSession, AdvanceHealing, Start
<1>7. ASSUME NEW q \in Rem, Verify(q) PROVE q = r \/ pc' = "next"
  BY <1>0, <1>7, CurrentUnique DEF Verify, AdvanceVerifying, Handling, Start, Done, Current
<1>8. CASE Internal
  <2>1. ASSUME NEW q \in Rem, DispatchSkip(q) \/ PollNothing(q) \/ ReleaseSession(q) PROVE FALSE
    BY <2>1 DEF DispatchSkip, PollNothing, ReleaseSession, Done
  <2>2. ~BeginTick /\ ~BeginAdvance /\ ~EndTick
    BY DEF BeginTick, BeginAdvance, EndTick, Reset
  <2> QED
    BY <1>2, <1>3, <1>5, <1>6, <1>8, <2>1, <2>2 DEF Internal
<1>9. CASE Worker /\ ~Internal
  BY <1>4, <1>6, <1>7, <1>9 DEF Worker, Message, Create, PollSession, Poll
<1>10. CASE Devin \/ Ci \/ Failure \/ Arrival \/ UNCHANGED controlVars
  BY <1>1, <1>10 DEF Devin, DevinStep, DevinMove, DevinPush, Consume, Ci, CiFinishes, Failure, Crash, Reset, MessageLost,
     MessageResponseLost, CreateLost, CreateResponseLost, Arrival, Enqueue, controlVars, vars
<1> QED
  BY <1>8, <1>9, <1>10 DEF ControlNext

(* What verify decided, it decided on the checks of the commit it looked at. *)
LEMMA VerifyDecides ==
  ASSUME BaseInv, NEW r \in Rem, Verify(r), Owing'
  PROVE \E h \in Sha, s \in SessionsOf(r) :
          /\ head[s] = h /\ commit[h].by = s
          /\ plan'.event = "verified_green" => commit[h].ci = "green" /\ VerdictOk(r)
          /\ plan'.event = "ci_red" => /\ commit[h].ci = "red" /\ plan'.row.healed = h
                                       /\ batch[r].healed # h
                                       /\ batch[r].pr = "numbered" /\ ~SessionWorking
<1>1. PICK h \in HeadsOf(r) : AdvanceVerifying(r, Checks(h))
  BY DEF Verify
<1>2. /\ h \in Sha /\ commit[h].ci \in CiStates \ {"none"}
      /\ \E s \in SessionsOf(r) : head[s] = h /\ commit[h].by = s
  BY ChecksAreResults DEF BaseInv
<1>3. PICK result : result = Checks(h)
  OBVIOUS
<1>4. /\ result.head_sha = h /\ h # NoSha
      /\ result.state = "green" => commit[h].ci = "green"
      /\ result.state = "red" /\ ~result.false_green => commit[h].ci = "red"
      /\ result.state \in {"pending", "green", "red"} /\ (result.false_green => result.state = "red")
  BY <1>2, <1>3, NullAssumption DEF Checks, CiStates
<1>5. AdvanceVerifying(r, result)
  BY <1>1, <1>3
<1>6. PICK p \in VerifyingPlans(r, result) : Start(p)
  BY <1>5 DEF AdvanceVerifying, Done, Owing
<1>7. plan' = p /\ batch[r] \in Rows
  BY <1>5, <1>6 DEF Start, AdvanceVerifying, Handling, Current, BaseInv, WorldInv, StoreInv, SessionInv, TypeInv, TypeOK
<1>8. CASE p.event = "verified_green"
  <2>1. result.state = "green" /\ VerdictOk(r)
    BY <1>4, <1>6, <1>8 DEF VerifyingPlans
  <2> QED
    BY <1>2, <1>4, <1>7, <1>8, <2>1
<1>9. CASE p.event = "ci_red"
  <2>1. /\ result.state = "red" /\ ~result.false_green /\ ~AlreadyHealed(r, result) /\ ~SessionWorking
        /\ p.row = [Becomes(r, "healing") EXCEPT !.healed = result.head_sha]
    BY <1>4, <1>6, <1>9 DEF VerifyingPlans
  <2>2. p.row.healed = h /\ batch[r].healed # h
    BY <1>4, <1>7, <2>1 DEF AlreadyHealed, Becomes, Rows
  <2>3. batch[r].pr = "numbered"
    BY <1>5, <2>1 DEF AdvanceVerifying
  <2> QED
    BY <1>2, <1>4, <1>7, <1>9, <2>1, <2>2, <2>3
<1> QED
  BY <1>2, <1>7, <1>8, <1>9

-----------------------------------------------------------------------------
(* The human gate.                                                          *)

GreenOf(r) == \E h \in Sha : commit[h].ci = "green" /\ commit[h].by \in SessionsOf(r)

GateInv ==
  /\ GateWasGreen
  /\ \A r \in Rem : Owing /\ Current(r) /\ plan.event = "verified_green" => GreenOf(r)

(* A green commit of a session of the row stays one.                        *)
LEMMA NextGateInv ==
  ASSUME BaseInv, GateInv, [ControlNext]_controlVars
  PROVE GateInv'
<1>0. TypeOK /\ PlanInv /\ plan.event \in EventTypes \cup {"none"} /\ ServicesInv
  BY DEF BaseInv, WorldInv, StoreInv, SessionInv, TypeInv, TypeOK, Plans
<1>1. ASSUME NEW r \in Rem, GreenOf(r) PROVE GreenOf(r)'
  <2>1. PICK h \in Sha : commit[h].ci = "green" /\ commit[h].by \in SessionsOf(r)
    BY <1>1 DEF GreenOf
  <2> QED
    BY <2>1, CommitsStay, SessionsStay DEF GreenOf
<1>2. ASSUME NEW r \in Rem, row'[r].state = "awaiting_merge" PROVE GreenOf(r)'
  <2>1. CASE row[r].state = "awaiting_merge"
    BY <1>1, <2>1 DEF GateInv, GateWasGreen, GreenOf
  <2>2. CASE row[r].state # "awaiting_merge"
    <3>1. ~ \E q \in Rem : Enqueue(q)
      BY <1>0, <1>2, <2>2 DEF Enqueue, NewRow, NoRow, TypeOK
    <3>2. pc = "update" /\ Current(r) /\ plan.row.state = "awaiting_merge"
      BY <1>0, <1>2, <2>2, <3>1, ControlRowSteps DEF UpdateRow, TypeOK
    <3>3. plan.event = "verified_green"
      BY <1>0, <3>2 DEF PlanInv, Owing, Fits, To, EventTypes
    <3> QED
      BY <1>1, <3>2, <3>3 DEF GateInv, Owing
  <2> QED
    BY <2>1, <2>2
<1>3. ASSUME NEW r \in Rem, Owing', Current(r)', plan'.event = "verified_green" PROVE GreenOf(r)'
  <2>1. CASE Verify(r)
    <3>1. GreenOf(r)
      BY <1>3, <2>1, VerifyDecides DEF GreenOf
    <3> QED
      BY <1>1, <3>1
  <2> QED
    BY <1>1, <1>3, <2>1, OwedSteps DEF GateInv
<1> QED
  BY <1>2, <1>3 DEF GateInv, GateWasGreen, GreenOf

(* Nothing reaches the human gate whose checks, the gating one included,    *)
(* never passed on a commit of its own pull request.                        *)
THEOREM GateIsEarned == ControlSpec => []GateWasGreen
<1>1. ControlInit => GateInv
  BY DEF ControlInit, Init, GateInv, GateWasGreen, Owing, NoRow
<1>2. BaseInv /\ GateInv /\ [ControlNext]_controlVars => GateInv'
  BY NextGateInv
<1>3. GateInv => GateWasGreen
  BY DEF GateInv
<1> QED
  BY <1>1, <1>2, <1>3, BaseCorrect, PTL DEF ControlSpec

-----------------------------------------------------------------------------
(* One heal per failed commit.                                              *)

(* A heal that was decided and whose message is still to be sent.           *)
Unsent(r) == IF row[r].state = "healing" /\ Uncounted(r) = 0 THEN 1 ELSE 0

(* The failed commits up to the last one healed for.                        *)
HealedFor(r) == {h \in RedCommits(r) : row[r].healed # NoSha /\ h <= row[r].healed}

Reached(r, h) == \E s \in SessionsOf(r) : head[s] # NoSha /\ h <= head[s]

(* The commit the worker is about to heal for.                              *)
Beyond(r) ==
  /\ plan.row.healed \in RedCommits(r) /\ Reached(r, plan.row.healed)
  /\ row[r].healed # NoSha => row[r].healed < plan.row.healed

(* What is decided next is beyond what was healed for, since heads advance. *)
HealInv ==
  \A r \in Rem :
    /\ sent[r] + Unsent(r) <= Cardinality(HealedFor(r)) + faults
    /\ row[r].healed # NoSha => Reached(r, row[r].healed)
    /\ Current(r) /\ pc = "update" /\ plan.event = "ci_red" => Beyond(r)

(* A failed commit of a row stays one.                                      *)
LEMMA RedCommitsStay ==
  ASSUME BaseInv, [ControlNext]_controlVars, NEW r \in Rem
  PROVE RedCommits(r) \subseteq RedCommits(r)'
BY CommitsStay, SessionsStay DEF RedCommits

(* There are finitely many of them to heal for,                             *)
LEMMA HealedForSize ==
  ASSUME NEW r \in Rem
  PROVE IsFiniteSet(HealedFor(r)) /\ Cardinality(HealedFor(r)) \in Nat
BY CommitAssumption, FS_Subset, FS_CardinalityType DEF HealedFor, RedCommits

(* and no fewer later on, while healed stays.                               *)
LEMMA HealedForGrows ==
  ASSUME BaseInv, [ControlNext]_controlVars, NEW r \in Rem, row'[r].healed = row[r].healed
  PROVE /\ Cardinality(HealedFor(r)) <= Cardinality(HealedFor(r)')
        /\ Cardinality(HealedFor(r)) \in Nat /\ Cardinality(HealedFor(r)') \in Nat
<1>1. HealedFor(r) \subseteq HealedFor(r)'
  BY RedCommitsStay DEF HealedFor
<1>2. IsFiniteSet(HealedFor(r)')
  BY CommitAssumption, FS_Subset DEF HealedFor, RedCommits
<1> QED
  BY <1>1, <1>2, HealedForSize, FS_Subset, FS_CardinalityType

(* Heads only advance, because commits are pushed in order.                 *)
LEMMA ReachedStays ==
  ASSUME BaseInv, [ControlNext]_controlVars, NEW r \in Rem, NEW h \in Sha, Reached(r, h)
  PROVE Reached(r, h)'
<1>0. ServicesInv
  BY DEF BaseInv
<1>1. PICK s \in SessionsOf(r) : head[s] # NoSha /\ h <= head[s]
  BY DEF Reached
<1>2. s \in Sid /\ s \in SessionsOf(r)' /\ head[s] \in Sha
  BY <1>0, <1>1, SessionsStay DEF SessionsOf, ServicesInv, ServicesOK
<1>3. ASSUME NEW t \in Sid, NEW g \in Sha, DevinPush(t, g) PROVE head'[s] # NoSha /\ head[s] <= head'[s]
  <2>1. commit[g].by = NoSid /\ commit[head[s]].by = s /\ head'[s] = IF s = t THEN g ELSE head[s]
    BY <1>0, <1>1, <1>2, <1>3 DEF DevinPush, NextCommit, ServicesInv, ServicesOK, HeadsInv
  <2>2. ~(g < head[s]) /\ g \in Nat /\ head[s] \in Nat
    BY <1>0, <1>2, <2>1, NullAssumption, CommitAssumption DEF ServicesInv, HeadsInv
  <2> QED
    BY <1>1, <2>1, <2>2, NullAssumption
<1>4. CASE UNCHANGED head
  BY <1>1, <1>2, <1>4 DEF Reached
<1>5. ASSUME NEW t \in Sid, NEW g \in Sha, DevinPush(t, g) PROVE Reached(r, h)'
  <2>1. head'[s] \in Sha
    BY <1>0, <1>2, <1>5 DEF DevinPush, ServicesInv, ServicesOK
  <2>2. h <= head'[s]
    BY <1>1, <1>2, <1>3, <1>5, <2>1, CommitAssumption
  <2> QED
    BY <1>2, <1>3, <1>5, <2>2 DEF Reached
<1> QED
  BY <1>4, <1>5, ServiceSteps DEF services, DevinMove, Consume, CiFinishes, Message, MessageLost, Create, CreateLost

(* Decided: the head that verify saw failed, and it is beyond what was      *)
(* healed for.                                                              *)
LEMMA HealIsBeyond ==
  ASSUME BaseInv, BaseInv', HealInv, [ControlNext]_controlVars, NEW r \in Rem, Verify(r), Owing', Current(r)',
         plan'.event = "ci_red"
  PROVE Beyond(r)'
<1>0. TypeOK /\ OneSessionRow
  BY DEF BaseInv, WorldInv, StoreInv, SessionInv, TypeInv
<1>1. PICK h \in Sha, s \in SessionsOf(r) :
        /\ head[s] = h /\ commit[h].by = s /\ commit[h].ci = "red"
        /\ plan'.row.healed = h /\ batch[r].healed # h
  BY VerifyDecides
<1>2. UNCHANGED row /\ Current(r) /\ pc = "handle" /\ batch[r].state = "verifying"
  BY DEF Verify, AdvanceVerifying, Handling, store
<1>3. batch[r] = row[r]
  BY <1>2, CopyAtHand
<1>4. h \in RedCommits(r) /\ Reached(r, h)
  BY <1>1, NullAssumption, CommitAssumption DEF RedCommits, Reached
<1>5. h \in RedCommits(r)' /\ Reached(r, h)'
  BY <1>1, <1>4, RedCommitsStay, ReachedStays
<1>6. ASSUME row[r].healed # NoSha PROVE row[r].healed < h
  <2>1. row[r].healed \in Sha
    BY <1>0, <1>6 DEF TypeOK, Rows
  <2>2. PICK t \in SessionsOf(r) : head[t] # NoSha /\ row[r].healed <= head[t]
    BY <1>6 DEF HealInv, Reached
  <2>3. t = s
    BY <1>0, <2>2, NullAssumption DEF OneSessionRow, SessionsOf, Recorded
  <2> QED
    BY <1>1, <1>3, <2>1, <2>2, <2>3, CommitAssumption
<1> QED
  BY <1>1, <1>2, <1>5, <1>6 DEF Beyond, Reached

(* Each message is paid for by a failed commit, by a crash or by a lost     *)
(* answer.                                                                  *)
LEMMA NextHealInv ==
  ASSUME BaseInv, BaseInv', HealInv, [ControlNext]_controlVars
  PROVE HealInv'
<1> DEFINE Bounded(r) == sent[r] + Unsent(r) <= Cardinality(HealedFor(r)) + faults
<1>0. /\ TypeOK /\ TypeOK' /\ PlanInv /\ StoreInv /\ [Next]_vars
      /\ \A r \in Rem : row[r].state = "none" => sent[r] = 0
      /\ faults \in Nat /\ faults' \in Nat /\ faults <= faults'
  BY StepImplementsReconciler, BoundsSteps, BoundAssumption
  DEF BaseInv, WorldInv, StoreInv, SessionInv, TypeInv, TypeOK, CountInv
<1>1. \A r \in Rem : /\ sent[r] \in Nat /\ sent'[r] \in Nat
                     /\ Cardinality(HealedFor(r)) \in Nat
                     /\ Uncounted(r) \in {0, 1} /\ Unsent(r) \in {0, 1} /\ Unsent(r)' \in {0, 1}
  BY <1>0, HealedForSize DEF TypeOK, Uncounted, Unsent
<1>2. ASSUME NEW r \in Rem, UNCHANGED row[r] PROVE Bounded(r)'
  <2>1. Bounded(r) /\ Cardinality(HealedFor(r)) <= Cardinality(HealedFor(r)') /\ Cardinality(HealedFor(r)') \in Nat
    BY <1>2, HealedForGrows DEF HealInv
  <2>2. CASE AdvanceHealing(r)
    <3>1. sent'[r] = sent[r] + 1 /\ Current(r) /\ pc = "handle" /\ batch[r].state = "healing"
      BY <1>0, <2>2 DEF AdvanceHealing, Handling, TypeOK
    <3>2. Unsent(r) = 1
      BY <3>1, CopyAtHand DEF Unsent, Uncounted
    <3>3. Uncounted(r)' = 1
      BY <2>2 DEF AdvanceHealing, Handling, Start, Uncounted, Current
    <3>4. Unsent(r)' = 0
      BY <3>3 DEF Unsent
    <3> QED
      BY <1>0, <1>1, <2>1, <3>1, <3>2, <3>4
  <2>3. CASE MessageResponseLost(r)
    <3>1. sent'[r] = sent[r] + 1 /\ faults' = faults + 1 /\ UNCHANGED worker
      BY <1>0, <2>3 DEF MessageResponseLost, TypeOK
    <3>2. Unsent(r)' = Unsent(r)
      BY <1>2, <3>1 DEF Unsent, Uncounted, worker, Current
    <3> QED
      BY <1>0, <1>1, <2>1, <3>1, <3>2
  <2>4. CASE UNCHANGED sent[r] /\ ~AdvanceHealing(r)
    <3>1. CASE UpdateRow(r)
      <4>1. Unsent(r)' = 0
        <5>1. Current(r) /\ pc = "update" /\ row'[r] = plan.row
          BY <1>0, <3>1, CopyAtHand DEF UpdateRow, TypeOK
        <5>2. row[r].state = "healing" => plan.row.state # "healing"
          BY <1>0, <5>1, CopyAtHand DEF PlanInv, Owing, Fits, Froms, To, TypeOK, Plans, EventTypes
        <5> QED
          BY <1>2, <5>1, <5>2 DEF Unsent
      <4> QED
        BY <1>0, <1>1, <2>1, <2>4, <4>1
    <3>2. CASE Crash
      <4>1. faults' = faults + 1
        BY <3>2 DEF Crash
      <4> QED
        BY <1>0, <1>1, <2>1, <2>4, <4>1
    <3>3. CASE Uncounted(r)' = Uncounted(r)
      <4>1. Unsent(r)' = Unsent(r)
        BY <1>2, <3>3 DEF Unsent
      <4> QED
        BY <1>0, <1>1, <2>1, <2>4, <4>1
    <3> QED
      BY <1>0, <2>4, <3>1, <3>2, <3>3, UncountedSteps
  <2> QED
    BY <1>0, <2>2, <2>3, <2>4, SentSteps DEF AdvanceHealing, MessageResponseLost, TypeOK
<1>3. ASSUME NEW r \in Rem, Enqueue(r) PROVE Bounded(r)' /\ row'[r].healed = NoSha
  <2>1. row'[r] = NewRow /\ row[r].state = "none" /\ UNCHANGED <<devin, worker, bounds>>
    BY <1>0, <1>3 DEF Enqueue, NextId, TypeOK
  <2>2. sent'[r] = 0 /\ Unsent(r)' = 0 /\ row'[r].healed = NoSha
    BY <1>0, <2>1 DEF NewRow, NoRow, Unsent, devin
  <2>3. Cardinality(HealedFor(r)') \in Nat
    BY CommitAssumption, FS_Subset, FS_CardinalityType DEF HealedFor, RedCommits
  <2> QED
    BY <1>0, <2>2, <2>3
<1>4. ASSUME NEW r \in Rem, UpdateRow(r), Live(r), plan.event # "ci_red"
      PROVE Bounded(r)' /\ UNCHANGED row[r].healed
  <2>1. Current(r) /\ pc = "update" /\ row'[r] = plan.row /\ UNCHANGED <<sent, faults>> /\ pc' # "update"
    BY <1>0, <1>4 DEF UpdateRow, Goto, Done, TypeOK, devin, bounds
  <2>2. plan.row.healed = row[r].healed /\ plan.row.state # "healing"
    BY <1>0, <1>4, <2>1, CopyAtHand DEF PlanInv, Owing, Fits, To, TypeOK, Plans, EventTypes
  <2>3. Unsent(r)' = 0 /\ row'[r].healed = row[r].healed
    BY <2>1, <2>2 DEF Unsent
  <2>4. Bounded(r) /\ Cardinality(HealedFor(r)) <= Cardinality(HealedFor(r)') /\ Cardinality(HealedFor(r)') \in Nat
    BY <2>3, HealedForGrows DEF HealInv
  <2> QED
    BY <1>0, <1>1, <2>1, <2>3, <2>4
<1>5. ASSUME NEW r \in Rem, UpdateRow(r), Live(r), plan.event = "ci_red"
      PROVE Bounded(r)' /\ Reached(r, plan.row.healed) /\ row'[r].healed = plan.row.healed
  <2>1. Current(r) /\ pc = "update" /\ row'[r] = plan.row /\ UNCHANGED <<sent, faults>>
    BY <1>0, <1>5 DEF UpdateRow, TypeOK, devin, bounds
  <2>2. row[r].state = "verifying" /\ Unsent(r) = 0
    BY <1>0, <1>5, <2>1, CopyAtHand DEF PlanInv, Owing, Fits, Froms, Unsent
  <2>3. PICK h \in RedCommits(r) : /\ plan.row.healed = h /\ Reached(r, h)
                                   /\ row[r].healed # NoSha => row[r].healed < h
    BY <1>5, <2>1 DEF HealInv, Beyond
  <2>4. h \in Sha /\ h \in Nat /\ (row[r].healed # NoSha => row[r].healed \in Nat) /\ h # NoSha
    BY <1>0, <2>3, CommitAssumption, NullAssumption DEF RedCommits, TypeOK, Rows
  <2>5. h \notin HealedFor(r)
    BY <2>3, <2>4 DEF HealedFor
  <2>6. HealedFor(r) \cup {h} \subseteq HealedFor(r)'
    <3>1. \A g \in HealedFor(r) : g \in RedCommits(r)' /\ g \in Nat /\ g <= h
      <4>1. ASSUME NEW g \in HealedFor(r) PROVE g \in RedCommits(r)' /\ g \in Nat
        BY RedCommitsStay, CommitAssumption DEF HealedFor, RedCommits
      <4>2. ASSUME NEW g \in HealedFor(r) PROVE g <= row[r].healed /\ row[r].healed \in Nat /\ row[r].healed < h
        BY <2>3, <2>4 DEF HealedFor
      <4> QED
        BY <2>4, <4>1, <4>2
    <3>2. h \in RedCommits(r)' /\ h <= h
      BY <2>3, <2>4, RedCommitsStay
    <3> QED
      BY <2>1, <2>3, <2>4, <3>1, <3>2 DEF HealedFor
  <2>7. IsFiniteSet(HealedFor(r)') /\ Cardinality(HealedFor(r)') \in Nat
    BY CommitAssumption, FS_Subset, FS_CardinalityType DEF HealedFor, RedCommits
  <2>8. Cardinality(HealedFor(r) \cup {h}) = Cardinality(HealedFor(r)) + 1
    BY <2>5, HealedForSize, FS_AddElement
  <2>9. Cardinality(HealedFor(r) \cup {h}) <= Cardinality(HealedFor(r)')
    BY <2>6, <2>7, FS_Subset
  <2>10. sent[r] + Unsent(r) <= Cardinality(HealedFor(r)) + faults
    BY DEF HealInv
  <2> QED
    BY <1>0, <1>1, <2>1, <2>2, <2>3, <2>7, <2>8, <2>9, <2>10
<1>6. ASSUME NEW r \in Rem PROVE Bounded(r)'
  BY <1>0, <1>2, <1>3, <1>4, <1>5, ControlRowSteps DEF UpdateRow, Enqueue, TypeOK
<1>7. ASSUME NEW r \in Rem, row'[r].healed # NoSha PROVE Reached(r, row[r].healed)'
  <2>1. row[r].healed \in Sha \cup {NoSha} /\ plan.row.healed \in Sha \cup {NoSha}
    BY <1>0 DEF TypeOK, Rows, Plans
  <2>2. CASE row'[r].healed = row[r].healed
    <3>1. Reached(r, row[r].healed) /\ row[r].healed \in Sha
      BY <1>7, <2>1, <2>2 DEF HealInv
    <3>2. PICK h \in Sha : h = row[r].healed
      BY <3>1
    <3>3. Reached(r, h)'
      BY <3>1, <3>2, ReachedStays
    <3> QED
      BY <2>2, <3>2, <3>3 DEF Reached
  <2>3. CASE row'[r].healed # row[r].healed
    <3>1. UpdateRow(r) /\ Live(r) /\ plan.event = "ci_red"
      BY <1>0, <1>3, <1>4, <1>7, <2>3, ControlRowSteps DEF UpdateRow, Enqueue, TypeOK
    <3>2. PICK h \in Sha : h = plan.row.healed /\ Reached(r, h) /\ row'[r].healed = h
      BY <1>5, <1>7, <2>1, <3>1
    <3>3. Reached(r, h)'
      BY <3>2, ReachedStays
    <3> QED
      BY <3>2, <3>3 DEF Reached
  <2> QED
    BY <2>2, <2>3
<1>8. ASSUME NEW r \in Rem, Current(r)', pc' = "update", plan'.event = "ci_red"
      PROVE Beyond(r)'
  <2>1. CASE Verify(r)
    <3>1. Owing'
      BY <1>8 DEF Owing
    <3> QED
      BY <1>8, <2>1, <3>1, HealIsBeyond
  <2>2. CASE Owing /\ Current(r) /\ UNCHANGED plan /\ ~Verify(r)
    <3>1. pc = "update"
      <4>1. plan.close = "never" /\ batch[r].state = "verifying"
        BY <1>0, <1>8, <2>2 DEF PlanInv, Fits, Closing, Froms
      <4>2. pc # "close" /\ pc # "insert"
        BY <1>0, <2>2, <4>1 DEF PlanInv, Owing, FreshInv, BatchKinds, StoreInv, SessionInv, Locals, Current
      <4>3. pc \in {"event", "release"} => pc' # "update"
        BY <1>0, PlanSteps, <1>8 DEF worker, PollNothing, Poll, DispatchCreate, Decides, Start, InsertSession,
           UpdateRow, AddEvent, CloseSession, Goto, Done, StoreInv, SessionInv
      <4> QED
        BY <2>2, <4>2, <4>3, <1>8 DEF Owing
    <3>2. PICK h \in RedCommits(r) : /\ h = plan.row.healed /\ Reached(r, h)
                                     /\ row[r].healed # NoSha => row[r].healed < h
      BY <1>8, <2>2, <3>1 DEF HealInv, Beyond
    <3>3. h \in RedCommits(r)' /\ Reached(r, h)'
      BY <3>2, RedCommitsStay, ReachedStays DEF RedCommits
    <3>4. UNCHANGED row[r]
      <4>1. ~UpdateRow(r)
        BY <1>8 DEF UpdateRow, Goto, Done
      <4>2. ~Enqueue(r)
        BY <2>2, <3>1, CopyAtHand DEF Enqueue, NextId, Live, FsmStates, ActiveStates, TerminalStates
      <4> QED
        BY <1>0, <4>1, <4>2, ControlRowSteps DEF UpdateRow, Enqueue, TypeOK
    <3> QED
      BY <2>2, <3>2, <3>3, <3>4 DEF Reached, Beyond
  <2> QED
    BY <1>8, <2>1, <2>2, OwedSteps DEF Owing
<1> QED
  BY <1>6, <1>7, <1>8 DEF HealInv

(* Devin is never messaged twice about one commit, nor about one that did   *)
(* not fail, except for a crash or a lost answer in between.                *)
THEOREM HealsArePaidFor == ControlSpec => []HealsOncePerCommit
<1>1. ControlInit => HealInv
  <2> SUFFICES ASSUME ControlInit PROVE HealInv
    OBVIOUS
  <2>1. \A r \in Rem : /\ sent[r] = 0 /\ Unsent(r) = 0 /\ row[r].healed = NoSha
                       /\ Cardinality(HealedFor(r)) \in Nat
    BY HealedForSize DEF ControlInit, Init, NoRow, Unsent
  <2>2. faults = 0 /\ pc = "idle"
    BY DEF ControlInit, Init
  <2> QED
    BY <2>1, <2>2 DEF HealInv
<1>2. BaseInv /\ BaseInv' /\ HealInv /\ [ControlNext]_controlVars => HealInv'
  BY NextHealInv
<1>3. BaseInv /\ HealInv => HealsOncePerCommit
  <2> SUFFICES ASSUME BaseInv, HealInv, NEW r \in Rem
               PROVE sent[r] <= Cardinality(RedCommits(r)) + faults
    BY DEF HealsOncePerCommit
  <2>1. sent[r] \in Nat /\ faults \in Nat /\ Unsent(r) \in {0, 1}
    BY BoundAssumption DEF BaseInv, WorldInv, StoreInv, SessionInv, TypeInv, TypeOK, Unsent
  <2>2. IsFiniteSet(RedCommits(r)) /\ HealedFor(r) \subseteq RedCommits(r)
    BY CommitAssumption, FS_Subset DEF RedCommits, HealedFor
  <2>3. /\ Cardinality(HealedFor(r)) <= Cardinality(RedCommits(r))
        /\ Cardinality(HealedFor(r)) \in Nat /\ Cardinality(RedCommits(r)) \in Nat
    BY <2>2, HealedForSize, FS_Subset, FS_CardinalityType
  <2>4. sent[r] + Unsent(r) <= Cardinality(HealedFor(r)) + faults
    BY DEF HealInv
  <2> QED
    BY <2>1, <2>3, <2>4
<1> QED
  BY <1>1, <1>2, <1>3, BaseCorrect, PTL DEF ControlSpec

-----------------------------------------------------------------------------
(* Whose session the worker holds, and what it saw of it.                   *)

Acting == pass = "advance" /\ pc \in {"handle", "close", "update", "event", "release"}

HoldsInv ==
  /\ Acting /\ sid \in Sid => \E r \in Rem : Current(r) /\ sid \in SessionsOf(r)
  /\ pc \in {"idle", "next"} => snap = NoSnap
  /\ pc = "handle" => (snap = NoSnap <=> sid = NoSid)

(* A poll takes both, and the end of the handler drops both.                *)
LEMMA SnapSteps ==
  ASSUME StoreInv, HoldsInv, [Next]_vars
  PROVE /\ pc' \in {"idle", "next"} => snap' = NoSnap
        /\ pc' = "handle" => (snap' = NoSnap <=> sid' = NoSid)
<1> USE DEF HoldsInv
<1>0. Locals
  BY DEF StoreInv, SessionInv
<1>1. CASE DispatchPass
  BY <1>1 DEF DispatchPass, BeginTick, DispatchSkip, InsertSession, InsertFails, DispatchCreate, Done, Reset, Goto
<1>2. CASE AdvancePass
  BY <1>0, <1>2 DEF AdvancePass, BeginAdvance, PollNothing, AdvanceDispatched, AdvancePrOpened, HealWithoutSession,
     AdvanceHealing, EndTick, Done, Reset, Start, Locals
<1>3. CASE Write
  BY <1>3 DEF Write, CloseSession, UpdateRow, AddEvent, ReleaseSession, Done, Goto
<1>4. CASE Observe
  BY <1>4, NullAssumption, SnapshotAssumption DEF Observe, Poll, AdvanceVerifying, Done, Start
<1>5. CASE Fault \/ Web \/ UNCHANGED vars
  BY <1>5 DEF Fault, TickError, Crash, Reset, MessageResponseLost, CreateResponseLost, Web, Enqueue, RefreshPrState,
     LoadResults, vars, worker
<1> QED
  BY <1>1, <1>2, <1>3, <1>4, <1>5 DEF Next

(* The session in hand stays one of the row at hand.                        *)
LEMMA NextHoldsInv ==
  ASSUME BaseInv, HoldsInv, [ControlNext]_controlVars
  PROVE HoldsInv'
<1>0. TypeInv /\ TypeOK /\ StoreInv /\ Locals /\ [Next]_vars
  BY StepImplementsReconciler DEF BaseInv, WorldInv, StoreInv, SessionInv, TypeInv
<1>1. ASSUME Acting, UNCHANGED <<sid, batch>>, sid' \in Sid
      PROVE \E r \in Rem : Current(r)' /\ sid' \in SessionsOf(r)'
  <2>1. PICK r \in Rem : Current(r) /\ sid \in SessionsOf(r)
    BY <1>1 DEF HoldsInv
  <2>2. sid \in SessionsOf(r)'
    BY <2>1, SessionsStay
  <2> QED
    BY <1>1, <2>1, <2>2 DEF Current
<1>2. ASSUME Acting', sid' \in Sid, ~(Acting /\ UNCHANGED <<sid, batch>>)
      PROVE \E r \in Rem : Current(r)' /\ sid' \in SessionsOf(r)'
  <2>1. ASSUME NEW r \in Rem, NEW s \in Sid, NEW shot \in Snapshots, Poll(r, s, shot)
        PROVE Current(r)' /\ sid' \in SessionsOf(r)'
    <3>1. s \in SessionsOf(r) /\ Current(r) /\ UNCHANGED batch /\ sid' = s
      BY <2>1 DEF Poll, ActiveSessionsOf
    <3>2. s \in SessionsOf(r)'
      BY <3>1, SessionsStay
    <3> QED
      BY <3>1, <3>2 DEF Current
  <2>2. ~UNCHANGED worker
    BY <1>2 DEF worker, Acting
  <2>3. ASSUME NEW r \in Rem, PollNothing(r) PROVE FALSE
    BY <1>0, <1>2, <2>3, NullAssumption DEF PollNothing, Locals
  <2>4. ASSUME NEW r \in Rem, NEW p \in Plans, Decides(r, p) PROVE FALSE
    BY <1>0, <1>2, <2>4 DEF Decides, Start, Acting, Locals
  <2>5. ASSUME NEW r \in Rem, NEW s \in Sid, DispatchCreate(r, s) PROVE FALSE
    BY <1>2, <2>5 DEF DispatchCreate, Acting
  <2>6. ASSUME NEW r \in Rem, InsertSession(r) \/ UpdateRow(r) \/ AddEvent(r) PROVE FALSE
    BY <1>0, <1>2, <2>6 DEF InsertSession, UpdateRow, AddEvent, Goto, Done, Acting, Locals
  <2>7. ~CloseSession
    BY <1>2 DEF CloseSession, Goto, Acting
  <2> QED
    BY <1>0, <1>2, <2>1, <2>2, <2>3, <2>4, <2>5, <2>6, <2>7, PlanSteps DEF Acting
<1> QED
  BY <1>0, <1>1, <1>2, SnapSteps DEF HoldsInv

-----------------------------------------------------------------------------
(* A row that is under way has a session to watch, until a handler is cut   *)
(* short.                                                                   *)

UnderWay(r) == row[r].state \in {"dispatched", "pr_opened", "verifying", "healing"}

OffRamping(r) == Current(r) /\ pc = "update" /\ plan.close = "first"

AttendedInv ==
  /\ faults = 0 => \A r \in Rem : UnderWay(r) => ActiveSessionsOf(r) # {} \/ OffRamping(r)
  /\ \A r \in Rem : Current(r) /\ pc = "update" /\ plan.event = "dispatched" => ActiveSessionsOf(r) # {}

(* Only the two closing writes take a session out of the active ones.       *)
LEMMA ActiveStays ==
  ASSUME BaseInv, [ControlNext]_controlVars, NEW r \in Rem, NEW s \in ActiveSessionsOf(r)
  PROVE \/ s \in ActiveSessionsOf(r)'
        \/ s = sid /\ (CloseSession \/ \E q \in Rem : ReleaseSession(q))
<1> USE DEF ActiveSessionsOf, SessionsOf
<1>0. TypeOK /\ [Next]_vars /\ s \in Sid /\ sess[s].rem = r /\ sess[s].active
  BY StepImplementsReconciler DEF BaseInv, WorldInv, StoreInv, SessionInv, TypeInv
<1>1. ASSUME NEW q \in Rem, InsertSession(q) PROVE s \in ActiveSessionsOf(r)'
  <2>1. /\ sid # s
        /\ sess' = [sess EXCEPT ![sid] = [rem |-> q, active |-> TRUE, acus |-> 0]]
    BY <1>0, <1>1, NullAssumption DEF InsertSession, BaseInv, OwnedInv
  <2> QED
    BY <1>0, <2>1 DEF TypeOK
<1>2. ASSUME NEW q \in Rem, NEW t \in Sid, NEW shot \in Snapshots, Poll(q, t, shot)
      PROVE s \in ActiveSessionsOf(r)'
  BY <1>0, <1>2 DEF Poll, TypeOK, SessionRows
<1>3. ASSUME CloseSession \/ \E q \in Rem : ReleaseSession(q), s # sid
      PROVE s \in ActiveSessionsOf(r)'
  BY <1>0, <1>3 DEF CloseSession, ReleaseSession, TypeOK
<1>5. \A q \in Rem, rec \in Recordings : ~LoadResults(q, rec)
  BY NothingLoaded DEF BaseInv
<1> QED
  BY <1>0, <1>1, <1>2, <1>3, <1>5, SessSteps

(* An update is done, or lost in a crash.                                   *)
LEMMA UpdateSteps ==
  ASSUME [Next]_vars, pc = "update"
  PROVE UNCHANGED worker \/ Crash \/ \E r \in Rem : UpdateRow(r)
<1>1. CASE DispatchPass
  BY <1>1 DEF DispatchPass, BeginTick, DispatchSkip, InsertSession, InsertFails, DispatchCreate
<1>2. CASE AdvancePass \/ Observe
  BY <1>2 DEF AdvancePass, BeginAdvance, PollNothing, AdvanceDispatched, AdvancePrOpened, HealWithoutSession,
     AdvanceHealing, EndTick, Handling, Observe, Poll, AdvanceVerifying
<1>3. CASE Write
  BY <1>3 DEF Write, CloseSession, AddEvent, ReleaseSession
<1>4. CASE Fault
  BY <1>4 DEF Fault, TickError, MessageResponseLost, CreateResponseLost
<1>5. CASE Web \/ UNCHANGED vars
  BY <1>5 DEF Web, Enqueue, RefreshPrState, LoadResults, vars
<1> QED
  BY <1>1, <1>2, <1>3, <1>4, <1>5 DEF Next

(* A dispatch stores its row after it has recorded the session, and the row *)
(* leaves the states that need one before or as the session is closed.      *)
LEMMA NextAttendedInv ==
  ASSUME BaseInv, HoldsInv, AttendedInv, [ControlNext]_controlVars
  PROVE AttendedInv'
<1>0. /\ TypeInv /\ TypeOK /\ StoreInv /\ PlanInv /\ FreshInv /\ Locals /\ [Next]_vars
      /\ faults \in Nat /\ (faults' = faults \/ faults' = faults + 1)
  BY StepImplementsReconciler, BoundsSteps, BoundAssumption
  DEF BaseInv, WorldInv, StoreInv, SessionInv, TypeInv, TypeOK
<1>1. ASSUME NEW r \in Rem, UnderWay(r), ActiveSessionsOf(r) # {}, UnderWay(r)'
      PROVE ActiveSessionsOf(r)' # {} \/ OffRamping(r)'
  <2>1. PICK s \in ActiveSessionsOf(r) : TRUE
    BY <1>1
  <2>2. s \in Sid /\ sess[s].rem = r /\ Live(r)
    BY <1>1 DEF ActiveSessionsOf, SessionsOf, UnderWay, Live, FsmStates, ActiveStates
  <2>3. ASSUME s = sid, CloseSession PROVE OffRamping(r)'
    <3>1. Acting /\ pc = "close"
      BY <1>0, <2>3 DEF CloseSession, Acting, Locals
    <3>2. Current(r)
      BY <2>2, <2>3, <3>1 DEF HoldsInv, SessionsOf
    <3> QED
      BY <1>0, <2>3, <3>1, <3>2 DEF CloseSession, Goto, PlanInv, OffRamping, Current
  <2>4. ASSUME s = sid, NEW q \in Rem, ReleaseSession(q) PROVE FALSE
    <3>1. Acting /\ pc = "release"
      BY <1>0, <2>4 DEF ReleaseSession, Acting, Locals
    <3>2. Current(r)
      BY <2>2, <2>4, <3>1 DEF HoldsInv, SessionsOf
    <3>3. plan.close = "last" /\ Stored(r) /\ Fits(r, plan)
      BY <1>0, <2>2, <3>1, <3>2 DEF PlanInv, Owing
    <3>4. row[r].state \in {"awaiting_merge", "merged"}
      BY <1>0, <3>3 DEF Stored, Fits, Closing, To, TypeOK, Plans, EventTypes
    <3> QED
      BY <1>1, <3>4 DEF UnderWay
  <2> QED
    BY <2>1, <2>3, <2>4, ActiveStays
<1>2. ASSUME NEW r \in Rem, OffRamping(r), UnderWay(r)', ~Crash PROVE OffRamping(r)'
  <2>1. ASSUME NEW q \in Rem, UpdateRow(q) PROVE FALSE
    <3>1. q = r
      BY <1>0, <1>2, <2>1, CurrentUnique DEF UpdateRow, OffRamping
    <3>2. row'[r] = plan.row /\ Fits(r, plan)
      BY <1>0, <1>2, <2>1, <3>1, CopyAtHand DEF UpdateRow, OffRamping, PlanInv, Owing, TypeOK
    <3>3. plan.row.state \in {"refused", "failed", "needs_human"}
      BY <1>0, <1>2, <3>2 DEF Fits, Closing, To, OffRamping, TypeOK, Plans, EventTypes
    <3> QED
      BY <1>2, <3>2, <3>3 DEF UnderWay
  <2>2. UNCHANGED worker
    BY <1>0, <1>2, <2>1, UpdateSteps DEF OffRamping
  <2> QED
    BY <1>2, <2>2 DEF OffRamping, Current, worker
<1>3. ASSUME NEW r \in Rem, ~UnderWay(r), UnderWay(r)' PROVE ActiveSessionsOf(r)' # {}
  <2>1. ~Enqueue(r)
    BY <1>0, <1>3 DEF Enqueue, NewRow, NoRow, TypeOK, UnderWay
  <2>2. row'[r].state # row[r].state
    BY <1>3 DEF UnderWay
  <2>3. UpdateRow(r) /\ row'[r] = plan.row
    BY <1>0, <2>1, <2>2, ControlRowSteps DEF UpdateRow, Enqueue, TypeOK
  <2>4. Current(r) /\ pc = "update" /\ Fits(r, plan) /\ batch[r] = row[r]
    BY <1>0, <2>3, CopyAtHand DEF UpdateRow, PlanInv, Owing
  <2>5. plan.event = "dispatched"
    BY <1>0, <1>3, <2>3, <2>4 DEF Fits, Froms, To, UnderWay, TypeOK, Plans, EventTypes
  <2>6. ActiveSessionsOf(r) # {} /\ UNCHANGED sess
    BY <2>3, <2>4, <2>5 DEF AttendedInv, UpdateRow
  <2> QED
    BY <2>6 DEF ActiveSessionsOf, SessionsOf
<1>4. ASSUME NEW r \in Rem, Current(r)', pc' = "update", plan'.event = "dispatched"
      PROVE ActiveSessionsOf(r)' # {}
  <2>1. CASE UNCHANGED worker
    <3>1. Current(r) /\ pc = "update" /\ plan.event = "dispatched"
      BY <1>4, <2>1 DEF Current, worker
    <3>2. ~CloseSession /\ \A q \in Rem : ~ReleaseSession(q)
      BY <3>1 DEF CloseSession, ReleaseSession
    <3> QED
      BY <3>1, <3>2, ActiveStays DEF AttendedInv
  <2>2. ASSUME NEW q \in Rem, NEW p \in Plans, Decides(q, p) PROVE FALSE
    <3>1. q \in DOMAIN batch /\ pass = "advance" /\ plan' = p /\ Fits(q, p)
      BY <1>0, <2>2 DEF Decides, Start, Current, Locals
    <3> QED
      BY <1>0, <1>4, <3>1 DEF FreshInv, BatchKinds, Fits, Froms
  <2>3. ASSUME NEW q \in Rem, InsertSession(q) PROVE ActiveSessionsOf(r)' # {}
    <3>1. Current(q) /\ Current(r) /\ sid \in Sid
      BY <1>0, <1>4, <2>3 DEF InsertSession, Goto, Current, Locals
    <3>2. q = r
      BY <1>0, <3>1, CurrentUnique
    <3> QED
      BY <1>0, <2>3, <3>1, <3>2 DEF InsertSession, TypeOK, ActiveSessionsOf, SessionsOf
  <2>4. ~CloseSession
    <3> SUFFICES ASSUME CloseSession PROVE FALSE
      OBVIOUS
    <3>1. Current(r) /\ pc = "close" /\ plan.event = "dispatched"
      BY <1>4 DEF CloseSession, Goto, Current
    <3> QED
      BY <1>0, <3>1 DEF PlanInv, Owing, Fits, Closing
  <2> QED
    BY <1>0, <1>4, <2>1, <2>2, <2>3, <2>4, PlanSteps DEF PollNothing, Poll, DispatchCreate, UpdateRow, AddEvent, Goto, Done
<1>5. ASSUME NEW r \in Rem, UnderWay(r)', faults' = 0
      PROVE ActiveSessionsOf(r)' # {} \/ OffRamping(r)'
  <2>1. faults = 0 /\ ~Crash
    BY <1>0, <1>5 DEF Crash
  <2> QED
    BY <1>1, <1>2, <1>3, <1>5, <2>1 DEF AttendedInv
<1> QED
  BY <1>4, <1>5 DEF AttendedInv

-----------------------------------------------------------------------------
(* The verdict at the gate.                                                 *)

VerdictOf(r) == \E s \in SessionsOf(r) : Remediated(dev[s])

VerdictInv ==
  /\ GateHasVerdictUndisturbed
  /\ pc = "handle" /\ sid \in Sid /\ Remediated(snap) => Remediated(dev[sid])
  /\ faults = 0 => \A r \in Rem : Owing /\ Current(r) /\ plan.event = "verified_green" => VerdictOf(r)

(* A verdict is not taken back, by Devin or by a message, and no session is *)
(* created in the place of one that exists.                                 *)
LEMMA VerdictStays ==
  ASSUME BaseInv, [ControlNext]_controlVars, NEW s \in Sid, owner[s] # NoRem, Remediated(dev[s])
  PROVE Remediated(dev'[s])
<1>0. TypeOK /\ ServicesInv
  BY DEF BaseInv, WorldInv, StoreInv, SessionInv, TypeInv
<1>1. CASE UNCHANGED dev
  BY <1>1
<1>2. ASSUME NEW t \in Sid, NEW move \in DevinMoves, move[1] = dev[t], dev' = [dev EXCEPT ![t] = move[2]]
      PROVE Remediated(dev'[s])
  <2>1. dev'[s] = IF s = t THEN move[2] ELSE dev[s]
    BY <1>0, <1>2 DEF ServicesInv, ServicesOK
  <2> QED
    BY <1>2, <2>1, VerdictAssumption
<1>3. ASSUME NEW r \in Rem, NEW t \in Sid, Create(r, t) \/ CreateLost(r, t) PROVE Remediated(dev'[s])
  BY <1>0, <1>3 DEF Create, CreateLost, DispatchCreate, CreateResponseLost, ServicesInv, ServicesOK
<1>4. ASSUME NEW r \in Rem, Message(r) \/ MessageLost(r) PROVE Remediated(dev'[s])
  <2>1. dev' = [dev EXCEPT ![sid] = Resumed(@)]
    BY <1>4 DEF Message, MessageLost
  <2>2. dev'[s] = IF s = sid THEN Resumed(dev[s]) ELSE dev[s]
    BY <1>0, <2>1 DEF ServicesInv, ServicesOK
  <2>3. Resumed(dev[s]).verdict = dev[s].verdict
    BY <1>0, ResumedKeeps DEF ServicesInv, ServicesOK
  <2> QED
    BY <2>2, <2>3 DEF Remediated
<1> QED
  BY <1>1, <1>2, <1>3, <1>4, ServiceSteps DEF services, DevinMove, DevinPush, Consume, CiFinishes

(* What the worker goes by was polled from a session that has its verdict   *)
(* for good.                                                                *)
LEMMA NextVerdictInv ==
  ASSUME BaseInv, BaseInv', HoldsInv, HoldsInv', AttendedInv, VerdictInv, [ControlNext]_controlVars
  PROVE VerdictInv'
<1>0. /\ TypeOK /\ TypeInv /\ StoreInv /\ PlanInv /\ FreshInv /\ Locals /\ ClosedFirst /\ OwnedInv /\ [Next]_vars
      /\ faults \in Nat /\ (faults' = faults \/ faults' = faults + 1)
  BY StepImplementsReconciler, BoundsSteps, BoundAssumption
  DEF BaseInv, WorldInv, StoreInv, SessionInv, TypeInv, TypeOK
<1>1. faults' = 0 => faults = 0
  BY <1>0
<1>2. ASSUME NEW r \in Rem, VerdictOf(r) PROVE VerdictOf(r)'
  <2>1. PICK s \in SessionsOf(r) : Remediated(dev[s])
    BY <1>2 DEF VerdictOf
  <2>2. s \in Sid /\ owner[s] # NoRem /\ s \in SessionsOf(r)'
    BY <1>0, <2>1, NullAssumption, SessionsStay DEF SessionsOf, OwnedInv, Recorded
  <2>3. Remediated(dev'[s])
    BY <2>1, <2>2, VerdictStays
  <2> QED
    BY <2>2, <2>3 DEF VerdictOf
<1>3. ASSUME pc' = "handle", sid' \in Sid, Remediated(snap') PROVE Remediated(dev'[sid'])
  <2>1. CASE UNCHANGED worker
    <3>1. pc = "handle" /\ sid \in Sid /\ Remediated(snap) /\ UNCHANGED sid
      BY <1>3, <2>1 DEF worker
    <3>2. owner[sid] # NoRem
      BY <1>0, <3>1, NullAssumption DEF HoldsInv, Acting, Locals, SessionsOf, OwnedInv, Recorded
    <3> QED
      BY <3>1, <3>2, VerdictStays DEF VerdictInv
  <2>2. CASE ~UNCHANGED worker
    <3>1. pc = "next"
      BY <1>0, <1>3, <2>2, PlanSteps DEF PollNothing, Poll, DispatchCreate, Decides, Start, InsertSession, UpdateRow,
         AddEvent, CloseSession, Goto, Done
    <3>2. ~Devin /\ ~Ci /\ ~UNCHANGED controlVars /\ ~Arrival
      BY <2>2 DEF Devin, DevinStep, DevinMove, DevinPush, Consume, Ci, CiFinishes, controlVars, vars, Arrival, Enqueue
    <3>3. ~Failure
      BY <1>3, <2>2, <3>1 DEF Failure, Crash, MessageLost, MessageResponseLost, Handling, CreateLost, CreateResponseLost
    <3>4. ~Internal \/ \E r \in Rem : PollNothing(r)
      BY <1>3, <3>1 DEF Internal, BeginTick, BeginAdvance, EndTick, Reset, CloseSession, DispatchSkip, InsertSession,
         AdvanceDispatched, AdvancePrOpened, HealWithoutSession, Handling, UpdateRow, AddEvent, ReleaseSession, Done
    <3>5. ASSUME NEW r \in Rem, PollNothing(r) PROVE FALSE
      BY <1>0, <1>3, <3>1, <3>5, NullAssumption DEF PollNothing, Locals
    <3>6. PICK r \in Rem, s \in Sid : PollSession(r, s)
      BY <1>3, <3>1, <3>2, <3>3, <3>4, <3>5 DEF ControlNext, Worker, Message, AdvanceHealing, Verify, AdvanceVerifying,
         Handling, Create, DispatchCreate
    <3>7. snap' = View(s) /\ sid' = s /\ UNCHANGED dev
      BY <3>6 DEF PollSession, Poll, services
    <3> QED
      BY <1>3, <3>7 DEF View, Remediated
  <2> QED
    BY <2>1, <2>2
<1>4. ASSUME NEW r \in Rem, faults' = 0, Owing', Current(r)', plan'.event = "verified_green" PROVE VerdictOf(r)'
  <2>1. CASE Verify(r)
    <3>1. VerdictOk(r) /\ pc = "handle" /\ Current(r) /\ batch[r].state = "verifying"
      BY <1>4, <2>1, VerifyDecides DEF Verify, AdvanceVerifying, Handling
    <3>2. UnderWay(r)
      BY <3>1, CopyAtHand DEF UnderWay
    <3>3. ActiveSessionsOf(r) # {}
      BY <1>1, <1>4, <3>1, <3>2 DEF AttendedInv, OffRamping
    <3>4. sid \in SessionsOf(r) /\ sid \in Sid
      BY <1>0, <3>1, <3>3 DEF ClosedFirst, ActiveSessionsOf, SessionsOf
    <3>5. snap # NoSnap
      BY <3>1, <3>4, NullAssumption DEF HoldsInv
    <3>6. Remediated(dev[sid])
      BY <3>1, <3>4, <3>5 DEF VerdictOk, VerdictInv
    <3>7. VerdictOf(r)
      BY <3>4, <3>6 DEF VerdictOf
    <3> QED
      BY <1>2, <3>7
  <2> QED
    BY <1>1, <1>2, <1>4, <2>1, OwedSteps DEF VerdictInv
<1>5. ASSUME NEW r \in Rem, faults' = 0, row'[r].state = "awaiting_merge" PROVE VerdictOf(r)'
  <2>1. CASE row[r].state = "awaiting_merge"
    BY <1>1, <1>2, <1>5, <2>1 DEF VerdictInv, GateHasVerdictUndisturbed, GateHasVerdict, VerdictOf
  <2>2. CASE row[r].state # "awaiting_merge"
    <3>1. ~ \E q \in Rem : Enqueue(q)
      BY <1>0, <1>5, <2>2 DEF Enqueue, NewRow, NoRow, TypeOK
    <3>2. pc = "update" /\ Current(r) /\ plan.row.state = "awaiting_merge"
      BY <1>0, <1>5, <2>2, <3>1, ControlRowSteps DEF UpdateRow, TypeOK
    <3>3. plan.event = "verified_green"
      BY <1>0, <3>2 DEF PlanInv, Owing, Fits, To, TypeOK, Plans, EventTypes
    <3> QED
      BY <1>1, <1>2, <1>5, <3>2, <3>3 DEF VerdictInv, Owing
  <2> QED
    BY <2>1, <2>2
<1> QED
  BY <1>3, <1>4, <1>5 DEF VerdictInv, GateHasVerdictUndisturbed, GateHasVerdict, VerdictOf

(* As long as no handler is cut short, what waits for a human has the       *)
(* verdict of its own session, whatever that session did since it was       *)
(* looked at.                                                               *)
THEOREM GateVerdictHolds == ControlSpec => []GateHasVerdictUndisturbed
<1>1. ControlInit => HoldsInv /\ AttendedInv /\ VerdictInv
  BY DEF ControlInit, Init, NoRow, HoldsInv, Acting, AttendedInv, UnderWay, VerdictInv, GateHasVerdictUndisturbed,
     GateHasVerdict, Owing
<1>2. BaseInv /\ HoldsInv /\ AttendedInv /\ [ControlNext]_controlVars => HoldsInv' /\ AttendedInv'
  BY NextHoldsInv, NextAttendedInv
<1>3. BaseInv /\ BaseInv' /\ HoldsInv /\ HoldsInv' /\ AttendedInv /\ VerdictInv /\ [ControlNext]_controlVars => VerdictInv'
  BY NextVerdictInv
<1>4. VerdictInv => GateHasVerdictUndisturbed
  BY DEF VerdictInv
<1> QED
  BY <1>1, <1>2, <1>3, <1>4, BaseCorrect, PTL DEF ControlSpec

(* Between two handlers every remediation in flight has an active session,  *)
(* as long as no handler is cut short: only the handler that settles a row  *)
(* closes its session, and it does so while it is at it.                    *)
THEOREM InFlightWatched == ControlSpec => []InFlightIsWatchedUndisturbed
<1>1. ControlInit => HoldsInv /\ AttendedInv
  BY DEF ControlInit, Init, NoRow, HoldsInv, Acting, AttendedInv, UnderWay
<1>2. BaseInv /\ HoldsInv /\ AttendedInv /\ [ControlNext]_controlVars => HoldsInv' /\ AttendedInv'
  BY NextHoldsInv, NextAttendedInv
<1>3. AttendedInv => InFlightIsWatchedUndisturbed
  BY DEF AttendedInv, InFlightIsWatchedUndisturbed, UnderWay, OffRamping, ActiveStates
<1> QED
  BY <1>1, <1>2, <1>3, BaseCorrect, PTL DEF ControlSpec

-----------------------------------------------------------------------------
(* When a session is messaged.                                              *)

(* The pull request of a row, and the one seen in a poll, is still one of   *)
(* its session.                                                             *)
PrOf(r) == \A s \in SessionsOf(r) : dev[s].pr # "none"

PrInv ==
  \A r \in Rem :
    /\ row[r].pr # "none" => PrOf(r)
    /\ row[r].state \in {"none", "queued"} => row[r].pr = "none"
    /\ Acting /\ Current(r) /\ snap # NoSnap /\ snap.pr # "none" => PrOf(r)

(* A session that stood still when it was polled stands still.              *)
SeenInv ==
  \A r \in Rem : pc = "handle" /\ sid \in Sid /\ Current(r) /\ batch[r].pr # "none" =>
    snap.pr # "none" /\ (faults = 0 /\ ~Working(snap) => ~Working(dev[sid]))

Idle(r) == \A s \in SessionsOf(r) : dev[s].pr # "none" /\ ~Working(dev[s])

(* So does the one of a row that waits for its message, which is decided on *)
(* in one tick and sent in the next.                                        *)
IdleInv ==
  faults = 0 => \A r \in Rem :
    /\ row[r].state = "healing" /\ Uncounted(r) = 0 => Idle(r)
    /\ Owing /\ Current(r) /\ plan.event = "ci_red" => Idle(r)

(* No session is recorded for a row but in its dispatch.                    *)
LEMMA SessionsGrow ==
  ASSUME BaseInv, [ControlNext]_controlVars, NEW r \in Rem
  PROVE \/ SessionsOf(r)' = SessionsOf(r)
        \/ pass = "dispatch" /\ row'[r].state = "queued" /\ plan'.event = "dispatched" /\ UNCHANGED row
<1> USE DEF SessionsOf
<1>0. TypeOK /\ TypeInv /\ Locals /\ BatchStates /\ PlanInv /\ FreshInv /\ [Next]_vars
  BY StepImplementsReconciler DEF BaseInv, WorldInv, StoreInv, SessionInv, TypeInv
<1>1. ASSUME NEW q \in Rem, InsertSession(q), q # r PROVE SessionsOf(r)' = SessionsOf(r)
  <2>1. sess[sid].rem = NoRem /\ sess' = [sess EXCEPT ![sid] = [rem |-> q, active |-> TRUE, acus |-> 0]]
    BY <1>1 DEF InsertSession, BaseInv, OwnedInv
  <2> QED
    BY <1>0, <1>1, <2>1, NullAssumption DEF TypeOK
<1>2. ASSUME InsertSession(r)
      PROVE pass = "dispatch" /\ row'[r].state = "queued" /\ plan'.event = "dispatched" /\ UNCHANGED row
  <2>1. pc = "insert" /\ Current(r) /\ UNCHANGED <<row, plan>> /\ pass = "dispatch" /\ Fits(r, plan)
    BY <1>0, <1>2 DEF InsertSession, Goto, Locals, PlanInv, Owing
  <2>2. batch[r].state = "queued" /\ batch[r] = row[r]
    BY <1>0, <2>1, CopyAtHand DEF FreshInv, BatchKinds, Current
  <2>3. plan.event \in EventTypes \cup {"none"}
    BY <1>0 DEF TypeOK, Plans
  <2>4. plan.event = "dispatched"
    BY <2>1, <2>2, <2>3 DEF Fits, Froms, EventTypes
  <2> QED
    BY <2>1, <2>2, <2>4
<1>3. ASSUME NEW q \in Rem, NEW s \in Sid, NEW shot \in Snapshots, Poll(q, s, shot)
      PROVE SessionsOf(r)' = SessionsOf(r)
  BY <1>0, <1>3 DEF Poll, TypeOK, SessionRows
<1>4. ASSUME CloseSession \/ \E q \in Rem : ReleaseSession(q) PROVE SessionsOf(r)' = SessionsOf(r)
  BY <1>0, <1>4 DEF CloseSession, ReleaseSession, TypeOK, SessionRows
<1>5. \A q \in Rem, rec \in Recordings : ~LoadResults(q, rec)
  BY NothingLoaded DEF BaseInv
<1> QED
  BY <1>0, <1>1, <1>2, <1>3, <1>4, <1>5, SessSteps

(* A session loses neither its pull request nor, unless it is messaged, its *)
(* rest.                                                                    *)
LEMMA RestStays ==
  ASSUME BaseInv, WokenByMessageOnly(DevinMoves), [ControlNext]_controlVars, NEW s \in Sid, owner[s] # NoRem,
         dev[s].pr # "none"
  PROVE /\ dev'[s].pr # "none"
        /\ ~Working(dev[s]) => \/ ~Working(dev'[s])
                               \/ s = sid /\ \E r \in Rem : Message(r) \/ MessageLost(r)
<1>0. TypeOK /\ ServicesInv
  BY DEF BaseInv, WorldInv, StoreInv, SessionInv, TypeInv
<1>1. CASE UNCHANGED dev
  BY <1>1
<1>2. ASSUME NEW t \in Sid, NEW move \in DevinMoves, move[1] = dev[t], dev' = [dev EXCEPT ![t] = move[2]]
      PROVE dev'[s].pr # "none" /\ (~Working(dev[s]) => ~Working(dev'[s]))
  <2>1. dev'[s] = IF s = t THEN move[2] ELSE dev[s]
    BY <1>0, <1>2 DEF ServicesInv, ServicesOK
  <2> QED
    BY <1>2, <2>1 DEF WokenByMessageOnly
<1>3. ASSUME NEW r \in Rem, NEW t \in Sid, Create(r, t) \/ CreateLost(r, t) PROVE dev'[s] = dev[s]
  BY <1>0, <1>3 DEF Create, CreateLost, DispatchCreate, CreateResponseLost, ServicesInv, ServicesOK
<1>4. ASSUME NEW r \in Rem, Message(r) \/ MessageLost(r)
      PROVE dev'[s].pr # "none" /\ (s # sid => dev'[s] = dev[s])
  <2>1. dev'[s] = IF s = sid THEN Resumed(dev[s]) ELSE dev[s]
    BY <1>0, <1>4 DEF Message, MessageLost, ServicesInv, ServicesOK
  <2>2. Resumed(dev[s]).pr = dev[s].pr
    BY <1>0 DEF ServicesInv, ServicesOK, Sessions, Resumed
  <2> QED
    BY <2>1, <2>2
<1> QED
  BY <1>1, <1>2, <1>3, <1>4, ServiceSteps DEF services, DevinMove, DevinPush, Consume, CiFinishes

(* What a handler saw of a session it keeps until it is done; it takes a    *)
(* look by polling only.                                                    *)
LEMMA ShotSteps ==
  ASSUME BaseInv, HoldsInv, [ControlNext]_controlVars, Acting', snap' # NoSnap
  PROVE \/ Acting /\ UNCHANGED <<sid, snap, batch>> /\ (pc' = "handle" => pc = "handle")
        \/ \E r \in Rem, s \in Sid : PollSession(r, s)
<1> USE DEF Acting
<1>0. TypeInv /\ TypeOK /\ StoreInv /\ Locals /\ [Next]_vars
  BY StepImplementsReconciler DEF BaseInv, WorldInv, StoreInv, SessionInv, TypeInv
<1>1. CASE UNCHANGED worker
  BY <1>1 DEF worker
<1>2. CASE ~UNCHANGED worker /\ pc' = "handle"
  <2>1. pc = "next"
    BY <1>0, <1>2, PlanSteps DEF PollNothing, Poll, DispatchCreate, Decides, Start, InsertSession, UpdateRow,
       AddEvent, CloseSession, Goto, Done
  <2>2. ~Devin /\ ~Ci /\ ~UNCHANGED controlVars /\ ~Arrival
    BY <1>2 DEF Devin, DevinStep, DevinMove, DevinPush, Consume, Ci, CiFinishes, controlVars, vars, Arrival, Enqueue
  <2>3. ~Failure
    BY <1>2, <2>1 DEF Failure, Crash, MessageLost, MessageResponseLost, Handling, CreateLost, CreateResponseLost
  <2>4. ASSUME NEW r \in Rem, PollNothing(r) PROVE FALSE
    BY <2>1, <2>4 DEF PollNothing, HoldsInv
  <2>5. ~Internal
    BY <1>2, <2>1, <2>4 DEF Internal, BeginTick, BeginAdvance, EndTick, Reset, CloseSession, DispatchSkip,
       InsertSession, AdvanceDispatched, AdvancePrOpened, HealWithoutSession, Handling, UpdateRow, AddEvent,
       ReleaseSession, Done
  <2> QED
    BY <1>2, <2>1, <2>2, <2>3, <2>5 DEF ControlNext, Worker, Message, AdvanceHealing, Verify, AdvanceVerifying,
       Handling, Create, DispatchCreate
<1>3. CASE ~UNCHANGED worker /\ pc' # "handle"
  <2>1. ASSUME NEW r \in Rem, InsertSession(r) PROVE FALSE
    BY <1>0, <2>1 DEF InsertSession, Goto, Locals
  <2>2. ASSUME NEW r \in Rem, UpdateRow(r) \/ AddEvent(r) PROVE Acting /\ UNCHANGED <<sid, snap, batch>>
    BY <2>2 DEF UpdateRow, AddEvent, Goto, Done
  <2>3. ASSUME NEW r \in Rem, NEW p \in Plans, Decides(r, p) PROVE Acting /\ UNCHANGED <<sid, snap, batch>>
    BY <1>0, <2>3 DEF Decides, Start, Locals
  <2>4. CloseSession => Acting /\ UNCHANGED <<sid, snap, batch>>
    BY DEF CloseSession, Goto
  <2> QED
    BY <1>0, <1>3, <2>1, <2>2, <2>3, <2>4, PlanSteps DEF PollNothing, Poll, DispatchCreate
<1> QED
  BY <1>1, <1>2, <1>3

(* A session in hand is the one of the row at hand.                         *)
LEMMA InHand ==
  ASSUME BaseInv, HoldsInv, Acting, sid \in Sid, NEW r \in Rem, Current(r)
  PROVE SessionsOf(r) = {sid} /\ owner[sid] # NoRem
<1>1. OneSessionRow /\ OwnedInv /\ TypeOK
  BY DEF BaseInv, WorldInv, StoreInv, SessionInv, TypeInv
<1>2. sid \in SessionsOf(r)
  BY <1>1, CurrentUnique DEF HoldsInv
<1> QED
  BY <1>1, <1>2, NullAssumption DEF SessionsOf, OneSessionRow, Recorded, OwnedInv

(* A pull request is stored after it was seen, and no session changes hands. *)
LEMMA NextPrInv ==
  ASSUME BaseInv, BaseInv', HoldsInv, HoldsInv', PrInv, WokenByMessageOnly(DevinMoves), [ControlNext]_controlVars
  PROVE PrInv'
<1>0. TypeOK /\ OneSessionRow /\ Locals /\ BatchStates /\ PlanInv /\ OwnedInv /\ FreshInv
  BY DEF BaseInv, WorldInv, StoreInv, SessionInv, TypeInv
<1>1. ASSUME NEW r \in Rem, PrOf(r), SessionsOf(r)' = SessionsOf(r) PROVE PrOf(r)'
  <2>1. ASSUME NEW s \in SessionsOf(r) PROVE s \in Sid /\ owner[s] # NoRem /\ dev[s].pr # "none"
    BY <1>0, <1>1, NullAssumption DEF PrOf, SessionsOf, OwnedInv, Recorded
  <2>2. \A s \in SessionsOf(r) : dev'[s].pr # "none"
    BY <2>1, RestStays
  <2> QED
    BY <1>1, <2>2 DEF PrOf
<1>2. ASSUME NEW r \in Rem, row'[r].pr # "none" PROVE PrOf(r)'
  <2>1. CASE UNCHANGED row[r]
    BY <1>1, <1>2, <2>1, SessionsGrow DEF PrInv
  <2>2. ASSUME UpdateRow(r), Live(r) PROVE PrOf(r)'
    <3>1. pc = "update" /\ Current(r) /\ row'[r] = plan.row /\ Fits(r, plan) /\ batch[r] = row[r] /\ UNCHANGED sess
      BY <1>0, <2>2, CopyAtHand DEF UpdateRow, PlanInv, Owing, TypeOK
    <3>2. CASE plan.event = "pr_opened"
      <4>1. batch[r].state = "dispatched" /\ snap # NoSnap /\ snap.pr # "none"
        BY <1>2, <3>1, <3>2 DEF Fits, Froms
      <4>2. pass = "advance"
        BY <1>0, <3>1, <4>1 DEF BatchStates, Current, TypeOK
      <4>3. PrOf(r)
        BY <3>1, <4>1, <4>2 DEF PrInv, Acting
      <4> QED
        BY <1>1, <3>1, <4>3 DEF SessionsOf
    <3>3. CASE plan.event # "pr_opened"
      <4>1. row[r].pr # "none"
        BY <1>2, <3>1, <3>3 DEF Fits
      <4> QED
        BY <1>1, <3>1, <4>1 DEF PrInv, SessionsOf
    <3> QED
      BY <3>2, <3>3
  <2>3. ~Enqueue(r)
    BY <1>0, <1>2 DEF Enqueue, NewRow, NoRow, TypeOK
  <2> QED
    BY <1>0, <2>1, <2>2, <2>3, ControlRowSteps DEF UpdateRow, Enqueue, TypeOK
<1>3. ASSUME NEW r \in Rem, row'[r].state \in {"none", "queued"} PROVE row'[r].pr = "none"
  <2>1. UpdateRow(r) /\ Live(r) => row'[r].state \notin {"none", "queued"}
    BY <1>0 DEF UpdateRow, Locals, TypeOK, FsmStates, ActiveStates, TerminalStates
  <2>2. Enqueue(r) => row'[r].pr = "none"
    BY <1>0 DEF Enqueue, NewRow, NoRow, TypeOK
  <2> QED
    BY <1>0, <1>3, <2>1, <2>2, ControlRowSteps DEF UpdateRow, Enqueue, TypeOK, PrInv
<1>4. ASSUME NEW r \in Rem, Acting', Current(r)', snap' # NoSnap, snap'.pr # "none" PROVE PrOf(r)'
  <2>1. CASE Acting /\ UNCHANGED <<sid, snap, batch>>
    <3>1. PrOf(r) /\ pass # "dispatch"
      BY <1>4, <2>1 DEF PrInv, Current, Acting
    <3> QED
      BY <1>1, <3>1, SessionsGrow
  <2>2. ASSUME NEW q \in Rem, NEW s \in Sid, PollSession(q, s) PROVE PrOf(r)'
    <3>1. /\ sid' = s /\ snap' = View(s) /\ UNCHANGED <<dev, batch>> /\ pass = "advance"
          /\ s \in SessionsOf(q) /\ Current(q)
      BY <2>2 DEF PollSession, Poll, services, ActiveSessionsOf
    <3>2. SessionsOf(r)' = {s}
      <4>1. q = r /\ SessionsOf(r)' = SessionsOf(r)
        BY <1>0, <1>4, <3>1, CurrentUnique, SessionsGrow DEF Current
      <4> QED
        BY <1>0, <3>1, <4>1, NullAssumption DEF OneSessionRow, SessionsOf, Recorded
    <3> QED
      BY <1>4, <3>1, <3>2 DEF View, PrOf
  <2> QED
    BY <1>4, <2>1, <2>2, ShotSteps
<1> QED
  BY <1>2, <1>3, <1>4 DEF PrInv

(* Nothing wakes the session between the poll and the decision.             *)
LEMMA NextSeenInv ==
  ASSUME BaseInv, HoldsInv, HoldsInv', PrInv, SeenInv, WokenByMessageOnly(DevinMoves), [ControlNext]_controlVars
  PROVE SeenInv'
<1>0. /\ TypeOK /\ [Next]_vars /\ faults \in Nat /\ (faults' = faults \/ faults' = faults + 1)
  BY StepImplementsReconciler, BoundsSteps, BoundAssumption
  DEF BaseInv, WorldInv, StoreInv, SessionInv, TypeInv, TypeOK
<1> SUFFICES ASSUME NEW r \in Rem, pc' = "handle", sid' \in Sid, Current(r)', batch'[r].pr # "none"
             PROVE snap'.pr # "none" /\ (faults' = 0 /\ ~Working(snap') => ~Working(dev'[sid']))
  BY DEF SeenInv
<1>1. Acting' /\ snap' # NoSnap
  <2>1. Locals'
    BY <1>0, NextBaseInv DEF BaseInv, WorldInv, StoreInv, SessionInv
  <2> QED
    BY <2>1, NullAssumption DEF HoldsInv, Locals, Acting
<1>2. CASE Acting /\ UNCHANGED <<sid, snap, batch>> /\ pc = "handle"
  <2>1. snap.pr # "none" /\ Current(r) /\ snap # NoSnap /\ sid \in Sid
    BY <1>1, <1>2 DEF SeenInv, Current
  <2>2. SessionsOf(r) = {sid} /\ owner[sid] # NoRem
    BY <1>2, <2>1, InHand
  <2>3. dev[sid].pr # "none"
    BY <1>2, <2>1, <2>2 DEF PrInv, PrOf
  <2>4. ASSUME faults' = 0, ~Working(snap) PROVE ~Working(dev'[sid])
    <3>1. ~Working(dev[sid])
      BY <1>0, <1>2, <2>1, <2>4 DEF SeenInv
    <3>2. ASSUME NEW q \in Rem, Message(q) PROVE FALSE
      BY <3>2 DEF Message, AdvanceHealing, Start
    <3>3. ASSUME NEW q \in Rem, MessageLost(q) PROVE FALSE
      BY <1>0, <2>4, <3>3 DEF MessageLost, MessageResponseLost
    <3> QED
      BY <2>1, <2>2, <2>3, <3>1, <3>2, <3>3, RestStays
  <2> QED
    BY <1>2, <2>1, <2>4
<1>3. ASSUME NEW q \in Rem, NEW s \in Sid, PollSession(q, s)
      PROVE snap'.pr # "none" /\ (~Working(snap') => ~Working(dev'[sid']))
  <2>1. sid' = s /\ snap' = View(s) /\ UNCHANGED <<dev, batch>> /\ pc = "next" /\ s \in SessionsOf(q) /\ Current(q)
    BY <1>3 DEF PollSession, Poll, services, ActiveSessionsOf
  <2>2. q = r /\ batch[r] = row[r]
    BY <1>0, <2>1, CurrentUnique, CopyAtHand DEF Current
  <2>3. dev[s].pr # "none"
    BY <2>1, <2>2 DEF PrInv, PrOf
  <2> QED
    BY <2>1, <2>3 DEF View, Working
<1> QED
  BY <1>1, <1>2, <1>3, ShotSteps

(* Decided on a session at rest, owed over a tick, sent to it at rest.      *)
LEMMA NextIdleInv ==
  ASSUME BaseInv, HoldsInv, AttendedInv, PrInv, SeenInv, IdleInv, WokenByMessageOnly(DevinMoves),
         [ControlNext]_controlVars
  PROVE IdleInv'
<1>0. /\ TypeOK /\ StoreInv /\ OneSessionRow /\ PlanInv /\ FreshInv /\ OwnedInv /\ Locals /\ ClosedFirst /\ [Next]_vars
      /\ faults \in Nat /\ (faults' = faults \/ faults' = faults + 1)
  BY StepImplementsReconciler, BoundsSteps, BoundAssumption
  DEF BaseInv, WorldInv, StoreInv, SessionInv, TypeInv, TypeOK
<1> SUFFICES ASSUME faults' = 0
             PROVE \A r \in Rem : /\ row'[r].state = "healing" /\ Uncounted(r)' = 0 => Idle(r)'
                                  /\ Owing' /\ Current(r)' /\ plan'.event = "ci_red" => Idle(r)'
  BY DEF IdleInv
<1>1. faults = 0 /\ ~Crash /\ \A q \in Rem : ~MessageLost(q)
  BY <1>0 DEF Crash, MessageLost, MessageResponseLost
<1>2. ASSUME NEW r \in Rem, Idle(r), SessionsOf(r)' = SessionsOf(r), ~Message(r) PROVE Idle(r)'
  <2>1. ASSUME NEW s \in SessionsOf(r) PROVE dev'[s].pr # "none" /\ ~Working(dev'[s])
    <3>1. s \in Sid /\ owner[s] # NoRem /\ dev[s].pr # "none" /\ ~Working(dev[s])
      BY <1>0, <1>2, NullAssumption DEF Idle, SessionsOf, OwnedInv, Recorded
    <3>2. ASSUME NEW q \in Rem, Message(q), s = sid PROVE FALSE
      <4>1. Acting /\ Current(q)
        BY <1>0, <3>2 DEF Message, AdvanceHealing, Handling, Acting, Locals
      <4>2. s \in SessionsOf(q)
        BY <3>1, <3>2, <4>1, InHand
      <4> QED
        BY <1>2, <3>2, <4>2 DEF SessionsOf
    <3> QED
      BY <1>1, <3>1, <3>2, RestStays
  <2> QED
    BY <1>2, <2>1 DEF Idle
<1>3. ASSUME NEW r \in Rem, row'[r].state = "healing", Uncounted(r)' = 0 PROVE Idle(r)'
  <2>0. ~Message(r)
    BY <1>3 DEF Message, AdvanceHealing, Handling, Start, Uncounted, Current
  <2>1. CASE row[r].state = "healing"
    <3>1. ASSUME UpdateRow(r), Uncounted(r) = 1 PROVE FALSE
      <4>1. row'[r] = plan.row /\ plan.event = "self_heal" /\ Fits(r, plan)
        BY <1>0, <3>1, CopyAtHand DEF UpdateRow, PlanInv, Owing, TypeOK, Uncounted
      <4> QED
        BY <1>3, <4>1 DEF Fits, To
    <3>2. Uncounted(r) = 0
      BY <1>0, <1>1, <1>3, <2>0, <3>1, UncountedSteps DEF Uncounted, AdvanceHealing, Handling
    <3> QED
      BY <1>1, <1>2, <1>3, <2>0, <2>1, <3>2, SessionsGrow DEF IdleInv
  <2>2. CASE row[r].state # "healing"
    <3>1. ~Enqueue(r)
      BY <1>0, <1>3 DEF Enqueue, NewRow, NoRow, TypeOK
    <3>2. UpdateRow(r) /\ row'[r] = plan.row /\ pc = "update" /\ Current(r) /\ UNCHANGED sess
      BY <1>0, <1>3, <2>2, <3>1, ControlRowSteps DEF UpdateRow, Enqueue, TypeOK
    <3>3. plan.event = "ci_red"
      BY <1>0, <1>3, <3>2 DEF PlanInv, Owing, Fits, To, TypeOK, Plans, EventTypes
    <3> QED
      BY <1>1, <1>2, <2>0, <3>2, <3>3 DEF IdleInv, Owing, SessionsOf
  <2> QED
    BY <2>1, <2>2
<1>4. ASSUME NEW r \in Rem, Owing', Current(r)', plan'.event = "ci_red" PROVE Idle(r)'
  <2>1. CASE Verify(r)
    <3>1. /\ batch[r].pr = "numbered" /\ ~SessionWorking /\ pc = "handle" /\ Current(r)
          /\ batch[r].state = "verifying" /\ UNCHANGED <<dev, sess>>
      BY <1>4, <2>1, VerifyDecides DEF Verify, AdvanceVerifying, Handling, services, store
    <3>2. UnderWay(r) /\ row[r].pr # "none" /\ Acting
      BY <1>0, <3>1, CopyAtHand DEF UnderWay, Acting, Locals
    <3>3. ActiveSessionsOf(r) # {}
      BY <1>1, <3>1, <3>2 DEF AttendedInv, OffRamping
    <3>4. sid \in Sid
      BY <1>0, <3>1, <3>3 DEF ClosedFirst, ActiveSessionsOf, SessionsOf
    <3>5. snap # NoSnap
      BY <3>1, <3>4, NullAssumption DEF HoldsInv
    <3>6. ~Working(dev[sid]) /\ dev[sid].pr # "none" /\ SessionsOf(r) = {sid}
      BY <1>1, <3>1, <3>2, <3>4, <3>5, InHand DEF SeenInv, PrInv, PrOf, SessionWorking
    <3> QED
      BY <3>1, <3>6 DEF Idle, SessionsOf
  <2>2. CASE Owing /\ Current(r) /\ UNCHANGED plan
    <3>1. ~Message(r) /\ SessionsOf(r)' = SessionsOf(r)
      BY <1>4, SessionsGrow DEF Message, AdvanceHealing, Start
    <3> QED
      BY <1>1, <1>2, <1>4, <2>2, <3>1 DEF IdleInv
  <2> QED
    BY <1>4, <2>1, <2>2, OwedSteps
<1> QED
  BY <1>3, <1>4

(* Where nothing but a message wakes a session that has a pull request, no  *)
(* session is messaged while it works, as long as no handler is cut short:  *)
(* what the tick before saw of it still holds.                              *)
THEOREM HealsFindSessionIdle ==
  ASSUME WokenByMessageOnly(DevinMoves)
  PROVE ControlSpec => HealsOnlyIdleUndisturbed
<1> DEFINE Heals == faults = 0 => \A r \in Rem : sent'[r] > sent[r] => ~Working(dev[sid])
           Inv == HoldsInv /\ AttendedInv /\ PrInv /\ SeenInv /\ IdleInv
<1>1. ControlInit => Inv
  <2>1. ControlInit => HoldsInv /\ AttendedInv /\ SeenInv
    BY DEF ControlInit, Init, NoRow, HoldsInv, Acting, AttendedInv, UnderWay, SeenInv
  <2>2. ControlInit => PrInv /\ IdleInv
    BY DEF ControlInit, Init, NoRow, PrInv, IdleInv, Owing
  <2> QED
    BY <2>1, <2>2
<1>2. BaseInv /\ BaseInv' /\ Inv /\ [ControlNext]_controlVars => Inv'
  BY NextHoldsInv, NextAttendedInv, NextPrInv, NextSeenInv, NextIdleInv
<1>3. BaseInv /\ Inv /\ [ControlNext]_controlVars => [Heals]_controlVars
  <2> SUFFICES ASSUME BaseInv, Inv, [ControlNext]_controlVars, faults = 0, NEW r \in Rem, sent'[r] > sent[r]
               PROVE ~Working(dev[sid])
    OBVIOUS
  <2>0. TypeOK /\ Locals /\ [Next]_vars
    BY StepImplementsReconciler DEF BaseInv, WorldInv, StoreInv, SessionInv, TypeInv
  <2>1. PICK q \in Rem : AdvanceHealing(q) \/ MessageResponseLost(q)
    BY <2>0, SentSteps DEF TypeOK
  <2>2. Handling(q, "healing") /\ sid # NoSid
    BY <2>1 DEF AdvanceHealing, MessageResponseLost
  <2>3. Acting /\ sid \in Sid /\ Current(q) /\ row[q].state = "healing" /\ Uncounted(q) = 0
    BY <2>0, <2>2, CopyAtHand DEF Handling, Acting, Locals, TypeOK, Uncounted
  <2>4. SessionsOf(q) = {sid} /\ Idle(q)
    BY <2>3, InHand DEF IdleInv
  <2> QED
    BY <2>4 DEF Idle
<1> QED
  BY <1>1, <1>2, <1>3, BaseCorrect, PTL DEF ControlSpec, HealsOnlyIdleUndisturbed

-----------------------------------------------------------------------------
(* What Devin really bills.                                                 *)

(* Nothing is spent on a session before it is created.                      *)
SpendInv == \A s \in Sid : spend[s] # 0 => Created(s)

(* Only sessions that were created consume.                                 *)
LEMMA NextSpendInv ==
  ASSUME BaseInv, SpendInv, [ControlNext]_controlVars
  PROVE SpendInv'
<1>0. TypeOK /\ ServicesOK /\ [Next]_vars
  BY StepImplementsReconciler DEF BaseInv, WorldInv, StoreInv, SessionInv, TypeInv, ServicesInv
<1>1. \A s \in Sid : Created(s) => Created(s)'
  <2>1. \A q \in Rem, rec \in Recordings : ~LoadResults(q, rec)
    BY NothingLoaded DEF BaseInv
  <2> QED
    BY <1>0, <2>1, OwnerSteps, NullAssumption DEF DispatchCreate, CreateResponseLost, TypeOK, Created
<1>2. ASSUME NEW s \in Sid, Consume(s) PROVE SpendInv'
  BY <1>0, <1>1, <1>2 DEF Consume, ServicesOK, SpendInv
<1>3. CASE UNCHANGED spend
  BY <1>1, <1>3 DEF SpendInv
<1> QED
  BY <1>2, <1>3, ServiceSteps DEF services, DevinMove, DevinPush, CiFinishes, Message, MessageLost, Create, CreateLost

(* The session of a dispatch under way, which the guard has room for.       *)
Pending == {s \in Sid : pc = "insert" /\ s = sid}

(* The sessions that may cost more than what the store commits to them.     *)
Unseen == Closed \cup Orphans \cup Pending

(* Sizes of finite sets.                                                    *)
LEMMA UnionIsNoLarger ==
  ASSUME NEW A, NEW B, IsFiniteSet(A), IsFiniteSet(B)
  PROVE /\ IsFiniteSet(A \cup B) /\ Cardinality(A \cup B) \in Nat
        /\ Cardinality(A \cup B) <= Cardinality(A) + Cardinality(B)
<1>1. /\ IsFiniteSet(A \cup B)
      /\ Cardinality(A \cup B) = Cardinality(A) + Cardinality(B) - Cardinality(A \cap B)
  BY FS_Union
<1>2. IsFiniteSet(A \cap B)
  BY FS_Intersection
<1>3. /\ Cardinality(A) \in Nat /\ Cardinality(B) \in Nat
      /\ Cardinality(A \cap B) \in Nat /\ Cardinality(A \cup B) \in Nat
  BY <1>1, <1>2, FS_CardinalityType
<1> QED
  BY <1>1, <1>3

(* The store loses sight of no more sessions than it closes and faults cost. *)
LEMMA UnseenAreFew ==
  ASSUME BaseInv
  PROVE /\ Cardinality(Closed) \in Nat /\ faults \in Nat /\ Cardinality(Unseen) \in Nat
        /\ Cardinality(Unseen) <= Cardinality(Closed) + faults + 1
        /\ pc # "insert" => Cardinality(Unseen) <= Cardinality(Closed) + faults
<1>1. IsFiniteSet(Closed) /\ IsFiniteSet(Orphans) /\ IsFiniteSet(Pending)
  BY SidAssumption, FS_Subset DEF Closed, Orphans, Pending
<1>2. Cardinality(Closed) \in Nat /\ Cardinality(Orphans) \in Nat /\ Cardinality(Pending) \in Nat
  BY <1>1, FS_CardinalityType
<1>3. Cardinality(Orphans) <= faults /\ faults \in Nat
  BY BoundAssumption
  DEF BaseInv, WorldInv, OrphanInv, OrphansOnlyByFault, StoreInv, SessionInv, TypeInv, TypeOK
<1>4. Cardinality(Pending) <= 1 /\ (pc # "insert" => Cardinality(Pending) = 0)
  <2>1. Cardinality({}) = 0 /\ Cardinality({sid}) = 1
    BY FS_EmptySet, FS_Singleton
  <2>2. Pending = {} \/ (Pending = {sid} /\ pc = "insert")
    BY DEF Pending
  <2>3. CASE Pending = {}
    BY <2>1, <2>3
  <2>4. CASE Pending = {sid} /\ pc = "insert"
    BY <2>1, <2>4
  <2> QED
    BY <2>2, <2>3, <2>4
<1>5. /\ IsFiniteSet(Closed \cup Orphans) /\ Cardinality(Closed \cup Orphans) \in Nat
      /\ Cardinality(Closed \cup Orphans) <= Cardinality(Closed) + Cardinality(Orphans)
  BY <1>1, UnionIsNoLarger
<1>6. Cardinality(Unseen) \in Nat /\ Cardinality(Unseen) <= Cardinality(Closed \cup Orphans) + Cardinality(Pending)
  BY <1>1, <1>5, UnionIsNoLarger DEF Unseen
<1> QED
  BY <1>2, <1>3, <1>4, <1>5, <1>6

(* A session the store holds active is committed at its cap.                *)
LEMMA SeenAreCommitted ==
  ASSUME BaseInv, SpendInv, NEW s \in Sid \ Unseen
  PROVE spend[s] <= Committed[s]
<1>1. spend[s] \in 0 .. MaxAcuLimit /\ sess[s].active \in BOOLEAN /\ sess[s].acus \in Nat
  BY DEF BaseInv, WorldInv, StoreInv, SessionInv, TypeInv, TypeOK, SessionRows, ServicesInv, ServicesOK
<1>2. CASE ~Created(s)
  BY <1>1, <1>2, AcuAssumption DEF SpendInv, Committed
<1>3. CASE Created(s)
  <2>1. Recorded(s) /\ sess[s].active
    BY <1>1, <1>3 DEF Unseen, Closed, Orphans, Pending, Created
  <2> QED
    BY <1>1, <2>1 DEF Committed
<1> QED
  BY <1>2, <1>3

(* What is not committed is a cap for each session out of sight.            *)
LEMMA SpendIsAccounted ==
  ASSUME BaseInv, BudgetInv, SpendInv
  PROVE OverrunIsAccounted
<1> DEFINE raised == [s \in Sid |-> IF s \in Unseen THEN MaxAcuLimit ELSE Committed[s]]
<1>0. TypeOK /\ ServicesOK
  BY DEF BaseInv, WorldInv, StoreInv, SessionInv, TypeInv, ServicesInv
<1>1. Committed \in Amounts /\ spend \in Amounts
  BY <1>0, Amounted DEF BudgetInv, Amounts, ServicesOK
<1>2. raised \in Amounts
  BY <1>1, AcuAssumption DEF Amounts
<1>3. \A s \in Sid : spend[s] <= raised[s]
  BY <1>1, SeenAreCommitted, AcuAssumption DEF Amounts
<1>4. Unseen \subseteq Sid /\ \A s \in Sid \ Unseen : raised[s] = Committed[s]
  BY DEF Unseen, Closed, Orphans, Pending
<1> HIDE DEF raised
<1>5. Cardinality(AcusOf(spend)) <= Cardinality(AcusOf(raised))
  BY <1>1, <1>2, <1>3, AcusAreMonotone
<1>6. Cardinality(AcusOf(raised)) <= Cardinality(AcusOf(Committed)) + Cardinality(Unseen) * MaxAcuLimit
  BY <1>1, <1>2, <1>4, RaisedAcus
<1>7. /\ Cardinality(AcusOf(spend)) \in Nat /\ Cardinality(AcusOf(raised)) \in Nat
      /\ Cardinality(AcusOf(Committed)) \in Nat
  BY <1>1, <1>2, AcusAreFinite
<1>8. ASSUME NEW few \in Nat, NEW many \in Nat, few <= many
      PROVE few * MaxAcuLimit \in Nat /\ many * MaxAcuLimit \in Nat /\ few * MaxAcuLimit <= many * MaxAcuLimit
  BY <1>8, AcuAssumption
<1> DEFINE lost == Cardinality(Closed) + faults
<1>9. lost \in Nat /\ (lost + 1) * MaxAcuLimit = lost * MaxAcuLimit + MaxAcuLimit
  BY UnseenAreFew, AcuAssumption
<1>10. CASE pc = "insert"
  <2>1. Cardinality(Unseen) * MaxAcuLimit <= (lost + 1) * MaxAcuLimit
    BY <1>8, <1>9, UnseenAreFew
  <2>2. Cardinality(AcusOf(Committed)) + MaxAcuLimit <= GlobalAcuBudget
    BY <1>10 DEF BudgetInv
  <2>3. Cardinality(Unseen) * MaxAcuLimit \in Nat /\ lost * MaxAcuLimit \in Nat
    BY <1>8, <1>9, UnseenAreFew
  <2> HIDE DEF lost
  <2>4. Cardinality(AcusOf(spend)) <= GlobalAcuBudget + lost * MaxAcuLimit
    BY <1>5, <1>6, <1>7, <1>9, <2>1, <2>2, <2>3, AcuAssumption
  <2> QED
    BY <2>4 DEF lost, OverrunIsAccounted
<1>11. CASE pc # "insert"
  <2>1. Cardinality(Unseen) * MaxAcuLimit <= lost * MaxAcuLimit
    BY <1>8, <1>9, <1>11, UnseenAreFew
  <2>2. Cardinality(AcusOf(Committed)) <= GlobalAcuBudget
    BY DEF BudgetInv, RecordedSpendWithinBudget
  <2>3. Cardinality(Unseen) * MaxAcuLimit \in Nat /\ lost * MaxAcuLimit \in Nat
    BY <1>8, <1>9, UnseenAreFew
  <2> HIDE DEF lost
  <2>4. Cardinality(AcusOf(spend)) <= GlobalAcuBudget + lost * MaxAcuLimit
    BY <1>5, <1>6, <1>7, <2>1, <2>2, <2>3, AcuAssumption
  <2> QED
    BY <2>4 DEF lost, OverrunIsAccounted
<1> QED
  BY <1>10, <1>11

(* By how much Devin can bill past the ceiling: a cap for each session the  *)
(* store has closed, since closing does not stop it (loop.py:309-311), and  *)
(* one for each fault.  So as long as nothing is closed and nothing fails   *)
(* the guard of budget.py does keep the real spend within the ceiling.      *)
THEOREM RealSpendIsAccounted == ControlSpec => []OverrunIsAccounted
<1> DEFINE Inv == BaseInv /\ BudgetInv /\ SpendInv
<1>1. ControlInit => Inv
  BY InitBaseInv, InitBudgetInv DEF ControlInit, SpendInv
<1>2. Inv /\ [ControlNext]_controlVars => Inv'
  <2> SUFFICES ASSUME Inv, [ControlNext]_controlVars PROVE Inv'
    OBVIOUS
  <2>1. BaseInv'
    BY NextBaseInv
  <2>2. TypeOK /\ [Next]_vars
    BY StepImplementsReconciler DEF BaseInv, WorldInv, StoreInv, SessionInv, TypeInv
  <2>3. TypeOK'
    BY <2>1 DEF BaseInv, WorldInv, StoreInv, SessionInv, TypeInv
  <2> QED
    BY <2>1, <2>2, <2>3, NextBudgetInv, NextSpendInv
<1>3. Inv => OverrunIsAccounted
  BY SpendIsAccounted
<1> QED
  BY <1>1, <1>2, <1>3, PTL DEF ControlSpec

=============================================================================
