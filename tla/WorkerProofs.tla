---------------------------- MODULE WorkerProofs ----------------------------
(***************************************************************************)
(* What holds of the loop of the worker for any rows, cadences and number  *)
(* of failures.                                                            *)
(***************************************************************************)
EXTENDS Worker, TLAPS

(* tick_no always has a range to count in, also where nothing is scheduled. *)
LEMMA PeriodIsPositive == Period \in Nat \ {0}
BY WorkerAssumption DEF Period

(* A pass that raises leaves no list behind.                                *)
LEMMA RaiseKeepsTypes ==
  ASSUME TypeOK, Raise, work' \in [Rem -> Stages], taken' \in 0 .. Room
  PROVE TypeOK'
BY DEF TypeOK, Raise, MaxBackoff

(* Nor does a row whose turn is over grow the list.                         *)
LEMMA TurnKeepsTypes ==
  ASSUME TypeOK, NEW r \in Rem, TurnOf(r), turn \in {"dispatch", "advance"},
         work' \in [Rem -> Stages], taken' \in 0 .. Room
  PROVE TypeOK'
<1>1. CASE Raise
  BY <1>1, RaiseKeepsTypes
<1>2. CASE ~Raise
  BY <1>2 DEF TypeOK, TurnOf
<1> QED
  BY <1>1, <1>2

(* The worker is well typed whatever raises: what is due is decided by a    *)
(* counter below the period, the backoff stays at its fifth step, no more   *)
(* than the ceiling is used up, and no row is on the list of a tick that is *)
(* not under way.                                                           *)
THEOREM WorkerTypeCorrect == Spec => []TypeOK
<1>1. Init => TypeOK
  BY PeriodIsPositive, WorkerAssumption DEF Init, TypeOK, Stages, MaxBackoff
<1>2. TypeOK /\ [Next]_vars => TypeOK'
  <2> SUFFICES ASSUME TypeOK, [Next]_vars PROVE TypeOK'
    OBVIOUS
  <2>1. CASE Wake
    BY <2>1 DEF TypeOK, Wake
  <2>2. CASE Scan
    <3>1. work' \in [Rem -> Stages] /\ taken' \in 0 .. Room
      BY <2>2 DEF TypeOK, Scan, Stages
    <3> QED
      BY <2>2, <3>1, RaiseKeepsTypes DEF TypeOK, Scan
  <2>3. CASE Resync
    <3>1. work' \in [Rem -> Stages] /\ taken' \in 0 .. Room
      BY <2>3 DEF TypeOK, Resync, Stages
    <3> QED
      BY <2>3, <3>1, RaiseKeepsTypes DEF TypeOK, Resync
  <2>4. CASE BeginAdvance
    BY <2>4 DEF TypeOK, BeginAdvance, At
  <2>5. CASE EndTick
    BY <2>5, RaiseKeepsTypes, PeriodIsPositive DEF TypeOK, EndTick, MaxBackoff
  <2>6. ASSUME NEW r \in Rem, TurnedAway(r) \/ Dispatch(r) \/ Advance(r) PROVE TypeOK'
    <3>1. \A stage \in Stages : Goes(r, stage) \in [Rem -> Stages]
      BY DEF TypeOK, Goes
    <3>2. CASE TurnedAway(r)
      BY <3>2 DEF TypeOK, TurnedAway
    <3>3. CASE Dispatch(r)
      <4>1. work' \in [Rem -> Stages] /\ taken' \in 0 .. Room
        BY <3>1, <3>3 DEF TypeOK, Dispatch, Stages
      <4> QED
        BY <3>3, <4>1, TurnKeepsTypes DEF Dispatch
    <3>4. CASE Advance(r)
      <4>1. work' \in [Rem -> Stages] /\ taken' \in 0 .. Room
        BY <3>1, <3>4 DEF TypeOK, Advance, Ended, Stages
      <4> QED
        BY <3>4, <4>1, TurnKeepsTypes DEF Advance
    <3> QED
      BY <2>6, <3>2, <3>3, <3>4
  <2>7. CASE Stop \/ Start
    <3>1. running' \in BOOLEAN
      BY <2>7 DEF Stop, Start
    <3>2. tick_no' \in 0 .. Period - 1 /\ backoff' \in 0 .. MaxBackoff
      BY <2>7, PeriodIsPositive DEF TypeOK, Stop, Start, MaxBackoff
    <3> QED
      BY <2>7, <3>1, <3>2 DEF TypeOK, Stop, Start
  <2>8. ASSUME NEW p \in Parts, Break(p) \/ Mend(p) PROVE TypeOK'
    <3>1. broken' \subseteq Parts
      BY <2>8 DEF TypeOK, Break, Mend
    <3>2. breaks' \in 0 .. MaxBreaks
      BY <2>8, WorkerAssumption DEF TypeOK, Break, Mend
    <3>3. UNCHANGED <<work, taken, turn, todo, tick_no, backoff, running>>
      BY <2>8 DEF Break, Mend
    <3> QED
      BY <3>1, <3>2, <3>3 DEF TypeOK
  <2>9. CASE UNCHANGED vars
    BY <2>9 DEF TypeOK, vars
  <2> QED
    BY <2>1, <2>2, <2>3, <2>4, <2>5, <2>6, <2>7, <2>8, <2>9 DEF Next, Pass
<1> QED
  BY <1>1, <1>2, PTL DEF Spec

=============================================================================
