----------------------- MODULE DiagnosticsTrackerProofs -----------------------
(***************************************************************************)
(* Proofs about DiagnosticsTracker, for any number of checks and waves:    *)
(* IInv is an invariant of every step, and a check of a changed document   *)
(* that the debounce timer ends reports a wave from after it subscribed.   *)
(***************************************************************************)
EXTENDS DiagnosticsTracker, TLAPS

USE DEF None, Timers

(* The initial state. *)
LEMMA InitInv == Init => IInv
  BY DEF Init, IInv, TypeOK, NotStarted, StageInv, WaveInv, Pending

(* Every step keeps the types. *)
LEMMA TypeStep == TypeOK /\ [Next]_vars => TypeOK'
<1> SUFFICES ASSUME TypeOK, [Next]_vars PROVE TypeOK'
  OBVIOUS
<1> USE DEF TypeOK
<1>1. CASE Analyse
  BY <1>1 DEF Analyse, trackerVars, timerVars, finishVars, syncVars
<1>2. CASE Handle
  BY <1>2 DEF Handle, serverVars, timerVars, finishVars, syncVars
<1>3. ASSUME NEW c \in Checks, NEW change \in BOOLEAN, Sync(c, change) PROVE TypeOK'
  <2>1. text' \in Nat /\ changed' \subseteq Checks
    BY <1>3 DEF Sync
  <2> QED
    BY <1>3, <2>1 DEF Sync, trackerVars, timerVars, finishVars
<1>4. ASSUME NEW c \in Checks, CallSubscriber(c) PROVE TypeOK'
  BY <1>4 DEF CallSubscriber, Arm, serverVars, trackerVars, finishVars, syncVars
<1>5. ASSUME NEW c \in Checks, DebounceFires(c) PROVE TypeOK'
  BY <1>5 DEF DebounceFires, serverVars, trackerVars, finishVars, syncVars
<1>6. ASSUME NEW c \in Checks, Check(c) PROVE TypeOK'
  <2>1. CASE Subscribe(c)
    BY <2>1 DEF Subscribe, serverVars, timerVars, finishVars, syncVars
  <2>2. CASE StartTimers(c)
    BY <2>2 DEF StartTimers, Arm, Capped, serverVars, trackerVars, finishVars, syncVars
  <2>3. CASE Report(c)
    BY <2>3 DEF Report, Unsubscribed, serverVars, timerVars, syncVars
  <2>4. CASE Return(c)
    BY <2>4 DEF Return, HardStopped, serverVars, trackerVars, finishVars, syncVars
  <2>5. CASE HardFires(c)
    BY <2>5 DEF HardFires, serverVars, trackerVars, finishVars, syncVars
  <2>6. ASSUME NEW timer \in Timers, Enter(c, timer) PROVE TypeOK'
    BY <2>6 DEF Enter, serverVars, trackerVars, syncVars
  <2>7. ASSUME NEW timer \in Timers, Leave(c, timer) PROVE TypeOK'
    BY <2>7 DEF Leave, serverVars, trackerVars, finishVars, syncVars
  <2> QED
    BY <1>6, <2>1, <2>2, <2>3, <2>4, <2>5, <2>6, <2>7 DEF Check
<1>7. CASE UNCHANGED vars
  BY <1>7 DEF vars, serverVars, trackerVars, timerVars, finishVars, syncVars
<1> QED
  BY <1>1, <1>2, <1>3, <1>4, <1>5, <1>6, <1>7 DEF Next

(* What holds of one check is kept by a step of any check. *)
LEMMA CheckStep ==
    ASSUME IInv, [Next]_vars, NEW k \in Checks
    PROVE (NotStarted(k) /\ StageInv(k) /\ WaveInv(k))'
<1> USE DEF IInv, TypeOK, NotStarted, StageInv, WaveInv, Pending
<1>1. CASE Analyse
  BY <1>1 DEF Analyse, trackerVars, timerVars, finishVars, syncVars
<1>2. CASE Handle
  BY <1>2 DEF Handle, serverVars, timerVars, finishVars, syncVars
<1>3. ASSUME NEW c \in Checks, NEW change \in BOOLEAN, Sync(c, change)
      PROVE (NotStarted(k) /\ StageInv(k) /\ WaveInv(k))'
  <2>1. CASE k = c
    BY <1>3, <2>1 DEF Sync, trackerVars, timerVars, finishVars
  <2>2. CASE k # c
    BY <1>3, <2>2 DEF Sync, trackerVars, timerVars, finishVars
  <2> QED
    BY <2>1, <2>2
<1>4. ASSUME NEW c \in Checks, CallSubscriber(c)
      PROVE (NotStarted(k) /\ StageInv(k) /\ WaveInv(k))'
  BY <1>4 DEF CallSubscriber, Arm, serverVars, trackerVars, finishVars, syncVars
<1>5. ASSUME NEW c \in Checks, DebounceFires(c)
      PROVE (NotStarted(k) /\ StageInv(k) /\ WaveInv(k))'
  BY <1>5 DEF DebounceFires, serverVars, trackerVars, finishVars, syncVars
<1>6. ASSUME NEW c \in Checks, Check(c)
      PROVE (NotStarted(k) /\ StageInv(k) /\ WaveInv(k))'
  <2>1. CASE Subscribe(c)
    BY <2>1 DEF Subscribe, WarmStart, serverVars, timerVars, finishVars, syncVars
  <2>2. CASE StartTimers(c)
    BY <2>2 DEF StartTimers, Arm, Capped, serverVars, trackerVars, finishVars, syncVars
  <2>3. CASE Report(c)
    BY <2>3 DEF Report, Unsubscribed, serverVars, timerVars, syncVars
  <2>4. CASE Return(c)
    BY <2>4 DEF Return, HardStopped, serverVars, trackerVars, finishVars, syncVars
  <2>5. CASE HardFires(c)
    BY <2>5 DEF HardFires, serverVars, trackerVars, finishVars, syncVars
  <2>6. ASSUME NEW timer \in Timers, Enter(c, timer)
        PROVE (NotStarted(k) /\ StageInv(k) /\ WaveInv(k))'
    BY <2>6 DEF Enter, serverVars, trackerVars, syncVars
  <2>7. ASSUME NEW timer \in Timers, Leave(c, timer)
        PROVE (NotStarted(k) /\ StageInv(k) /\ WaveInv(k))'
    BY <2>7 DEF Leave, serverVars, trackerVars, finishVars, syncVars
  <2> QED
    BY <1>6, <2>1, <2>2, <2>3, <2>4, <2>5, <2>6, <2>7 DEF Check
<1>7. CASE UNCHANGED vars
  BY <1>7 DEF vars, serverVars, trackerVars, timerVars, finishVars, syncVars
<1> QED
  BY <1>1, <1>2, <1>3, <1>4, <1>5, <1>6, <1>7 DEF Next

(* The strengthened invariant holds in every reachable state. *)
THEOREM Inductive == Spec => []IInv
<1>1. Init => IInv
  BY InitInv
<1>2. IInv /\ [Next]_vars => IInv'
  <2> SUFFICES ASSUME IInv, [Next]_vars PROVE IInv'
    OBVIOUS
  <2>1. TypeOK'
    BY TypeStep DEF IInv
  <2>2. (\A k \in Checks : NotStarted(k) /\ StageInv(k) /\ WaveInv(k))'
    BY CheckStep
  <2> QED
    BY <2>1, <2>2 DEF IInv
<1> QED
  BY <1>1, <1>2, PTL DEF Spec

(* Every variable keeps its type. *)
THEOREM TypeCorrect == Spec => []TypeOK
<1>1. IInv => TypeOK
  BY DEF IInv
<1> QED
  BY <1>1, Inductive, PTL

(* diagnostics.go:54-57: a check of a document that was opened or changed, *)
(* ended by the debounce timer, reports a wave from after it subscribed.   *)
THEOREM NewWave == Spec => []WaitsForNewWave
<1>1. IInv => WaitsForNewWave
  BY DEF IInv, TypeOK, WaveInv, WaitsForNewWave
<1> QED
  BY <1>1, Inductive, PTL

(* diagnostics.go:76: no check that returned is still subscribed. *)
THEOREM NoLeak == Spec => []NoSubscriberLeaks
<1>1. IInv => NoSubscriberLeaks
  BY DEF IInv, TypeOK, StageInv, NoSubscriberLeaks
<1> QED
  BY <1>1, Inductive, PTL
=============================================================================
