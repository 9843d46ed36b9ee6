----------------------- MODULE ProgressTrackerProofs -----------------------
(***************************************************************************)
(* Proofs about ProgressTracker, for every set of handlers and tokens and  *)
(* every bound.                                                            *)
(***************************************************************************)
EXTENDS ProgressTracker, TLAPS

USE BoundsAssumption

(* TypeOK is preserved by every notification and every step of a handler.  *)
THEOREM TypeCorrect == Spec => []TypeOK
<1> USE DEF TypeOK
<1>1. Init => TypeOK
  BY DEF Init
<1>2. ASSUME TypeOK, [Next]_vars
      PROVE  TypeOK'
  <2> USE <1>2 DEF trackerVars, Goto, Return
  <2>1. ASSUME NEW t \in Tokens, HandleBegin(t)
        PROVE  TypeOK'
    BY <2>1 DEF HandleBegin, FlushedWaiters
  <2>2. ASSUME NEW t \in Tokens, HandleEnd(t)
        PROVE  TypeOK'
    BY <2>2 DEF HandleEnd, FlushedWaiters, EndsAllWork
  <2>3. ASSUME NEW c \in Handlers, EnterBusy(c)
        PROVE  TypeOK'
    BY <2>3 DEF EnterBusy
  <2>4. ASSUME NEW c \in Handlers, EnterQuiet(c)
        PROVE  TypeOK'
    <3>1. NewChannel(c) \in Channels
      BY <2>4 DEF EnterQuiet, NewChannel, Channels
    <3> QED
      BY <2>4, <3>1 DEF EnterQuiet
  <2>5. ASSUME NEW c \in Handlers, SeeBegin(c)
        PROVE  TypeOK'
    BY <2>5 DEF SeeBegin
  <2>6. ASSUME NEW c \in Handlers, GraceOver(c) \/ AwaitReturns(c) \/ SeeIdle(c) \/ MaxWaitOver(c)
        PROVE  TypeOK'
    BY <2>6 DEF GraceOver, AwaitReturns, SeeIdle, MaxWaitOver
  <2>7. ASSUME NEW c \in Handlers, AwaitRegisters(c)
        PROVE  TypeOK'
    <3>1. ChannelOf(c) \in Channels
      BY <2>7 DEF AwaitRegisters, ChannelOf, Channels
    <3> QED
      BY <2>7, <3>1 DEF AwaitRegisters
  <2> QED
    BY <1>2, <2>1, <2>2, <2>3, <2>4, <2>5, <2>6, <2>7 DEF Next, HandlerStep, Advance, vars
<1> QED
  BY <1>1, <1>2, PTL DEF Spec

(* The inductive invariant holds initially and every step preserves it.    *)
THEOREM Inductive == Spec => []IInv
<1> USE DEF IInv, WaiterInv, NoEarlyReturn, ClosedOnce, ChannelOf
<1>1. Init => IInv
  BY DEF Init
<1>2. ASSUME TypeOK, IInv, [Next]_vars
      PROVE  IInv'
  <2> USE <1>2 DEF TypeOK, trackerVars, Goto, Return
  <2>0. \A n \in Nat : n # n + 1 /\ ~(n + 1 <= n)
    OBVIOUS
  <2>1. ASSUME NEW t \in Tokens, HandleBegin(t)
        PROVE  IInv'
    BY <2>1 DEF HandleBegin, FlushedWaiters
  <2>2. ASSUME NEW t \in Tokens, HandleEnd(t)
        PROVE  IInv'
    BY <2>2 DEF HandleEnd, FlushedWaiters, EndsAllWork
  <2>3. ASSUME NEW c \in Handlers, EnterBusy(c)
        PROVE  IInv'
    BY <2>3, <2>0 DEF EnterBusy, Channels
  <2>4. ASSUME NEW c \in Handlers, EnterQuiet(c)
        PROVE  IInv'
    BY <2>4, <2>0 DEF EnterQuiet, NewChannel, Channels
  <2>5. ASSUME NEW c \in Handlers, SeeBegin(c)
        PROVE  IInv'
    BY <2>5 DEF SeeBegin
  <2>6. ASSUME NEW c \in Handlers, GraceOver(c) \/ AwaitReturns(c) \/ SeeIdle(c) \/ MaxWaitOver(c)
        PROVE  IInv'
    BY <2>6 DEF GraceOver, AwaitReturns, SeeIdle, MaxWaitOver, FindsIdle
  <2>7. ASSUME NEW c \in Handlers, AwaitRegisters(c)
        PROVE  IInv'
    BY <2>7 DEF AwaitRegisters, FindsIdle
  <2>8. CASE UNCHANGED vars
    BY <2>8 DEF vars
  <2> QED
    BY <1>2, <2>1, <2>2, <2>3, <2>4, <2>5, <2>6, <2>7, <2>8 DEF Next, HandlerStep, Advance
<1> QED
  BY <1>1, <1>2, TypeCorrect, PTL DEF Spec

(* No wake-up is lost, for any number of handlers and tokens. *)
THEOREM WakeupsKept == Spec => []NoLostWakeup
<1>1. IInv => NoLostWakeup
  BY DEF IInv, WaiterInv, NoLostWakeup
<1> QED
  BY <1>1, Inductive, PTL

(* Settle reports the work done only after a moment without work. *)
THEOREM SettlesLate == Spec => []NoEarlyReturn
  BY Inductive, PTL DEF IInv

(* No channel is closed twice. *)
THEOREM ClosesOnce == Spec => []ClosedOnce
  BY Inductive, PTL DEF IInv
=============================================================================
