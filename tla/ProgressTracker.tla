-------------------------- MODULE ProgressTracker --------------------------
(***************************************************************************)
(* src/lspclient/progress.go: request handlers call Settle to wait until   *)
(* the language server has finished the work a didOpen triggered, while    *)
(* the reader goroutine calls Handle with every $/progress notification.   *)
(* A Settle call waits for work to begin (at most the grace period), then  *)
(* for all work to end (at most maxWait).  Both waits are on channels the  *)
(* tracker closes under its mutex.                                         *)
(*                                                                         *)
(* The channels of the n-th call of handler c are named <<c, n>>.  A timer *)
(* may fire at any moment after the wait began.  The server (external)     *)
(* begins and ends its work tokens as it likes, a bounded number of times. *)
(***************************************************************************)
EXTENDS Naturals

CONSTANTS Handlers,   \* goroutines that call Settle
          Tokens,     \* work-done tokens
          MaxCalls,   \* bound: Settle calls of one handler
          MaxBegins   \* bound: begin notifications of a behaviour

ASSUME BoundsAssumption == MaxCalls \in Nat /\ MaxBegins \in Nat

VARIABLES pending,       \* tokens begun and not ended
          beginWaiters,  \* begin channels registered and not flushed
          idleWaiters,   \* idle channels registered and not flushed
          begun,         \* begin channels that are closed
          idle,          \* idle channels that are closed
          loadedOnce,    \* "warm" once a progress cycle has completed, else "cold"
          pc,            \* pc[c]: where Settle of handler c is
          call,          \* call[c]: number of its Settle calls so far
          grace,         \* grace[c]: "cold" or "warm", the wait it chose
          sawIdle,       \* history: handlers for which no work was pending at some
                         \* moment since they decided to wait for work to end
          outcome,       \* history: how the latest call of c returned
          begins         \* history: number of begin notifications

trackerVars == <<pending, beginWaiters, idleWaiters, begun, idle, loadedOnce>>
vars == <<trackerVars, pc, call, grace, sawIdle, outcome, begins>>

Channels == Handlers \X (1..MaxCalls)
ChannelOf(c) == <<c, call[c]>>

Init ==
    /\ pending = {} /\ beginWaiters = {} /\ idleWaiters = {}
    /\ begun = {} /\ idle = {} /\ loadedOnce = "cold"
    /\ pc = [c \in Handlers |-> "out"]
    /\ call = [c \in Handlers |-> 0]
    /\ grace = [c \in Handlers |-> "cold"]
    /\ sawIdle = {}
    /\ outcome = [c \in Handlers |-> "none"]
    /\ begins = 0

-----------------------------------------------------------------------------
(* Handle, on the reader goroutine *)

KeptWaiters(waiters) == waiters          \* faulty: flush leaves the list as it is
FlushedWaiters(waiters) == {}            \* *waiters = nil

(* A token may begin again while it is pending. *)
HandleBegin(t) ==
    /\ begins < MaxBegins
    /\ begins' = begins + 1
    /\ pending' = pending \cup {t}
    /\ begun' = begun \cup beginWaiters
    /\ beginWaiters' = FlushedWaiters(beginWaiters)
    /\ UNCHANGED <<idleWaiters, idle, loadedOnce, pc, call, grace, sawIdle, outcome>>

EndsAnyWork(rest) == TRUE                \* faulty: wakes with work still pending
EndsAllWork(rest) == rest = {}           \* len(p.pending) == 0

(* An end without a begin goes the same way. *)
HandleEnd(t) ==
    /\ pending' = pending \ {t}
    /\ IF EndsAllWork(pending')
         THEN /\ loadedOnce' = "warm"
              /\ idle' = idle \cup idleWaiters
              /\ idleWaiters' = FlushedWaiters(idleWaiters)
         ELSE UNCHANGED <<loadedOnce, idle, idleWaiters>>
    /\ sawIdle' = IF pending' = {} THEN Handlers ELSE sawIdle
    /\ UNCHANGED <<beginWaiters, begun, pc, call, grace, outcome, begins>>

-----------------------------------------------------------------------------
(* Settle and awaitIdle, on a handler's goroutine *)

Goto(c, l) == pc' = [pc EXCEPT ![c] = l]
Return(c, how) == Goto(c, "out") /\ outcome' = [outcome EXCEPT ![c] = how]

EnterBusy(c) ==
    /\ pc[c] = "out" /\ call[c] < MaxCalls /\ pending # {}
    /\ call' = [call EXCEPT ![c] = @ + 1]
    /\ sawIdle' = sawIdle \ {c}
    /\ Goto(c, "await")
    /\ UNCHANGED <<trackerVars, grace, outcome, begins>>

NewChannel(c) == <<c, call[c] + 1>>      \* begin := make(chan struct{}, 1)

EnterQuiet(c) ==
    /\ pc[c] = "out" /\ call[c] < MaxCalls /\ pending = {}
    /\ call' = [call EXCEPT ![c] = @ + 1]
    /\ beginWaiters' = beginWaiters \cup {NewChannel(c)}
    /\ grace' = [grace EXCEPT ![c] = loadedOnce]
    /\ Goto(c, "grace")
    /\ UNCHANGED <<pending, idleWaiters, begun, idle, loadedOnce, sawIdle, outcome, begins>>

(* <-begin: the work started during the grace period. *)
SeeBegin(c) ==
    /\ pc[c] = "grace" /\ ChannelOf(c) \in begun
    /\ sawIdle' = IF pending = {} THEN sawIdle \cup {c} ELSE sawIdle \ {c}
    /\ Goto(c, "await")
    /\ UNCHANGED <<trackerVars, call, grace, outcome, begins>>

(* The grace period is over; the channel stays in beginWaiters. *)
GraceOver(c) ==
    /\ pc[c] = "grace"
    /\ Return(c, "nothing")
    /\ UNCHANGED <<trackerVars, call, grace, sawIdle, begins>>

TrustsBegin(c) == FALSE                  \* faulty: awaitIdle does not look again
FindsIdle(c) == pending = {}             \* awaitIdle: len(p.pending) == 0

AwaitReturns(c) ==
    /\ pc[c] = "await" /\ FindsIdle(c)
    /\ Return(c, "done")
    /\ UNCHANGED <<trackerVars, call, grace, sawIdle, begins>>

AwaitRegisters(c) ==
    /\ pc[c] = "await" /\ ~FindsIdle(c)
    /\ idleWaiters' = idleWaiters \cup {ChannelOf(c)}
    /\ Goto(c, "idleWait")
    /\ UNCHANGED <<pending, beginWaiters, begun, idle, loadedOnce, call, grace, sawIdle,
                   outcome, begins>>

SeeIdle(c) ==
    /\ pc[c] = "idleWait" /\ ChannelOf(c) \in idle
    /\ Return(c, "done")
    /\ UNCHANGED <<trackerVars, call, grace, sawIdle, begins>>

(* maxWait is over; the channel stays in idleWaiters. *)
MaxWaitOver(c) ==
    /\ pc[c] = "idleWait"
    /\ Return(c, "gaveUp")
    /\ UNCHANGED <<trackerVars, call, grace, sawIdle, begins>>

Advance(c) == SeeBegin(c) \/ AwaitReturns(c) \/ AwaitRegisters(c) \/ SeeIdle(c)

HandlerStep(c) ==
    EnterBusy(c) \/ EnterQuiet(c) \/ Advance(c) \/ GraceOver(c) \/ MaxWaitOver(c)

Next ==
    \/ \E t \in Tokens : HandleBegin(t) \/ HandleEnd(t)
    \/ \E c \in Handlers : HandlerStep(c)

Spec == Init /\ [][Next]_vars

(* Goroutines that can run do; nothing is assumed of the timers, so what   *)
(* the liveness property says is owed to the channels alone.               *)
FairSpec == Spec /\ \A c \in Handlers : WF_vars(Advance(c))

-----------------------------------------------------------------------------
(* Properties *)

TypeOK ==
    /\ pending \subseteq Tokens
    /\ beginWaiters \subseteq Channels /\ idleWaiters \subseteq Channels
    /\ begun \subseteq Channels /\ idle \subseteq Channels
    /\ loadedOnce \in {"cold", "warm"}
    /\ pc \in [Handlers -> {"out", "grace", "await", "idleWait"}]
    /\ call \in [Handlers -> 0..MaxCalls]
    /\ \A c \in Handlers : pc[c] # "out" => call[c] # 0
    /\ grace \in [Handlers -> {"cold", "warm"}]
    /\ sawIdle \subseteq Handlers
    /\ outcome \in [Handlers -> {"none", "nothing", "done", "gaveUp"}]
    /\ begins \in Nat

(* No wake-up is lost between the check under the mutex and the wait: a    *)
(* handler that waits for work to begin has its channel closed if work is  *)
(* pending, one that waits for idleness has it closed if none is.          *)
NoLostWakeup ==
    \A c \in Handlers :
        /\ pc[c] = "grace" /\ pending # {} => ChannelOf(c) \in begun
        /\ pc[c] = "idleWait" /\ pending = {} => ChannelOf(c) \in idle

(* Settle does not return early: when it reports the work done, there was  *)
(* a moment without pending work after it had decided to wait for one.     *)
NoEarlyReturn ==
    \A c \in Handlers :
        /\ pc[c] = "idleWait" /\ ChannelOf(c) \in idle => c \in sawIdle
        /\ pc[c] = "out" /\ outcome[c] = "done" => c \in sawIdle

(* "each channel is closed exactly once" (a second close panics): no       *)
(* channel waits in a list after it was closed.                            *)
ClosedOnce == beginWaiters \cap begun = {} /\ idleWaiters \cap idle = {}

(* The inductive invariant: with work pending nobody waits for it to       *)
(* begin, without it nobody waits for it to end, and the channel of a      *)
(* waiting call is registered or closed, never both.                       *)
WaiterInv ==
    /\ pending # {} => beginWaiters = {}
    /\ pending = {} => idleWaiters = {}
    /\ \A c \in Handlers :
          /\ pc[c] = "grace" => ChannelOf(c) \in beginWaiters \cup begun
          /\ pc[c] = "idleWait" => ChannelOf(c) \in idleWaiters \cup idle
          /\ pc[c] \in {"grace", "await"} => ChannelOf(c) \notin idleWaiters \cup idle
          /\ pc[c] = "await" /\ pending = {} => c \in sawIdle
    /\ \A c \in Handlers, n \in 1..MaxCalls :
          <<c, n>> \in beginWaiters \cup begun \cup idleWaiters \cup idle => n <= call[c]

IInv == WaiterInv /\ NoEarlyReturn /\ ClosedOnce

(* A handler that waits for the work to end returns once it has ended,     *)
(* without any help from the maxWait timer.                                *)
ReturnsWhenIdle ==
    \A c \in Handlers :
        pc[c] = "idleWait" /\ pending = {} ~> pc[c] = "out"
=============================================================================
