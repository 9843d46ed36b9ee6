-------------------------- MODULE DiagnosticsTracker --------------------------
(***************************************************************************)
(* opCheck of src/daemon/ops.go on the DiagnosticsTracker of               *)
(* src/lspclient/diagnostics.go, for one document.  Handle runs on the     *)
(* reader goroutine, Collect on the goroutine of the request, finish on    *)
(* the goroutine of the timer that fired.  A text is a revision number; a  *)
(* set of diagnostics is named by the revision it was computed from, 0 if  *)
(* there is none.  Time is abstract: a timer that is set may fire.         *)
(* External: the server analyses the text it holds and publishes the       *)
(* result later, in one or more waves.                                     *)
(***************************************************************************)
EXTENDS Naturals

CONSTANTS Checks,      \* requests, each one check of the document
          MaxWaves     \* bound: publishes of a behaviour

ASSUME MaxWavesAssumption == MaxWaves \in Nat

VARIABLES
    text,         \* revision the server holds
    job,          \* revision the server analyses, or has yet to publish
    waves,        \* history: number of publishes handled
    latest,       \* latest[uri]
    subscribers,  \* checks subscribed
    calls,        \* subscribers Handle has yet to call
    pc,           \* where each check is
    need,         \* the revision it synced
    changed,      \* checks whose sync opened or changed the document
    debounce,     \* checks whose debounce timer is set
    hard,         \* checks whose hard timer is set
    fired,        \* timers of each check whose finish runs, before once.Do
    once,         \* once of each check: "free", "taken", "over"
    done,         \* what finish sent to Collect, once it is "over"
    since,        \* history: waves when it subscribed
    got,          \* history: waves when finish read latest
    by            \* history: the timer whose finish won

serverVars == <<text, job>>
trackerVars == <<waves, latest, subscribers>>
syncVars == <<need, changed>>
timerVars == <<debounce, hard, fired>>
finishVars == <<once, done, got, by>>
vars == <<serverVars, trackerVars, calls, pc, syncVars, timerVars, finishVars, since>>

None == "none"

Init ==
    /\ text = 0 /\ job = 0 /\ waves = 0 /\ latest = 0
    /\ subscribers = {} /\ calls = {}
    /\ pc = [c \in Checks |-> "new"] /\ need = [c \in Checks |-> 0] /\ changed = {}
    /\ debounce = {} /\ hard = {} /\ fired = [c \in Checks |-> {}]
    /\ once = [c \in Checks |-> "free"] /\ done = [c \in Checks |-> 0]
    /\ since = [c \in Checks |-> 0] /\ got = [c \in Checks |-> 0]
    /\ by = [c \in Checks |-> None]

-----------------------------------------------------------------------------
(* The server, and Handle on the reader goroutine *)

Analyse ==
    /\ job # text /\ job' = text
    /\ UNCHANGED <<text, trackerVars, calls, pc, syncVars, timerVars, finishVars, since>>

(* A wave arrives: it is stored, and the subscribers of now are copied ... *)
Handle ==
    /\ job # 0 /\ calls = {} /\ waves < MaxWaves
    /\ waves' = waves + 1 /\ latest' = job
    /\ calls' = subscribers
    /\ UNCHANGED <<serverVars, subscribers, pc, syncVars, timerVars, finishVars, since>>

(* arm: a timer that was set is replaced. *)
Arm(c) == debounce' = debounce \cup {c}

(* ... and called, in any order, without the lock. *)
CallSubscriber(c) ==
    /\ c \in calls /\ calls' = calls \ {c}
    /\ Arm(c)
    /\ UNCHANGED <<serverVars, trackerVars, pc, syncVars, hard, fired, finishVars, since>>

-----------------------------------------------------------------------------
(* opCheck: the sync opens or changes the document, or finds it unchanged. *)

Sync(c, change) ==
    /\ pc[c] = "new" /\ (change \/ text # 0)
    /\ text' = IF change THEN text + 1 ELSE text
    /\ need' = [need EXCEPT ![c] = text']
    /\ changed' = IF change THEN changed \cup {c} ELSE changed
    /\ pc' = [pc EXCEPT ![c] = "synced"]
    /\ UNCHANGED <<job, trackerVars, calls, timerVars, finishVars, since>>

AnyCached(c) == latest # 0              \* faulty: the cached set will do after an edit
WarmStart(c) == c \notin changed /\ latest # 0        \* !requireNew && haveCached

(* Collect subscribes, after Settle, and looks at the cache ... *)
Subscribe(c) ==
    /\ pc[c] = "synced"
    /\ subscribers' = subscribers \cup {c}
    /\ since' = [since EXCEPT ![c] = waves]
    /\ pc' = [pc EXCEPT ![c] = IF WarmStart(c) THEN "warm" ELSE "cold"]
    /\ UNCHANGED <<serverVars, waves, latest, calls, syncVars, timerVars, finishVars>>

NoCap(c) == hard                        \* faulty: waits for a wave that may not come
Capped(c) == hard \cup {c}              \* time.AfterFunc(maxWait, finish)

(* ... and sets its timers. *)
StartTimers(c) ==
    /\ pc[c] \in {"warm", "cold"}
    /\ hard' = Capped(c)
    /\ IF pc[c] = "warm" THEN Arm(c) ELSE UNCHANGED debounce
    /\ pc' = [pc EXCEPT ![c] = "wait"]
    /\ UNCHANGED <<serverVars, trackerVars, calls, syncVars, fired, finishVars, since>>

DebounceFires(c) ==
    /\ c \in debounce /\ debounce' = debounce \ {c}
    /\ fired' = [fired EXCEPT ![c] = @ \cup {"debounce"}]
    /\ UNCHANGED <<serverVars, trackerVars, calls, pc, syncVars, hard, finishVars, since>>

HardFires(c) ==
    /\ c \in hard /\ hard' = hard \ {c}
    /\ fired' = [fired EXCEPT ![c] = @ \cup {"hard"}]
    /\ UNCHANGED <<serverVars, trackerVars, calls, pc, syncVars, debounce, finishVars, since>>

(* finish: the first to enter stops the debounce timer, which may have     *)
(* fired already ...                                                       *)
Enter(c, timer) ==
    /\ timer \in fired[c] /\ fired' = [fired EXCEPT ![c] = @ \ {timer}]
    /\ once[c] = "free" /\ once' = [once EXCEPT ![c] = "taken"]
    /\ by' = [by EXCEPT ![c] = timer]
    /\ debounce' = debounce \ {c}
    /\ UNCHANGED <<serverVars, trackerVars, calls, pc, syncVars, hard, done, got, since>>

(* ... the others wait for it and leave ... *)
Leave(c, timer) ==
    /\ timer \in fired[c] /\ fired' = [fired EXCEPT ![c] = @ \ {timer}]
    /\ once[c] = "over"
    /\ UNCHANGED <<serverVars, trackerVars, calls, pc, syncVars, debounce, hard, finishVars, since>>

Subscribed(c) == subscribers            \* faulty: the subscription is never cancelled
Unsubscribed(c) == subscribers \ {c}    \* delete(d.subscribers, subID)

(* ... while it unsubscribes, reads the latest set and sends it. *)
Report(c) ==
    /\ once[c] = "taken" /\ once' = [once EXCEPT ![c] = "over"]
    /\ subscribers' = Unsubscribed(c)
    /\ done' = [done EXCEPT ![c] = latest]
    /\ got' = [got EXCEPT ![c] = waves]
    /\ UNCHANGED <<serverVars, waves, latest, calls, pc, syncVars, timerVars, by, since>>

HardStopped(c) == hard \ {c}            \* defer hard.Stop()

(* Collect returns what it received, and stops the hard timer. *)
Return(c) ==
    /\ pc[c] = "wait" /\ once[c] = "over"
    /\ pc' = [pc EXCEPT ![c] = "done"]
    /\ hard' = HardStopped(c)
    /\ UNCHANGED <<serverVars, trackerVars, calls, syncVars, debounce, fired, finishVars, since>>

-----------------------------------------------------------------------------
Check(c) ==
    \/ Subscribe(c) \/ StartTimers(c) \/ Report(c) \/ Return(c) \/ HardFires(c)
    \/ \E timer \in {"debounce", "hard"} : Enter(c, timer) \/ Leave(c, timer)

Next ==
    \/ Analyse \/ Handle
    \/ \E c \in Checks :
          \/ \E change \in BOOLEAN : Sync(c, change)
          \/ CallSubscriber(c) \/ DebounceFires(c) \/ Check(c)

Spec == Init /\ [][Next]_vars

(* The goroutine of a check and of a finish run, and the hard timer fires; *)
(* the server need not publish anything.                                   *)
FairSpec == Spec /\ \A c \in Checks : WF_vars(Check(c))

-----------------------------------------------------------------------------
Timers == {"debounce", "hard"}

(* Every variable keeps its type, and the hard timer ends with Collect. *)
TypeOK ==
    /\ {text, job, waves, latest} \subseteq Nat
    /\ subscribers \subseteq Checks /\ calls \subseteq Checks
    /\ pc \in [Checks -> {"new", "synced", "warm", "cold", "wait", "done"}]
    /\ need \in [Checks -> Nat] /\ changed \subseteq Checks
    /\ debounce \subseteq Checks /\ hard \subseteq {c \in Checks : pc[c] = "wait"}
    /\ fired \in [Checks -> SUBSET Timers]
    /\ once \in [Checks -> {"free", "taken", "over"}]
    /\ done \in [Checks -> Nat]
    /\ since \in [Checks -> Nat] /\ got \in [Checks -> Nat]
    /\ by \in [Checks -> Timers \cup {None}]

(* diagnostics.go:54-57: a check that opened or changed the document, and  *)
(* is not cut off by the hard timer, reports a wave that came after it     *)
(* subscribed, never the cached set, although timers of earlier waves and  *)
(* calls of subscribers are under way when it subscribes.                  *)
WaitsForNewWave ==
    \A c \in Checks : once[c] = "over" /\ by[c] = "debounce" /\ c \in changed =>
        got[c] > since[c]

(* diagnostics.go:76: a check that returned is not subscribed any more: the daemon lives for  *)
(* days, and every wave calls every subscriber.                            *)
NoSubscriberLeaks == \A c \in subscribers : pc[c] # "done"

(* diagnostics.go:57: Collect returns, though the server publishes nothing. *)
CollectReturns == \A c \in Checks : pc[c] = "synced" ~> pc[c] = "done"

(* The strengthening that makes the two an invariant of every step: what   *)
(* can set or fire a debounce timer follows a wave or a warm start.        *)
Pending(c) == c \in calls \/ c \in debounce \/ "debounce" \in fired[c]
NotStarted(c) ==
    pc[c] \in {"new", "synced"} =>
        c \notin subscribers /\ c \notin calls /\ c \notin debounce /\ fired[c] = {}
        /\ once[c] = "free"
StageInv(c) ==
    /\ pc[c] = "new" => c \notin changed
    /\ pc[c] = "warm" => c \notin changed
    /\ pc[c] = "done" => once[c] = "over"
    /\ once[c] = "over" => c \notin subscribers
WaveInv(c) ==
    /\ since[c] <= waves
    /\ c \in changed /\ Pending(c) => since[c] < waves
    /\ c \in changed /\ once[c] = "taken" /\ by[c] = "debounce" => since[c] < waves
    /\ c \in changed /\ once[c] = "over" /\ by[c] = "debounce" => since[c] < got[c]
IInv == TypeOK /\ \A c \in Checks : NotStarted(c) /\ StageInv(c) /\ WaveInv(c)

(* ops.go:258-259: after an edit the check reports the wave of the new     *)
(* text, unless the hard timer cuts it off.                                *)
ReportsCurrentText ==
    \A c \in Checks : pc[c] = "done" /\ by[c] = "debounce" /\ c \in changed =>
        done[c] >= need[c]
=============================================================================
