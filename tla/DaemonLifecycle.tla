--------------------------- MODULE DaemonLifecycle ---------------------------
(***************************************************************************)
(* The daemons and the commands of one workspace and one language server,  *)
(* which meet only in two files of .idit, <server>.sock and <server>.pid:  *)
(* Run, its shutdown closure, the exit watcher and ensureSocketFree of     *)
(* src/daemon/daemon.go; ensureSocket, spawnDaemon and waitForSocket of    *)
(* src/cli/launch.go; RequestDaemon; the shutdown command, with and        *)
(* without --force.  Everything overlaps.                                  *)
(*                                                                         *)
(* A path is identified with what it holds: sock is the daemon whose       *)
(* listener bound the file, dead or alive, and pid the daemon whose id the *)
(* file holds.  A dial succeeds if the owner of the file still listens.    *)
(* Bind, listen and Serve are one step; process ids are not reused.        *)
(* External: the language server, which may die or hang; SIGTERM and       *)
(* SIGKILL.  Two history sets, which no guard reads, record what the       *)
(* properties except: crossed and hit.                                     *)
(***************************************************************************)
EXTENDS Naturals

CONSTANTS Daemons,    \* daemon processes that may be started
          Untimed,    \* those started with IDIT_IDLE_MS < 0
          Commands,   \* commands users run
          None,
          MaxFaults   \* bound: crashes, hangs, signals, failures and timeouts of a behaviour

ASSUME NoneAssumption == None \notin Daemons
ASSUME UntimedAssumption == Untimed \subseteq Daemons
ASSUME MaxFaultsAssumption == MaxFaults \in Nat

VARIABLES
    sock, pid,  \* the two files
    st,         \* st[d]: where Run is
    td,         \* td[d]: where its shutdown closure is
    listeners,  \* daemons whose listener is open
    server,     \* server[d]: its language server: "none", "running", "hung" or "gone"
    armed,      \* daemons whose idle timer is set
    cmd,        \* cmd[c]: where each command is
    peer,       \* peer[c]: the daemon it started, asked or is about to kill
    faults,     \* history: number of faults
    crossed,    \* history: daemons whose start or end met another one's
    hit         \* history: commands that ran at a fault or in a disturbed state

files == <<sock, pid>>
daemonVars == <<st, td, listeners, server, armed>>
commandVars == <<cmd, peer>>
vars == <<files, daemonVars, commandVars, faults, crossed, hit>>

Init ==
    /\ sock = None /\ pid = None
    /\ st = [d \in Daemons |-> "unborn"] /\ td = [d \in Daemons |-> "none"]
    /\ listeners = {} /\ server = [d \in Daemons |-> "none"] /\ armed = {}
    /\ cmd = [c \in Commands |-> "new"] /\ peer = [c \in Commands |-> None]
    /\ faults = 0 /\ crossed = {} /\ hit = {}

At(d, l) == st' = [st EXCEPT ![d] = l]
Teardown(d, l) == td' = [td EXCEPT ![d] = l]
Alive(d) == st[d] \notin {"unborn", "dead"}
Starting(d) == st[d] \in {"check", "clear", "record", "spawn", "handshake", "listen"}
Ending(d) == Alive(d) /\ (td[d] # "none" \/ server[d] = "gone")
Unsettled(d) == Starting(d) \/ Ending(d)

-----------------------------------------------------------------------------
(* History *)

Active(c) == cmd[c] \notin {"new", "done", "failed"}
AtFiles(c) == cmd[c] \in {"clear", "signal", "rmpid", "rmsock"}

(* The start or the end of d meets a daemon that starts, ends or was       *)
(* crossed itself, or d starts while a shutdown command handles the files. *)
Meets(d) ==
    \/ \E e \in Daemons \ {d} : Unsettled(d)' /\ Alive(e)' /\ (Unsettled(e)' \/ e \in crossed)
    \/ \E c \in Commands : Starting(d)' /\ AtFiles(c)'

(* A command cannot expect an answer: a daemon ends, hangs or was crossed, *)
(* or a shutdown command handles the files.                                *)
Disturbed ==
    \/ \E d \in Daemons : Alive(d) /\ (Ending(d) \/ server[d] = "hung" \/ d \in crossed)
    \/ \E c \in Commands : AtFiles(c)

Record(struck) ==
    /\ crossed' = crossed \cup struck \cup {d \in Daemons : Meets(d)}
    /\ hit' = IF faults' # faults \/ Disturbed'
              THEN hit \cup {c \in Commands : Active(c) \/ Active(c)'}
              ELSE hit

(* The last conjunct of every action is one of the two. *)
NoFault == UNCHANGED faults /\ Record({})
Fault(struck) == faults < MaxFaults /\ faults' = faults + 1 /\ Record(struck)

(* os.Exit, or a kill: the descriptors are closed, the files stay. *)
Exit(d) ==
    /\ At(d, "dead")
    /\ listeners' = listeners \ {d} /\ armed' = armed \ {d}
    /\ server' = [server EXCEPT ![d] = IF @ = "none" THEN @ ELSE "gone"]

-----------------------------------------------------------------------------
(* Run *)

NeverLive == FALSE                      \* faulty: any socket file is taken for stale
LiveOwner == sock \in listeners         \* net.DialTimeout succeeds

(* ensureSocketFree: nothing there, a live owner, or a stale file ... *)
EnsureSocketFree(d) ==
    /\ st[d] = "check"
    /\ \/ sock = None /\ At(d, "record") /\ UNCHANGED <<listeners, armed, server>>
       \/ sock # None /\ LiveOwner /\ Exit(d)
       \/ sock # None /\ ~LiveOwner /\ At(d, "clear") /\ UNCHANGED <<listeners, armed, server>>
    /\ UNCHANGED <<files, td, commandVars>> /\ NoFault

LeftThere == sock                       \* faulty: a stale file is noticed, not removed
Cleared == None

(* ... which is removed, whatever the path holds by then. *)
ClearStale(d) ==
    /\ st[d] = "clear"
    /\ sock' = Cleared
    /\ At(d, "record")
    /\ UNCHANGED <<pid, td, listeners, server, armed, commandVars>> /\ NoFault

ParentPid(d) == 0                       \* faulty: the id of the process that started it
KeptPid(d) == IF pid = None THEN d ELSE pid    \* faulty: an old file is not replaced
WrittenPid(d) == d

WritePid(d) ==
    /\ st[d] = "record"
    /\ pid' = WrittenPid(d)
    /\ At(d, "spawn")
    /\ UNCHANGED <<sock, td, listeners, server, armed, commandVars>> /\ NoFault

(* A failed write is logged, and Run goes on. *)
WritePidFails(d) ==
    /\ st[d] = "record"
    /\ At(d, "spawn")
    /\ UNCHANGED <<files, td, listeners, server, armed, commandVars>> /\ Fault({d})

StartServer(d) ==
    /\ st[d] = "spawn"
    /\ At(d, "handshake")
    /\ server' = [server EXCEPT ![d] = "running"]
    /\ UNCHANGED <<files, td, listeners, armed, commandVars>> /\ NoFault

(* The answer to initialize; from here on signals are handled. *)
Initialized(d) ==
    /\ st[d] = "handshake" /\ server[d] = "running"
    /\ At(d, "listen")
    /\ UNCHANGED <<files, td, listeners, server, armed, commandVars>> /\ NoFault

(* armIdle returns at once for a negative idle time. *)
ResetIdle(d) == armed \cup ({d} \ Untimed)

OnActivityOnly(d) == armed              \* faulty: only a request sets the timer
ArmedAtStart(d) == ResetIdle(d)         \* resetIdle() after Serve

(* net.Listen fails if the path exists. *)
Listen(d) ==
    /\ st[d] = "listen"
    /\ IF sock = None
       THEN /\ sock' = d /\ listeners' = listeners \cup {d}
            /\ armed' = ArmedAtStart(d)
            /\ At(d, "serving") /\ UNCHANGED server
       ELSE Exit(d) /\ UNCHANGED sock
    /\ UNCHANGED <<pid, td, commandVars>> /\ NoFault

-----------------------------------------------------------------------------
(* shutdown: asked by the idle timer, a signal or a request, done once *)

(* The timer fires, whatever requests are under way. *)
Idle(d) ==
    /\ d \in armed /\ td[d] = "none"
    /\ Teardown(d, "kill")
    /\ UNCHANGED <<files, st, listeners, server, armed, commandVars>> /\ NoFault

(* 50 milliseconds after the reply to a shutdown request. *)
BeginShutdown(d) ==
    /\ td[d] = "asked" /\ Alive(d)
    /\ Teardown(d, "kill")
    /\ UNCHANGED <<files, st, listeners, server, armed, commandVars>> /\ NoFault

(* lsp.Notify("exit"), which blocks on a server that no longer reads, then *)
(* lsp.Kill().                                                             *)
KillServer(d) ==
    /\ td[d] = "kill" /\ Alive(d) /\ server[d] # "hung"
    /\ server' = [server EXCEPT ![d] = "gone"]
    /\ Teardown(d, "stop")
    /\ UNCHANGED <<files, st, listeners, armed, commandVars>> /\ NoFault

(* srv.Stop(): closing a listener unlinks its path, whatever it holds.     *)
(* There is no srv yet when a signal comes before Listen.                  *)
StopServing(d) ==
    /\ td[d] = "stop" /\ Alive(d)
    /\ sock' = IF d \in listeners THEN None ELSE sock
    /\ listeners' = listeners \ {d}
    /\ Teardown(d, "rmsock")
    /\ UNCHANGED <<pid, st, server, armed, commandVars>> /\ NoFault

RemoveSock(d) ==
    /\ td[d] = "rmsock" /\ Alive(d)
    /\ sock' = None
    /\ Teardown(d, "rmpid")
    /\ UNCHANGED <<pid, st, listeners, server, armed, commandVars>> /\ NoFault

RemovePid(d) ==
    /\ td[d] = "rmpid" /\ Alive(d)
    /\ pid' = None
    /\ Teardown(d, "exit")
    /\ UNCHANGED <<sock, st, listeners, server, armed, commandVars>> /\ NoFault

ExitClean(d) ==
    /\ td[d] = "exit" /\ Alive(d)
    /\ Exit(d)
    /\ UNCHANGED <<files, td, commandVars>> /\ NoFault

(* The goroutine that waits for lsp.Exited(), or the failed initialize,    *)
(* calls fail wherever Run and shutdown are.                               *)
ServerExited(d) ==
    /\ server[d] = "gone" /\ Alive(d)
    /\ Exit(d)
    /\ UNCHANGED <<files, td, commandVars>> /\ NoFault

-----------------------------------------------------------------------------
(* Faults: the server dies, hangs or cannot be started, the daemon is      *)
(* killed, or it gets a SIGTERM, which it handles after the handshake.     *)

ServerDies(d) ==
    /\ Alive(d) /\ server[d] \in {"running", "hung"}
    /\ server' = [server EXCEPT ![d] = "gone"]
    /\ UNCHANGED <<files, st, td, listeners, armed, commandVars>> /\ Fault({})

(* It reads its input no longer. *)
ServerHangs(d) ==
    /\ Alive(d) /\ server[d] = "running"
    /\ server' = [server EXCEPT ![d] = "hung"]
    /\ UNCHANGED <<files, st, td, listeners, armed, commandVars>> /\ Fault({})

SpawnFails(d) ==
    st[d] = "spawn" /\ Exit(d) /\ UNCHANGED <<files, td, commandVars>> /\ Fault({})

Killed(d) == Alive(d) /\ Exit(d) /\ UNCHANGED <<files, td, commandVars>> /\ Fault({})

Terminated(d) ==
    /\ st[d] \in {"listen", "serving"} /\ td[d] = "none"
    /\ Teardown(d, "kill")
    /\ UNCHANGED <<files, st, listeners, server, armed, commandVars>> /\ Fault({})

-----------------------------------------------------------------------------
(* Commands *)

Goes(c, l) == cmd' = [cmd EXCEPT ![c] = l]
Meet(c, d) == peer' = [peer EXCEPT ![c] = d]

Query(c) ==
    /\ cmd[c] = "new" /\ Goes(c, "probe")
    /\ UNCHANGED <<files, daemonVars, peer>> /\ NoFault

(* ensureSocket: canConnect, or start a daemon and wait for it. *)
Connects(c) ==
    /\ cmd[c] \in {"probe", "wait"} /\ sock \in listeners
    /\ Goes(c, "send")
    /\ UNCHANGED <<files, daemonVars, peer>> /\ NoFault

NotRunning(c) ==
    /\ cmd[c] = "probe" /\ sock \notin listeners
    /\ Goes(c, "start")
    /\ UNCHANGED <<files, daemonVars, peer>> /\ NoFault

Born(d) == st[d] = "unborn" /\ At(d, "check") /\ UNCHANGED <<td, listeners, server, armed>>

SpawnDaemon(c, d) ==
    /\ cmd[c] = "start"
    /\ Born(d) /\ Meet(c, d)
    /\ Goes(c, "wait")
    /\ UNCHANGED files /\ NoFault

(* 20 seconds have passed and nothing starts that could still be up. *)
WaitTimeout(c) ==
    /\ cmd[c] = "wait" /\ sock \notin listeners
    /\ \A d \in Daemons : Starting(d) => server[d] = "hung"
    /\ Goes(c, "failed")
    /\ UNCHANGED <<files, daemonVars, peer>> /\ NoFault

(* RequestDaemon dials anew; the daemon's onActivity re-arms the timer. *)
Send(c) ==
    /\ cmd[c] = "send"
    /\ IF sock \in listeners
       THEN Goes(c, "reply") /\ Meet(c, sock) /\ armed' = ResetIdle(sock)
       ELSE Goes(c, "failed") /\ UNCHANGED <<peer, armed>>
    /\ UNCHANGED <<files, st, td, listeners, server>> /\ NoFault

Answered(c) ==
    /\ cmd[c] = "reply" /\ Alive(peer[c])
    /\ Goes(c, "done")
    /\ UNCHANGED <<files, daemonVars, peer>> /\ NoFault

(* The connection is cut, or 60 seconds pass while the server hangs. *)
NoAnswer(c) ==
    /\ cmd[c] = "reply" /\ (~Alive(peer[c]) \/ server[peer[c]] = "hung")
    /\ Goes(c, "failed")
    /\ UNCHANGED <<files, daemonVars, peer>> /\ NoFault

(* Faults: a daemon cannot be started, or a start takes more than 20, an   *)
(* answer more than 60 seconds.                                            *)
GivesUp(c) ==
    /\ cmd[c] \in {"start", "wait", "reply"} /\ Goes(c, "failed")
    /\ UNCHANGED <<files, daemonVars, peer>> /\ Fault({})

(* idit __serve *)
StartByHand(d) == Born(d) /\ UNCHANGED <<files, commandVars>> /\ NoFault

(* idit shutdown, for a key with a socket or a pid file: the daemon is     *)
(* asked, and replies before it shuts down ...                             *)
ShutdownAsked(c) ==
    /\ cmd[c] = "new" /\ sock \in listeners
    /\ Goes(c, "done")
    /\ td' = [td EXCEPT ![sock] = IF @ = "none" THEN "asked" ELSE @]
    /\ armed' = ResetIdle(sock)
    /\ UNCHANGED <<files, st, listeners, server, peer>> /\ NoFault

(* ... or it is not there, and the socket file is removed. *)
ShutdownUnreachable(c) ==
    /\ cmd[c] = "new" /\ sock \notin listeners /\ (sock # None \/ pid # None)
    /\ Goes(c, "clear")
    /\ UNCHANGED <<files, daemonVars, peer>> /\ NoFault

ClearSocket(c) ==
    /\ cmd[c] \in {"clear", "rmsock"}
    /\ sock' = None
    /\ Goes(c, "done")
    /\ UNCHANGED <<pid, daemonVars, peer>> /\ NoFault

(* forceKill: read the pid file, kill, remove both files. *)
ForceKill(c) ==
    /\ cmd[c] = "new" /\ pid # None
    /\ Meet(c, pid) /\ Goes(c, "signal")
    /\ UNCHANGED <<files, daemonVars>> /\ NoFault

ForceSignal(c) ==
    /\ cmd[c] = "signal"
    /\ IF Alive(peer[c]) THEN Exit(peer[c]) ELSE UNCHANGED <<st, listeners, server, armed>>
    /\ Goes(c, "rmpid")
    /\ UNCHANGED <<files, td, peer>> /\ NoFault

ForceRemovePid(c) ==
    /\ cmd[c] = "rmpid"
    /\ pid' = None
    /\ Goes(c, "rmsock")
    /\ UNCHANGED <<sock, daemonVars, peer>> /\ NoFault

-----------------------------------------------------------------------------
Serve(d) ==
    \/ EnsureSocketFree(d) \/ ClearStale(d) \/ WritePid(d) \/ StartServer(d)
    \/ Initialized(d) \/ Listen(d)

Stop(d) ==
    \/ BeginShutdown(d) \/ KillServer(d) \/ StopServing(d) \/ RemoveSock(d) \/ RemovePid(d)
    \/ ExitClean(d) \/ ServerExited(d)

Faulty(d) ==
    \/ WritePidFails(d) \/ ServerDies(d) \/ ServerHangs(d) \/ SpawnFails(d)
    \/ Killed(d) \/ Terminated(d)

Command(c) ==
    \/ Query(c) \/ Connects(c) \/ NotRunning(c) \/ WaitTimeout(c) \/ Send(c)
    \/ Answered(c) \/ NoAnswer(c) \/ GivesUp(c)
    \/ \E d \in Daemons : SpawnDaemon(c, d)
    \/ ShutdownAsked(c) \/ ShutdownUnreachable(c) \/ ClearSocket(c)
    \/ ForceKill(c) \/ ForceSignal(c) \/ ForceRemovePid(c)

Next ==
    \/ \E d \in Daemons : Serve(d) \/ Idle(d) \/ Stop(d) \/ StartByHand(d) \/ Faulty(d)
    \/ \E c \in Commands : Command(c)

Spec == Init /\ [][Next]_vars

(* The goroutines of a daemon run, and its timer, when set, fires. *)
FairSpec ==
    /\ Spec
    /\ \A d \in Daemons : WF_vars(Serve(d)) /\ WF_vars(Idle(d)) /\ WF_vars(Stop(d))

-----------------------------------------------------------------------------
(* Every variable keeps its type. *)
TypeOK ==
    /\ sock \in Daemons \cup {None} /\ pid \in Daemons \cup {None}
    /\ st \in [Daemons -> {"unborn", "check", "clear", "record", "spawn", "handshake",
                           "listen", "serving", "dead"}]
    /\ td \in [Daemons -> {"none", "asked", "kill", "stop", "rmsock", "rmpid", "exit"}]
    /\ listeners \subseteq Daemons /\ armed \subseteq Daemons \ Untimed
    /\ server \in [Daemons -> {"none", "running", "hung", "gone"}]
    /\ cmd \in [Commands -> {"new", "probe", "start", "wait", "send", "reply", "clear",
                             "signal", "rmpid", "rmsock", "done", "failed"}]
    /\ peer \in [Commands -> Daemons \cup {None}]
    /\ faults \in 0..MaxFaults /\ crossed \subseteq Daemons /\ hit \subseteq Commands

(* README.md:81: while a daemon serves its socket, and is not shutting     *)
(* down, the pid file names it, so that `idit shutdown --force` kills the  *)
(* daemon whose socket it removes; except after a start or an end that met *)
(* another one's, or a pid file that could not be written.                 *)
ServingPid ==
    sock \in listeners /\ td[sock] = "none" /\ sock \notin crossed => pid = sock

(* The socket file of a live daemon disappears only when that daemon shuts *)
(* down, unless its start or end met another one's: a daemon that loses it *)
(* can no longer be asked, nor shut down, and a second one starts beside.  *)
LiveSocketKept ==
    [][sock' # sock /\ sock \in listeners /\ sock \notin crossed => td[sock] # "none"]_vars

(* daemon.go:188: ensureSocketFree clears a stale socket file, never the   *)
(* one of a live daemon.                                                   *)
OnlyStaleCleared == [][\A d \in Daemons : ClearStale(d) => sock \notin listeners]_vars

(* launch.go:19-20: a query gets its answer, whatever files earlier        *)
(* crashes left behind and whoever else asks or starts a daemon, unless a  *)
(* fault comes, or a daemon ends, hangs or was crossed, or a shutdown      *)
(* handles the files, while it runs.                                       *)
ServedUnlessHit == \A c \in Commands : cmd[c] = "failed" => c \in hit

(* daemon.go:24-26: a daemon that serves with a timer ends, also one that  *)
(* lost its socket and never hears of a command again, and so does every   *)
(* daemon that was told to stop; except while its server hangs, on which   *)
(* the exit notification blocks.                                           *)
ServingEnds ==
    \A d \in Daemons :
        (st[d] = "serving" /\ d \notin Untimed) \/ td[d] # "none"
            ~> st[d] = "dead" \/ server[d] = "hung"
=============================================================================
