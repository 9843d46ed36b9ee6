------------------------ MODULE DaemonLifecycleProofs ------------------------
(* Theorems about DaemonLifecycle, for any number of daemons and commands,   *)
(* whatever overlaps.                                                        *)
EXTENDS DaemonLifecycle, TLAPS

USE NoneAssumption, UntimedAssumption, MaxFaultsAssumption

Booted == {"record", "spawn", "handshake", "listen"}
Settled(d) == st[d] = "serving" /\ td[d] = "none" /\ server[d] # "gone"
Looking(d) == st[d] = "check" /\ td[d] = "none"

(* The parts of one daemon agree. *)
DaemonInv(d) ==
    /\ d \in listeners \/ d \in armed => st[d] = "serving"
    /\ st[d] \in {"unborn", "check", "clear", "record", "spawn"} => server[d] = "none"
    /\ td[d] # "none" => st[d] \in {"listen", "serving", "dead"}

(* One daemon and the files. *)
FileInv(d) ==
    Alive(d) /\ d \notin crossed /\ td[d] = "none" =>
        /\ st[d] = "serving" => sock = d /\ d \in listeners /\ pid = d
        /\ st[d] \in {"spawn", "handshake", "listen"} => pid = d
        /\ st[d] \in Booted => sock = None

(* Beside a daemon that was not crossed another one lives only while one of  *)
(* the two finds out that the other serves.                                  *)
PairInv ==
    \A d, e \in Daemons : Alive(d) /\ Alive(e) /\ d # e /\ d \notin crossed =>
        \/ Settled(d) /\ Looking(e)
        \/ Settled(e) /\ Looking(d) /\ e \notin crossed

(* A shutdown command handles the files of a daemon that was not crossed     *)
(* only when it is about to kill it.                                         *)
Aims(c, d) == cmd[c] = "signal" /\ peer[c] = d
ShutdownInv ==
    \A c \in Commands, d \in Daemons :
        AtFiles(c) /\ Alive(d) /\ d \notin crossed /\ td[d] = "none" =>
            st[d] = "serving" /\ Aims(c, d)

(* What a query that was not hit may rely on. *)
Reliable(c) ==
    /\ ~Disturbed
    /\ cmd[c] = "wait" => \E d \in Daemons : Alive(d)
    /\ cmd[c] = "send" => sock \in listeners
    /\ cmd[c] = "reply" => st[peer[c]] = "serving"
QueryInv == \A c \in Commands : Active(c) /\ c \notin hit => Reliable(c)

Typed ==
    /\ TypeOK
    /\ \A c \in Commands : cmd[c] \in {"wait", "reply", "signal"} => peer[c] \in Daemons

IInv ==
    /\ \A d \in Daemons : DaemonInv(d) /\ FileInv(d)
    /\ PairInv /\ ShutdownInv /\ QueryInv /\ ServedUnlessHit
-----------------------------------------------------------------------------
(* TypeOK *)

LEMMA RecordTypes ==
    ASSUME TypeOK, NEW S, S \subseteq Daemons, Record(S)
    PROVE  crossed' \subseteq Daemons /\ hit' \subseteq Commands
  BY DEF TypeOK, Record

LEMMA HistoryTypes ==
    ASSUME TypeOK, NoFault \/ (\E S : S \subseteq Daemons /\ Fault(S))
    PROVE  faults' \in 0..MaxFaults /\ crossed' \subseteq Daemons /\ hit' \subseteq Commands
<1>1. CASE NoFault
  <2>1. crossed' \subseteq Daemons /\ hit' \subseteq Commands
    BY <1>1, RecordTypes DEF NoFault
  <2> QED  BY <1>1, <2>1 DEF NoFault, TypeOK
<1>2. ASSUME NEW S, S \subseteq Daemons, Fault(S)
      PROVE  faults' \in 0..MaxFaults /\ crossed' \subseteq Daemons /\ hit' \subseteq Commands
  <2>1. crossed' \subseteq Daemons /\ hit' \subseteq Commands
    BY <1>2, RecordTypes DEF Fault
  <2>2. faults' \in 0..MaxFaults
    BY <1>2 DEF Fault, TypeOK
  <2> QED  BY <2>1, <2>2
<1> QED  BY <1>1, <1>2

LEMMA ExitTypes ==
    ASSUME TypeOK, NEW d \in Daemons, Exit(d)
    PROVE  /\ st' \in [Daemons -> {"unborn", "check", "clear", "record", "spawn", "handshake",
                                   "listen", "serving", "dead"}]
           /\ listeners' \subseteq Daemons /\ armed' \subseteq Daemons \ Untimed
           /\ server' \in [Daemons -> {"none", "running", "hung", "gone"}]
  BY DEF TypeOK, Exit, At

(* Every action of a daemon and of a command ends in NoFault or in Fault. *)
LEMMA Histories ==
    ASSUME NEW d \in Daemons, Serve(d) \/ Idle(d) \/ Stop(d) \/ StartByHand(d) \/ Faulty(d)
    PROVE  NoFault \/ Fault({}) \/ (Fault({d}) /\ st[d] = "record" /\ At(d, "spawn"))
  BY DEF Serve, EnsureSocketFree, ClearStale, WritePid, StartServer, Initialized, Listen, Idle,
         Stop, BeginShutdown, KillServer, StopServing, RemoveSock, RemovePid, ExitClean,
         ServerExited, StartByHand, Faulty, WritePidFails, ServerDies, ServerHangs, SpawnFails,
         Killed, Terminated

LEMMA CommandHistories ==
    ASSUME NEW c \in Commands, Command(c)
    PROVE  NoFault \/ Fault({})
  BY DEF Command, Query, Connects, NotRunning, WaitTimeout, Send, Answered, NoAnswer, GivesUp,
         SpawnDaemon, ShutdownAsked, ShutdownUnreachable, ClearSocket, ForceKill, ForceSignal,
         ForceRemovePid

(* The types of all but the history. *)
Shape ==
    /\ sock \in Daemons \cup {None} /\ pid \in Daemons \cup {None}
    /\ st \in [Daemons -> {"unborn", "check", "clear", "record", "spawn", "handshake",
                           "listen", "serving", "dead"}]
    /\ td \in [Daemons -> {"none", "asked", "kill", "stop", "rmsock", "rmpid", "exit"}]
    /\ listeners \subseteq Daemons /\ armed \subseteq Daemons \ Untimed
    /\ server \in [Daemons -> {"none", "running", "hung", "gone"}]
    /\ cmd \in [Commands -> {"new", "probe", "start", "wait", "send", "reply", "clear",
                             "signal", "rmpid", "rmsock", "done", "failed"}]
    /\ peer \in [Commands -> Daemons \cup {None}]
    /\ \A c \in Commands : cmd[c] \in {"wait", "reply", "signal"} => peer[c] \in Daemons

LEMMA ShapeStep == Typed /\ [Next]_vars => Shape'
<1> SUFFICES ASSUME Typed, [Next]_vars PROVE Shape'
  OBVIOUS
<1>0. TypeOK /\ Shape
  BY DEF Typed, TypeOK, Shape
<1> USE DEF files, daemonVars, commandVars, At, Teardown, Goes, Meet, Born, ResetIdle
<1>1. ASSUME NEW d \in Daemons, Serve(d) PROVE Shape'
  <2>1. CASE EnsureSocketFree(d)
    <3>1. CASE Exit(d)
      BY <1>0, <2>1, <3>1, ExitTypes DEF Shape, EnsureSocketFree
    <3>2. CASE ~Exit(d)
      BY <1>0, <2>1, <3>2 DEF Shape, EnsureSocketFree
    <3> QED  BY <3>1, <3>2
  <2>2. CASE ClearStale(d)
    BY <1>0, <2>2 DEF Shape, ClearStale, Cleared
  <2>3. CASE WritePid(d)
    BY <1>0, <2>3 DEF Shape, WritePid, WrittenPid
  <2>4. CASE StartServer(d)
    BY <1>0, <2>4 DEF Shape, StartServer
  <2>5. CASE Initialized(d)
    BY <1>0, <2>5 DEF Shape, Initialized
  <2>6. CASE Listen(d)
    <3>1. CASE sock = None
      BY <1>0, <2>6, <3>1 DEF Shape, Listen, ArmedAtStart
    <3>2. CASE sock # None
      BY <1>0, <2>6, <3>2, ExitTypes DEF Shape, Listen
    <3> QED  BY <3>1, <3>2
  <2> QED  BY <1>1, <2>1, <2>2, <2>3, <2>4, <2>5, <2>6 DEF Serve
<1>2. ASSUME NEW d \in Daemons, Idle(d) \/ StartByHand(d) PROVE Shape'
  BY <1>0, <1>2 DEF Shape, Idle, StartByHand
<1>3. ASSUME NEW d \in Daemons, Stop(d) PROVE Shape'
  <2>1. CASE ExitClean(d) \/ ServerExited(d)
    BY <1>0, <2>1, ExitTypes DEF Shape, ExitClean, ServerExited
  <2>2. CASE BeginShutdown(d) \/ KillServer(d) \/ StopServing(d)
    BY <1>0, <2>2 DEF Shape, BeginShutdown, KillServer, StopServing
  <2>3. CASE RemoveSock(d) \/ RemovePid(d)
    BY <1>0, <2>3 DEF Shape, RemoveSock, RemovePid
  <2> QED  BY <1>3, <2>1, <2>2, <2>3 DEF Stop
<1>4. ASSUME NEW d \in Daemons, Faulty(d) PROVE Shape'
  <2>1. CASE SpawnFails(d) \/ Killed(d)
    BY <1>0, <2>1, ExitTypes DEF Shape, SpawnFails, Killed
  <2>2. CASE WritePidFails(d) \/ ServerDies(d)
    BY <1>0, <2>2 DEF Shape, WritePidFails, ServerDies
  <2>3. CASE ServerHangs(d) \/ Terminated(d)
    BY <1>0, <2>3 DEF Shape, ServerHangs, Terminated
  <2> QED  BY <1>4, <2>1, <2>2, <2>3 DEF Faulty
<1>5. ASSUME NEW c \in Commands, Command(c) PROVE Shape'
  <2>1. CASE Query(c) \/ Connects(c) \/ NotRunning(c) \/ WaitTimeout(c)
    BY <1>0, <2>1 DEF Shape, Query, Connects, NotRunning, WaitTimeout
  <2>2. CASE Answered(c) \/ NoAnswer(c) \/ GivesUp(c) \/ ShutdownUnreachable(c)
    BY <1>0, <2>2 DEF Shape, Answered, NoAnswer, GivesUp, ShutdownUnreachable
  <2>3. CASE Send(c)
    BY <1>0, <2>3 DEF Shape, Send
  <2>4. CASE \E d \in Daemons : SpawnDaemon(c, d)
    BY <1>0, <2>4 DEF Shape, SpawnDaemon
  <2>5. CASE ShutdownAsked(c)
    BY <1>0, <2>5 DEF Shape, ShutdownAsked
  <2>6. CASE ClearSocket(c) \/ ForceKill(c) \/ ForceRemovePid(c)
    BY <1>0, <2>6 DEF Shape, ClearSocket, ForceKill, ForceRemovePid
  <2>7. CASE ForceSignal(c)
    <3>1. peer[c] \in Daemons
      BY <1>0, <2>7 DEF Shape, ForceSignal
    <3>2. CASE Exit(peer[c])
      BY <1>0, <2>7, <3>1, <3>2, ExitTypes DEF Shape, ForceSignal
    <3>3. CASE ~Exit(peer[c])
      BY <1>0, <2>7, <3>3 DEF Shape, ForceSignal
    <3> QED  BY <3>2, <3>3
  <2> QED  BY <1>5, <2>1, <2>2, <2>3, <2>4, <2>5, <2>6, <2>7 DEF Command
<1>6. CASE UNCHANGED vars
  BY <1>0, <1>6 DEF Shape, vars
<1> QED  BY <1>1, <1>2, <1>3, <1>4, <1>5, <1>6 DEF Next

LEMMA TypeStep == Typed /\ [Next]_vars => Typed'
<1> SUFFICES ASSUME Typed, [Next]_vars PROVE Typed'
  OBVIOUS
<1>1. Shape' /\ TypeOK
  BY ShapeStep DEF Typed
<1>2. \/ NoFault \/ (\E S : S \subseteq Daemons /\ Fault(S))
      \/ UNCHANGED <<faults, crossed, hit>>
  <2>1. ASSUME NEW d \in Daemons,
               Serve(d) \/ Idle(d) \/ Stop(d) \/ StartByHand(d) \/ Faulty(d)
        PROVE  NoFault \/ (\E S : S \subseteq Daemons /\ Fault(S))
    <3>1. {} \subseteq Daemons /\ {d} \subseteq Daemons
      OBVIOUS
    <3> QED  BY <2>1, <3>1, Histories
  <2>2. ASSUME NEW c \in Commands, Command(c)
        PROVE  NoFault \/ (\E S : S \subseteq Daemons /\ Fault(S))
    <3>1. {} \subseteq Daemons
      OBVIOUS
    <3> QED  BY <2>2, <3>1, CommandHistories
  <2> QED  BY <2>1, <2>2 DEF Next, vars
<1>3. faults' \in 0..MaxFaults /\ crossed' \subseteq Daemons /\ hit' \subseteq Commands
  BY <1>1, <1>2, HistoryTypes DEF TypeOK
<1> QED  BY <1>1, <1>3 DEF Shape, Typed, TypeOK

THEOREM TypeCorrect == Spec => []TypeOK
<1>1. Init => Typed
  BY DEF Init, Typed, TypeOK
<1>2. Typed => TypeOK
  BY DEF Typed
<1> QED  BY <1>1, <1>2, TypeStep, PTL DEF Spec
-----------------------------------------------------------------------------
(* What a step does to the history. *)

Grown ==
    /\ crossed \subseteq crossed' /\ hit \subseteq hit'
    /\ \A d \in crossed' : d \in crossed \/ Unsettled(d)'
    /\ \A d, e \in Daemons :
          d # e /\ d \notin crossed' /\ Unsettled(d)' /\ Alive(e)' =>
              ~Unsettled(e)' /\ e \notin crossed
    /\ \A d \in Daemons, c \in Commands :
          d \notin crossed' /\ Starting(d)' => ~AtFiles(c)'
    /\ \A c \in Commands :
          (Active(c) \/ Active(c)') /\ c \notin hit' => faults' = faults /\ ~Disturbed'

LEMMA RecordGrows ==
    ASSUME NEW S, S \subseteq Daemons, Record(S), \A d \in S : Unsettled(d)'
    PROVE  Grown
<1>1. crossed' = crossed \cup S \cup {d \in Daemons : Meets(d)}
  BY DEF Record
<1>2. hit' = IF faults' # faults \/ Disturbed'
             THEN hit \cup {c \in Commands : Active(c) \/ Active(c)'}
             ELSE hit
  BY DEF Record
<1>3. ASSUME NEW d \in Daemons, Meets(d) PROVE Unsettled(d)'
  BY <1>3 DEF Meets, Unsettled
<1>4. \A d \in crossed' : d \in crossed \/ Unsettled(d)'
  BY <1>1, <1>3
<1>5. ASSUME NEW d \in Daemons, NEW e \in Daemons, d # e, d \notin crossed', Unsettled(d)',
             Alive(e)'
      PROVE  ~Unsettled(e)' /\ e \notin crossed
  <2>1. ~Meets(d)
    BY <1>1, <1>5
  <2> QED  BY <1>5, <2>1 DEF Meets
<1>6. ASSUME NEW d \in Daemons, NEW c \in Commands, d \notin crossed', Starting(d)'
      PROVE  ~AtFiles(c)'
  <2>1. ~Meets(d)
    BY <1>1, <1>6
  <2> QED  BY <1>6, <2>1 DEF Meets
<1>7. ASSUME NEW c \in Commands, Active(c) \/ Active(c)', c \notin hit'
      PROVE  faults' = faults /\ ~Disturbed'
  BY <1>2, <1>7
<1>8. crossed \subseteq crossed' /\ hit \subseteq hit'
  BY <1>1, <1>2
<1> QED  BY <1>4, <1>5, <1>6, <1>7, <1>8 DEF Grown

LEMMA DaemonGrows ==
    ASSUME Typed, NEW d \in Daemons,
           Serve(d) \/ Idle(d) \/ Stop(d) \/ StartByHand(d) \/ Faulty(d)
    PROVE  Grown
<1>1. CASE NoFault \/ Fault({})
  <2>1. Record({})
    BY <1>1 DEF NoFault, Fault
  <2> QED  BY <2>1, RecordGrows
<1>2. CASE Fault({d}) /\ st[d] = "record" /\ At(d, "spawn")
  <2>1. Record({d}) /\ Unsettled(d)'
    BY <1>2 DEF Fault, Typed, TypeOK, At, Unsettled, Starting
  <2> QED  BY <2>1, RecordGrows
<1> QED  BY <1>1, <1>2, Histories

LEMMA CommandGrows ==
    ASSUME NEW c \in Commands, Command(c)
    PROVE  Grown
<1>1. Record({})
  BY CommandHistories DEF NoFault, Fault
<1> QED  BY <1>1, RecordGrows
-----------------------------------------------------------------------------
(* What a step does to a daemon d and to the files: each step of a daemon is *)
(* one of six.                                                               *)

Kept(d) == st'[d] = st[d] /\ td'[d] = td[d] /\ server'[d] = server[d]
Others(d) ==
    \A e \in Daemons \ {d} :
        Kept(e) /\ (e \in listeners' <=> e \in listeners) /\ (e \in armed' => e \in armed)

Birth(d) ==
    /\ st[d] = "unborn" /\ st'[d] = "check" /\ td'[d] = td[d] /\ server'[d] = server[d]
    /\ UNCHANGED <<sock, pid, listeners>>

Death(d) ==
    /\ Alive(d) /\ st'[d] = "dead" /\ td'[d] = td[d] /\ d \notin listeners'
    /\ UNCHANGED <<sock, pid>>
    /\ \/ st[d] = "check" /\ sock \in listeners
       \/ st[d] = "listen" /\ sock # None
       \/ Ending(d) \/ faults' # faults
       \/ \E c \in Commands : Aims(c, d)

Boot(d) ==
    /\ td'[d] = td[d] /\ listeners' = listeners
    /\ \/ /\ st[d] = "check" /\ sock \notin listeners /\ UNCHANGED <<sock, pid>>
          /\ st'[d] = "clear" \/ (st'[d] = "record" /\ sock = None)
       \/ st[d] = "clear" /\ st'[d] = "record" /\ sock' = None /\ pid' = pid
       \/ /\ st[d] = "record" /\ st'[d] = "spawn" /\ sock' = sock
          /\ pid' = d \/ (pid' = pid /\ d \in crossed')
       \/ /\ st[d] = "spawn" /\ st'[d] = "handshake" /\ UNCHANGED <<sock, pid>>
          /\ server'[d] = "running"
       \/ st[d] = "handshake" /\ st'[d] = "listen" /\ UNCHANGED <<sock, pid>>
    /\ server'[d] = server[d] \/ st[d] = "spawn"

Opening(d) ==
    /\ st[d] = "listen" /\ st'[d] = "serving" /\ td'[d] = td[d] /\ server'[d] = server[d]
    /\ sock = None /\ sock' = d /\ pid' = pid /\ listeners' = listeners \cup {d}

Stopping(d) ==
    /\ Alive(d) /\ st'[d] = st[d] /\ td'[d] # "none"
    /\ d \in listeners' => d \in listeners
    /\ server'[d] = server[d] \/ td[d] # "none"
    /\ td[d] = "none" => st[d] \in {"listen", "serving"} /\ UNCHANGED <<sock, pid, listeners>>

Broken(d) ==
    /\ Alive(d) /\ server[d] \in {"running", "hung"} /\ st'[d] = st[d] /\ td'[d] = td[d]
    /\ server'[d] \in {"hung", "gone"} /\ faults' # faults
    /\ UNCHANGED <<sock, pid, listeners>>

Moves(d) ==
    /\ Others(d) /\ (d \in armed' => st'[d] = "serving")
    /\ Birth(d) \/ Death(d) \/ Boot(d) \/ Opening(d) \/ Stopping(d) \/ Broken(d)

LEMMA ExitMoves ==
    ASSUME Typed, NEW d \in Daemons, Exit(d), UNCHANGED td
    PROVE  /\ Others(d) /\ st'[d] = "dead" /\ td'[d] = td[d]
      /\ d \notin listeners' /\ d \notin armed'
  BY DEF Typed, TypeOK, Exit, At, Others, Kept

LEMMA DaemonMoves ==
    ASSUME Typed, IInv, NEW d \in Daemons,
           Serve(d) \/ Idle(d) \/ Stop(d) \/ StartByHand(d) \/ Faulty(d)
    PROVE  UNCHANGED <<cmd, peer>> /\ Moves(d)
<1>0. DaemonInv(d) /\ Grown /\ (d \in armed => st[d] = "serving")
  BY DaemonGrows DEF IInv, DaemonInv
<1> USE DEF files, commandVars, At, Teardown, Moves, Others, Kept
<1>1. CASE Serve(d)
  <2>1. CASE EnsureSocketFree(d)
    <3>1. CASE sock \in listeners
      <4>1. Exit(d) /\ UNCHANGED <<sock, pid, td, cmd, peer>> /\ st[d] = "check"
        BY <1>0, <2>1, <3>1 DEF EnsureSocketFree, LiveOwner, Typed, TypeOK
      <4>2. /\ Others(d) /\ st'[d] = "dead" /\ td'[d] = td[d]
            /\ d \notin listeners' /\ d \notin armed'
        BY <4>1, ExitMoves
      <4> QED  BY <1>0, <3>1, <4>1, <4>2 DEF Death, Alive
    <3>2. CASE sock \notin listeners
      BY <1>0, <2>1, <3>2 DEF EnsureSocketFree, LiveOwner, Typed, TypeOK, Boot
    <3> QED  BY <1>0, <3>1, <3>2
  <2>2. CASE ClearStale(d)
    BY <1>0, <2>2 DEF ClearStale, Cleared, Typed, TypeOK, Boot
  <2>3. CASE WritePid(d)
    BY <1>0, <2>3 DEF WritePid, WrittenPid, Typed, TypeOK, Boot
  <2>4. CASE StartServer(d)
    BY <1>0, <2>4 DEF StartServer, Typed, TypeOK, Boot
  <2>5. CASE Initialized(d)
    BY <1>0, <2>5 DEF Initialized, Typed, TypeOK, Boot
  <2>6. CASE Listen(d)
    <3>1. CASE sock = None
      BY <1>0, <2>6, <3>1 DEF Listen, ArmedAtStart, ResetIdle, Typed, TypeOK, Opening
    <3>2. CASE sock # None
      <4>1. Exit(d) /\ UNCHANGED <<sock, pid, td, cmd, peer>> /\ st[d] = "listen"
        BY <1>0, <2>6, <3>2 DEF Listen
      <4>2. /\ Others(d) /\ st'[d] = "dead" /\ td'[d] = td[d]
            /\ d \notin listeners' /\ d \notin armed'
        BY <4>1, ExitMoves
      <4> QED  BY <1>0, <3>2, <4>1, <4>2 DEF Death, Alive
    <3> QED  BY <1>0, <3>1, <3>2
  <2> QED  BY <1>1, <2>1, <2>2, <2>3, <2>4, <2>5, <2>6 DEF Serve
<1>2. CASE Idle(d)
  <2>1. CASE st[d] \in {"listen", "serving"}
    BY <1>0, <1>2, <2>1 DEF Idle, Typed, TypeOK, Stopping, Alive
  <2>2. CASE st[d] \notin {"listen", "serving"}
    BY <1>0, <1>2, <2>2 DEF Idle, DaemonInv
  <2> QED  BY <1>0, <2>1, <2>2
<1>3. CASE Stop(d)
  <2>1. CASE ExitClean(d) \/ ServerExited(d)
    <3>1. Exit(d) /\ UNCHANGED <<sock, pid, td, cmd, peer>> /\ Ending(d)
      BY <1>0, <2>1 DEF ExitClean, ServerExited, Ending
    <3>2. /\ Others(d) /\ st'[d] = "dead" /\ td'[d] = td[d]
          /\ d \notin listeners' /\ d \notin armed'
      BY <1>0, <3>1, ExitMoves
    <3> QED  BY <1>0, <3>1, <3>2 DEF Death, Ending
  <2>2. CASE BeginShutdown(d) \/ KillServer(d)
    BY <1>0, <2>2 DEF BeginShutdown, KillServer, Typed, TypeOK, Stopping
  <2>3. CASE StopServing(d) \/ RemoveSock(d) \/ RemovePid(d)
    BY <1>0, <2>3 DEF StopServing, RemoveSock, RemovePid, Typed, TypeOK, Stopping
  <2> QED  BY <1>3, <2>1, <2>2, <2>3 DEF Stop
<1>4. CASE StartByHand(d)
  BY <1>0, <1>4 DEF StartByHand, Born, Typed, TypeOK, Birth
<1>5. CASE Faulty(d)
  <2>1. CASE SpawnFails(d) \/ Killed(d)
    <3>1. /\ Exit(d) /\ UNCHANGED <<sock, pid, td, cmd, peer>> /\ Alive(d)
          /\ faults' = faults + 1 /\ faults \in Nat
      BY <1>0, <2>1 DEF SpawnFails, Killed, Alive, Fault, Typed, TypeOK
    <3>2. /\ Others(d) /\ st'[d] = "dead" /\ td'[d] = td[d]
          /\ d \notin listeners' /\ d \notin armed'
      BY <1>0, <3>1, ExitMoves
    <3> QED  BY <1>0, <3>1, <3>2 DEF Death
  <2>2. CASE WritePidFails(d)
    <3>1. d \in crossed'
      BY <1>0, <2>2 DEF WritePidFails, Fault, Record
    <3> QED  BY <1>0, <2>2, <3>1 DEF WritePidFails, Typed, TypeOK, Boot
  <2>3. CASE ServerDies(d) \/ ServerHangs(d)
    <3>1. faults' = faults + 1 /\ faults \in Nat
      BY <1>0, <2>3 DEF ServerDies, ServerHangs, Fault, Typed, TypeOK
    <3> QED  BY <1>0, <2>3, <3>1 DEF ServerDies, ServerHangs, Typed, TypeOK, Broken
  <2>4. CASE Terminated(d)
    BY <1>0, <2>4 DEF Terminated, Typed, TypeOK, Stopping, Alive
  <2> QED  BY <1>5, <2>1, <2>2, <2>3, <2>4 DEF Faulty
<1> QED  BY <1>1, <1>2, <1>3, <1>4, <1>5
-----------------------------------------------------------------------------
(* The invariants of daemons and files, kept by any step that moves one.     *)

LEMMA DaemonInvStep ==
    ASSUME Typed, IInv, NEW d \in Daemons, Moves(d)
    PROVE  \A e \in Daemons : DaemonInv(e)'
<1>1. ASSUME NEW e \in Daemons, e # d PROVE DaemonInv(e)'
  BY <1>1 DEF IInv, Moves, Others, Kept, DaemonInv
<1>2. DaemonInv(d)'
  <2>1. DaemonInv(d) /\ (d \in armed' => st'[d] = "serving")
    BY DEF IInv, Moves
  <2>2. CASE Birth(d) \/ Death(d)
    BY <2>1, <2>2 DEF Birth, Death, DaemonInv
  <2>3. CASE Boot(d)
    BY <2>1, <2>3 DEF Boot, DaemonInv
  <2>4. CASE Opening(d)
    BY <2>1, <2>4 DEF Opening, DaemonInv
  <2>5. CASE Stopping(d)
    BY <2>1, <2>5 DEF Stopping, DaemonInv
  <2>6. CASE Broken(d)
    BY <2>1, <2>6 DEF Broken, DaemonInv
  <2> QED  BY <2>2, <2>3, <2>4, <2>5, <2>6 DEF Moves
<1> QED  BY <1>1, <1>2

(* Beside a daemon that is beyond its check and unsettled, every daemon that *)
(* lives was crossed.                                                        *)
LEMMA Alone ==
    ASSUME IInv, NEW d \in Daemons, Alive(d), ~Settled(d), ~Looking(d),
           NEW e \in Daemons, e # d, Alive(e)
    PROVE  e \in crossed
  BY DEF IInv, PairInv

LEMMA Settling ==
    ASSUME Typed, NEW d \in Daemons
    PROVE  /\ Alive(d) /\ ~Settled(d) => Unsettled(d)
           /\ Settled(d) => Alive(d) /\ ~Unsettled(d) /\ ~Looking(d)
           /\ Looking(d) => Alive(d) /\ Unsettled(d)
  BY DEF Typed, TypeOK, Settled, Unsettled, Starting, Ending, Alive, Looking

(* A daemon settles only by opening its socket, and looks only when born; it *)
(* stops looking by an exit, or because no daemon answers.                   *)
LEMMA Transitions ==
    ASSUME Typed, IInv, NEW d \in Daemons, Moves(d), NEW e \in Daemons
    PROVE  /\ Settled(e)' => Settled(e) \/ (e = d /\ st[e] = "listen")
           /\ Alive(e)' /\ ~Alive(e) => e = d /\ st[e] = "unborn" /\ Looking(e)'
           /\ Looking(e) /\ Alive(e)' => Looking(e)' \/ (e = d /\ sock \notin listeners)
           /\ e # d => (Settled(e)' <=> Settled(e)) /\ (Looking(e)' <=> Looking(e))
                       /\ (Alive(e)' <=> Alive(e))
<1>1. DaemonInv(e) /\ DaemonInv(d)
  BY DEF IInv
<1>2. CASE e # d
  BY <1>2 DEF Moves, Others, Kept, Settled, Looking, Alive
<1>3. CASE e = d
  <2>1. CASE Birth(d)
    BY <1>1, <1>3, <2>1 DEF Birth, Settled, Looking, Alive, DaemonInv
  <2>2. CASE Death(d)
    BY <1>3, <2>2 DEF Death, Settled, Looking, Alive
  <2>3. CASE Boot(d)
    BY <1>3, <2>3 DEF Boot, Settled, Looking, Alive
  <2>4. CASE Opening(d)
    BY <1>3, <2>4 DEF Opening, Settled, Looking, Alive
  <2>5. CASE Stopping(d)
    BY <1>1, <1>3, <2>5 DEF Stopping, Settled, Looking, Alive, DaemonInv
  <2>6. CASE Broken(d)
    BY <1>1, <1>3, <2>6 DEF Broken, Settled, Looking, Alive, DaemonInv
  <2> QED  BY <2>1, <2>2, <2>3, <2>4, <2>5, <2>6 DEF Moves
<1> QED  BY <1>2, <1>3

LEMMA PairStep ==
    ASSUME Typed, Typed', IInv, Grown, NEW d \in Daemons, Moves(d)
    PROVE  PairInv'
<1> SUFFICES ASSUME NEW a \in Daemons, NEW b \in Daemons,
                    Alive(a)', Alive(b)', a # b, a \notin crossed'
             PROVE  \/ Settled(a)' /\ Looking(b)'
                    \/ Settled(b)' /\ Looking(a)' /\ b \notin crossed'
  BY DEF PairInv
<1>0. /\ a \notin crossed
      /\ FileInv(a) /\ FileInv(b)
  BY DEF Grown, IInv
<1>1. Settled(a)' \/ Unsettled(a)'
  BY DEF Typed, TypeOK, Settled, Unsettled, Starting, Ending, Alive
<1>2. Alive(a) /\ Alive(b) =>
          (Settled(a) /\ Looking(b)) \/ (Settled(b) /\ Looking(a) /\ b \notin crossed)
  BY <1>0 DEF IInv, PairInv
<1>3. Settled(a) => sock = a /\ a \in listeners
  BY <1>0 DEF FileInv, Settled, Alive
<1>4. Settled(b) /\ b \notin crossed => sock = b /\ b \in listeners
  BY <1>0 DEF FileInv, Settled, Alive
<1>5. /\ Settled(a)' => Settled(a) \/ (a = d /\ st[a] = "listen")
      /\ Settled(b)' => Settled(b) \/ (b = d /\ st[b] = "listen")
      /\ ~Alive(a) => Looking(a)'
      /\ ~Alive(b) => Looking(b)'
      /\ Looking(a) => Looking(a)' \/ sock \notin listeners
      /\ Looking(b) => Looking(b)' \/ sock \notin listeners
      /\ a # d => Alive(a)
      /\ b # d => Alive(b)
  BY Transitions
<1>6. /\ Settled(a) => Alive(a) /\ ~Looking(a)
      /\ Settled(b) => Alive(b) /\ ~Looking(b)
  BY DEF Settled, Looking, Alive
<1>7. \A e \in Daemons : st[e] = "listen" => Alive(e) /\ ~Settled(e) /\ ~Looking(e)
  BY DEF Settled, Looking, Alive
<1>8. CASE Settled(a)'
  <2>1. CASE Settled(a)
    BY <1>2, <1>3, <1>5, <1>6, <1>8, <2>1
  <2>2. CASE a = d /\ st[a] = "listen"
    BY <1>2, <1>5, <1>7, <2>2
  <2> QED  BY <1>5, <1>8, <2>1, <2>2
<1>9. CASE Unsettled(a)'
  <2>1. ~Unsettled(b)' /\ b \notin crossed
    BY <1>9 DEF Grown
  <2>2. b \notin crossed' /\ Settled(b)'
    BY <2>1 DEF Grown, Typed, TypeOK, Settled, Unsettled, Starting, Ending, Alive
  <2>3. CASE Settled(b)
    BY <1>2, <1>4, <1>5, <1>6, <2>1, <2>2, <2>3
  <2>4. CASE b = d /\ st[b] = "listen"
    BY <1>2, <1>5, <1>7, <2>4
  <2> QED  BY <1>5, <2>2, <2>3, <2>4
<1> QED  BY <1>1, <1>8, <1>9

LEMMA FileStep ==
    ASSUME Typed, Typed', IInv, Grown, NEW d \in Daemons, Moves(d), NEW e \in Daemons
    PROVE  FileInv(e)'
<1> SUFFICES ASSUME Alive(e)', e \notin crossed', td'[e] = "none"
             PROVE  /\ st'[e] = "serving" => sock' = e /\ e \in listeners' /\ pid' = e
                    /\ st'[e] \in {"spawn", "handshake", "listen"} => pid' = e
                    /\ st'[e] \in Booted => sock' = None
  BY DEF FileInv
<1>1. e \notin crossed /\ FileInv(e)
  BY DEF Grown, IInv
<1>2. CASE e # d
  <2>1. Kept(e) /\ (e \in listeners' <=> e \in listeners) /\ Alive(e)
    BY <1>2 DEF Moves, Others, Kept, Alive
  <2>2. UNCHANGED <<sock, pid>>
    <3>1. ~(Alive(d) /\ ~Settled(d) /\ ~Looking(d))
      BY <1>1, <1>2, <2>1, Alone
    <3> QED  BY <3>1 DEF Moves, Birth, Death, Boot, Opening, Stopping, Broken, Settled,
                         Looking, Alive
  <2> QED  BY <1>1, <2>1, <2>2 DEF FileInv, Kept
<1>3. CASE e = d
  <2>1. CASE Birth(d)
    BY <1>3, <2>1 DEF Birth, Booted
  <2>2. CASE Death(d) \/ Stopping(d)
    BY <1>3, <2>2 DEF Death, Stopping, Alive
  <2>3. CASE Boot(d)
    BY <1>1, <1>3, <2>3 DEF Boot, FileInv, Booted, Alive
  <2>4. CASE Opening(d)
    BY <1>1, <1>3, <2>4 DEF Opening, FileInv, Booted, Alive
  <2>5. CASE Broken(d)
    BY <1>1, <1>3, <2>5 DEF Broken, FileInv, Booted, Alive, Moves
  <2> QED  BY <2>1, <2>2, <2>3, <2>4, <2>5 DEF Moves
<1> QED  BY <1>2, <1>3

LEMMA ShutdownStep ==
    ASSUME Typed, Typed', IInv, Grown, NEW d \in Daemons, Moves(d),
           \A c \in Commands :
               AtFiles(c)' => AtFiles(c) /\ cmd'[c] = cmd[c] /\ peer'[c] = peer[c]
    PROVE  ShutdownInv'
<1> SUFFICES ASSUME NEW c \in Commands, NEW e \in Daemons,
                    AtFiles(c)', Alive(e)', e \notin crossed', td'[e] = "none"
             PROVE  st'[e] = "serving" /\ Aims(c, e)'
  BY DEF ShutdownInv
<1>1. e \notin crossed /\ ~Starting(e)'
  BY DEF Grown
<1>2. st'[e] = "serving"
  BY <1>1 DEF Typed, TypeOK, Starting, Alive
<1>3. Alive(e) /\ td[e] = "none"
  <2>1. CASE e # d
    BY <2>1 DEF Moves, Others, Kept, Alive
  <2>2. CASE e = d
    BY <1>2, <2>2 DEF Moves, Birth, Death, Boot, Opening, Stopping, Broken, Alive
  <2> QED  BY <2>1, <2>2
<1>4. Aims(c, e)
  BY <1>1, <1>3 DEF IInv, ShutdownInv
<1> QED  BY <1>2, <1>4 DEF Aims

(* What a query relies on, through the step of a daemon. *)
LEMMA Undisturbed ==
    ASSUME IInv, NEW c \in Commands, Active(c), c \notin hit
    PROVE  /\ Reliable(c)
           /\ \A b \in Commands : ~AtFiles(b)
           /\ \A d \in Daemons : Alive(d) => /\ d \notin crossed /\ td[d] = "none"
                                             /\ server[d] \notin {"hung", "gone"}
  BY DEF IInv, QueryInv, Reliable, Disturbed, Ending

LEMMA ReliableStep ==
    ASSUME Typed, IInv, Grown, NEW d \in Daemons, Moves(d),
           NEW c \in Commands, Active(c), c \notin hit', cmd'[c] = cmd[c], peer'[c] = peer[c]
    PROVE  Reliable(c)'
<1>1. c \notin hit /\ faults' = faults /\ ~Disturbed'
  BY DEF Grown
<1>2. /\ Reliable(c)
      /\ \A b \in Commands : ~AtFiles(b)
      /\ \A e \in Daemons : Alive(e) => /\ e \notin crossed /\ td[e] = "none"
                                        /\ server[e] \notin {"hung", "gone"}
  BY <1>1, Undisturbed
<1>3. \A e \in Daemons : DaemonInv(e) /\ FileInv(e)
  BY DEF IInv
<1>4. ~Death(d) \/ (st[d] = "check" /\ sock \in listeners)
  <2>1. Death(d) /\ st[d] = "listen" => sock = None
    BY <1>2, <1>3 DEF FileInv, Booted, Alive
  <2> QED  BY <1>1, <1>2, <2>1 DEF Death, Ending, Aims, AtFiles
<1>5. sock \in listeners =>
          /\ sock \in Daemons /\ st[sock] = "serving" /\ Alive(sock) /\ Settled(sock)
          /\ sock \notin crossed
  BY <1>2, <1>3 DEF Typed, TypeOK, DaemonInv, Alive, Settled
<1>6. ASSUME NEW e \in Daemons, st[e] = "serving"
      PROVE  st'[e] = "serving" /\ (e \in listeners /\ td[d] = "none" => e \in listeners')
  <2>1. CASE e # d
    BY <1>6, <2>1 DEF Moves, Others, Kept
  <2>2. CASE e = d
    BY <1>4, <1>6, <2>2 DEF Moves, Birth, Boot, Opening, Stopping, Broken
  <2> QED  BY <2>1, <2>2
<1>7. ASSUME NEW e \in Daemons, Alive(e) PROVE \E x \in Daemons : Alive(x)'
  <2>1. CASE Death(d)
    BY <1>4, <1>5, <1>6, <2>1 DEF Alive
  <2>2. CASE e # d
    BY <1>7, <2>2 DEF Moves, Others, Kept, Alive
  <2>3. CASE e = d /\ ~Death(d)
    BY <1>7, <2>3 DEF Moves, Birth, Boot, Opening, Stopping, Broken, Alive
  <2> QED  BY <2>1, <2>2, <2>3
<1>8. ASSUME sock \in listeners PROVE sock' \in listeners'
  <2>1. Alive(d) => td[d] = "none"
    BY <1>2
  <2>2. st[d] # "clear" /\ sock # None
    <3>1. CASE st[d] = "clear"
      <4>1. Alive(d) /\ ~Settled(d) /\ ~Looking(d) /\ sock # d
        BY <1>5, <1>8, <3>1 DEF Alive, Settled, Looking
      <4> QED  BY <1>5, <1>8, <4>1, Alone
    <3> QED  BY <1>5, <1>8, <3>1
  <2>3. sock' = sock
    BY <2>1, <2>2 DEF Moves, Birth, Death, Boot, Opening, Stopping, Broken
  <2>4. CASE sock # d
    BY <1>5, <1>8, <2>3, <2>4 DEF Moves, Others
  <2>5. CASE sock = d
    <3>1. td[d] = "none"
      BY <1>5, <1>8, <2>1, <2>5
    <3> QED  BY <1>5, <1>6, <1>8, <2>3, <2>5, <3>1
  <2> QED  BY <2>4, <2>5
<1>9. cmd[c] = "reply" => st'[peer[c]] = "serving"
  BY <1>2, <1>6 DEF Reliable, Typed
<1> QED  BY <1>1, <1>2, <1>7, <1>8, <1>9 DEF Reliable
-----------------------------------------------------------------------------
(* Steps that move no daemon: those of most commands. *)

Still ==
    /\ \A e \in Daemons : Kept(e)
    /\ listeners' = listeners /\ \A e \in armed' : e \in armed \/ st[e] = "serving"

LEMMA StillDaemons ==
    ASSUME Typed, Typed', IInv, Grown, Still,
           \/ UNCHANGED <<sock, pid>>
           \/ \E c \in Commands : AtFiles(c) /\ cmd[c] # "signal"
    PROVE  PairInv' /\ \A e \in Daemons : DaemonInv(e)' /\ FileInv(e)'
<1>1. \A e \in Daemons : DaemonInv(e) /\ FileInv(e) /\ (e \notin crossed' => e \notin crossed)
  BY DEF IInv, Grown
<1>2. ASSUME NEW e \in Daemons PROVE DaemonInv(e)'
  <2>1. e \in armed' => e \in armed \/ st[e] = "serving"
    BY DEF Still
  <2> QED  BY <1>1, <2>1 DEF Still, Kept, DaemonInv
<1>3. ASSUME NEW e \in Daemons PROVE FileInv(e)'
  <2>1. CASE UNCHANGED <<sock, pid>>
    BY <1>1, <2>1 DEF Still, Kept, FileInv, Alive
  <2>2. CASE \E c \in Commands : AtFiles(c) /\ cmd[c] # "signal"
    <3>1. ~(Alive(e) /\ e \notin crossed /\ td[e] = "none")
      BY <2>2 DEF IInv, ShutdownInv, Aims
    <3> QED  BY <1>1, <3>1 DEF Still, Kept, FileInv, Alive
  <2> QED  BY <2>1, <2>2
<1>4. ASSUME NEW a \in Daemons, NEW b \in Daemons,
             Alive(a)', Alive(b)', a # b, a \notin crossed'
      PROVE  \/ Settled(a)' /\ Looking(b)'
             \/ Settled(b)' /\ Looking(a)' /\ b \notin crossed'
  <2>1. \/ Settled(a) /\ Looking(b)
        \/ Settled(b) /\ Looking(a) /\ b \notin crossed
    BY <1>1, <1>4 DEF IInv, PairInv, Still, Kept, Alive
  <2>2. Settled(b) => ~Unsettled(b)'
    BY DEF Still, Kept, Settled, Unsettled, Starting, Ending
  <2>3. Settled(b) /\ b \notin crossed => b \notin crossed'
    BY <2>2 DEF Grown
  <2> QED  BY <2>1, <2>3 DEF Still, Kept, Settled, Looking
<1> QED  BY <1>2, <1>3, <1>4 DEF PairInv

(* A command that begins to handle the files aims at the daemon they name. *)
LEMMA StillShutdowns ==
    ASSUME Typed, Typed', IInv, Grown, Still, UNCHANGED <<sock, pid>>, NEW c \in Commands,
           \A b \in Commands \ {c} : cmd'[b] = cmd[b] /\ peer'[b] = peer[b],
           AtFiles(c)' => \/ sock \notin listeners
                          \/ cmd'[c] = "signal" /\ peer'[c] = pid
    PROVE  ShutdownInv'
<1> SUFFICES ASSUME NEW b \in Commands, NEW e \in Daemons,
                    AtFiles(b)', Alive(e)', e \notin crossed', td'[e] = "none"
             PROVE  st'[e] = "serving" /\ Aims(b, e)'
  BY DEF ShutdownInv
<1>1. e \notin crossed /\ ~Starting(e)' /\ Alive(e) /\ td[e] = "none"
  BY DEF Grown, Still, Kept, Alive
<1>2. st'[e] = "serving" /\ st[e] = "serving"
  BY <1>1 DEF Typed, TypeOK, Starting, Alive, Still, Kept
<1>3. sock = e /\ e \in listeners /\ pid = e
  BY <1>1, <1>2 DEF IInv, FileInv
<1>4. CASE b = c
  BY <1>2, <1>3, <1>4 DEF Aims
<1>5. CASE b # c
  <2>1. AtFiles(b) /\ cmd'[b] = cmd[b] /\ peer'[b] = peer[b]
    BY <1>5 DEF AtFiles
  <2>2. Aims(b, e)
    BY <1>1, <2>1 DEF IInv, ShutdownInv
  <2> QED  BY <1>2, <2>1, <2>2 DEF Aims
<1> QED  BY <1>4, <1>5

LEMMA StillReliable ==
    ASSUME Typed, IInv, Grown, Still, NEW c \in Commands, Active(c), c \notin hit',
           cmd'[c] = cmd[c], peer'[c] = peer[c],
           sock' = sock \/ \E b \in Commands : AtFiles(b)
    PROVE  Reliable(c)'
<1>1. c \notin hit /\ ~Disturbed'
  BY DEF Grown
<1>2. Reliable(c) /\ \A b \in Commands : ~AtFiles(b)
  BY <1>1, Undisturbed
<1>3. \A e \in Daemons : Alive(e)' <=> Alive(e)
  BY DEF Still, Kept, Alive
<1>4. cmd[c] = "reply" => peer[c] \in Daemons
  BY DEF Typed
<1> QED  BY <1>1, <1>2, <1>3, <1>4 DEF Reliable, Still, Kept

(* The queries, after a step of one command. *)
LEMMA Queries ==
    ASSUME Typed, IInv, Grown, NEW c \in Commands,
           \A b \in Commands \ {c} : cmd'[b] = cmd[b],
           \A b \in Commands \ {c} : Active(b) /\ b \notin hit' => Reliable(b)',
           Active(c)' /\ c \notin hit' => Reliable(c)',
           cmd'[c] = "failed" => c \in hit' \/ cmd[c] = "failed"
    PROVE  QueryInv' /\ ServedUnlessHit'
<1>1. hit \subseteq hit'
  BY DEF Grown
<1>2. ASSUME NEW b \in Commands, Active(b)', b \notin hit' PROVE Reliable(b)'
  BY <1>2 DEF Active
<1>3. ASSUME NEW b \in Commands, cmd'[b] = "failed" PROVE b \in hit'
  BY <1>1, <1>3 DEF IInv, ServedUnlessHit
<1> QED  BY <1>2, <1>3 DEF QueryInv, ServedUnlessHit
-----------------------------------------------------------------------------
LEMMA DaemonStep ==
    ASSUME Typed, Typed', IInv, NEW d \in Daemons,
           Serve(d) \/ Idle(d) \/ Stop(d) \/ StartByHand(d) \/ Faulty(d)
    PROVE  IInv'
<1>1. Grown /\ UNCHANGED <<cmd, peer>> /\ Moves(d)
  BY DaemonGrows, DaemonMoves
<1>2. PairInv' /\ \A e \in Daemons : DaemonInv(e)' /\ FileInv(e)'
  BY <1>1, DaemonInvStep, FileStep, PairStep
<1>3. ShutdownInv'
  BY <1>1, ShutdownStep DEF AtFiles
<1>4. ASSUME NEW c \in Commands, Active(c)', c \notin hit' PROVE Reliable(c)'
  BY <1>1, <1>4, ReliableStep DEF Active
<1>5. QueryInv' /\ ServedUnlessHit'
  BY <1>1, <1>4 DEF QueryInv, IInv, ServedUnlessHit, Grown
<1> QED  BY <1>2, <1>3, <1>5 DEF IInv

(* Commands that only look: Query, canConnect, the time-outs, the answer,    *)
(* and a shutdown command that finds the files.                              *)
LEMMA LookStep ==
    ASSUME Typed, Typed', IInv, NEW c \in Commands,
           \/ Query(c) \/ Connects(c) \/ NotRunning(c) \/ WaitTimeout(c) \/ Answered(c)
           \/ NoAnswer(c) \/ GivesUp(c) \/ ShutdownUnreachable(c) \/ ForceKill(c)
    PROVE  IInv'
<1> USE DEF files, daemonVars, Goes, Meet
<1>1. Grown
  BY CommandGrows DEF Command
<1>2. /\ UNCHANGED <<sock, pid, st, td, listeners, server, armed>>
      /\ \A b \in Commands \ {c} : cmd'[b] = cmd[b] /\ peer'[b] = peer[b]
      /\ cmd = [b \in Commands |-> cmd[b]] /\ peer = [b \in Commands |-> peer[b]]
  BY DEF Query, Connects, NotRunning, WaitTimeout, Answered, NoAnswer, GivesUp,
         ShutdownUnreachable, ForceKill, Typed, TypeOK
<1>3. Still
  BY <1>2 DEF Still, Kept
<1>4. AtFiles(c)' => sock \notin listeners \/ (cmd'[c] = "signal" /\ peer'[c] = pid)
  BY <1>2 DEF Query, Connects, NotRunning, WaitTimeout, Answered, NoAnswer, GivesUp,
         ShutdownUnreachable, ForceKill, AtFiles, Typed, TypeOK
<1>5. ShutdownInv'
  BY <1>1, <1>2, <1>3, <1>4, StillShutdowns
<1>6. ASSUME NEW b \in Commands \ {c}, Active(b), b \notin hit' PROVE Reliable(b)'
  BY <1>1, <1>2, <1>3, <1>6, StillReliable
<1>7. ASSUME Active(c)', c \notin hit' PROVE Reliable(c)'
  <2>1. ~Disturbed' /\ faults' = faults
    BY <1>1, <1>7 DEF Grown
  <2>2. cmd'[c] \notin {"wait", "reply"} /\ (cmd'[c] = "send" => sock \in listeners)
    BY <1>2, <1>7 DEF Query, Connects, NotRunning, WaitTimeout, Answered, NoAnswer, GivesUp,
           ShutdownUnreachable, ForceKill, Active, Typed, TypeOK
  <2> QED  BY <1>2, <2>1, <2>2 DEF Reliable
<1>8. ASSUME cmd'[c] = "failed", c \notin hit' PROVE FALSE
  <2>1. Active(c) /\ (WaitTimeout(c) \/ NoAnswer(c) \/ GivesUp(c))
    BY <1>2, <1>8 DEF Query, Connects, NotRunning, WaitTimeout, Answered, NoAnswer, GivesUp,
           ShutdownUnreachable, ForceKill, Active, Typed, TypeOK
  <2>2. c \notin hit /\ faults' = faults
    BY <1>1, <1>8, <2>1 DEF Grown
  <2>3. /\ Reliable(c)
        /\ \A d \in Daemons : Alive(d) => /\ d \notin crossed /\ td[d] = "none"
                                          /\ server[d] \notin {"hung", "gone"}
    BY <2>1, <2>2, Undisturbed
  <2>4. CASE WaitTimeout(c)
    <3>1. PICK d \in Daemons : Alive(d)
      BY <2>3, <2>4 DEF Reliable, WaitTimeout
    <3>2. ~Starting(d) /\ sock \notin listeners
      BY <2>3, <2>4, <3>1 DEF WaitTimeout
    <3>3. st[d] = "serving"
      BY <3>1, <3>2 DEF Typed, TypeOK, Alive, Starting
    <3> QED  BY <2>3, <3>1, <3>2, <3>3 DEF IInv, FileInv
  <2>5. CASE NoAnswer(c)
    <3>1. peer[c] \in Daemons /\ st[peer[c]] = "serving"
      BY <2>3, <2>5 DEF NoAnswer, Reliable, Typed
    <3> QED  BY <2>3, <2>5, <3>1 DEF NoAnswer, Alive
  <2>6. CASE GivesUp(c)
    BY <2>2, <2>6 DEF GivesUp, Fault, Typed, TypeOK
  <2> QED  BY <2>1, <2>4, <2>5, <2>6
<1>9. PairInv' /\ \A e \in Daemons : DaemonInv(e)' /\ FileInv(e)'
  BY <1>1, <1>2, <1>3, StillDaemons
<1>10. QueryInv' /\ ServedUnlessHit'
  BY <1>1, <1>2, <1>6, <1>7, <1>8, Queries
<1> QED  BY <1>5, <1>9, <1>10 DEF IInv

LEMMA SendStep ==
    ASSUME Typed, Typed', IInv, NEW c \in Commands, Send(c)
    PROVE  IInv'
<1> USE DEF files, Goes, Meet
<1>1. Grown
  BY CommandGrows DEF Command
<1>2. /\ UNCHANGED <<sock, pid, st, td, listeners, server>> /\ cmd[c] = "send"
      /\ \A b \in Commands \ {c} : cmd'[b] = cmd[b] /\ peer'[b] = peer[b]
      /\ \/ sock \in listeners /\ cmd'[c] = "reply" /\ peer'[c] = sock
         \/ sock \notin listeners /\ cmd'[c] = "failed"
      /\ armed' \subseteq armed \cup {sock} /\ (sock \notin listeners => armed' = armed)
  BY DEF Send, Typed, TypeOK, ResetIdle
<1>3. sock \in listeners => sock \in Daemons /\ st[sock] = "serving"
  BY DEF IInv, DaemonInv, Typed, TypeOK
<1>4. Still
  BY <1>2, <1>3 DEF Still, Kept
<1>5. ShutdownInv'
  BY <1>1, <1>2, <1>4, StillShutdowns DEF AtFiles
<1>6. ASSUME NEW b \in Commands \ {c}, Active(b), b \notin hit' PROVE Reliable(b)'
  BY <1>1, <1>2, <1>4, <1>6, StillReliable
<1>7. ASSUME Active(c)', c \notin hit' PROVE Reliable(c)'
  BY <1>1, <1>2, <1>3, <1>7 DEF Grown, Reliable, Active
<1>8. ASSUME cmd'[c] = "failed", c \notin hit' PROVE FALSE
  <2>1. Active(c) /\ c \notin hit
    BY <1>1, <1>2, <1>8 DEF Grown, Active
  <2> QED  BY <1>2, <1>8, <2>1, Undisturbed DEF Reliable
<1>9. PairInv' /\ \A e \in Daemons : DaemonInv(e)' /\ FileInv(e)'
  BY <1>1, <1>2, <1>4, StillDaemons
<1>10. QueryInv' /\ ServedUnlessHit'
  BY <1>1, <1>2, <1>6, <1>7, <1>8, Queries
<1> QED  BY <1>5, <1>9, <1>10 DEF IInv

LEMMA ClearStep ==
    ASSUME Typed, Typed', IInv, NEW c \in Commands, ClearSocket(c) \/ ForceRemovePid(c)
    PROVE  IInv'
<1> USE DEF daemonVars, Goes
<1>1. Grown
  BY CommandGrows DEF Command
<1>2. /\ UNCHANGED <<st, td, listeners, server, armed, peer>>
      /\ AtFiles(c) /\ cmd[c] # "signal" /\ cmd'[c] \in {"done", "rmsock"}
      /\ \A b \in Commands \ {c} : cmd'[b] = cmd[b] /\ peer'[b] = peer[b]
  BY DEF ClearSocket, ForceRemovePid, AtFiles, Typed, TypeOK
<1>3. Still
  BY <1>2 DEF Still, Kept
<1>4. ASSUME NEW b \in Commands, NEW e \in Daemons,
             AtFiles(b)', Alive(e)', e \notin crossed', td'[e] = "none"
      PROVE  FALSE
  <2>1. Alive(e) /\ e \notin crossed /\ td[e] = "none"
    BY <1>1, <1>2, <1>4 DEF Grown, Alive
  <2> QED  BY <1>2, <2>1 DEF IInv, ShutdownInv, Aims
<1>5. ShutdownInv'
  BY <1>4 DEF ShutdownInv
<1>6. ASSUME NEW b \in Commands \ {c}, Active(b), b \notin hit' PROVE Reliable(b)'
  BY <1>1, <1>2, <1>3, <1>6, StillReliable
<1>7. ASSUME Active(c)', c \notin hit' PROVE Reliable(c)'
  BY <1>1, <1>2, <1>7 DEF Grown, Reliable, Active
<1>8. PairInv' /\ \A e \in Daemons : DaemonInv(e)' /\ FileInv(e)'
  BY <1>1, <1>2, <1>3, StillDaemons
<1>9. QueryInv' /\ ServedUnlessHit'
  BY <1>1, <1>2, <1>6, <1>7, Queries
<1> QED  BY <1>5, <1>8, <1>9 DEF IInv

(* Commands that move a daemon. *)
LEMMA MoveStep ==
    ASSUME Typed, Typed', IInv, NEW c \in Commands, NEW d \in Daemons, Grown, Moves(d),
           \A b \in Commands \ {c} : cmd'[b] = cmd[b] /\ peer'[b] = peer[b],
           AtFiles(c)' => /\ cmd[c] = "signal" /\ cmd'[c] = "rmpid"
                          /\ \A e \in Daemons : Aims(c, e) => ~Alive(e)',
           Active(c)' => cmd'[c] \in {"wait", "rmpid"},
           cmd'[c] = "wait" => Alive(d)',
           cmd'[c] # "failed"
    PROVE  IInv'
<1>1. PairInv' /\ \A e \in Daemons : DaemonInv(e)' /\ FileInv(e)'
  BY DaemonInvStep, FileStep, PairStep
<1>2. ASSUME NEW b \in Commands, NEW e \in Daemons,
             AtFiles(b)', Alive(e)', e \notin crossed', td'[e] = "none"
      PROVE  st'[e] = "serving" /\ Aims(b, e)'
  <2>1. e \notin crossed /\ ~Starting(e)'
    BY <1>2 DEF Grown
  <2>2. st'[e] = "serving"
    BY <1>2, <2>1 DEF Typed, TypeOK, Starting, Alive
  <2>3. Alive(e) /\ td[e] = "none"
    <3>1. CASE e # d
      BY <1>2, <3>1 DEF Moves, Others, Kept, Alive
    <3>2. CASE e = d
      BY <1>2, <2>2, <3>2 DEF Moves, Birth, Death, Boot, Opening, Stopping, Broken, Alive
    <3> QED  BY <3>1, <3>2
  <2>4. CASE b = c
    <3>1. AtFiles(c) /\ ~Aims(c, e)
      BY <1>2, <2>4 DEF AtFiles
    <3> QED  BY <2>1, <2>3, <3>1 DEF IInv, ShutdownInv
  <2>5. CASE b # c
    <3>1. AtFiles(b) /\ cmd'[b] = cmd[b] /\ peer'[b] = peer[b]
      BY <1>2, <2>5 DEF AtFiles
    <3>2. Aims(b, e)
      BY <2>1, <2>3, <3>1 DEF IInv, ShutdownInv
    <3> QED  BY <2>2, <3>1, <3>2 DEF Aims
  <2> QED  BY <2>4, <2>5
<1>3. ShutdownInv'
  BY <1>2 DEF ShutdownInv
<1>4. ASSUME NEW b \in Commands \ {c}, Active(b), b \notin hit' PROVE Reliable(b)'
  BY <1>4, ReliableStep
<1>5. ASSUME Active(c)', c \notin hit' PROVE Reliable(c)'
  BY <1>5 DEF Grown, Reliable
<1>6. QueryInv' /\ ServedUnlessHit'
  BY <1>4, <1>5, Queries
<1> QED  BY <1>1, <1>3, <1>6 DEF IInv

LEMMA SpawnStep ==
    ASSUME Typed, Typed', IInv, NEW c \in Commands, NEW d \in Daemons, SpawnDaemon(c, d)
    PROVE  IInv'
<1>1. Grown
  BY CommandGrows DEF Command
<1>2. /\ Others(d) /\ armed' = armed /\ Birth(d) /\ Alive(d)'
      /\ \A b \in Commands \ {c} : cmd'[b] = cmd[b] /\ peer'[b] = peer[b]
      /\ cmd'[c] = "wait"
  BY DEF SpawnDaemon, Born, At, Meet, Goes, files, Typed, TypeOK, Others, Kept, Birth, Alive
<1>3. d \notin armed
  BY <1>2 DEF IInv, DaemonInv, Birth
<1>4. Moves(d)
  BY <1>2, <1>3 DEF Moves
<1> QED  BY <1>1, <1>2, <1>4, MoveStep DEF AtFiles

LEMMA AskStep ==
    ASSUME Typed, Typed', IInv, NEW c \in Commands, ShutdownAsked(c)
    PROVE  IInv'
<1>1. Grown
  BY CommandGrows DEF Command
<1>2. /\ sock \in listeners /\ sock \in Daemons
      /\ UNCHANGED <<sock, pid, st, listeners, server, peer>> /\ cmd'[c] = "done"
      /\ \A b \in Commands \ {c} : cmd'[b] = cmd[b]
      /\ armed' \subseteq armed \cup {sock}
      /\ td' = [td EXCEPT ![sock] = IF td[sock] = "none" THEN "asked" ELSE td[sock]]
      /\ td = [e \in Daemons |-> td[e]]
  BY DEF ShutdownAsked, Goes, files, Typed, TypeOK, ResetIdle
<1>3. st[sock] = "serving"
  BY <1>2 DEF IInv, DaemonInv
<1>4. Others(sock) /\ Stopping(sock)
  BY <1>2, <1>3 DEF Others, Kept, Stopping, Alive
<1>5. Moves(sock)
  BY <1>2, <1>3, <1>4 DEF Moves
<1> QED  BY <1>1, <1>2, <1>5, MoveStep DEF AtFiles, Active

LEMMA SignalStep ==
    ASSUME Typed, Typed', IInv, NEW c \in Commands, ForceSignal(c)
    PROVE  IInv'
<1> USE DEF files, Goes
<1>1. Grown
  BY CommandGrows DEF Command
<1>2. /\ UNCHANGED <<sock, pid, td, peer>> /\ cmd[c] = "signal" /\ cmd'[c] = "rmpid"
      /\ \A b \in Commands \ {c} : cmd'[b] = cmd[b] /\ peer'[b] = peer[b]
      /\ peer[c] \in Daemons
  BY DEF ForceSignal, Typed, TypeOK
<1>3. CASE Alive(peer[c])
  <2>1. Exit(peer[c])
    BY <1>3 DEF ForceSignal
  <2>2. PICK d \in Daemons : d = peer[c]
    BY <1>2
  <2>3. /\ Others(d) /\ st'[d] = "dead" /\ td'[d] = td[d]
        /\ d \notin listeners' /\ d \notin armed'
    BY <1>2, <2>1, <2>2, ExitMoves
  <2>4. Moves(d)
    BY <1>2, <1>3, <2>2, <2>3 DEF Moves, Death, Aims
  <2>5. \A e \in Daemons : Aims(c, e) => ~Alive(e)'
    BY <2>2, <2>3 DEF Aims, Alive
  <2> QED  BY <1>1, <1>2, <2>4, <2>5, MoveStep DEF AtFiles, Active
<1>4. CASE ~Alive(peer[c])
  <2>1. UNCHANGED <<st, listeners, server, armed>>
    BY <1>4 DEF ForceSignal
  <2>2. Still
    BY <1>2, <2>1 DEF Still, Kept
  <2>3. PairInv' /\ \A e \in Daemons : DaemonInv(e)' /\ FileInv(e)'
    BY <1>1, <1>2, <2>2, StillDaemons
  <2>4. ASSUME NEW b \in Commands, NEW e \in Daemons,
               AtFiles(b)', Alive(e)', e \notin crossed', td'[e] = "none"
        PROVE  st'[e] = "serving" /\ Aims(b, e)'
    <3>1. Alive(e) /\ e \notin crossed /\ td[e] = "none"
      BY <1>1, <1>2, <2>1, <2>4 DEF Grown, Alive
    <3>2. AtFiles(b) /\ st[e] = "serving" /\ Aims(b, e)
      BY <1>2, <2>4, <3>1 DEF AtFiles, IInv, ShutdownInv
    <3>3. b # c
      BY <1>4, <3>1, <3>2 DEF Aims
    <3> QED  BY <1>2, <2>1, <3>2, <3>3 DEF Aims
  <2>5. ShutdownInv'
    BY <2>4 DEF ShutdownInv
  <2>6. ASSUME NEW b \in Commands \ {c}, Active(b), b \notin hit' PROVE Reliable(b)'
    BY <1>1, <1>2, <2>2, <2>6, StillReliable
  <2>7. ASSUME Active(c)', c \notin hit' PROVE Reliable(c)'
    BY <1>1, <1>2, <2>7 DEF Grown, Reliable
  <2>8. QueryInv' /\ ServedUnlessHit'
    BY <1>1, <1>2, <2>6, <2>7, Queries
  <2> QED  BY <2>3, <2>5, <2>8 DEF IInv
<1> QED  BY <1>3, <1>4
-----------------------------------------------------------------------------
LEMMA InitStep == Init => IInv
<1> SUFFICES ASSUME Init PROVE IInv
  OBVIOUS
<1>1. ASSUME NEW d \in Daemons PROVE DaemonInv(d) /\ ~Alive(d)
  BY DEF Init, DaemonInv, Alive
<1>2. \A d \in Daemons : FileInv(d)
  BY <1>1 DEF FileInv
<1>3. \A c \in Commands : ~Active(c) /\ cmd[c] # "failed"
  BY DEF Init, Active
<1> QED  BY <1>1, <1>2, <1>3 DEF IInv, PairInv, ShutdownInv, QueryInv, ServedUnlessHit

LEMMA StutterStep == IInv /\ UNCHANGED vars => IInv'
<1> SUFFICES ASSUME IInv, UNCHANGED vars PROVE IInv'
  OBVIOUS
<1>1. UNCHANGED <<sock, pid, st, td, listeners, server, armed, cmd, peer, crossed, hit>>
  BY DEF vars, files, daemonVars, commandVars
<1>2. \A d \in Daemons : DaemonInv(d)' /\ FileInv(d)'
  BY <1>1 DEF IInv, DaemonInv, FileInv, Alive
<1>3. PairInv' /\ ServedUnlessHit'
  BY <1>1 DEF IInv, PairInv, Settled, Looking, Alive, ServedUnlessHit
<1>4. ShutdownInv'
  BY <1>1 DEF IInv, ShutdownInv, AtFiles, Aims, Alive
<1>5. Disturbed' <=> Disturbed
  BY <1>1 DEF Disturbed, Alive, Ending, AtFiles
<1>6. ASSUME NEW c \in Commands PROVE (Active(c)' <=> Active(c)) /\ (Reliable(c)' <=> Reliable(c))
  BY <1>1, <1>5 DEF Active, Reliable, Alive
<1>7. QueryInv'
  BY <1>1, <1>6 DEF IInv, QueryInv
<1> QED  BY <1>2, <1>3, <1>4, <1>7 DEF IInv

LEMMA InvStep == Typed /\ IInv /\ [Next]_vars => IInv'
<1> SUFFICES ASSUME Typed, IInv, [Next]_vars PROVE IInv'
  OBVIOUS
<1>0. Typed'
  BY TypeStep
<1>1. ASSUME NEW c \in Commands, Command(c) PROVE IInv'
  BY <1>0, <1>1, LookStep, SendStep, SpawnStep, AskStep, ClearStep, SignalStep DEF Command
<1>2. ASSUME NEW d \in Daemons,
             Serve(d) \/ Idle(d) \/ Stop(d) \/ StartByHand(d) \/ Faulty(d)
      PROVE  IInv'
  BY <1>0, <1>2, DaemonStep
<1> QED  BY <1>1, <1>2, StutterStep DEF Next

(* What is true of every daemon and the files, of two daemons, of shutdown   *)
(* commands and of queries, whatever overlaps.                               *)
THEOREM Inductive == Spec => []IInv
<1>1. Init => Typed
  BY DEF Init, Typed, TypeOK
<1>2. Typed /\ IInv /\ [Next]_vars => Typed' /\ IInv'
  BY TypeStep, InvStep
<1> QED  BY <1>1, <1>2, InitStep, PTL DEF Spec

(* The pid file names the daemon that serves, whatever crashed before,       *)
(* unless its start or end met another one's.                                *)
THEOREM PidNamesServer == Spec => []ServingPid
<1>1. TypeOK /\ IInv => ServingPid
  BY DEF TypeOK, IInv, DaemonInv, FileInv, Alive, ServingPid
<1> QED  BY <1>1, Inductive, TypeCorrect, PTL

(* A query fails only if a fault, a daemon that ends, hangs or was crossed,  *)
(* or a shutdown came while it ran.                                          *)
THEOREM QueriesServed == Spec => []ServedUnlessHit
<1>1. IInv => ServedUnlessHit
  BY DEF IInv
<1> QED  BY <1>1, Inductive, PTL

(* Nobody removes or replaces the socket file of a daemon that goes on and   *)
(* was not crossed.                                                          *)
THEOREM SocketStays == Spec => LiveSocketKept
<1>1. ASSUME Typed, IInv, [Next]_vars, sock' # sock, sock \in listeners, sock \notin crossed
      PROVE  td[sock] # "none"
  <2> SUFFICES ASSUME td[sock] = "none" PROVE FALSE
    OBVIOUS
  <2>1. sock \in Daemons /\ Alive(sock) /\ st[sock] = "serving" /\ sock # None
    BY <1>1 DEF Typed, TypeOK, IInv, DaemonInv, Alive
  <2>2. ASSUME NEW d \in Daemons,
               Serve(d) \/ Idle(d) \/ Stop(d) \/ StartByHand(d) \/ Faulty(d)
        PROVE  FALSE
    <3>1. Moves(d)
      BY <1>1, <2>2, DaemonMoves
    <3>2. Alive(d) /\ (st[d] = "clear" \/ td[d] # "none")
      BY <1>1, <2>1, <3>1 DEF Moves, Birth, Death, Boot, Opening, Stopping, Broken, Alive
    <3>3. d # sock /\ ~Settled(d) /\ ~Looking(d)
      BY <2>1, <3>2 DEF Settled, Looking
    <3> QED  BY <1>1, <2>1, <3>2, <3>3, Alone
  <2>3. ASSUME NEW c \in Commands, Command(c) PROVE FALSE
    <3>1. ClearSocket(c)
      BY <1>1, <2>3 DEF Command, Query, Connects, NotRunning, WaitTimeout, Send, Answered,
             NoAnswer, GivesUp, SpawnDaemon, ShutdownAsked, ShutdownUnreachable, ForceKill,
             ForceSignal, ForceRemovePid, files
    <3>2. AtFiles(c) /\ cmd[c] # "signal"
      BY <3>1 DEF ClearSocket, AtFiles
    <3> QED  BY <1>1, <2>1, <3>2 DEF IInv, ShutdownInv, Aims
  <2>4. ~UNCHANGED vars
    BY <1>1 DEF vars, files
  <2> QED  BY <1>1, <2>2, <2>3, <2>4 DEF Next
<1>2. Typed /\ IInv /\ [Next]_vars =>
          [sock' # sock /\ sock \in listeners /\ sock \notin crossed => td[sock] # "none"]_vars
  BY <1>1
<1>3. Init => Typed
  BY DEF Init, Typed, TypeOK
<1>4. Typed /\ IInv /\ [Next]_vars => Typed' /\ IInv'
  BY TypeStep, InvStep
<1> QED  BY <1>2, <1>3, <1>4, InitStep, PTL DEF Spec, LiveSocketKept
=============================================================================
