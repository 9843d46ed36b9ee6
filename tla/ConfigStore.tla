----------------------------- MODULE ConfigStore -----------------------------
(***************************************************************************)
(* .idit/config.yml and the commands that change it: Load, Emit and        *)
(* ServerForFile of src/workspace/config.go, `server add` and `server      *)
(* remove` of src/cli/server.go and `init` of src/cli/init.go.  A command  *)
(* is a process: it loads the file, changes the list in memory and writes  *)
(* the file again with os.WriteFile, which empties it first; nothing locks *)
(* it.  A command that is refused (the file does not load, the name is     *)
(* taken or unknown, no interpreter is found) exits and changes nothing,   *)
(* so it takes no step here.                                               *)
(*                                                                         *)
(* An extension is named by its lower-case form: Load, add and             *)
(* ServerForFile all convert to it.  A command line is TRUE when it holds  *)
(* a word.  The words of a configuration are taken to be ones that YAML    *)
(* reads back as they are.  External: what hand-written files hold, and    *)
(* the interpreters on the machine.                                        *)
(***************************************************************************)
EXTENDS ServerLists

CONSTANTS Commands, Names, Exts,
          Python,       \* the language id that needs an interpreter
          Unset,        \* an empty language id
          Presets,      \* config.go:44: servers that need no flags
          Customs,      \* servers as given by --command, --ext and --lang
          HandWritten,  \* lists of servers a file holds before the first command
          MaxOps        \* bound: commands of a behaviour

Server == [name : Names, command : BOOLEAN, exts : SUBSET Exts,
           lang : Names \cup {Python, Unset}, interpreter : BOOLEAN]

(* The commas of --ext and of a hand-written list separate at least one    *)
(* extension; Load accepts no entry without a command or an extension.     *)
WellFormed(s) == s.command /\ s.exts # {}

ASSUME PresetsAssumption == \A s \in Presets : s \in Server /\ WellFormed(s)
ASSUME CustomsAssumption == \A s \in Customs : s \in Server /\ s.exts # {}
ASSUME HandWrittenAssumption ==
    \A w \in HandWritten : /\ w \in Seq(Server) /\ DistinctNames(w)
                           /\ \A i \in 1..Len(w) : WellFormed(w[i])
ASSUME BoundsAssumption == MaxOps \in Nat /\ Names # {}

VARIABLES
    file,       \* config.yml: "missing", "text" or "garbled", and its entries
    pc,         \* where each command is
    change,     \* what it does: kind and name of the server
    cfg,        \* cfg.Servers in its memory
    kept, pos,  \* the loop of remove: length of `kept`, next index
    base,       \* history: the servers it loaded
    blank,      \* history: a server without a command was added
    tangled,    \* history: two commands were inside os.WriteFile at once
    disturbed,  \* history: a command overlapped with a write, or died in one
    ops         \* history: number of commands

vars == <<file, pc, change, cfg, kept, pos, base, blank, tangled, disturbed, ops>>

Text(entries) == [state |-> "text", entries |-> entries]
Missing == [state |-> "missing", entries |-> <<>>]
Garbled == [state |-> "garbled", entries |-> <<>>]
-----------------------------------------------------------------------------
(* Load and Emit *)

(* Load gives a server without language id its name. *)
Normal(s) == IF s.lang = Unset THEN [s EXCEPT !.lang = s.name] ELSE s

(* A missing file, and an empty one, is an empty configuration. *)
Read(f) == [i \in 1..Len(f.entries) |-> Normal(f.entries[i])]
Loads(f) == f.state # "garbled" /\ \A i \in 1..Len(f.entries) : WellFormed(f.entries[i])

Prepended(s, servers) == <<s>> \o servers    \* faulty: the new server comes first
Added(s, servers) == Append(servers, s)      \* cfg.Servers = append(cfg.Servers, server)

(* ServerForFile: the first server of the list that has the extension. *)
NoServer == [name |-> Unset]
Serves(servers, e, i) ==
    e \in servers[i].exts /\ \A j \in 1..(i - 1) : e \notin servers[j].exts
Choice(servers, e) ==
    IF \E i \in 1..Len(servers) : e \in servers[i].exts
    THEN servers[CHOOSE i \in 1..Len(servers) : Serves(servers, e, i)]
    ELSE NoServer
-----------------------------------------------------------------------------
NoChange == [kind |-> "none", name |-> CHOOSE n \in Names : TRUE]

Init ==
    /\ file \in {Missing} \cup {Text(w) : w \in HandWritten}
    /\ pc = [c \in Commands |-> "idle"]
    /\ change = [c \in Commands |-> NoChange]
    /\ cfg = [c \in Commands |-> <<>>] /\ base = [c \in Commands |-> <<>>]
    /\ kept = [c \in Commands |-> 0] /\ pos = [c \in Commands |-> 0]
    /\ blank = FALSE /\ tangled = FALSE /\ disturbed = FALSE /\ ops = 0

Goto(c, l) == pc' = [pc EXCEPT ![c] = l]

(* The process ends, and its memory with it. *)
Exit(c) ==
    /\ Goto(c, "idle")
    /\ change' = [change EXCEPT ![c] = NoChange]
    /\ cfg' = [cfg EXCEPT ![c] = <<>>] /\ base' = [base EXCEPT ![c] = <<>>]
    /\ kept' = [kept EXCEPT ![c] = 0] /\ pos' = [pos EXCEPT ![c] = 0]

Writing == {c \in Commands : pc[c] = "open"}

(* The command has read the file; `servers` is the list it goes on with. *)
Begin(c, kind, name, servers, label) ==
    /\ pc[c] = "idle" /\ ops < MaxOps /\ ops' = ops + 1
    /\ change' = [change EXCEPT ![c] = [kind |-> kind, name |-> name]]
    /\ base' = [base EXCEPT ![c] = Read(file)]
    /\ cfg' = [cfg EXCEPT ![c] = servers]
    /\ Goto(c, label)
    /\ disturbed' = (disturbed \/ Writing # {})
    /\ UNCHANGED <<file, tangled>>

Unchecked(name) == TRUE                      \* faulty: does not look the name up
IsNew(name) == name \notin NamesOf(Read(file))

(* server add: a preset, unless --command is given, or a custom server.    *)
(* --auto-config notes an interpreter, and refuses when it finds none.     *)
WithInterpreter(s, auto) ==
    IF auto /\ s.lang = Python THEN [s EXCEPT !.interpreter = TRUE] ELSE s

AddServer(c, s, auto) ==
    /\ Loads(file) /\ IsNew(s.name)
    /\ Begin(c, "add", s.name, Added(WithInterpreter(s, auto), Read(file)), "built")
    /\ blank' = (blank \/ ~s.command)
    /\ UNCHANGED <<kept, pos>>

(* server remove: the list is filtered in place. *)
RemoveServer(c, n) ==
    /\ Loads(file) /\ n \in NamesOf(Read(file))
    /\ Begin(c, "remove", n, Read(file), "filter")
    /\ kept' = [kept EXCEPT ![c] = 0] /\ pos' = [pos EXCEPT ![c] = 1]
    /\ UNCHANGED blank

OnlyLast(c) == 1                             \* faulty: each match starts a new list
NextKept(c) == kept[c] + 1                   \* kept = append(kept, s)

FilterPass(c) ==
    /\ pc[c] = "filter" /\ pos[c] <= Len(cfg[c])
    /\ IF cfg[c][pos[c]].name = change[c].name THEN UNCHANGED <<cfg, kept>>
       ELSE /\ cfg' = [cfg EXCEPT ![c][NextKept(c)] = cfg[c][pos[c]]]
            /\ kept' = [kept EXCEPT ![c] = NextKept(c)]
    /\ pos' = [pos EXCEPT ![c] = @ + 1]
    /\ UNCHANGED <<file, pc, change, base, blank, tangled, disturbed, ops>>

FilterDone(c) ==
    /\ pc[c] = "filter" /\ pos[c] > Len(cfg[c])
    /\ cfg' = [cfg EXCEPT ![c] = SubSeq(@, 1, kept[c])]
    /\ Goto(c, "built")
    /\ UNCHANGED <<file, change, kept, pos, base, blank, tangled, disturbed, ops>>

(* init writes an empty list if there is no file. *)
InitWorkspace(c) ==
    /\ file = Missing
    /\ Begin(c, "init", NoChange.name, <<>>, "built")
    /\ UNCHANGED <<kept, pos, blank>>
-----------------------------------------------------------------------------
(* os.WriteFile: the file is created or emptied ... *)
NotEmptied(f) == IF f = Missing THEN Text(<<>>) ELSE f    \* faulty: no O_TRUNC
Emptied(f) == Text(<<>>)

OpenFile(c) ==
    /\ pc[c] = "built"
    /\ file' = Emptied(file)
    /\ Goto(c, "open")
    /\ tangled' = (tangled \/ Writing # {})
    /\ disturbed' = (disturbed \/ \E d \in Commands \ {c} : pc[d] # "idle")
    /\ UNCHANGED <<change, cfg, kept, pos, base, blank, ops>>

(* ... and the text is written from its first byte on.  What another       *)
(* command wrote since stays behind a shorter text: whole entries, or a    *)
(* piece of one that does not parse, or that Load ignores.                 *)
Left(f, new) ==
    {Text(new)} \cup
    (IF f = Text(<<>>) THEN {}
     ELSE {Garbled} \cup {Text(new \o SubSeq(f.entries, i, Len(f.entries))) :
                              i \in 2..Len(f.entries)})

(* The text goes out in one write(2), which a signal does not cut short;   *)
(* one that a full disk cuts is left out.                                  *)
FillFile(c) ==
    /\ pc[c] = "open"
    /\ file' \in Left(file, cfg[c])
    /\ Exit(c)
    /\ UNCHANGED <<blank, tangled, disturbed, ops>>

(* The command is killed, or its write fails. *)
Killed(c) ==
    /\ pc[c] # "idle" /\ Exit(c)
    /\ disturbed' = (disturbed \/ pc[c] = "open")
    /\ UNCHANGED <<file, blank, tangled, ops>>

Next ==
    \E c \in Commands :
        \/ \E s \in Presets \cup Customs, auto \in BOOLEAN : AddServer(c, s, auto)
        \/ \E n \in Names : RemoveServer(c, n)
        \/ FilterPass(c) \/ FilterDone(c) \/ InitWorkspace(c)
        \/ OpenFile(c) \/ FillFile(c) \/ Killed(c)

Spec == Init /\ [][Next]_vars
-----------------------------------------------------------------------------
(* server.go:42: a name is configured once, also after commands that       *)
(* overlap and lose each other's changes: what a command writes is what it *)
(* read, with a name it did not read or without one.  Only two writes at   *)
(* the same time can leave a name twice.                                   *)
NamesDistinct == ~tangled => DistinctNames(file.entries)

(* The file can always be loaded again, whatever overlapped and whoever    *)
(* was killed, unless two writes met or a server was added without a       *)
(* command, which server.go:68 lets pass and config.go:146 refuses from    *)
(* then on.                                                                *)
LoadsBack == ~tangled /\ ~blank => Loads(file)

(* ServerForFile takes the first server with the extension, so the order   *)
(* of the list decides: a change leaves every extension with the server it *)
(* had, except those of the server it removes.                             *)
ChoiceKept ==
    \A c \in Commands, e \in Exts :
        LET had == Choice(base[c], e) IN
        /\ pc[c] \in {"built", "open"}
        /\ had # NoServer
        /\ ~(change[c].kind = "remove" /\ had.name = change[c].name)
        => Choice(cfg[c], e) = had

(* The list as the commands promise it: during a write it is what the      *)
(* writer found.                                                           *)
Committed ==
    IF Writing = {} THEN Read(file) ELSE base[CHOOSE c \in Commands : pc[c] = "open"]

Promised == INSTANCE Registry WITH servers <- Committed, sound <- ~disturbed

(* config.go:38: while no command overlaps with a write of another and     *)
(* none dies in one, the commands together implement Registry: nothing     *)
(* that was added is lost, doubled or moved.                               *)
ImplementsRegistry == Promised!Spec
=============================================================================
