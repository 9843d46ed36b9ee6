# A verification development for idit

`idit` is a command line over language servers. A short-lived command finds the
daemon of a workspace and a language (or starts it), sends it one request over
a Unix socket and prints the answer; the daemon owns a language-server process
and keeps it warm. This directory models the parts of it where order matters:
goroutines that share maps under mutexes, a reader that must never stop, files
on disk that several processes create and remove, and documents that two
programs and the user hold copies of.

Paths below are relative to `src/src/`.

## 1. The system

| part | state it keeps | operations | talks to |
|---|---|---|---|
| LSP client `lspclient/client.go` | `pending`, `applyEditWaiters`, `closed` under `mu`; the two pipes | `RequestCtx`, `Notify`, `NextApplyEdit`, the reader `pumpStdout` / `dispatch`, `Kill` | called by every operation; calls the trackers on the reader |
| progress tracker `lspclient/progress.go` | pending tokens, two lists of channels, `loadedOnce` | `Handle` (reader), `Settle` (requests) | called after a first `didOpen` |
| diagnostics tracker `lspclient/diagnostics.go` | latest set per file, subscribers; two timers per call | `Handle` (reader), `Collect` (check) | called by `opCheck` |
| document table `daemon/context.go`, `sync.go` | `opened`: version and text per document | `syncDoc`, `locate`, `loadProjectsMentioning` | disk, LSP client, progress tracker |
| operations and plans `daemon/ops.go`, `mutate.go`, `plan.go` | none of their own; the files of the workspace | fourteen operations, `applyPlan`, `resolveEdit` | all of the above |
| daemon lifecycle `daemon/daemon.go` | `<server>.sock`, `<server>.pid`, idle timer, the server process | `Run`, `ensureSocketFree`, `shutdown` | commands, through the two files |
| commands `cli/launch.go`, `shutdown.go`, `root.go` | none | `ensureSocket`, `spawnDaemon`, `sendOp`, `shutdown [--force]` | the two files, the socket |
| IPC `ipc/` | a listener | one JSON line per request and answer | commands, daemon |
| text edits `lsputil/workspaceedit.go`, framing `lsputil/framing.go` | decoder buffer | `ApplyTextEdits`, `PlanWorkspaceEdit`, `Push` | plans, LSP client |
| URIs `lsputil/uri.go` | none | `FileToURI`, `URIToFile` | client, documents, plans, results |
| configuration `workspace/config.go`, `cli/server.go`, `cli/init.go` | `config.yml` | `Load`, `Emit`, `ServerForFile`; init, server add and remove | every command |
| targets `cli/resolve.go`, `treesitter/locate.go` | none | `Locate`, `resolveLocation`, `resolveRange` | commands that take `file#symbol` |
| find and replace `cli/find.go`, `replace.go`, `discover.go`, `treesitter/`, `fsscan/` | files | discovery, matching, windows, replacement | ripgrep, the tree-sitter library |
| results `lsputil/`, members `daemon/ops.go` | none; a pool of goroutines per answer | `FilterCompletion`, `resolveItems`, `ToMembers`, the other mappings | the operations |

What is hard here:

- **Commands are processes.** They read, change and write `config.yml` without a
  lock, may overlap, and may be killed while the file is empty.
- **Interleaving.** Each IPC connection is served by a goroutine of its own;
  only single accesses to the maps are locked. Two requests on a file interleave
  inside `syncDoc`; registration of a call races with the end of the server.
- **One reader.** `pumpStdout` answers the server's requests, fills response
  channels and runs the trackers. If it blocks, everybody waits for ever.
- **Ordering.** Progress may begin and end between two steps of `Settle`; a wave
  of diagnostics for an old text may arrive after the new text was sent.
- **Failure.** The server, the daemon or a command may die at any step and leave
  files; nothing but dialling a socket tells a live daemon from a dead one.
- **Staleness.** The user edits files while edits computed from them are applied.

`PROJECT.json` lists the hazards line by line, with the properties aimed at them.

What makes each part correct:

- *client*: every accepted call returns once, with its own answer, an error after
  the server is gone, or its cancellation; the reader never blocks on a channel;
  `applied: true` is said only of edits that were handed over.
- *progress*: no lost and no early wake-up, no channel closed twice.
- *diagnostics*: after an edit, no report from the cache; no subscription leaks.
- *documents*: the table is what the server was sent; versions increase; a query
  sees a text of its own lifetime, and is about a document that is open, whoever
  opened it; a plan leaves the server in step with the disk.
- *text edits, replacements*: edits spliced one by one end as if made at once,
  and what is on disk is what is reported.
- *framing*: however the bytes are cut, the messages arrive whole, in order, and
  as soon as their last byte.
- *URIs*: a file comes back under the name it was sent with, however the server
  spells its URI.
- *configuration*: a name stands once in the file, the file can be loaded again,
  a change leaves the other servers in charge of their files, and commands that
  do not disturb each other keep a list in the order of addition.
- *targets*: a path is resolved only to the one declaration it can mean.
- *find and discovery*: each line that is due is printed once and in order, each
  file that should be searched is searched once.
- *members*: every item that matches is there once, with its own details, in the
  server's ranking, in whatever order the answers came.
- *lifecycle*: a live daemon keeps its socket and pid file, what a crash leaves
  behind stops nobody, and a daemon that serves, or was told to stop, ends.

## 2. Modules

| module | models | checked by |
|---|---|---|
| `LspCalls` | abstract: what `Request` promises its callers | refined by `LspClient` |
| `LspClient` | `client.go`, the handshake handler, `resolveEdit` as a caller | `LspClient.cfg`, `LspStaleWaiter.cfg` |
| `ProgressTracker` | `progress.go` | `ProgressTracker.cfg` |
| `DiagnosticsTracker` | `diagnostics.go` under `opCheck` | `DiagnosticsTracker.cfg`, `DiagnosticsStaleWave.cfg` |
| `DocSync` | `context.go`, `sync.go`, `plan.go`, `PlanWorkspaceEdit`, `opMv` and the other operations | `DocSyncSequential.cfg`, `DocSyncQueries.cfg`, `DocSyncRace.cfg` through `MCDocSync` |
| `DaemonLifecycle` | `daemon.go`, `launch.go`, `shutdown.go` | `DaemonLifecycle.cfg`, `DaemonTwoStarts.cfg` through `MCDaemonLifecycle` |
| `ServerLists` | lists of servers by name, and one without a name | extended by the two below |
| `Registry` | abstract: what `server add` and `server remove` promise | refined by `ConfigStore` |
| `ConfigStore` | `config.go`, `cli/server.go`, `cli/init.go` | `ConfigStore.cfg` through `MCConfigStore` |
| `TextEdits` | `ApplyTextEdits` of `workspaceedit.go` | `Algorithms.cfg` within `Algorithms` |
| `Replacements` | `SearchReplace` of `treesitter.go`, `applyReplacements` and the write of `replace.go` | the same |
| `Framing` | `framing.go` | the same |
| `URIs` | `uri.go` | the same |
| `Locate` | `Locate` of `locate.go`, `resolveLocation` and `resolveRange` of `resolve.go` | the same |
| `Find` | `find.go`: the lines that match, windows, printing, `-v` | the same |
| `Discovery` | `discoverFiles` of `discover.go`, `ScanFiles` of `fsscan.go` | the same |
| `Members` | `FilterCompletion`, `resolveItems`, `ToMembers` under `opMembers` | the same |
| `Splices` | one splice of a text, and the reference: all edits at once | extended by `TextEdits` and `Replacements` |
| `Algorithms` | puts the eight modules before `Splices` side by side, and states what their constants have to be | `Algorithms.cfg` through `MCAlgorithms`, which gives the values |
| `*Proofs` | theorems about the module of that name; `AlgorithmsProofs` has a section for each of the eight algorithms | `tlapm` |
| `FlatSequences` | lemmas: induction over an interval, and sequences joined piece by piece | `tlapm`; extended by `AlgorithmsProofs` |

Small decisions of the code stand in the modules as definitions of their own
(`FreshID`, `Cleared`, `WarmStart`...). Just before each stands a faulty variant,
marked so; it is used by no action. Putting it in the place of the right one
shows that a property can fail.

### LspClient

One action per critical section or blocking operation. `Register` and
`RefuseClosed` are the first section of `RequestCtx`, `Send` and `SendFails` the
write under `writeMu`, `ReceiveAnswer`, `ReceiveLost` and `Cancel` the branches
of its `select`. The reader has a program counter: `DispatchResponse` takes the
entry out of `pending` under the lock, `Deliver` sends on the channel outside
it; `Close` is the section that ends the connection, `FailPending` and
`CloseWaiter` empty what it took, `SignalExited` closes `exited`. `Reap` is the
goroutine in `cmd.Wait` (`client.go:111`): once the process is gone it closes the
read end of its output, and what the reader has not read is lost. A commander
is a goroutine in the command branch of `resolveEdit` (`mutate.go:235-259`).
Pipes hold `PipeRoom` messages and a full pipe blocks its writer, the reader
included. A message carries the id of its request and, as history, the caller,
so that an answer can be seen to reach the wrong one.

`LspCalls` knows neither ids nor channels: a call is open, may be answered,
returns. The mapping reads a call as open while its goroutine is between
registration and return, as answered once the server wrote the answer.

### ProgressTracker and DiagnosticsTracker

Time is abstract: a timer that runs may fire now or later. Channels of the n-th
`Settle` of a handler are named by the pair. In `DiagnosticsTracker` the copy of
the subscriber list that `Handle` makes under the lock is the variable `calls`;
its members are called later, without the lock, also after they unsubscribed.
`once` has three values because a second `finish` waits inside `once.Do`. A set
of diagnostics is named by the revision of the text it was computed from.
The server may begin a token that is pending and end one that is not: the code
runs through both, and so do `HandleBegin` and `HandleEnd`.

### DocSync

A text is a revision number, fresh at each write. A handler has a program
counter with a step for every read, table access, notification and write, so
that other handlers and the user come in between. `seen` and `since` are
histories: the revisions a file had since a request began, and since the daemon
last wrote it. `broken` notes a plan that was abandoned (the code panics out of
the operation and reconciles nothing) or that wrote over a file it creates or
renames to; the two properties about the time after a plan except those, and
the hazards list says so. An operation begins by its kind (`BeginQuery`,
`BeginSymbol`, `BeginApply`, `BeginMove`), and ends by its answer: `AnswerQuery`,
`AnswerSymbol`, `Declines` for a rename, move or extraction that changes nothing,
`AnswerPlan` for one that has a plan to apply. External: users edit existing
files (they neither create nor delete them), and the server answers with any
edit of `Answers`, which `PlanWorkspaceEdit` makes a plan: a list keeps its
order, a map of files is met in any (`Orders`), the claim of
`workspaceedit.go:58-60` that this order does not matter being part of what the
run checks. A change that does not decode becomes an edit of the empty path;
`workspaceedit.go:74-75` has it skipped, in the code the read of that path fails
and the plan is abandoned (`StepFails`).

`Settle` writes none of this state: it is the time between the last step of
`syncDoc` and `Ask`, in which other handlers and users may take any number of
steps. Whether the project is loaded by then is not a question `DocSync` answers.
Only the request that sent the `didOpen` settles, and it gives up after 1.5 or 30
seconds, so the code promises no more than what `ProgressTracker` shows of one
`Settle`. What overlapping requests can rely on is `AskedIsOpen`: the handlers
interleave anywhere in `syncDoc`, and still none asks about a document that the
server was not given.

### DaemonLifecycle

The two paths are variables that hold the daemon whose socket, or whose id, is
there. `st` follows `Run`, `td` the closure `shutdown`, one action per system
call that others can observe. Closing a Go listener unlinks its path. Commands
probe, spawn, wait, send, and wait for the answer; `shutdown` asks or removes,
`--force` kills and removes. Everything overlaps: a command starts at any time, a
daemon that replied to a shutdown still tears down, the idle timer and a SIGTERM
come between a command's dial and its request. Faults are bounded by `MaxFaults`:
a server that dies, hangs or cannot be started, a pid file that cannot be
written, a killed daemon, SIGTERM, a command that gives up. A daemon of `Untimed`
was started with a negative `IDIT_IDLE_MS` and never arms a timer. `KillServer`
waits while the server hangs, because the exit notification comes before the kill
and blocks on a pipe nobody reads.

The code does not promise much when daemons meet, and two histories say when.
`crossed` has the daemons whose start or end met another one that started, ended
or was crossed itself, or a shutdown command at the files, and those whose pid
file was not written: these may lose their files. `hit` has the commands that
were under way at a fault, or while a daemon ended, hung or was crossed, or while
a shutdown command handled the files: these may fail. No guard reads the two.
`idit shutdown; idit def f` is such a case: the second command may meet the
daemon that has replied and is about to end, and `DaemonLifecycle` shows that
nothing but such cases makes a query fail.

### ConfigStore and Registry

A command is a process with a program counter: it loads the file (`AddServer`,
`RemoveServer`, `InitWorkspace`, which also contain the checks that come before
any write), changes the list in memory, and writes it with `os.WriteFile`, which
empties the file (`OpenFile`) and then fills it (`FillFile`). The loop of
`server remove`, which filters the slice in place, is one action per pass. A
command may be killed at every step (`Killed`), and another may load the file
while it is empty. Commands that are refused change nothing and are no steps.
Four variables are histories: the servers a command loaded, whether one was added
without a command word (`--command " "` passes `server.go:68` and is refused by
every later `Load`), whether two writes met, and whether a write was disturbed at
all. When two writes meet, the file is the second one's text followed by whole
entries of the first, or does not parse (`Left`). Names, words and extensions are
taken to be such that YAML reads back what was written, and the text to go out
in one `write(2)`, which a kill does not cut; a full disk could.

`Registry` knows no files: a list grows at its end by a new name or loses one
name. It promises this while it is `sound`; the mapping takes it to be sound
until a command overlaps with a write or dies in one, and reads as the list what
the file holds, or during a write what the writer found.

### TextEdits, Replacements, Framing

Sequential algorithms, one action per pass of their loop, so that the invariants
of the loop can be stated: what the edits still to come need of a text that is
already half rewritten. A text is a sequence of bytes, of which three kinds
matter: the end of a line, the second byte of a character, and the rest.
External, as initial states: the server's edits are any that keep apart, in any
order, at positions that name a place of the document in UTF-16 units or one
character past the end of its last line (`PastLastLine`); matches
are any spans; frames are cut anywhere, with a second header field or without a
length. `Replacements` goes on to the file: the write and the report, or the
report alone for a dry run. `Algorithms` runs one of the eight algorithms per behaviour while the
others rest. `AtOnce` of `Splices` is the reference: for each place of the text
it says what stands there afterwards, and it knows no order of edits.

`AppliedAtOnce` and `OffsetsIntact` say where `ApplyTextEdits` is right. It is
not where a line holds a character of two bytes before the edit, since it adds
UTF-16 units as bytes, nor where an insertion and a change start at one place
and the insertion is listed first: it is spliced first, and the change then cuts
what was inserted. Nor is it where a position lies past the end of a line that
is not the last: LSP takes it for the end of that line, the code counts on into
the lines below and stops only at the end of the file. Such positions are not
among those of the model.

### URIs, Locate, Find, Discovery, Members

Also one action per pass of the loop of the code, over inputs that are external:

- `URIs`: which bytes the server encodes beyond those it must, in which case it
  writes the digits, whether it names a host. A byte has two digits of a small
  base. `SkipHost` and `DecodeEscape` are the code's; `ServerURIs` is not.
- `Locate`: the syntax tree, numbered so that a subtree is an interval, and the
  name and pattern root of every declaration the queries find in it. `Meant` is
  the reference: all chains of declarations, each within the one before.
- `Find`: the lines and columns that match. Windows and separators are the
  code's, and so are the lines of `-v`, one step each (`PassLine`). A negative
  `-C`, which the command accepts, prints nothing, so `PrintedAsAsked` excepts
  it; with `-C` the empty element behind a last newline can be printed as
  context, which `-v` avoids.
- `Discovery`: what ripgrep prints, and that it may fail. In the walk the budget
  counts a file before it is read, so that the last file it counts is not read;
  `SearchedOnce` therefore asks for fewer files than the budget.
- `Members`: whether a name matches, and which requests fail. The goroutines of
  `resolveItems` share the slice and hold one of `Slots` places while they ask.
  A reply replaces the whole item, its label and its `sortText` too (`Replies`),
  so the ranking is by what the server said last.
  The limit of resolved items cuts the list in the server's order, before the
  ranking.

## 3. What the runs show

| run | instance | result |
|---|---|---|
| `LspClient` | two callers (one cancellable, one commander), two requests, one server message, pipes of one | all properties hold; refinement of `LspCalls`; a dead server is noticed |
| `LspStaleWaiter` | the same, three requests | *violated*: an edit is handed to a call that is over |
| `ProgressTracker` | two handlers settling twice, two tokens, three begins | all hold, `ReturnsWhenIdle` without any timer |
| `DiagnosticsTracker` | two checks, two waves | all hold |
| `DiagnosticsStaleWave` | the same | *violated*: a wave of the old text is reported as fresh |
| `DocSyncSequential` | one handler, all operations, two files, five revisions, three requests, five workspace edits | all hold |
| `DocSyncQueries` | two handlers that query and search the same two files, three revisions, three requests | none asks about a document that is not open |
| `DocSyncRace` | two overlapping queries | *violated*: the table is not what the server holds |
| `DaemonLifecycle` | two daemons, one without a timer, two commands, one fault, all overlapping | all hold, with the exceptions `crossed` and `hit` |
| `DaemonTwoStarts` | three daemons, one fault, overlapping | *violated*: the socket of a live daemon is cleared |
| `ConfigStore` | two commands that overlap, four in all; three names, files of up to three servers | all hold; refinement of `Registry` |
| `Algorithms` | documents of three bytes and three edits; files of two bytes and three matches; three frames of at most two bytes; paths of four bytes; trees of five nodes and paths of three segments; files of five lines and of one; four items, three of them resolved, two at a time; three directories with a file each, two given paths | all hold |

The four violated properties each state a comment of the source, quoted in
`PROJECT.json`, and the counterexample is an execution of the code.

**Bounds.** Two callers are enough for every pair of steps to interleave, and
pipes of one message make every write block. Three begins let work end and begin
again between two steps of a handler. Two waves are an old text's and a new
text's. Three requests open, change and then close or reopen a document; two
files let a plan remove one and edit the other. Two handlers show one that finds
a document the other has just opened, or noted and not opened yet. One fault lets
a crash leave its files to the daemon that comes next, or hang the server of one
that is told to stop; two commands are one that shuts down or kills and one that
asks meanwhile. Three edits are one that
is applied and two whose order and offsets it may disturb; three matches nest,
touch and share a start; three frames let one read hold the end of one, a whole
one and the start of the next. Two commands are enough for a lost change and for
two writes that meet; four let a third find what they left. Paths of four bytes
hold one escape and what follows it; trees of five nodes hold two declarations
of one name and one within another; five lines hold two windows that overlap,
touch or stay apart; four items are more than are resolved, and three resolved
more than are asked at once; a walk of three files fits its budget or ends at
it. Every safety property is also proved without the bounds (section 4).

The type invariants of the modules with proofs, and the inductive invariants, are
theorems and not part of the runs: what a run would show of an instance they
show for all.

**Deadlock** is not checked: budgets of requests, calls and faults run out, and
the system then rests.

**Fairness.** Goroutines that can run do (weak fairness of their steps). In
`LspClient`, `Send` and `Reply` are strongly fair: both wait for `writeMu`, a
`sync.Mutex`, which in its starvation mode hands itself to the longest waiter,
and for room in a pipe the server keeps reading (`ServerRead` is weakly fair).
Nothing is assumed of the server's answers or death. In `ProgressTracker` no
timer is fair, so that what is shown is owed to the channels alone; in
`DiagnosticsTracker` the hard timer is, and publishing is not. In
`DaemonLifecycle` the steps of `Run` and `shutdown` are weakly fair, and so is
the idle timer once set. `KillServer` is not enabled while the server hangs, so
its fairness assumes nothing of a blocked write, and `ServingEnds` excepts such a
daemon; it excepts one without a timer, too, unless it was told to stop. `Serve`
also contains the language server's handshake answer; `ServingEnds` starts after
it and does not rest on it.

## 4. What is proved

All with TLAPS, for every value of the constants, from the named assumptions the
modules state on them: subsets, natural bounds, workspace edits being sequences
of changes.
Of the algorithms they are these, and each is what the code or its environment
gives. `TextsAssumption`: inserted texts consist of bytes. `CodesAssumption`: a
byte has two digits, no byte is a digit of two values, and `%`, `/` and what
`FileToURI` encodes are no digits. `DiscoveryTree`: a directory tree has no cycle,
and its entries can be numbered downwards. `FindBounds`: `strings.Split` returns
at least one line. `LocateBounds`, `MembersBounds`: the bounds are natural
numbers, and ranks integers, as a total order stands for that of `sortText`.

- `LspClientProofs`: `TypeCorrect`; `Inductive` for `IInv`. A response channel is
  empty until the reader or the close fills it and its id is then in no other
  place (`ChannelInv`); calls in flight have distinct ids (`CallInv`); every
  record on its way belongs to the caller that waits for its id (`OriginInv`);
  an edit channel is queued once and empty while queued (`EditInv`); closing is
  final (`CloseInv`). None of the safety properties is inductive without these:
  `NeverForgotten` needs to know that what the reader holds is in no table.
  `NoCallForgotten`, `NeverBlocks`, `AnswersCorrelate` follow. `ToldWhatHappened`, for
  `AppliedIffHanded`, needs only types. `CallsRefined`: every step of the client
  is a step of `LspCalls` or a stutter. Only the server's answer is an `Answer` of
  the abstract call, so the argument needs to know that a request on its way is
  not answered yet and an answer on its way was given (`AnswerInv`).
- `ProgressTrackerProofs`: `WaiterInv` (with work pending nobody waits for it to
  begin, without it nobody waits for it to end) gives `WakeupsKept`,
  `SettlesLate` and `ClosesOnce`.
- `DiagnosticsTrackerProofs`: whatever can set or fire a debounce timer follows a
  wave or a warm start; hence `NewWave` and `NoLeak`.
- `DocSyncProofs`: `TypeCorrect` for any number of overlapping handlers. Under
  the hypothesis `Handlers = {H}`, requests that do not overlap, the table is
  what was last sent (`TableIsSent`) and versions increase (`VersionOrder`). The
  invariant follows
  the handler: before a `didOpen` the document is unknown, before a `didChange`
  the version is larger than the recorded one, between the notification and
  `setOpen` the server holds what will be recorded. `DocSyncRace` shows that the
  hypothesis is needed. `QueriesAskedOpen` holds for any number of handlers,
  under the hypothesis `Ops \subseteq {"query", "symbol"}`, that nothing closes
  a document: a document in the table is open at the server, and so is that of a
  handler which is about to change it, to record it or to ask about it, whoever
  opened it (`AskInv`). The histories, again with one handler:
  `AnsweredFromPresent`: the text that was read is carried to the server
  (`ViewInv`). `InStepAfterPlans` and `RemovedIsClosed`: whatever a step of a
  plan writes or removes is in the handler's list until it was sent or closed,
  and what it writes over is noted (`WriteInv`); the two go together, because an
  edited file that cannot be read again is skipped, which is harmless only if it
  is not open.
- `ConfigStoreProofs`: for any number of commands. The invariant says what a
  command holds in memory relative to what it loaded (`CommandInv`), in the loop
  of `server remove` too: the cells before the write index are the kept ones of
  those already read, the cells from the read index on are as they were
  (`Filtered`); that a writer has an empty file to itself until two writes meet
  (`WriteInv`); and that undisturbed commands hold what is in the file
  (`SoundInv`). Hence `NamesStayDistinct` and `FileLoadsBack`; `ChoiceStays`, since what
  stays keeps its order (`OthersStayInOrder`) and what comes is last; and
  `RegistryImplemented`: every step of `ConfigStore` is a step of `Registry` or
  stutters.
- `DaemonLifecycleProofs`: for any number of daemons, commands and faults, and
  whatever overlaps. Beside a daemon that was not crossed another one lives only
  while one of the two finds out that the other serves (`PairInv`). So a daemon
  that was not crossed finds no socket when it binds, wrote the pid file last,
  and keeps both until it shuts down (`DaemonInv`, `FileInv`). A shutdown command
  handles the files of such a daemon only when it is about to kill it
  (`ShutdownInv`). A query that
  was not hit has a daemon that starts, listens or serves it (`QueryInv`). Hence
  `PidNamesServer`, `QueriesServed`, `SocketStays`. `DaemonTwoStarts` shows why a
  daemon whose start met another one's has to be excepted.

`AlgorithmsProofs` is about the algorithms, each by its own specification
(`Spec`, `RE!Spec`, `FR!Spec`...); `Algorithms.cfg` runs them side by side. No
length, depth or number of tasks is bounded but by a constant that may be any.

- Text edits: `SlicesStayInRange`, `OffsetsStayIntact`. Offsets are in the order
  of their positions although units are added as bytes (`OffsetsOrdered`: a
  character has no fewer bytes than units, so its line ends before the next
  begins). Hence of two edits that keep apart the earlier ends where the later
  starts, or the later is an insertion at its start (`EditsInOrder`), and a splice
  changes nothing before its start (`SpliceKeepsFront`). `EditsEndAtOnce`: the text
  is at every step what the edits applied so far make at once (`AtOnceInv`),
  since the next one ends no later than all of them start.
- Replacements: `ReplaceFrontIntact`, the same for matches that overlap.
  `SkipsOnlyOverlaps`: matches wait no further than the lowest start applied
  (`SkipInv`), so one that reaches beyond it contains it. `WritesWhatItReports`:
  again the text is the file with the applied matches made at once (`ReportInv`),
  and when nothing is left to apply it is what is written and reported (`DiskInv`).
- Framing: `BodiesInOrder` and `NoBodyWithheld`. What the decoder holds and what
  is still to be read are together the frames after the k-th, and the bodies of
  the first k are returned (`FrameInv`); outside the loop the buffer holds no
  whole frame. The buffer always begins with a frame, whose first empty line ends
  its header, so one within a body is never taken for that.
- URIs: `PathsComeBack`. The position in the URI is the end of the spelling of
  the first k bytes, which are what was decoded (`UriInv`); since the server
  encodes every `%`, an escape begins exactly where a byte was encoded.
- Targets: `TargetsAreUnambiguous`. The node that is searched is that of the only
  declaration the segments before mean (`LocateInv`).
- Members: `MembersAreComplete`. The loop that filters in place has not yet
  overwritten what it still has to read (`FilterInv`); a goroutine that is done
  has written its own item (`TaskInv`); a stable sort gives each item one place.
- Discovery: `FilesSearchedOnce`. Of the entries that the walk holds none lies in
  another (`HoldsApart`), so no directory is gone through twice and the budget is
  spent on different files; while files are few, each that is sought is among the
  hits, or under an entry the walk will descend into (`WillFind`).
- Find: `PrintsWhatIsAsked`. The windows not yet printed are apart from each
  other and from what is printed (`WindowInv`); what is printed or in a window is
  what the matches merged so far ask for (`ShownInv`); separators stand where
  lines are left out (`PrintedInv`); and the column of a line is the first of the
  matches noted (`NoteInv`).

What is computed by joining the pieces of a sequence (`AtOnce`, the spelling of a
URI, the bytes of frames, the filtered list) is handled by `FlatSequences`. The
library's induction theorems take a predicate as a parameter, which the provers
cannot instantiate. `FlatSequences` states induction about a set of numbers
instead (`Induction`), from the fact that the strict subset relation on finite
sets is well-founded, shows that the prefixes of a joined sequence exist and are
unique (`FlatExists`, `FlatOf`), and that the sequence grows by one piece at a
time (`FlatSteps`).

Only model-checked: what is temporal under fairness, which the prover does not
handle: `ExitIsNoticed`, `ReturnsWhenIdle`, `CollectReturns`, `ServingEnds`, and
the fairness of `LspCalls` within `ImplementsCalls`. Not proved of the algorithms
is that they end; the invariants say what holds if they do.

## 5. What is not modelled

- IPC: one JSON line per request, one request per connection, and the timeouts
  of both sides. A request of `DocSync` runs to its end whether or not somebody
  still waits, as in the daemon.
- Results: the mappings of symbols, hover texts, diagnostics and locations to
  output records, and the conversion of columns; they keep no state. The choice
  among code actions and the search for the placeholder of an extraction are
  of that kind too.
- What edits do to a text within `DocSync`, where a text is a revision.
- Positions past the end of a line that is not the last (section 2).
- A `Content-Length` near or beyond the range of an int.
- A full disk, and words that YAML does not read back as they were written.
- `replace` on several files: one that cannot be written ends the command, and
  those written before it are not reported.
- The parsing of arguments and the printing of results. What only reads the
  configuration (`server list`, the checks of binaries and interpreters, the
  search for the root).
- The tree-sitter library and the SQL grammar: foreign and generated code.
- Malformed messages, which the code drops, are not sent. Process ids are not
  reused, and bind, listen and `Serve` are one step.

## 6. Plan

Done: client, progress, documents and plans, lifecycle, diagnostics, the
algorithms on texts, configuration, URIs, targets, find and discovery, members.
To come:

1. A module that joins `TextEdits` with `DocSync`'s abstract edits, so that a plan
   computed on one text and applied to another is seen byte by byte.
2. IPC and timeouts: requests as lines, the 60 seconds of a command against the
   unbounded requests of the daemon, a command that retries a mutation.
3. Proofs about these parts, and of what still holds of `DocSync` when operations
   that apply plans overlap.
