------------------------------ MODULE DocSync ------------------------------
(***************************************************************************)
(* How the daemon keeps the language server's documents in step with the   *)
(* disk: syncDoc, locate and loadProjectsMentioning of src/daemon/sync.go, *)
(* the table `opened` of src/daemon/context.go, applyPlan of               *)
(* src/daemon/plan.go and the operations of src/daemon/ops.go and          *)
(* mutate.go built on them.  Each IPC request runs on a goroutine of its   *)
(* own (a handler); only single accesses to `opened` are locked.           *)
(*                                                                         *)
(* A text is named by a revision number, fresh at every write to disk.     *)
(* Notifications reach the server in the order they are sent, so srv, what *)
(* the server holds, is updated by the notification itself.  External:     *)
(* users edit files on disk at any time, and the server's answer to a      *)
(* rename, move or code action is any of Answers.  Settle, which writes    *)
(* none of this state, is the time a handler may spend before Ask; what it *)
(* waits for is the subject of ProgressTracker.                            *)
(***************************************************************************)
EXTENDS Naturals, Sequences

CONSTANTS Handlers, Files,
          Ops,        \* kinds of request: subset of {"query", "symbol", "apply", "mv"}
          Answers,    \* workspace edits the server may answer with
          MaxRev,     \* bound: writes to disk of a behaviour
          MaxOps      \* bound: requests of a behaviour

Kinds == {"edit", "create", "rename", "delete"}
Steps == [kind : Kinds, file : Files, to : Files]     \* to: of a rename

(* A workspace edit is the list documentChanges, in its order, or the map  *)
(* changes, a list here in no order.  A change of text names no kind.      *)
Changes == [kind : Kinds \cup {"none"}, file : Files, to : Files]
WorkspaceEdits == [ordered : BOOLEAN, list : Seq(Changes)]

ASSUME FilesAssumption == Files # {}
ASSUME AnswersAssumption == \A e \in Answers : e \in WorkspaceEdits
ASSUME OpsAssumption == Ops \subseteq {"query", "symbol", "apply", "mv"}
ASSUME BoundsAssumption == MaxRev \in Nat \ {0} /\ MaxOps \in Nat

-----------------------------------------------------------------------------
(* PlanWorkspaceEdit: the plans an edit may become.                        *)

PlanDocumentChange(c) ==
    [kind |-> IF c.kind = "none" THEN "edit" ELSE c.kind, file |-> c.file, to |-> c.to]

(* A loop over a Go map meets its entries in any order. *)
Orders(e) ==
    LET n == 1..Len(e.list) IN
    {o \in [n -> n] : IF e.ordered THEN o = [i \in n |-> i]
                      ELSE \A i, j \in n : o[i] = o[j] => i = j}

PlanWorkspaceEdit(e) ==
    {[i \in 1..Len(e.list) |-> PlanDocumentChange(e.list[o[i]])] : o \in Orders(e)}

Plans == UNION {PlanWorkspaceEdit(e) : e \in Answers}

-----------------------------------------------------------------------------
VARIABLES
    disk,     \* disk[f]: revision of f on disk, Missing if there is none
    rev,      \* latest revision
    opened,   \* Context.opened
    srv,      \* what the server holds
    pc,       \* where each handler is
    req,      \* its request: operation, files still to sync, paths of a move
    doc,      \* the document it works on: file, text read, version it sends
    plan,     \* its plan: steps to apply, files to reconcile
    moved,    \* handlers of a move that renamed the file already
    seen,     \* history: revisions of each file since the handler's request began
    since,    \* history: revisions of each file since the daemon last wrote it
    broken,   \* history: a plan was abandoned half-way, or wrote over a file it creates
    ops       \* history: number of requests

diskVars == <<disk, rev, seen, since>>
docVars  == <<opened, srv>>
vars == <<diskVars, docVars, pc, req, doc, plan, moved, broken, ops>>

Missing == 0
Revs == 0..MaxRev
Closed == [version |-> 0, text |-> Missing]      \* no entry, or not open

NoFile == CHOOSE f \in Files : TRUE              \* placeholder of an idle handler
NoReq  == [op |-> "none", files |-> {}, from |-> NoFile, to |-> NoFile]
NoDoc  == [file |-> NoFile, text |-> Missing, version |-> 0]
NoPlan == [todo |-> <<>>, edited |-> {}, removed |-> {}]

(* Any of the files may be missing at first. *)
Init ==
    /\ disk \in [Files -> {Missing, 1}] /\ rev = 1
    /\ opened = [f \in Files |-> Closed] /\ srv = [f \in Files |-> Closed]
    /\ pc = [h \in Handlers |-> "idle"]
    /\ req = [h \in Handlers |-> NoReq]
    /\ doc = [h \in Handlers |-> NoDoc]
    /\ plan = [h \in Handlers |-> NoPlan]
    /\ moved = {}
    /\ seen = [h \in Handlers |-> [f \in Files |-> {}]]
    /\ since = [f \in Files |-> {disk[f]}]
    /\ broken = FALSE /\ ops = 0

Goto(h, l) == pc' = [pc EXCEPT ![h] = l]

(* The reply is sent and the goroutine, with its locals, is gone. *)
Finish(h) ==
    /\ Goto(h, "idle")
    /\ req' = [req EXCEPT ![h] = NoReq]
    /\ doc' = [doc EXCEPT ![h] = NoDoc]
    /\ plan' = [plan EXCEPT ![h] = NoPlan]
    /\ moved' = moved \ {h}
    /\ seen' = [seen EXCEPT ![h] = [f \in Files |-> {}]]
    /\ UNCHANGED <<disk, rev, since, docVars, ops>>

(* The disk becomes d; by is the set of files the daemon wrote. *)
DiskBecomes(d, by) ==
    /\ disk' = d
    /\ seen' = [h \in Handlers |-> [f \in Files |->
                   IF pc[h] = "idle" THEN {} ELSE seen[h][f] \cup {d[f]}]]
    /\ since' = [f \in Files |-> IF f \in by THEN {d[f]} ELSE since[f] \cup {d[f]}]

NewRev == rev + 1
Write(f, by) ==
    /\ rev < MaxRev
    /\ rev' = NewRev /\ DiskBecomes([disk EXCEPT ![f] = NewRev], by)

-----------------------------------------------------------------------------
(* The environment *)

UserEdits(f) ==
    /\ disk[f] # Missing /\ Write(f, {})
    /\ UNCHANGED <<docVars, pc, req, doc, plan, moved, broken, ops>>

-----------------------------------------------------------------------------
(* Requests.  query: the positional and outline operations and check;      *)
(* symbol: opSymbol, which syncs every file that mentions the name; apply: *)
(* opRename and opExtract; mv: opMv.                                       *)

Begin(h, r) ==
    /\ r.op \in Ops /\ pc[h] = "idle" /\ ops < MaxOps
    /\ ops' = ops + 1
    /\ req' = [req EXCEPT ![h] = r]
    /\ seen' = [seen EXCEPT ![h] = [f \in Files |-> {disk[f]}]]
    /\ Goto(h, "next")
    /\ UNCHANGED <<disk, rev, since, docVars, doc, plan, moved, broken>>

BeginQuery(h, f) == Begin(h, [NoReq EXCEPT !.op = "query", !.files = {f}])

BeginApply(h, f) == Begin(h, [NoReq EXCEPT !.op = "apply", !.files = {f}])

BeginSymbol(h, fs) == Begin(h, [NoReq EXCEPT !.op = "symbol", !.files = fs])

(* opMv checks both paths before it syncs the source. *)
BeginMove(h, f, g) ==
    /\ disk[f] # Missing /\ disk[g] = Missing
    /\ Begin(h, [op |-> "mv", files |-> {f}, from |-> f, to |-> g])

-----------------------------------------------------------------------------
(* syncDoc *)

(* os.ReadFile; a file that cannot be read fails the request, except that  *)
(* the symbol search skips it.                                             *)
ReadFile(h, f) ==
    /\ pc[h] = "next" /\ f \in req[h].files /\ disk[f] # Missing
    /\ req' = [req EXCEPT ![h].files = @ \ {f}]
    /\ doc' = [doc EXCEPT ![h] = [NoDoc EXCEPT !.file = f, !.text = disk[f]]]
    /\ Goto(h, "lookup")
    /\ UNCHANGED <<diskVars, docVars, plan, moved, broken, ops>>

ReadFails(h, f) ==
    /\ pc[h] = "next" /\ f \in req[h].files /\ disk[f] = Missing
    /\ IF req[h].op = "symbol"
       THEN /\ req' = [req EXCEPT ![h].files = @ \ {f}]
            /\ UNCHANGED <<diskVars, docVars, pc, doc, plan, moved, ops>>
       ELSE Finish(h)
    /\ UNCHANGED broken

SameVersion(v) == v                     \* faulty: didChange repeats the version
NextVersion(v) == v + 1                 \* prev.version + 1

FirstVersion == 1

Trusted(prev, text) == FALSE            \* faulty: what was synced once is not compared
Differs(prev, text) == prev.text # text

SkipsOpen == "record"                   \* faulty: notes the document, sends nothing
WhenUnknown == "open"

(* getOpen decides between didOpen, didChange and nothing. *)
Lookup(h) ==
    /\ pc[h] = "lookup"
    /\ LET prev == opened[doc[h].file] IN
       \/ /\ prev = Closed
          /\ doc' = [doc EXCEPT ![h].version = FirstVersion]
          /\ Goto(h, WhenUnknown)
       \/ /\ prev # Closed /\ Differs(prev, doc[h].text)
          /\ doc' = [doc EXCEPT ![h].version = NextVersion(prev.version)]
          /\ Goto(h, "change")
       \/ /\ prev # Closed /\ ~Differs(prev, doc[h].text)
          /\ UNCHANGED doc
          /\ Goto(h, "next")
    /\ UNCHANGED <<diskVars, docVars, req, plan, moved, broken, ops>>

Sent(h) == [version |-> doc[h].version, text |-> doc[h].text]

(* The server opens the document, again if it was open. *)
NotifyOpen(h) ==
    /\ pc[h] = "open"
    /\ srv' = [srv EXCEPT ![doc[h].file] = Sent(h)]
    /\ Goto(h, "record")
    /\ UNCHANGED <<diskVars, opened, req, doc, plan, moved, broken, ops>>

(* A change to a document that is not open is ignored by the server. *)
NotifyChange(h) ==
    /\ pc[h] \in {"change", "rechange"}
    /\ srv' = IF srv[doc[h].file] = Closed THEN srv
              ELSE [srv EXCEPT ![doc[h].file] = Sent(h)]
    /\ Goto(h, IF pc[h] = "change" THEN "record" ELSE "rerecord")
    /\ UNCHANGED <<diskVars, opened, req, doc, plan, moved, broken, ops>>

OldText(h) == opened[doc[h].file].text  \* faulty: records what it found, not what it sent
SentText(h) == doc[h].text              \* ctx.setOpen(uri, openDoc{..., text: text})

SetOpen(h) ==
    /\ pc[h] \in {"record", "rerecord"}
    /\ opened' = [opened EXCEPT ![doc[h].file] =
                      [version |-> doc[h].version, text |-> SentText(h)]]
    /\ Goto(h, IF pc[h] = "record" THEN "next" ELSE "reconcile")
    /\ UNCHANGED <<diskVars, srv, req, doc, plan, moved, broken, ops>>

(* The LSP request, at once or, when the sync opened a document, after the *)
(* time settle takes.                                                      *)
Ask(h) ==
    /\ pc[h] = "next" /\ req[h].files = {}
    /\ Goto(h, "asked")
    /\ UNCHANGED <<diskVars, docVars, req, doc, plan, moved, broken, ops>>

AnswerQuery(h)  == pc[h] = "asked" /\ req[h].op = "query" /\ Finish(h) /\ UNCHANGED broken
AnswerSymbol(h) == pc[h] = "asked" /\ req[h].op = "symbol" /\ Finish(h) /\ UNCHANGED broken

(* An operation that changes nothing: the server refuses it, offers no     *)
(* candidate or several, or gives no edit; or it is a dry run.             *)
Declines(h) ==
    /\ pc[h] = "asked" /\ req[h].op \in {"apply", "mv"}
    /\ Finish(h) /\ UNCHANGED broken

AnswerPlan(h, p) ==
    /\ pc[h] = "asked" /\ req[h].op \in {"apply", "mv"}
    /\ p # <<>> \/ req[h].op = "mv"
    /\ plan' = [plan EXCEPT ![h] = [NoPlan EXCEPT !.todo = p]]
    /\ Goto(h, "plan")
    /\ UNCHANGED <<diskVars, docVars, req, doc, moved, broken, ops>>
-----------------------------------------------------------------------------
(* applyPlan: the steps of the plan on disk, with the files to reconcile.  *)

StepIs(h, kind) == pc[h] = "plan" /\ plan[h].todo # <<>> /\ Head(plan[h].todo).kind = kind
Target(h) == Head(plan[h].todo).file

Drops(s, f) == s                        \* faulty: the file is not noted
NoteEdited(s, f)  == s \cup {f}
NoteRemoved(s, f) == s \cup {f}

StepDone(h) ==
    plan' = [plan EXCEPT ![h].todo = Tail(@)]
StepEdited(h, f) ==
    plan' = [plan EXCEPT ![h].todo = Tail(@), ![h].edited = NoteEdited(@, f)]
StepRemoved(h, f) ==
    plan' = [plan EXCEPT ![h].todo = Tail(@), ![h].removed = NoteRemoved(@, f)]

(* OpEdit reads the file ... *)
EditRead(h) ==
    /\ StepIs(h, "edit") /\ disk[Target(h)] # Missing
    /\ doc' = [doc EXCEPT ![h] = [NoDoc EXCEPT !.file = Target(h), !.text = disk[Target(h)]]]
    /\ Goto(h, "write")
    /\ UNCHANGED <<diskVars, docVars, req, plan, moved, broken, ops>>

(* ... and writes it back with the edits applied, whatever it holds now. *)
EditWrite(h) ==
    /\ pc[h] = "write"
    /\ Write(doc[h].file, {doc[h].file}) /\ StepEdited(h, doc[h].file)
    /\ Goto(h, "plan")
    /\ UNCHANGED <<docVars, req, doc, moved, broken, ops>>

Overwrites(f) == broken' = (broken \/ disk[f] # Missing)

CreateFile(h) ==
    /\ StepIs(h, "create")
    /\ Write(Target(h), {Target(h)}) /\ StepDone(h) /\ Overwrites(Target(h))
    /\ UNCHANGED <<docVars, pc, req, doc, moved, ops>>

(* os.Rename replaces the target. *)
MoveOnDisk(f, g) ==
    /\ disk[f] # Missing /\ Overwrites(g)
    /\ DiskBecomes([disk EXCEPT ![f] = Missing, ![g] = disk[f]], {f, g})
    /\ UNCHANGED rev

RenameFile(h) ==
    /\ StepIs(h, "rename")
    /\ MoveOnDisk(Target(h), Head(plan[h].todo).to) /\ StepRemoved(h, Target(h))
    /\ UNCHANGED <<docVars, pc, req, doc, moved, ops>>

DeleteFile(h) ==
    /\ StepIs(h, "delete") /\ disk[Target(h)] # Missing
    /\ DiskBecomes([disk EXCEPT ![Target(h)] = Missing], {Target(h)})
    /\ StepRemoved(h, Target(h))
    /\ UNCHANGED <<rev, docVars, pc, req, doc, moved, broken, ops>>

(* A step that fails, for a file that is gone, the empty path of a change  *)
(* that does not decode or any other reason, panics out of the operation   *)
(* and nothing is reconciled.                                              *)
StepFails(h) ==
    /\ pc[h] \in {"plan", "write"} /\ plan[h].todo # <<>>
    /\ Finish(h) /\ broken' = TRUE

PlanApplied(h) ==
    /\ pc[h] = "plan" /\ plan[h].todo = <<>>
    /\ Goto(h, "reconcile")
    /\ UNCHANGED <<diskVars, docVars, req, doc, plan, moved, broken, ops>>

-----------------------------------------------------------------------------
(* applyPlan: reconciling the server.  First the removed files that are    *)
(* open are closed, in any order (a Go map), then the edited ones that are *)
(* still open are sent again.                                              *)

FindRemoved(h, f) ==
    /\ pc[h] = "reconcile" /\ f \in plan[h].removed
    /\ plan' = [plan EXCEPT ![h].removed = @ \ {f}]
    /\ doc' = [doc EXCEPT ![h] = [NoDoc EXCEPT !.file = f]]
    /\ IF opened[f] # Closed THEN Goto(h, "close") ELSE UNCHANGED pc
    /\ UNCHANGED <<diskVars, docVars, req, moved, broken, ops>>

NotifyClose(h) ==
    /\ pc[h] = "close"
    /\ srv' = [srv EXCEPT ![doc[h].file] = Closed]
    /\ Goto(h, "forget")
    /\ UNCHANGED <<diskVars, opened, req, doc, plan, moved, broken, ops>>

DeleteOpen(h) ==
    /\ pc[h] = "forget"
    /\ opened' = [opened EXCEPT ![doc[h].file] = Closed]
    /\ Goto(h, "reconcile")
    /\ UNCHANGED <<diskVars, srv, req, doc, plan, moved, broken, ops>>

FindEdited(h, f) ==
    /\ pc[h] = "reconcile" /\ plan[h].removed = {} /\ f \in plan[h].edited
    /\ plan' = [plan EXCEPT ![h].edited = @ \ {f}]
    /\ IF opened[f] = Closed THEN UNCHANGED <<pc, doc>>
       ELSE /\ doc' = [doc EXCEPT ![h] = [file |-> f, text |-> Missing,
                                          version |-> NextVersion(opened[f].version)]]
            /\ Goto(h, "reread")
    /\ UNCHANGED <<diskVars, docVars, req, moved, broken, ops>>

(* An edited file that cannot be read any more is skipped. *)
ReRead(h) ==
    /\ pc[h] = "reread"
    /\ doc' = [doc EXCEPT ![h].text = disk[doc[h].file]]
    /\ Goto(h, IF disk[doc[h].file] = Missing THEN "reconcile" ELSE "rechange")
    /\ UNCHANGED <<diskVars, docVars, req, plan, moved, broken, ops>>

Reconciled(h) == pc[h] = "reconcile" /\ plan[h].removed = {} /\ plan[h].edited = {}

Applied(h) ==
    /\ Reconciled(h) /\ (req[h].op = "apply" \/ h \in moved)
    /\ Finish(h) /\ UNCHANGED broken

-----------------------------------------------------------------------------
(* opMv after its plan: rename the file, then stop tracking the old path   *)
(* by the same steps as for a removed file, and tell the server.           *)

MoveFile(h) ==
    /\ Reconciled(h) /\ req[h].op = "mv" /\ h \notin moved
    /\ MoveOnDisk(req[h].from, req[h].to)
    /\ moved' = moved \cup {h}
    /\ plan' = [plan EXCEPT ![h].removed = NoteRemoved(@, req[h].from)]
    /\ UNCHANGED <<docVars, pc, req, doc, ops>>

(* The source is gone, or the directory or the rename is refused. *)
MoveFails(h) ==
    /\ Reconciled(h) /\ req[h].op = "mv" /\ h \notin moved
    /\ Finish(h) /\ broken' = TRUE

-----------------------------------------------------------------------------
Sync(h) ==
    \/ \E f \in Files : ReadFile(h, f) \/ ReadFails(h, f)
    \/ Lookup(h) \/ NotifyOpen(h) \/ NotifyChange(h) \/ SetOpen(h)

Apply(h) ==
    \/ EditRead(h) \/ EditWrite(h) \/ CreateFile(h) \/ RenameFile(h) \/ DeleteFile(h)
    \/ StepFails(h) \/ PlanApplied(h)
    \/ \E f \in Files : FindRemoved(h, f) \/ FindEdited(h, f)
    \/ NotifyClose(h) \/ DeleteOpen(h) \/ ReRead(h)
    \/ Applied(h) \/ MoveFile(h) \/ MoveFails(h)

Request(h) ==
    \/ \E f \in Files : BeginQuery(h, f) \/ BeginApply(h, f)
    \/ \E fs \in SUBSET Files : BeginSymbol(h, fs)
    \/ \E f, g \in Files : BeginMove(h, f, g)
    \/ Ask(h) \/ AnswerQuery(h) \/ AnswerSymbol(h) \/ Declines(h)
    \/ \E p \in Plans : AnswerPlan(h, p)

Next ==
    \/ \E f \in Files : UserEdits(f)
    \/ \E h \in Handlers : Request(h) \/ Sync(h) \/ Apply(h)

Spec == Init /\ [][Next]_vars

-----------------------------------------------------------------------------
OpenDocs == [version : Nat \ {0}, text : Revs \ {Missing}]
Docs == OpenDocs \cup {Closed}
Labels == {"idle", "next", "lookup", "open", "change", "record", "asked", "plan", "write",
           "reconcile", "close", "forget", "reread", "rechange", "rerecord"}

(* Every variable keeps its type; an open document has a version and a text. *)
TypeOK ==
    /\ disk \in [Files -> Revs] /\ rev \in Revs
    /\ opened \in [Files -> Docs] /\ srv \in [Files -> Docs]
    /\ pc \in [Handlers -> Labels]
    /\ req \in [Handlers -> [op : Ops \cup {"none"}, files : SUBSET Files,
                             from : Files, to : Files]]
    /\ doc \in [Handlers -> [file : Files, text : Revs, version : Nat]]
    /\ plan \in [Handlers -> [todo : Seq(Steps), edited : SUBSET Files,
                              removed : SUBSET Files]]
    /\ moved \subseteq Handlers
    /\ seen \in [Handlers -> [Files -> SUBSET Revs]]
    /\ since \in [Files -> SUBSET Revs]
    /\ broken \in BOOLEAN /\ ops \in 0..MaxOps

(* Handlers that have told the server of a document and not recorded it yet. *)
Recording(f) == {h \in Handlers : pc[h] \in {"record", "rerecord", "forget"} /\ doc[h].file = f}

(* context.go:13-14: an entry of `opened` is what was last sent to the     *)
(* server, version and text, outside the window between the notification   *)
(* and setOpen or deleteOpen.  When it is not, change detection compares   *)
(* with a text the server does not hold and never sends the right one.     *)
OpenedIsSent == \A f \in Files : Recording(f) = {} => opened[f] = srv[f]

(* What the program counter of a handler says of the document it works on. *)
DocInv(h) ==
    /\ pc[h] \in {"lookup", "open", "change", "record", "rechange", "rerecord"} =>
           doc[h].text # Missing
    /\ pc[h] \in {"open", "change", "record", "reread", "rechange", "rerecord"} =>
           doc[h].version # 0
    /\ pc[h] = "write" => plan[h].todo # <<>>
TypeInv == TypeOK /\ \A h \in Handlers : DocInv(h)

(* With one handler: how that document compares with opened and srv ...    *)
StageInv(h) ==
    LET f == doc[h].file IN
    /\ pc[h] = "open" => opened[f] = Closed
    /\ pc[h] \in {"change", "reread", "rechange"} =>
           opened[f] # Closed /\ opened[f].version < doc[h].version
    /\ pc[h] \in {"record", "rerecord"} => srv[f] = Sent(h)
    /\ pc[h] = "forget" => srv[f] = Closed

(* ... and that any request but the symbol search has one file to sync.    *)
FilesInv(h) ==
    req[h].op # "symbol" /\ req[h].files # {} =>
        pc[h] = "next" /\ \E f \in Files : req[h].files = {f}

IInv ==
    /\ TypeInv
    /\ OpenedIsSent
    /\ \A h \in Handlers : StageInv(h) /\ FilesInv(h)

(* sync.go:69-71: the document a query asks about is, at the server, a     *)
(* revision the file had on disk at some time since the request began.     *)
SyncedView ==
    \A h \in Handlers : pc[h] = "asked" /\ req[h].op # "symbol" =>
        srv[doc[h].file].text \in seen[h][doc[h].file]

Quiet == ~broken /\ \A h \in Handlers : pc[h] = "idle"

(* plan.go:71-73: when no request is running, and no plan was abandoned or *)
(* wrote over a file it creates or renames to, an open document is at      *)
(* least as recent, at the server, as the last write of the daemon to its  *)
(* file.                                                                   *)
StaysInStep == Quiet => \A f \in Files : srv[f] # Closed => srv[f].text \in since[f]

(* plan.go:110-116, mutate.go:105-109: when no request is running, with    *)
(* the same exception, no document of a removed file is open at the        *)
(* server, where it would shadow the disk and be searched.                 *)
NoGhostDocument == Quiet => \A f \in Files : srv[f] # Closed => disk[f] # Missing

(* sync.go:69-71: however many queries sync a file at once, and whatever   *)
(* each found in `opened` before the others noted theirs, the document a   *)
(* query is about is open at the server when it is asked.                  *)
AskedIsOpen ==
    \A h \in Handlers : pc[h] = "asked" /\ req[h].op = "query" => srv[doc[h].file] # Closed

(* The protocol of text documents: the versions sent for a document that   *)
(* stays open increase, so no didOpen is sent for an open document.        *)
VersionsIncrease ==
    [][\A f \in Files : srv[f] # Closed /\ srv'[f] \notin {Closed, srv[f]} =>
                           srv'[f].version > srv[f].version]_srv
=============================================================================
