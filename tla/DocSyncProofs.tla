---------------------------- MODULE DocSyncProofs ----------------------------
(***************************************************************************)
(* Proofs about DocSync, for any number of files, plans, writes and        *)
(* requests: types for any number of handlers, and for one handler, that   *)
(* is as long as requests do not overlap, the agreement of `opened` with   *)
(* the server and the order of versions.  Then, for any number of handlers *)
(* that apply no plan, that a query is asked only about a document the     *)
(* server holds.  Last, for one handler, what a request is answered from   *)
(* and what the server holds after a plan.                                 *)
(***************************************************************************)
EXTENDS DocSync, TLAPS

USE FilesAssumption, BoundsAssumption

Reqs == [op : Ops \cup {"none"}, files : SUBSET Files, from : Files, to : Files]
Locals == [file : Files, text : Revs, version : Nat]
PlanRecs == [todo : Seq(Steps), edited : SUBSET Files, removed : SUBSET Files]

(* The plan a workspace edit becomes is a sequence of plan steps. *)
LEMMA PlanOfEdit == \A p \in Plans : p \in Seq(Steps)
<1> SUFFICES ASSUME NEW p \in Plans PROVE p \in Seq(Steps)
  OBVIOUS
<1> PICK e \in Answers : p \in PlanWorkspaceEdit(e)
  BY DEF Plans
<1>1. e.list \in Seq(Changes)
  BY AnswersAssumption DEF WorkspaceEdits
<1> PICK n \in Nat : n = Len(e.list)
  BY <1>1
<1> PICK o \in [1..n -> 1..n] : p = [i \in 1..n |-> PlanDocumentChange(e.list[o[i]])]
  BY DEF PlanWorkspaceEdit, Orders
<1>2. \A i \in 1..n : e.list[o[i]] \in Changes
  BY <1>1
<1>3. \A c \in Changes : PlanDocumentChange(c) \in Steps
  BY DEF PlanDocumentChange, Changes, Steps, Kinds
<1>4. \A i \in 1..n : p[i] \in Steps
  BY <1>2, <1>3
<1> QED
  BY <1>4, SMTT(30)

(* What the requests share: those about one file begin alike, and those    *)
(* that apply no plan end alike.                                           *)
BeginOne(h, f) ==
    \E kind \in {"query", "apply"} : Begin(h, [NoReq EXCEPT !.op = kind, !.files = {f}])

Replied(h) == pc[h] = "asked" /\ Finish(h) /\ UNCHANGED broken

LEMMA RequestCases ==
    ASSUME NEW h \in Handlers, Request(h)
    PROVE  \/ \E f \in Files : BeginOne(h, f)
           \/ \E fs \in SUBSET Files : BeginSymbol(h, fs)
           \/ \E f, g \in Files : BeginMove(h, f, g)
           \/ Ask(h) \/ Replied(h)
           \/ \E p \in Plans : AnswerPlan(h, p)
<1>1. ASSUME NEW f \in Files, BeginQuery(h, f) \/ BeginApply(h, f) PROVE BeginOne(h, f)
  BY <1>1 DEF BeginOne, BeginQuery, BeginApply
<1>2. AnswerQuery(h) \/ AnswerSymbol(h) \/ Declines(h) => Replied(h)
  BY DEF AnswerQuery, AnswerSymbol, Declines, Replied
<1> QED
  BY <1>1, <1>2 DEF Request

(* The placeholder of an idle handler is a file. *)
LEMMA NoFileType == NoFile \in Files
  BY DEF NoFile

(* Records of an idle handler have their types. *)
LEMMA NoTypes ==
    /\ NoReq \in [op : Ops \cup {"none"}, files : SUBSET Files, from : Files, to : Files]
    /\ NoDoc \in [file : Files, text : Revs, version : Nat]
    /\ NoPlan \in [todo : Seq(Steps), edited : SUBSET Files, removed : SUBSET Files]
<1>1. <<>> \in Seq(Steps)
  OBVIOUS
<1> QED
  BY <1>1, NoFileType DEF NoReq, NoDoc, NoPlan, Revs, Missing

(* The disk operations keep the types of what they change. *)
LEMMA DiskType ==
    ASSUME TypeOK, NEW d \in [Files -> Revs], NEW by, DiskBecomes(d, by)
    PROVE  /\ disk' \in [Files -> Revs]
           /\ seen' \in [Handlers -> [Files -> SUBSET Revs]]
           /\ since' \in [Files -> SUBSET Revs]
  BY DEF DiskBecomes, TypeOK

LEMMA WriteType ==
    ASSUME TypeOK, NEW f \in Files, NEW by, Write(f, by)
    PROVE  /\ disk' \in [Files -> Revs] /\ rev' \in Revs
           /\ seen' \in [Handlers -> [Files -> SUBSET Revs]]
           /\ since' \in [Files -> SUBSET Revs]
<1>1. NewRev \in Revs
  BY DEF Write, NewRev, Revs, TypeOK
<1>2. [disk EXCEPT ![f] = NewRev] \in [Files -> Revs]
  BY <1>1 DEF TypeOK
<1> QED
  BY <1>1, <1>2, DiskType DEF Write

(* A reply keeps the types. *)
LEMMA FinishType ==
    ASSUME TypeOK, NEW h \in Handlers, Finish(h), broken' \in BOOLEAN
    PROVE  TypeOK'
<1>1. pc' \in [Handlers -> Labels]
  BY DEF Finish, Goto, TypeOK, Labels
<1>2. /\ req' \in [Handlers -> [op : Ops \cup {"none"}, files : SUBSET Files,
                               from : Files, to : Files]]
      /\ doc' \in [Handlers -> [file : Files, text : Revs, version : Nat]]
  BY NoTypes DEF Finish, TypeOK
<1>3. plan' \in [Handlers -> [todo : Seq(Steps), edited : SUBSET Files,
                             removed : SUBSET Files]]
  BY NoTypes DEF Finish, TypeOK
<1>4. seen' \in [Handlers -> [Files -> SUBSET Revs]]
  BY DEF Finish, TypeOK
<1> QED
  BY <1>1, <1>2, <1>3, <1>4 DEF Finish, TypeOK, docVars

(* Starting a request keeps the types. *)
LEMMA BeginType ==
    ASSUME TypeOK, NEW h \in Handlers,
           NEW r \in [op : Ops, files : SUBSET Files, from : Files, to : Files], Begin(h, r)
    PROVE  TypeOK'
<1>1. pc' \in [Handlers -> Labels]
  BY DEF Begin, Goto, TypeOK, Labels
<1>2. req' \in [Handlers -> [op : Ops \cup {"none"}, files : SUBSET Files,
                             from : Files, to : Files]]
  BY DEF Begin, TypeOK
<1>3. seen' \in [Handlers -> [Files -> SUBSET Revs]]
  BY DEF Begin, TypeOK
<1>4. ops' \in 0..MaxOps
  BY DEF Begin, TypeOK
<1> QED
  BY <1>1, <1>2, <1>3, <1>4 DEF Begin, TypeOK, docVars

(* A step that only moves the program counter of a handler, or its document, *)
(* to something of their type keeps the types.                               *)
LEMMA LocalType ==
    ASSUME TypeOK, NEW h \in Handlers,
           pc' \in [Handlers -> Labels],
           doc' \in [Handlers -> [file : Files, text : Revs, version : Nat]],
           UNCHANGED <<diskVars, docVars, req, plan, moved, broken, ops>>
    PROVE  TypeOK'
  BY DEF TypeOK, diskVars, docVars

(* Requests and answers. *)
LEMMA RequestType ==
    ASSUME TypeOK, NEW h \in Handlers, Request(h)
    PROVE  TypeOK'
<1>1. ASSUME NEW f \in Files, BeginOne(h, f) PROVE TypeOK'
  <2> PICK kind \in {"query", "apply"} : Begin(h, [NoReq EXCEPT !.op = kind, !.files = {f}])
    BY <1>1 DEF BeginOne
  <2>1. [NoReq EXCEPT !.op = kind, !.files = {f}]
            \in [op : Ops, files : SUBSET Files, from : Files, to : Files]
    BY NoFileType DEF Begin, NoReq
  <2> QED
    BY <2>1, BeginType
<1>2. ASSUME NEW fs \in SUBSET Files, BeginSymbol(h, fs) PROVE TypeOK'
  <2>1. [NoReq EXCEPT !.op = "symbol", !.files = fs]
            \in [op : Ops, files : SUBSET Files, from : Files, to : Files]
    BY <1>2, NoFileType DEF BeginSymbol, Begin, NoReq
  <2> QED
    BY <1>2, <2>1, BeginType DEF BeginSymbol
<1>3. ASSUME NEW f \in Files, NEW g \in Files, BeginMove(h, f, g) PROVE TypeOK'
  <2>1. [op |-> "mv", files |-> {f}, from |-> f, to |-> g]
            \in [op : Ops, files : SUBSET Files, from : Files, to : Files]
    BY <1>3 DEF BeginMove, Begin
  <2> QED
    BY <1>3, <2>1, BeginType DEF BeginMove
<1>4. CASE Ask(h)
  <2>1. pc' \in [Handlers -> Labels]
    BY <1>4 DEF Ask, Goto, TypeOK, Labels
  <2> QED
    BY <1>4, <2>1, LocalType DEF Ask, TypeOK
<1>5. CASE Replied(h)
  BY <1>5, FinishType DEF Replied, TypeOK
<1>6. ASSUME NEW p \in Plans, AnswerPlan(h, p) PROVE TypeOK'
  <2>1. pc' \in [Handlers -> Labels]
    BY <1>6 DEF AnswerPlan, Goto, TypeOK, Labels
  <2>2. p \in Seq(Steps)
    BY PlanOfEdit
  <2>3. [NoPlan EXCEPT !.todo = p]
            \in [todo : Seq(Steps), edited : SUBSET Files, removed : SUBSET Files]
    BY <2>2 DEF NoPlan
  <2>4. plan' \in [Handlers -> [todo : Seq(Steps), edited : SUBSET Files,
                               removed : SUBSET Files]]
    BY <1>6, <2>3 DEF AnswerPlan, TypeOK
  <2> QED
    BY <1>6, <2>1, <2>4 DEF AnswerPlan, TypeOK, diskVars, docVars
<1> QED
  BY <1>1, <1>2, <1>3, <1>4, <1>5, <1>6, RequestCases

(* A handler that has one file less to sync. *)
LEMMA LessFiles ==
    ASSUME TypeOK, NEW h \in Handlers, NEW f \in Files
    PROVE  [req EXCEPT ![h].files = @ \ {f}] \in [Handlers -> Reqs]
<1> DEFINE fs == req[h].files \ {f}
<1>1. req \in [Handlers -> Reqs]
  BY DEF TypeOK, Reqs
<1>2. fs \in SUBSET Files
  BY <1>1 DEF Reqs
<1>3. [req[h] EXCEPT !.files = fs] \in Reqs
  BY <1>1, <1>2 DEF Reqs
<1> QED
  BY <1>1, <1>3

(* Documents that are open have a version and a text. *)
LEMMA VersionTypes ==
    ASSUME TypeOK, NEW f \in Files
    PROVE  /\ opened[f].version \in Nat /\ srv[f].version \in Nat
           /\ NextVersion(opened[f].version) \in Nat \ {0}
           /\ opened[f].version < NextVersion(opened[f].version)
<1>1. opened[f].version \in Nat /\ srv[f].version \in Nat
  BY DEF TypeOK, Docs, OpenDocs, Closed
<1> QED
  BY <1>1 DEF NextVersion

(* What a handler sends is a document. *)
LEMMA SentType ==
    ASSUME TypeInv, NEW h \in Handlers, pc[h] \in {"open", "change", "record", "rechange", "rerecord"}
    PROVE  Sent(h) \in OpenDocs /\ doc[h].file \in Files
<1>1. doc[h] \in [file : Files, text : Revs, version : Nat]
  BY DEF TypeInv, TypeOK
<1>2. doc[h].text # Missing /\ doc[h].version # 0
  BY DEF TypeInv, DocInv
<1> QED
  BY <1>1, <1>2 DEF Sent, OpenDocs

(* The steps of syncDoc, and the two of applyPlan they are shared with. *)
LEMMA SyncType ==
    ASSUME TypeInv, NEW h \in Handlers, Sync(h)
    PROVE  TypeInv'
<1>0. pc \in [Handlers -> Labels] /\ doc \in [Handlers -> [file : Files, text : Revs, version : Nat]]
  BY DEF TypeInv, TypeOK
<1>plan. plan \in [Handlers -> PlanRecs]
  BY DEF TypeInv, TypeOK, PlanRecs
<1>1. ASSUME NEW f \in Files, ReadFile(h, f) PROVE TypeInv'
  <2>1. pc' \in [Handlers -> Labels]
    BY <1>0, <1>1 DEF ReadFile, Goto, Labels
  <2>2. doc' \in [Handlers -> [file : Files, text : Revs, version : Nat]]
    BY <1>0, <1>1 DEF ReadFile, NoDoc, TypeInv, TypeOK
  <2>3. req' \in [Handlers -> Reqs]
    BY <1>1, LessFiles DEF ReadFile, TypeInv
  <2>4. TypeOK'
    BY <1>1, <2>1, <2>2, <2>3 DEF ReadFile, TypeInv, TypeOK, Reqs, diskVars, docVars
  <2>5. \A k \in Handlers : DocInv(k)'
    BY <1>0, <1>1 DEF ReadFile, Goto, NoDoc, TypeInv, DocInv
  <2> QED
    BY <2>4, <2>5 DEF TypeInv
<1>2. ASSUME NEW f \in Files, ReadFails(h, f) PROVE TypeInv'
  <2>1. CASE req[h].op = "symbol"
    <3>0. req' = [req EXCEPT ![h].files = @ \ {f}]
      BY <1>2, <2>1 DEF ReadFails
    <3>1. req' \in [Handlers -> Reqs]
      BY <3>0, LessFiles DEF TypeInv
    <3>2. TypeOK'
      BY <1>2, <2>1, <3>1 DEF ReadFails, TypeInv, TypeOK, Reqs, diskVars, docVars
    <3> QED
      BY <1>2, <2>1, <3>2 DEF ReadFails, TypeInv, DocInv
  <2>2. CASE req[h].op # "symbol"
    <3>1. TypeOK'
      BY <1>2, <2>2, FinishType DEF ReadFails, TypeInv, TypeOK
    <3> QED
      BY <1>0, <1>plan, <1>2, <2>2, <3>1 DEF ReadFails, Finish, Goto, TypeInv, DocInv
  <2> QED
    BY <2>1, <2>2
<1>3. CASE Lookup(h)
  <2> DEFINE f == doc[h].file
  <2>1. f \in Files
    BY <1>0
  <2>2. NextVersion(opened[f].version) \in Nat \ {0} /\ FirstVersion \in Nat \ {0}
    BY <2>1, VersionTypes DEF TypeInv, FirstVersion
  <2>3. pc' \in [Handlers -> Labels]
    BY <1>0, <1>3 DEF Lookup, Goto, Labels, WhenUnknown
  <2>4. doc' \in [Handlers -> [file : Files, text : Revs, version : Nat]]
    <3>1. ASSUME NEW v \in Nat PROVE [doc EXCEPT ![h].version = v]
                                      \in [Handlers -> [file : Files, text : Revs, version : Nat]]
      BY <1>0
    <3> QED
      BY <1>0, <1>3, <2>2, <3>1 DEF Lookup
  <2>5. TypeOK'
    BY <1>3, <2>3, <2>4, LocalType DEF Lookup, TypeInv
  <2>6. \A k \in Handlers : DocInv(k)'
    BY <1>0, <1>3, <2>2 DEF Lookup, Goto, WhenUnknown, TypeInv, DocInv
  <2> QED
    BY <2>5, <2>6 DEF TypeInv
<1>4. CASE NotifyOpen(h)
  <2>1. pc' \in [Handlers -> Labels]
    BY <1>0, <1>4 DEF NotifyOpen, Goto, Labels, TypeInv, TypeOK
  <2>2. srv' \in [Files -> Docs]
    BY <1>4, SentType DEF NotifyOpen, TypeInv, TypeOK, Docs
  <2>3. TypeOK'
    BY <1>4, <2>1, <2>2 DEF NotifyOpen, TypeInv, TypeOK, diskVars
  <2> QED
    BY <1>0, <1>4, <2>3 DEF NotifyOpen, Goto, TypeInv, DocInv
<1>5. CASE NotifyChange(h)
  <2>1. pc' \in [Handlers -> Labels]
    BY <1>0, <1>5 DEF NotifyChange, Goto, Labels
  <2>2. srv' \in [Files -> Docs]
    BY <1>5, SentType DEF NotifyChange, TypeInv, TypeOK, Docs
  <2>3. TypeOK'
    BY <1>5, <2>1, <2>2 DEF NotifyChange, TypeInv, TypeOK, diskVars
  <2> QED
    BY <1>0, <1>5, <2>3 DEF NotifyChange, Goto, TypeInv, DocInv
<1>6. CASE SetOpen(h)
  <2>1. pc' \in [Handlers -> Labels]
    BY <1>0, <1>6 DEF SetOpen, Goto, Labels
  <2>2. opened' \in [Files -> Docs]
    BY <1>6, SentType DEF SetOpen, SentText, Sent, TypeInv, TypeOK, Docs
  <2>3. TypeOK'
    BY <1>6, <2>1, <2>2 DEF SetOpen, TypeInv, TypeOK, diskVars
  <2> QED
    BY <1>0, <1>6, <2>3 DEF SetOpen, Goto, TypeInv, DocInv
<1> QED
  BY <1>1, <1>2, <1>3, <1>4, <1>5, <1>6 DEF Sync

(* Requests keep what is known of documents: none is worked on when they   *)
(* start, and their answer only sets the plan.                             *)
LEMMA RequestInv ==
    ASSUME TypeInv, NEW h \in Handlers, Request(h)
    PROVE  TypeInv'
<1>0. pc \in [Handlers -> Labels] /\ doc \in [Handlers -> Locals] /\ plan \in [Handlers -> PlanRecs]
  BY DEF TypeInv, TypeOK, Locals, PlanRecs
<1>1. TypeOK'
  BY RequestType DEF TypeInv
<1>2. ASSUME NEW r, Begin(h, r) PROVE \A k \in Handlers : DocInv(k)'
  BY <1>0, <1>2 DEF Begin, Goto, TypeInv, DocInv
<1>3. CASE Ask(h) \/ \E p \in Plans : AnswerPlan(h, p)
  <2>1. \A k \in Handlers : DocInv(k)'
    BY <1>0, <1>3 DEF Ask, AnswerPlan, Goto, TypeInv, DocInv
  <2> QED
    BY <1>1, <2>1 DEF TypeInv
<1>4. CASE Replied(h)
  <2>1. \A k \in Handlers : DocInv(k)'
    BY <1>0, <1>4 DEF Replied, Finish, Goto, TypeInv, DocInv
  <2> QED
    BY <1>1, <2>1 DEF TypeInv
<1> QED
  BY <1>1, <1>2, <1>3, <1>4, RequestCases DEF BeginOne, BeginSymbol, BeginMove, TypeInv

(* The next step of a plan names files, and the rest of it is a plan. *)
LEMMA PlanTypes ==
    ASSUME TypeOK, NEW h \in Handlers, plan[h].todo # <<>>
    PROVE  /\ Target(h) \in Files /\ Head(plan[h].todo).to \in Files
           /\ Tail(plan[h].todo) \in Seq(Steps)
           /\ plan[h].edited \subseteq Files /\ plan[h].removed \subseteq Files
<1>1. plan[h].todo \in Seq(Steps) /\ plan[h].edited \subseteq Files /\ plan[h].removed \subseteq Files
  BY DEF TypeOK
<1>2. Head(plan[h].todo) \in Steps /\ Tail(plan[h].todo) \in Seq(Steps)
  BY <1>1
<1> QED
  BY <1>1, <1>2 DEF Target, Steps

(* A step of a plan leaves a plan. *)
LEMMA StepTypes ==
    ASSUME TypeOK, NEW h \in Handlers, plan[h].todo # <<>>, NEW f \in Files,
           StepDone(h) \/ StepEdited(h, f) \/ StepRemoved(h, f)
    PROVE  plan' \in [Handlers -> PlanRecs]
<1> DEFINE p == plan[h]
<1>1. plan \in [Handlers -> PlanRecs]
  BY DEF TypeOK, PlanRecs
<1>2. Tail(p.todo) \in Seq(Steps) /\ p.edited \subseteq Files /\ p.removed \subseteq Files
  BY PlanTypes
<1>3. /\ [p EXCEPT !.todo = Tail(@)] \in PlanRecs
      /\ [p EXCEPT !.todo = Tail(@), !.edited = @ \cup {f}] \in PlanRecs
      /\ [p EXCEPT !.todo = Tail(@), !.removed = @ \cup {f}] \in PlanRecs
  BY <1>1, <1>2 DEF PlanRecs
<1>4. \/ plan' = [plan EXCEPT ![h] = [p EXCEPT !.todo = Tail(@)]]
      \/ plan' = [plan EXCEPT ![h] = [p EXCEPT !.todo = Tail(@), !.edited = @ \cup {f}]]
      \/ plan' = [plan EXCEPT ![h] = [p EXCEPT !.todo = Tail(@), !.removed = @ \cup {f}]]
  BY <1>1 DEF StepDone, StepEdited, StepRemoved, NoteEdited, NoteRemoved, PlanRecs
<1> QED
  BY <1>1, <1>3, <1>4

(* Noting that a file is overwritten keeps the type of the note. *)
LEMMA OverwriteType ==
    ASSUME NEW f \in Files, Overwrites(f)
    PROVE  broken' \in BOOLEAN
BY Zenon DEF Overwrites

(* Moving a file keeps the types of the disk. *)
LEMMA MoveType ==
    ASSUME TypeOK, NEW f \in Files, NEW g \in Files, MoveOnDisk(f, g)
    PROVE  /\ disk' \in [Files -> Revs] /\ rev' \in Revs /\ broken' \in BOOLEAN
           /\ seen' \in [Handlers -> [Files -> SUBSET Revs]]
           /\ since' \in [Files -> SUBSET Revs]
<1>1. [disk EXCEPT ![f] = Missing, ![g] = disk[f]] \in [Files -> Revs]
  <2>1. disk \in [Files -> Revs] /\ Missing \in Revs
    BY BoundsAssumption DEF TypeOK, Revs, Missing
  <2>2. [disk EXCEPT ![f] = Missing] \in [Files -> Revs] /\ disk[f] \in Revs
    BY <2>1
  <2> QED
    BY <2>2
<1>2. broken' \in BOOLEAN
  BY OverwriteType DEF MoveOnDisk
<1> QED
  BY <1>1, <1>2, DiskType DEF MoveOnDisk, TypeOK

(* The steps that apply a plan to the disk. *)
LEMMA PlanStepType ==
    ASSUME TypeInv, NEW h \in Handlers,
           \/ EditRead(h) \/ EditWrite(h) \/ CreateFile(h) \/ RenameFile(h) \/ DeleteFile(h)
           \/ StepFails(h) \/ PlanApplied(h) \/ MoveFile(h) \/ MoveFails(h) \/ Applied(h)
    PROVE  TypeInv'
<1>0. pc \in [Handlers -> Labels] /\ doc \in [Handlers -> Locals] /\ disk \in [Files -> Revs]
      /\ plan \in [Handlers -> PlanRecs] /\ TypeOK
  BY DEF TypeInv, TypeOK, Locals, PlanRecs
<1>1. CASE EditRead(h)
  <2>1. plan[h].todo # <<>> /\ Target(h) \in Files
    BY <1>0, <1>1, PlanTypes DEF EditRead, StepIs
  <2>2. pc' \in [Handlers -> Labels] /\ doc' \in [Handlers -> Locals]
    BY <1>0, <1>1, <2>1 DEF EditRead, Goto, Labels, Locals, NoDoc
  <2>3. TypeOK'
    BY <1>0, <1>1, <2>2, LocalType DEF EditRead, Locals
  <2> QED
    BY <1>0, <1>1, <2>1, <2>3 DEF EditRead, Goto, NoDoc, TypeInv, DocInv
<1>2. CASE EditWrite(h)
  <2>1. doc[h].file \in Files /\ plan[h].todo # <<>>
    BY <1>0, <1>2 DEF EditWrite, Locals, TypeInv, DocInv
  <2>2. pc' \in [Handlers -> Labels]
    BY <1>0, <1>2 DEF EditWrite, Goto, Labels
  <2>3. plan' \in [Handlers -> PlanRecs]
    BY <1>0, <1>2, <2>1, StepTypes DEF EditWrite
  <2>4. TypeOK'
    BY <1>0, <1>2, <2>1, <2>2, <2>3, WriteType DEF EditWrite, TypeOK, docVars, PlanRecs
  <2> QED
    BY <1>0, <1>2, <2>4 DEF EditWrite, StepEdited, Goto, TypeInv, DocInv
<1>3. CASE CreateFile(h)
  <2>1. plan[h].todo # <<>> /\ Target(h) \in Files
    BY <1>0, <1>3, PlanTypes DEF CreateFile, StepIs
  <2>2. plan' \in [Handlers -> PlanRecs]
    BY <1>0, <1>3, <2>1, StepTypes DEF CreateFile
  <2>3. TypeOK'
    <3>1. broken' \in BOOLEAN
      BY <1>3, <2>1, OverwriteType DEF CreateFile
    <3> QED
      BY <1>0, <1>3, <2>1, <2>2, <3>1, WriteType DEF CreateFile, TypeOK, docVars, PlanRecs
  <2> QED
    BY <1>0, <1>3, <2>3 DEF CreateFile, StepIs, StepDone, TypeInv, DocInv
<1>4. CASE RenameFile(h)
  <2>1. plan[h].todo # <<>> /\ Target(h) \in Files /\ Head(plan[h].todo).to \in Files
    BY <1>0, <1>4, PlanTypes DEF RenameFile, StepIs
  <2>2. plan' \in [Handlers -> PlanRecs]
    BY <1>0, <1>4, <2>1, StepTypes DEF RenameFile
  <2>3. TypeOK'
    BY <1>0, <1>4, <2>1, <2>2, MoveType DEF RenameFile, TypeOK, docVars, PlanRecs
  <2> QED
    BY <1>0, <1>4, <2>3 DEF RenameFile, StepIs, StepRemoved, TypeInv, DocInv
<1>5. CASE DeleteFile(h)
  <2>1. plan[h].todo # <<>> /\ Target(h) \in Files
    BY <1>0, <1>5, PlanTypes DEF DeleteFile, StepIs
  <2>2. plan' \in [Handlers -> PlanRecs]
    BY <1>0, <1>5, <2>1, StepTypes DEF DeleteFile
  <2>3. [disk EXCEPT ![Target(h)] = Missing] \in [Files -> Revs]
    BY <1>0, <2>1 DEF Revs, Missing
  <2>4. TypeOK'
    BY <1>0, <1>5, <2>2, <2>3, DiskType DEF DeleteFile, TypeOK, docVars, PlanRecs
  <2> QED
    BY <1>0, <1>5, <2>4 DEF DeleteFile, StepIs, StepRemoved, TypeInv, DocInv
<1>6. CASE StepFails(h) \/ MoveFails(h) \/ Applied(h)
  <2>1. Finish(h) /\ broken' \in BOOLEAN
    BY <1>0, <1>6 DEF StepFails, MoveFails, Applied, TypeOK
  <2>2. TypeOK'
    BY <1>0, <2>1, FinishType
  <2> QED
    BY <1>0, <2>1, <2>2 DEF Finish, Goto, TypeInv, DocInv
<1>7. CASE PlanApplied(h)
  <2>1. pc' \in [Handlers -> Labels]
    BY <1>0, <1>7 DEF PlanApplied, Goto, Labels
  <2>2. TypeOK'
    BY <1>0, <1>7, <2>1, LocalType DEF PlanApplied, TypeOK
  <2> QED
    BY <1>0, <1>7, <2>2 DEF PlanApplied, Goto, TypeInv, DocInv
<1>8. CASE MoveFile(h)
  <2>1. req[h].from \in Files /\ req[h].to \in Files
    BY <1>0 DEF TypeOK
  <2>2. plan' \in [Handlers -> PlanRecs]
    <3>1. plan \in [Handlers -> PlanRecs]
      BY <1>0
    <3>2. [plan[h] EXCEPT !.removed = @ \cup {req[h].from}] \in PlanRecs
      BY <2>1, <3>1 DEF PlanRecs
    <3>3. plan' = [plan EXCEPT ![h] = [plan[h] EXCEPT !.removed = @ \cup {req[h].from}]]
      BY <1>8, <3>1 DEF MoveFile, NoteRemoved
    <3> QED
      BY <3>1, <3>2, <3>3
  <2>3. TypeOK'
    BY <1>0, <1>8, <2>1, <2>2, MoveType DEF MoveFile, TypeOK, docVars, PlanRecs
  <2> QED
    BY <1>0, <1>8, <2>3 DEF MoveFile, Reconciled, TypeInv, DocInv
<1> QED
  BY <1>1, <1>2, <1>3, <1>4, <1>5, <1>6, <1>7, <1>8

(* The steps that reconcile the server. *)
LEMMA ReconcileType ==
    ASSUME TypeInv, NEW h \in Handlers,
           \/ \E f \in Files : FindRemoved(h, f) \/ FindEdited(h, f)
           \/ NotifyClose(h) \/ DeleteOpen(h) \/ ReRead(h)
    PROVE  TypeInv'
<1>0. pc \in [Handlers -> Labels] /\ doc \in [Handlers -> Locals] /\ disk \in [Files -> Revs]
      /\ plan \in [Handlers -> PlanRecs] /\ TypeOK
  BY DEF TypeInv, TypeOK, Locals, PlanRecs
<1>1. ASSUME NEW f \in Files, FindRemoved(h, f) PROVE TypeInv'
  <2>0. [NoDoc EXCEPT !.file = f] \in Locals
    BY NoTypes DEF Locals, NoDoc
  <2>1. pc' \in [Handlers -> Labels] /\ doc' \in [Handlers -> Locals]
    BY <1>0, <1>1, <2>0 DEF FindRemoved, Goto, Labels
  <2>2. plan' \in [Handlers -> PlanRecs]
    <3>1. [plan[h] EXCEPT !.removed = @ \ {f}] \in PlanRecs
      BY <1>0 DEF PlanRecs
    <3>2. plan' = [plan EXCEPT ![h] = [plan[h] EXCEPT !.removed = @ \ {f}]]
      BY <1>0, <1>1 DEF FindRemoved
    <3> QED
      BY <1>0, <3>1, <3>2
  <2>3. TypeOK'
    BY <1>0, <1>1, <2>1, <2>2 DEF FindRemoved, TypeOK, Locals, diskVars, docVars, PlanRecs
  <2> QED
    BY <1>0, <1>1, <2>3 DEF FindRemoved, Goto, NoDoc, TypeInv, DocInv
<1>2. ASSUME NEW f \in Files, FindEdited(h, f) PROVE TypeInv'
  <2>1. NextVersion(opened[f].version) \in Nat \ {0}
    BY <1>0, VersionTypes
  <2>0. [file |-> f, text |-> Missing, version |-> NextVersion(opened[f].version)] \in Locals
    BY <2>1 DEF Locals, Revs, Missing
  <2>2. pc' \in [Handlers -> Labels] /\ doc' \in [Handlers -> Locals]
    BY <1>0, <1>2, <2>0 DEF FindEdited, Goto, Labels
  <2>3. plan' \in [Handlers -> PlanRecs]
    <3>1. [plan[h] EXCEPT !.edited = @ \ {f}] \in PlanRecs
      BY <1>0 DEF PlanRecs
    <3>2. plan' = [plan EXCEPT ![h] = [plan[h] EXCEPT !.edited = @ \ {f}]]
      BY <1>0, <1>2 DEF FindEdited
    <3> QED
      BY <1>0, <3>1, <3>2
  <2>4. TypeOK'
    BY <1>0, <1>2, <2>2, <2>3 DEF FindEdited, TypeOK, Locals, diskVars, docVars, PlanRecs
  <2> QED
    BY <1>0, <1>2, <2>1, <2>4 DEF FindEdited, Goto, TypeInv, DocInv
<1>3. CASE NotifyClose(h)
  <2>1. pc' \in [Handlers -> Labels] /\ srv' \in [Files -> Docs]
    BY <1>0, <1>3 DEF NotifyClose, Goto, Labels, TypeOK, Docs
  <2>2. TypeOK'
    BY <1>0, <1>3, <2>1 DEF NotifyClose, TypeOK, diskVars, PlanRecs
  <2> QED
    BY <1>0, <1>3, <2>2 DEF NotifyClose, Goto, TypeInv, DocInv
<1>4. CASE DeleteOpen(h)
  <2>1. pc' \in [Handlers -> Labels] /\ opened' \in [Files -> Docs]
    BY <1>0, <1>4 DEF DeleteOpen, Goto, Labels, TypeOK, Docs
  <2>2. TypeOK'
    BY <1>0, <1>4, <2>1 DEF DeleteOpen, TypeOK, diskVars, PlanRecs
  <2> QED
    BY <1>0, <1>4, <2>2 DEF DeleteOpen, Goto, TypeInv, DocInv
<1>5. CASE ReRead(h)
  <2>1. pc' \in [Handlers -> Labels] /\ doc' \in [Handlers -> Locals]
    BY <1>0, <1>5 DEF ReRead, Goto, Labels, Locals
  <2>2. TypeOK'
    BY <1>0, <1>5, <2>1, LocalType DEF ReRead, Locals
  <2> QED
    BY <1>0, <1>5, <2>2 DEF ReRead, Goto, Locals, TypeInv, DocInv
<1> QED
  BY <1>1, <1>2, <1>3, <1>4, <1>5

(* Every step keeps the types. *)
LEMMA TypeStep == TypeInv /\ [Next]_vars => TypeInv'
<1> SUFFICES ASSUME TypeInv, [Next]_vars PROVE TypeInv'
  OBVIOUS
<1>0. TypeOK
  BY DEF TypeInv
<1>1. ASSUME NEW f \in Files, UserEdits(f) PROVE TypeInv'
  <2>1. TypeOK'
    BY <1>0, <1>1, WriteType DEF UserEdits, TypeOK, docVars, PlanRecs
  <2> QED
    BY <1>1, <2>1 DEF UserEdits, TypeInv, DocInv
<1>3. ASSUME NEW h \in Handlers, Request(h) PROVE TypeInv'
  BY <1>3, RequestInv
<1>4. ASSUME NEW h \in Handlers, Sync(h) PROVE TypeInv'
  BY <1>4, SyncType
<1>5. ASSUME NEW h \in Handlers, Apply(h) PROVE TypeInv'
  BY <1>5, PlanStepType, ReconcileType DEF Apply
<1>6. CASE UNCHANGED vars
  BY <1>6 DEF vars, TypeInv, TypeOK, DocInv, diskVars, docVars
<1> QED
  BY <1>1, <1>3, <1>4, <1>5, <1>6 DEF Next

LEMMA InitType == Init => TypeInv
<1> SUFFICES ASSUME Init PROVE TypeInv
  OBVIOUS
<1>1. disk \in [Files -> Revs] /\ rev \in Revs
  BY DEF Init, Revs, Missing
<1>2. req \in [Handlers -> Reqs] /\ doc \in [Handlers -> Locals]
      /\ plan \in [Handlers -> PlanRecs]
  BY NoTypes DEF Init, Reqs, Locals, PlanRecs
<1>3. opened \in [Files -> Docs] /\ srv \in [Files -> Docs]
  BY DEF Init, Docs
<1>4. pc \in [Handlers -> Labels] /\ moved \subseteq Handlers
  BY DEF Init, Labels
<1>5. seen \in [Handlers -> [Files -> SUBSET Revs]] /\ since \in [Files -> SUBSET Revs]
  BY <1>1 DEF Init
<1>6. ops \in 0..MaxOps
  BY DEF Init
<1>7. TypeOK
  BY <1>1, <1>2, <1>3, <1>4, <1>5, <1>6 DEF Init, TypeOK, Reqs, Locals, PlanRecs
<1> QED
  BY <1>7 DEF Init, TypeInv, DocInv

(* Every variable keeps its type, whatever the number of handlers. *)
THEOREM TypeCorrect == Spec => []TypeOK
<1>1. TypeInv => TypeOK
  BY DEF TypeInv
<1> QED
  BY <1>1, InitType, TypeStep, PTL DEF Spec

-----------------------------------------------------------------------------
(* One handler. *)

InRecord == {"record", "rerecord", "forget"}
Agree(h) ==
    \A f \in Files : opened[f] = srv[f] \/ (pc[h] \in InRecord /\ doc[h].file = f)
Syncing == {"next", "lookup", "open", "change", "record"}
OneInv(h) == Agree(h) /\ StageInv(h) /\ FilesInv(h)

(* The steps that touch neither the documents nor the place of the handler. *)
LEMMA QuietStep ==
    ASSUME NEW H \in Handlers, OneInv(H),
           UNCHANGED <<docVars, pc, req, doc>>
    PROVE  OneInv(H)'
  BY DEF OneInv, Agree, StageInv, FilesInv, Sent, docVars

(* A reply. *)
LEMMA FinishStep ==
    ASSUME TypeInv, NEW H \in Handlers, OneInv(H), Finish(H),
           pc[H] \notin InRecord
    PROVE  OneInv(H)'
<1>1. pc'[H] = "idle" /\ req'[H] = NoReq
  BY DEF Finish, Goto, TypeInv, TypeOK
<1>2. Agree(H)'
  BY <1>1 DEF OneInv, Agree, Finish, docVars
<1>3. StageInv(H)'
  BY <1>1 DEF StageInv
<1>4. FilesInv(H)'
  BY <1>1 DEF Finish, docVars, FilesInv, NoReq
<1> QED
  BY <1>2, <1>3, <1>4 DEF OneInv

LEMMA RequestOne ==
    ASSUME TypeInv, NEW H \in Handlers, OneInv(H), Request(H)
    PROVE  OneInv(H)'
<1>0. pc \in [Handlers -> Labels] /\ req \in [Handlers -> Reqs]
  BY DEF TypeInv, TypeOK, Reqs
<1>1. ASSUME NEW r \in Reqs, Begin(H, r), r.op = "symbol" \/ \E f \in Files : r.files = {f}
      PROVE  OneInv(H)'
  <2>1. pc[H] = "idle" /\ pc'[H] = "next" /\ req'[H] = r /\ UNCHANGED <<docVars, doc>>
    BY <1>0, <1>1 DEF Begin, Goto
  <2>3. Agree(H)' /\ StageInv(H)'
    BY <2>1 DEF OneInv, Agree, StageInv, InRecord, docVars
  <2>4. FilesInv(H)'
    BY <1>1, <2>1 DEF FilesInv, docVars
  <2> QED
    BY <2>3, <2>4 DEF OneInv
<1>2. ASSUME NEW f \in Files, BeginOne(H, f) PROVE OneInv(H)'
  <2> PICK kind \in {"query", "apply"} : Begin(H, [NoReq EXCEPT !.op = kind, !.files = {f}])
    BY <1>2 DEF BeginOne
  <2>1. [NoReq EXCEPT !.op = kind, !.files = {f}] \in Reqs
    BY NoFileType DEF Begin, NoReq, Reqs
  <2>2. [NoReq EXCEPT !.op = kind, !.files = {f}].files = {f}
    BY DEF NoReq
  <2> QED
    BY <1>1, <2>1, <2>2
<1>3. ASSUME NEW fs \in SUBSET Files, BeginSymbol(H, fs) PROVE OneInv(H)'
  <2>1. [NoReq EXCEPT !.op = "symbol", !.files = fs] \in Reqs
    BY <1>3, NoFileType DEF BeginSymbol, Begin, NoReq, Reqs
  <2>2. [NoReq EXCEPT !.op = "symbol", !.files = fs].op = "symbol"
    BY DEF NoReq
  <2> QED
    BY <1>1, <1>3, <2>1, <2>2 DEF BeginSymbol
<1>4. ASSUME NEW f \in Files, NEW g \in Files, BeginMove(H, f, g) PROVE OneInv(H)'
  <2>1. [op |-> "mv", files |-> {f}, from |-> f, to |-> g] \in Reqs
    BY <1>4 DEF BeginMove, Begin, Reqs
  <2> QED
    BY <1>1, <1>4, <2>1 DEF BeginMove
<1>5. CASE Ask(H)
  <2>1. pc[H] = "next" /\ pc'[H] = "asked" /\ req[H].files = {}
    BY <1>0, <1>5 DEF Ask, Goto
  <2> QED
    BY <1>5, <2>1 DEF Ask, OneInv, Agree, StageInv, FilesInv, InRecord, docVars
<1>6. CASE Replied(H)
  BY <1>6, FinishStep DEF Replied, InRecord
<1>7. ASSUME NEW p \in Plans, AnswerPlan(H, p) PROVE OneInv(H)'
  <2>1. pc[H] = "asked" /\ pc'[H] = "plan"
    BY <1>0, <1>7 DEF AnswerPlan, Goto
  <2> QED
    BY <1>7, <2>1 DEF AnswerPlan, OneInv, Agree, StageInv, FilesInv, InRecord, docVars
<1> QED
  BY <1>2, <1>3, <1>4, <1>5, <1>6, <1>7, RequestCases

(* Reading, looking up, telling the server and recording. *)
LEMMA SyncOne ==
    ASSUME TypeInv, NEW H \in Handlers, OneInv(H), Sync(H)
    PROVE  OneInv(H)'
<1>0. /\ pc \in [Handlers -> Labels] /\ req \in [Handlers -> Reqs]
      /\ doc \in [Handlers -> Locals] /\ TypeOK
      /\ srv \in [Files -> Docs] /\ opened \in [Files -> Docs]
  BY DEF TypeInv, TypeOK, Reqs, Locals
<1>1. ASSUME NEW f \in Files, ReadFile(H, f) PROVE OneInv(H)'
  <2>1. /\ pc[H] = "next" /\ pc'[H] = "lookup" /\ f \in req[H].files
        /\ req'[H].op = req[H].op /\ req'[H].files = req[H].files \ {f}
        /\ UNCHANGED <<docVars>>
    BY <1>0, <1>1 DEF ReadFile, Goto, Reqs
  <2>2. Agree(H)' /\ StageInv(H)'
    BY <2>1 DEF OneInv, Agree, StageInv, InRecord, docVars
  <2>3. FilesInv(H)'
    BY <2>1 DEF OneInv, FilesInv, Syncing, docVars
  <2> QED
    BY <2>2, <2>3 DEF OneInv
<1>2. ASSUME NEW f \in Files, ReadFails(H, f) PROVE OneInv(H)'
  <2>1. CASE req[H].op = "symbol"
    <3>1. req'[H].op = "symbol" /\ UNCHANGED <<docVars, pc, doc>>
      BY <1>0, <1>2, <2>1 DEF ReadFails, Reqs
    <3> QED
      BY <2>1, <3>1 DEF OneInv, Agree, StageInv, FilesInv, Sent, docVars
  <2>2. CASE req[H].op # "symbol"
    BY <1>2, <2>2, FinishStep DEF ReadFails, InRecord
  <2> QED
    BY <2>1, <2>2
<1>3. CASE Lookup(H)
  <2> DEFINE f == doc[H].file
  <2>1. f \in Files /\ opened[f].version < NextVersion(opened[f].version)
    BY <1>0, VersionTypes DEF Locals
  <2>2. /\ pc[H] = "lookup" /\ doc'[H].file = f /\ UNCHANGED <<docVars, req>>
        /\ \/ opened[f] = Closed /\ pc'[H] = "open"
           \/ opened[f] # Closed /\ pc'[H] = "change"
                 /\ doc'[H].version = NextVersion(opened[f].version)
           \/ pc'[H] = "next"
    BY <1>0, <1>3 DEF Lookup, Goto, WhenUnknown, Locals
  <2>3. Agree(H)'
    BY <2>2 DEF OneInv, Agree, InRecord, docVars
  <2>4. StageInv(H)'
    BY <2>1, <2>2 DEF StageInv, docVars
  <2>5. FilesInv(H)'
    BY <2>2 DEF OneInv, FilesInv, Syncing, docVars
  <2> QED
    BY <2>3, <2>4, <2>5 DEF OneInv
<1>4. CASE NotifyOpen(H)
  <2>1. /\ pc[H] = "open" /\ pc'[H] = "record" /\ UNCHANGED <<opened, req, doc>>
        /\ srv' = [srv EXCEPT ![doc[H].file] = Sent(H)]
    BY <1>0, <1>4 DEF NotifyOpen, Goto
  <2>2. doc[H].file \in Files
    BY <1>0 DEF Locals
  <2>3. Agree(H)'
    BY <1>0, <2>1, <2>2 DEF OneInv, Agree, InRecord
  <2>4. StageInv(H)'
    BY <1>0, <2>1, <2>2 DEF StageInv, Sent
  <2>5. FilesInv(H)'
    BY <2>1 DEF OneInv, FilesInv, Syncing
  <2> QED
    BY <2>3, <2>4, <2>5 DEF OneInv
<1>5. CASE NotifyChange(H)
  <2>1. /\ pc[H] \in {"change", "rechange"} /\ UNCHANGED <<opened, req, doc>>
        /\ pc'[H] = IF pc[H] = "change" THEN "record" ELSE "rerecord"
    BY <1>0, <1>5 DEF NotifyChange, Goto
  <2>2. doc[H].file \in Files
    BY <1>0 DEF Locals
  <2>3. srv[doc[H].file] # Closed
    BY <2>1, <2>2 DEF OneInv, Agree, StageInv, InRecord
  <2>4. srv' = [srv EXCEPT ![doc[H].file] = Sent(H)]
    BY <1>5, <2>3 DEF NotifyChange
  <2>5. Agree(H)'
    BY <1>0, <2>1, <2>2, <2>4 DEF OneInv, Agree, InRecord
  <2>6. StageInv(H)'
    BY <1>0, <2>1, <2>2, <2>4 DEF StageInv, Sent
  <2>7. FilesInv(H)'
    BY <2>1 DEF OneInv, FilesInv, Syncing
  <2> QED
    BY <2>5, <2>6, <2>7 DEF OneInv
<1>6. CASE SetOpen(H)
  <2>1. /\ pc[H] \in {"record", "rerecord"} /\ UNCHANGED <<srv, req, doc>>
        /\ pc'[H] = IF pc[H] = "record" THEN "next" ELSE "reconcile"
        /\ opened' = [opened EXCEPT ![doc[H].file] = Sent(H)]
    BY <1>0, <1>6 DEF SetOpen, Goto, SentText, Sent
  <2>2. doc[H].file \in Files /\ srv[doc[H].file] = Sent(H)
    BY <1>0, <2>1 DEF Locals, OneInv, StageInv
  <2>3. Agree(H)'
    BY <1>0, <2>1, <2>2 DEF OneInv, Agree, InRecord
  <2>4. StageInv(H)'
    BY <2>1 DEF StageInv
  <2>5. FilesInv(H)'
    BY <2>1 DEF OneInv, FilesInv, Syncing
  <2> QED
    BY <2>3, <2>4, <2>5 DEF OneInv
<1> QED
  BY <1>1, <1>2, <1>3, <1>4, <1>5, <1>6 DEF Sync

(* A step of applyPlan that leaves opened and srv alone, and the document  *)
(* too unless it goes on to compare it with opened.                        *)
LEMMA PlanOne ==
    ASSUME NEW H \in Handlers, OneInv(H), UNCHANGED <<docVars, req>>,
           pc[H] \notin Syncing \cup InRecord \cup {"idle"},
           pc'[H] \in {"plan", "write", "reconcile", "close"}
    PROVE  OneInv(H)'
<1>1. Agree(H)'
  BY DEF OneInv, Agree, InRecord, docVars
<1>2. StageInv(H)'
  BY DEF StageInv
<1>3. FilesInv(H)'
  BY DEF OneInv, FilesInv, Syncing, docVars
<1> QED
  BY <1>1, <1>2, <1>3 DEF OneInv

LEMMA ApplyOne ==
    ASSUME TypeInv, NEW H \in Handlers, OneInv(H), Apply(H)
    PROVE  OneInv(H)'
<1>0. /\ pc \in [Handlers -> Labels] /\ doc \in [Handlers -> Locals] /\ TypeOK
      /\ srv \in [Files -> Docs] /\ opened \in [Files -> Docs]
  BY DEF TypeInv, TypeOK, Locals
<1>1. CASE \/ EditRead(H) \/ EditWrite(H) \/ CreateFile(H) \/ RenameFile(H) \/ DeleteFile(H)
           \/ PlanApplied(H) \/ MoveFile(H)
  <2>1. /\ pc[H] \in {"plan", "write", "reconcile"} /\ UNCHANGED <<docVars, req>>
        /\ pc'[H] \in {"plan", "write", "reconcile"}
    BY <1>0, <1>1 DEF EditRead, EditWrite, CreateFile, RenameFile, DeleteFile, PlanApplied,
                      MoveFile, Reconciled, StepIs, Goto
  <2> QED
    BY <2>1, PlanOne DEF Syncing, InRecord
<1>2. CASE StepFails(H) \/ MoveFails(H) \/ Applied(H)
  <2>1. Finish(H) /\ pc[H] \in {"plan", "write", "reconcile"}
    BY <1>2 DEF StepFails, MoveFails, Applied, Reconciled
  <2> QED
    BY <2>1, FinishStep DEF InRecord
<1>3. ASSUME NEW f \in Files, FindRemoved(H, f) PROVE OneInv(H)'
  <2>1. /\ pc[H] = "reconcile" /\ UNCHANGED <<docVars, req>>
        /\ pc'[H] \in {"reconcile", "close"}
    BY <1>0, <1>3 DEF FindRemoved, Goto
  <2> QED
    BY <2>1, PlanOne DEF Syncing, InRecord
<1>4. ASSUME NEW f \in Files, FindEdited(H, f) PROVE OneInv(H)'
  <2>1. pc[H] = "reconcile" /\ UNCHANGED <<docVars, req>>
    BY <1>4 DEF FindEdited
  <2>2. CASE opened[f] = Closed
    <3>1. pc'[H] = "reconcile"
      BY <1>4, <2>1, <2>2 DEF FindEdited
    <3> QED
      BY <2>1, <3>1, PlanOne DEF Syncing, InRecord
  <2>3. CASE opened[f] # Closed
    <3>1. /\ pc'[H] = "reread" /\ doc'[H].file = f
          /\ doc'[H].version = NextVersion(opened[f].version)
      BY <1>0, <1>4, <2>3 DEF FindEdited, Goto
    <3>2. opened[f].version < NextVersion(opened[f].version)
      BY <1>0, VersionTypes
    <3>3. Agree(H)' /\ FilesInv(H)'
      BY <2>1, <3>1 DEF OneInv, Agree, FilesInv, InRecord, Syncing, docVars
    <3>4. StageInv(H)'
      BY <2>1, <2>3, <3>1, <3>2 DEF StageInv, docVars
    <3> QED
      BY <3>3, <3>4 DEF OneInv
  <2> QED
    BY <2>2, <2>3
<1>5. CASE NotifyClose(H)
  <2>1. /\ pc[H] = "close" /\ pc'[H] = "forget" /\ UNCHANGED <<opened, req, doc>>
        /\ srv' = [srv EXCEPT ![doc[H].file] = Closed]
    BY <1>0, <1>5 DEF NotifyClose, Goto
  <2>2. doc[H].file \in Files
    BY <1>0 DEF Locals
  <2>3. Agree(H)' /\ StageInv(H)'
    BY <1>0, <2>1, <2>2 DEF OneInv, Agree, StageInv, InRecord
  <2>4. FilesInv(H)'
    BY <2>1 DEF OneInv, FilesInv, Syncing
  <2> QED
    BY <2>3, <2>4 DEF OneInv
<1>6. CASE DeleteOpen(H)
  <2>1. /\ pc[H] = "forget" /\ pc'[H] = "reconcile" /\ UNCHANGED <<srv, req, doc>>
        /\ opened' = [opened EXCEPT ![doc[H].file] = Closed]
    BY <1>0, <1>6 DEF DeleteOpen, Goto
  <2>2. doc[H].file \in Files /\ srv[doc[H].file] = Closed
    BY <1>0, <2>1 DEF Locals, OneInv, StageInv
  <2>3. Agree(H)' /\ StageInv(H)'
    BY <1>0, <2>1, <2>2 DEF OneInv, Agree, StageInv, InRecord
  <2>4. FilesInv(H)'
    BY <2>1 DEF OneInv, FilesInv, Syncing
  <2> QED
    BY <2>3, <2>4 DEF OneInv
<1>7. CASE ReRead(H)
  <2>1. /\ pc[H] = "reread" /\ pc'[H] \in {"reconcile", "rechange"}
        /\ UNCHANGED <<docVars, req>>
        /\ doc'[H].file = doc[H].file /\ doc'[H].version = doc[H].version
    BY <1>0, <1>7 DEF ReRead, Goto, Locals
  <2>2. Agree(H)' /\ StageInv(H)'
    BY <2>1 DEF OneInv, Agree, StageInv, InRecord, docVars
  <2>3. FilesInv(H)'
    BY <2>1 DEF OneInv, FilesInv, Syncing, docVars
  <2> QED
    BY <2>2, <2>3 DEF OneInv
<1> QED
  BY <1>1, <1>2, <1>3, <1>4, <1>5, <1>6, <1>7 DEF Apply

(* With one handler the invariant holds in every reachable state. *)
LEMMA OneInductive ==
    ASSUME NEW CONSTANT H, Handlers = {H}
    PROVE  Spec => [](TypeInv /\ OneInv(H))
<1>1. Init => OneInv(H)
  BY DEF Init, OneInv, Agree, StageInv, FilesInv, NoReq
<1>2. TypeInv /\ OneInv(H) /\ [Next]_vars => OneInv(H)'
  <2> SUFFICES ASSUME TypeInv, OneInv(H), [Next]_vars PROVE OneInv(H)'
    OBVIOUS
  <2>1. ASSUME NEW f \in Files, UserEdits(f) PROVE OneInv(H)'
    BY <2>1, QuietStep DEF UserEdits
  <2>3. CASE Request(H) \/ Sync(H) \/ Apply(H)
    BY <2>3, RequestOne, SyncOne, ApplyOne
  <2>4. CASE UNCHANGED vars
    BY <2>4, QuietStep DEF vars
  <2> QED
    BY <2>1, <2>3, <2>4 DEF Next
<1> QED
  BY <1>1, <1>2, InitType, TypeStep, PTL DEF Spec

(* With one handler, that is while requests do not overlap, the conjunction *)
(* checked by TLC is an invariant.                                          *)
THEOREM Inductive ==
    ASSUME NEW CONSTANT H, Handlers = {H}
    PROVE  Spec => []IInv
<1>1. TypeInv /\ OneInv(H) => IInv
  BY DEF IInv, OneInv, Agree, OpenedIsSent, Recording, InRecord
<1> QED
  BY <1>1, OneInductive, PTL

(* context.go:13-14: while requests do not overlap, the table `opened` is  *)
(* what was last sent to the server.                                       *)
THEOREM TableIsSent ==
    ASSUME NEW CONSTANT H, Handlers = {H}
    PROVE  Spec => []OpenedIsSent
<1>1. IInv => OpenedIsSent
  BY DEF IInv
<1> QED
  BY <1>1, Inductive, PTL

(* While requests do not overlap, the versions the server is sent for a    *)
(* document that stays open increase.                                      *)
THEOREM VersionOrder ==
    ASSUME NEW CONSTANT H, Handlers = {H}
    PROVE  Spec => VersionsIncrease
<1> DEFINE Grows(f) == srv[f] # Closed /\ srv'[f] \notin {Closed, srv[f]} =>
                           srv'[f].version > srv[f].version
<1>1. TypeInv /\ OneInv(H) /\ [Next]_vars => [\A f \in Files : Grows(f)]_srv
  <2> SUFFICES ASSUME TypeInv, OneInv(H), [Next]_vars, NEW k \in Files PROVE Grows(k)
    OBVIOUS
  <2>0. pc \in [Handlers -> Labels] /\ doc \in [Handlers -> Locals] /\ srv \in [Files -> Docs]
    BY DEF TypeInv, TypeOK, Locals
  <2>1. CASE NotifyOpen(H)
    <3>1. srv[doc[H].file] = Closed
      BY <2>0, <2>1 DEF NotifyOpen, OneInv, Agree, StageInv, InRecord, Locals
    <3> QED
      BY <2>0, <2>1, <3>1 DEF NotifyOpen
  <2>2. CASE NotifyChange(H)
    <3>1. srv[doc[H].file].version < doc[H].version
      BY <2>0, <2>2 DEF NotifyChange, OneInv, Agree, StageInv, InRecord, Locals
    <3>2. k = doc[H].file => srv'[k] = srv[k] \/ srv'[k].version = doc[H].version
      BY <2>0, <2>2 DEF NotifyChange, Sent
    <3>3. k # doc[H].file => srv'[k] = srv[k]
      BY <2>0, <2>2 DEF NotifyChange
    <3>4. srv[k].version \in Nat /\ doc[H].version \in Nat
      BY <2>0, VersionTypes DEF TypeInv, Locals
    <3> QED
      BY <3>1, <3>2, <3>3, <3>4
  <2>3. CASE NotifyClose(H)
    BY <2>0, <2>3 DEF NotifyClose
  <2>4. CASE UNCHANGED srv
    BY <2>4
  <2>5. NotifyOpen(H) \/ NotifyChange(H) \/ NotifyClose(H) \/ UNCHANGED srv
    <3>1. Request(H) => UNCHANGED srv
      BY RequestCases DEF BeginOne, BeginSymbol, BeginMove, Begin, Ask, Replied, Finish,
             AnswerPlan, docVars
    <3>2. Sync(H) => NotifyOpen(H) \/ NotifyChange(H) \/ UNCHANGED srv
      BY DEF Sync, ReadFile, ReadFails, Finish, Lookup, SetOpen, docVars
    <3>3. Apply(H) => NotifyClose(H) \/ UNCHANGED srv
      BY DEF Apply, EditRead, EditWrite, CreateFile, RenameFile, DeleteFile, StepFails, Finish,
             PlanApplied, FindRemoved, FindEdited, DeleteOpen, ReRead, Applied, MoveFile,
             MoveFails, docVars
    <3>4. ASSUME NEW g \in Files, UserEdits(g) PROVE UNCHANGED srv
      BY <3>4 DEF UserEdits, docVars
    <3>5. UNCHANGED vars => UNCHANGED srv
      BY DEF vars, docVars
    <3> QED
      BY <3>1, <3>2, <3>3, <3>4, <3>5, Zenon DEF Next
  <2> QED
    BY <2>1, <2>2, <2>3, <2>4, <2>5
<1> QED
  BY <1>1, OneInductive, PTL DEF Spec, VersionsIncrease
-----------------------------------------------------------------------------
(* Any number of handlers that overlap in any way, as long as none of them *)
(* applies a plan: nothing closes a document then.                         *)

AskLabels == {"idle", "next", "lookup", "open", "change", "record", "asked"}
OpenAtServer(f) == srv[f] # Closed
InTable(f) == opened[f] # Closed

(* A handler that is about to send a change, to record one or to ask has a *)
(* document that is open at the server.                                    *)
AskOf(h) ==
    /\ pc[h] \in AskLabels /\ req[h].op \in {"query", "symbol", "none"}
    /\ pc[h] = "idle" => req[h] = NoReq
    /\ pc[h] = "change" => InTable(doc[h].file)
    /\ pc[h] = "record" => OpenAtServer(doc[h].file)
    /\ req[h].op = "query" /\ req[h].files # {} =>
           pc[h] = "next" /\ \E f \in Files : req[h].files = {f}
    /\ req[h].op = "query" /\ req[h].files = {} /\ pc[h] \in {"next", "asked"} =>
           OpenAtServer(doc[h].file)

(* What the table calls open is open at the server. *)
TableOpen == \A f \in Files : InTable(f) => OpenAtServer(f)
AskInv == TableOpen /\ \A h \in Handlers : AskOf(h)

(* A step of h that closes nothing needs a look at h alone. *)
LEMMA AskStep ==
    ASSUME TypeInv, AskInv, NEW h \in Handlers, AskOf(h)', TableOpen',
           \A f \in Files : /\ OpenAtServer(f) => OpenAtServer(f)'
                            /\ InTable(f) => InTable(f)',
           \A k \in Handlers \ {h} : pc'[k] = pc[k] /\ req'[k] = req[k] /\ doc'[k] = doc[k]
    PROVE  AskInv'
<1>1. \A k \in Handlers : doc[k].file \in Files
  BY DEF TypeInv, TypeOK
<1>2. ASSUME NEW k \in Handlers \ {h} PROVE AskOf(k)'
  <2>1. AskOf(k) /\ doc[k].file \in Files /\ pc'[k] = pc[k] /\ req'[k] = req[k] /\ doc'[k] = doc[k]
    BY <1>1 DEF AskInv
  <2> QED
    BY <2>1 DEF AskOf
<1> QED
  BY <1>2 DEF AskInv

(* A handler that replies is idle, and the documents stay. *)
LEMMA AskFinish ==
    ASSUME TypeInv, AskInv, NEW h \in Handlers, Finish(h)
    PROVE  AskInv'
<1>0. pc \in [Handlers -> Labels] /\ req \in [Handlers -> Reqs] /\ doc \in [Handlers -> Locals]
  BY DEF TypeInv, TypeOK, Locals, Reqs
<1>1. pc'[h] = "idle" /\ req'[h] = NoReq /\ UNCHANGED <<opened, srv>>
  BY <1>0 DEF Finish, Goto, docVars
<1>2. \A k \in Handlers \ {h} : pc'[k] = pc[k] /\ req'[k] = req[k] /\ doc'[k] = doc[k]
  BY <1>0 DEF Finish, Goto
<1>3. AskOf(h)' /\ TableOpen'
  BY <1>1 DEF AskOf, AskInv, TableOpen, AskLabels, InTable, OpenAtServer, NoReq
<1> QED
  BY <1>1, <1>2, <1>3, AskStep DEF InTable, OpenAtServer

(* Starting a request, and the request itself. *)
LEMMA AskRequest ==
    ASSUME TypeInv, AskInv, Ops \subseteq {"query", "symbol"}, NEW h \in Handlers, Request(h)
    PROVE  AskInv'
<1>0. pc \in [Handlers -> Labels] /\ req \in [Handlers -> Reqs] /\ doc \in [Handlers -> Locals]
  BY DEF TypeInv, TypeOK, Locals, Reqs
<1>1. ASSUME NEW r, Begin(h, r), \/ r.op = "symbol"
                                 \/ r.op = "query" /\ \E f \in Files : r.files = {f}
      PROVE  AskInv'
  <2>1. pc'[h] = "next" /\ req'[h] = r /\ UNCHANGED <<opened, srv, doc>>
    BY <1>0, <1>1 DEF Begin, Goto, docVars
  <2>2. \A k \in Handlers \ {h} : pc'[k] = pc[k] /\ req'[k] = req[k] /\ doc'[k] = doc[k]
    BY <1>0, <1>1 DEF Begin, Goto
  <2>3. AskOf(h)' /\ TableOpen'
    BY <1>1, <2>1 DEF AskOf, AskInv, TableOpen, AskLabels, InTable, OpenAtServer
  <2> QED
    BY <2>1, <2>2, <2>3, AskStep DEF InTable, OpenAtServer
<1>2. ASSUME NEW f \in Files, BeginOne(h, f) PROVE AskInv'
  <2> PICK kind \in {"query", "apply"} : Begin(h, [NoReq EXCEPT !.op = kind, !.files = {f}])
    BY <1>2 DEF BeginOne
  <2>1. [NoReq EXCEPT !.op = kind, !.files = {f}].op = kind
        /\ [NoReq EXCEPT !.op = kind, !.files = {f}].files = {f} /\ kind = "query"
    BY DEF Begin, NoReq
  <2> QED
    BY <1>1, <2>1
<1>3. ASSUME NEW fs \in SUBSET Files, BeginSymbol(h, fs) PROVE AskInv'
  <2>1. [NoReq EXCEPT !.op = "symbol", !.files = fs].op = "symbol"
    BY DEF NoReq
  <2> QED
    BY <1>1, <1>3, <2>1 DEF BeginSymbol
<1>4. ASSUME NEW f \in Files, NEW g \in Files, BeginMove(h, f, g) PROVE AskInv'
  BY <1>4 DEF BeginMove, Begin
<1>5. CASE Ask(h)
  <2>1. pc[h] = "next" /\ req[h].files = {} /\ pc'[h] = "asked" /\ UNCHANGED <<opened, srv, doc, req>>
    BY <1>0, <1>5 DEF Ask, Goto, docVars
  <2>2. \A k \in Handlers \ {h} : pc'[k] = pc[k] /\ req'[k] = req[k] /\ doc'[k] = doc[k]
    BY <1>0, <1>5 DEF Ask, Goto
  <2>3. AskOf(h)' /\ TableOpen'
    BY <2>1 DEF AskOf, AskInv, TableOpen, AskLabels, InTable, OpenAtServer
  <2> QED
    BY <2>1, <2>2, <2>3, AskStep DEF InTable, OpenAtServer
<1>6. CASE Replied(h)
  BY <1>6, AskFinish DEF Replied
<1>7. ASSUME NEW p \in Plans, AnswerPlan(h, p) PROVE AskInv'
  BY <1>7 DEF AnswerPlan, AskInv, AskOf
<1> QED
  BY <1>2, <1>3, <1>4, <1>5, <1>6, <1>7, RequestCases

(* syncDoc. *)
LEMMA AskSync ==
    ASSUME TypeInv, AskInv, NEW h \in Handlers, Sync(h)
    PROVE  AskInv'
<1>0. /\ pc \in [Handlers -> Labels] /\ req \in [Handlers -> Reqs] /\ doc \in [Handlers -> Locals]
      /\ opened \in [Files -> Docs] /\ srv \in [Files -> Docs]
      /\ doc[h].file \in Files /\ DocInv(h) /\ AskOf(h) /\ TableOpen
  BY DEF TypeInv, TypeOK, Locals, Reqs, AskInv
<1> DEFINE Others == \A k \in Handlers \ {h} : pc'[k] = pc[k] /\ req'[k] = req[k] /\ doc'[k] = doc[k]
<1>1. ASSUME NEW f \in Files, ReadFile(h, f) PROVE AskInv'
  <2>1. pc[h] = "next" /\ pc'[h] = "lookup" /\ UNCHANGED <<opened, srv>> /\ Others
    BY <1>0, <1>1 DEF ReadFile, Goto, docVars
  <2>2. req'[h].op = req[h].op /\ req'[h].files = req[h].files \ {f} /\ f \in req[h].files
    BY <1>0, <1>1 DEF ReadFile, Reqs
  <2>3. req[h].op = "query" => req'[h].files = {}
    BY <1>0, <2>2 DEF AskOf
  <2>4. AskOf(h)' /\ TableOpen'
    BY <1>0, <2>1, <2>2, <2>3 DEF AskOf, TableOpen, AskLabels, InTable, OpenAtServer
  <2> QED
    BY <2>1, <2>4, AskStep DEF InTable, OpenAtServer
<1>2. ASSUME NEW f \in Files, ReadFails(h, f) PROVE AskInv'
  <2>1. CASE req[h].op = "symbol"
    <3>1. UNCHANGED <<opened, srv, pc, doc>> /\ Others
      BY <1>0, <1>2, <2>1 DEF ReadFails, docVars
    <3>2. req'[h].op = "symbol" /\ pc[h] = "next"
      BY <1>0, <1>2, <2>1 DEF ReadFails, Reqs
    <3>3. AskOf(h)' /\ TableOpen'
      BY <1>0, <3>1, <3>2 DEF AskOf, TableOpen, AskLabels, InTable, OpenAtServer
    <3> QED
      BY <3>1, <3>3, AskStep DEF InTable, OpenAtServer
  <2> QED
    BY <1>2, <2>1, AskFinish DEF ReadFails
<1>3. CASE Lookup(h)
  <2>1. pc[h] = "lookup" /\ UNCHANGED <<opened, srv, req>> /\ Others
    BY <1>0, <1>3 DEF Lookup, Goto, docVars
  <2>2. doc'[h].file = doc[h].file
    BY <1>0, <1>3 DEF Lookup, Locals
  <2>3. \/ pc'[h] = "open"
        \/ pc'[h] \in {"change", "next"} /\ InTable(doc[h].file)
    BY <1>0, <1>3 DEF Lookup, Goto, WhenUnknown, InTable
  <2>4. AskOf(h)' /\ TableOpen'
    BY <1>0, <2>1, <2>2, <2>3 DEF AskOf, TableOpen, AskLabels, InTable, OpenAtServer
  <2> QED
    BY <2>1, <2>4, AskStep DEF InTable, OpenAtServer
<1>4. CASE NotifyOpen(h)
  <2>1. pc[h] = "open" /\ pc'[h] = "record" /\ UNCHANGED <<opened, doc, req>> /\ Others
    BY <1>0, <1>4 DEF NotifyOpen, Goto
  <2>2. Sent(h) # Closed
    BY <1>0, <2>1 DEF DocInv, Sent, Closed
  <2>3. /\ srv'[doc[h].file] # Closed
        /\ \A f \in Files : srv[f] # Closed => srv'[f] # Closed
    BY <1>0, <1>4, <2>2 DEF NotifyOpen
  <2>4. AskOf(h)' /\ TableOpen'
    BY <1>0, <2>1, <2>3 DEF AskOf, TableOpen, AskLabels, InTable, OpenAtServer
  <2> QED
    BY <2>1, <2>3, <2>4, AskStep DEF InTable, OpenAtServer
<1>5. CASE NotifyChange(h)
  <2>1. pc[h] = "change" /\ pc'[h] = "record" /\ UNCHANGED <<opened, doc, req>> /\ Others
    BY <1>0, <1>5 DEF NotifyChange, Goto, AskOf, AskLabels
  <2>2. Sent(h) # Closed /\ srv[doc[h].file] # Closed
    BY <1>0, <2>1 DEF DocInv, Sent, Closed, AskOf, TableOpen, OpenAtServer
  <2>3. \A f \in Files : srv[f] # Closed => srv'[f] # Closed
    BY <1>0, <1>5, <2>2 DEF NotifyChange
  <2>4. AskOf(h)' /\ TableOpen'
    BY <1>0, <2>1, <2>2, <2>3 DEF AskOf, TableOpen, AskLabels, InTable, OpenAtServer
  <2> QED
    BY <2>1, <2>3, <2>4, AskStep DEF InTable, OpenAtServer
<1>6. CASE SetOpen(h)
  <2>1. pc[h] = "record" /\ pc'[h] = "next" /\ UNCHANGED <<srv, doc, req>> /\ Others
    BY <1>0, <1>6 DEF SetOpen, Goto, AskOf, AskLabels
  <2>2. \A f \in Files : opened[f] # Closed => opened'[f] # Closed
    <3>1. [version |-> doc[h].version, text |-> SentText(h)] # Closed
      BY <1>0, <2>1 DEF DocInv, Closed
    <3> QED
      BY <1>0, <1>6, <3>1 DEF SetOpen
  <2>3. \A f \in Files : opened'[f] # Closed => opened[f] # Closed \/ f = doc[h].file
    BY <1>0, <1>6 DEF SetOpen
  <2>4. AskOf(h)' /\ TableOpen'
    BY <1>0, <2>1, <2>3 DEF AskOf, TableOpen, AskLabels, InTable, OpenAtServer
  <2> QED
    BY <2>1, <2>2, <2>4, AskStep DEF InTable, OpenAtServer
<1> QED
  BY <1>1, <1>2, <1>3, <1>4, <1>5, <1>6 DEF Sync

(* However queries and symbol searches overlap, none is asked about a      *)
(* document the server was never given (sync.go:80-87).                    *)
THEOREM QueriesAskedOpen ==
    ASSUME Ops \subseteq {"query", "symbol"}
    PROVE  Spec => []AskedIsOpen
<1>1. Init => AskInv
  BY DEF Init, AskInv, AskOf, TableOpen, AskLabels, InTable, NoReq
<1>2. TypeInv /\ AskInv /\ [Next]_vars => AskInv'
  <2> SUFFICES ASSUME TypeInv, AskInv, [Next]_vars PROVE AskInv'
    OBVIOUS
  <2>1. ASSUME NEW h \in Handlers, Apply(h) PROVE AskInv'
    <3>1. pc[h] \in AskLabels /\ AskOf(h) /\ DocInv(h)
      BY DEF AskInv, AskOf, TypeInv
    <3> QED
      BY <2>1, <3>1 DEF Apply, AskLabels, EditRead, EditWrite, CreateFile, RenameFile, DeleteFile,
             StepIs, StepFails, PlanApplied, FindRemoved, FindEdited, NotifyClose, DeleteOpen,
             ReRead, Applied, MoveFile, MoveFails, Reconciled
  <2>2. ASSUME UNCHANGED <<opened, srv, pc, req, doc>> PROVE AskInv'
    BY <2>2 DEF AskInv, AskOf, TableOpen, InTable, OpenAtServer
  <2>3. ASSUME NEW f \in Files, UserEdits(f) PROVE AskInv'
    BY <2>2, <2>3 DEF UserEdits, docVars
  <2>4. UNCHANGED vars => AskInv'
    BY <2>2 DEF vars, docVars
  <2> QED
    BY <2>1, <2>3, <2>4, AskRequest, AskSync, Zenon DEF Next
<1>3. TypeInv /\ AskInv => AskedIsOpen
  <2> SUFFICES ASSUME TypeInv, AskInv, NEW h \in Handlers, pc[h] = "asked", req[h].op = "query"
               PROVE  srv[doc[h].file] # Closed
    BY DEF AskedIsOpen
  <2> QED
    BY DEF AskInv, AskOf, OpenAtServer
<1> QED
  BY <1>1, <1>2, <1>3, InitType, TypeStep, PTL DEF Spec
-----------------------------------------------------------------------------
(* The histories of DocSync, while requests do not overlap: what a request  *)
(* is answered from, and what the server holds of a file once the daemon    *)
(* has written it.                                                          *)

Reading == {"lookup", "open", "change", "record"}
PlanLabels == Labels \ AskLabels

(* The text read since the request began is the one the server gets.        *)
ViewInv(h) ==
    /\ pc[h] # "idle" => \A f \in Files : disk[f] \in seen[h][f]
    /\ pc[h] \in Reading => doc[h].text \in seen[h][doc[h].file]
    /\ pc[h] \in {"next", "asked"} /\ req[h].op # "symbol" /\ req[h].files = {} =>
           srv[doc[h].file].text \in seen[h][doc[h].file]

(* The handler is still to close f, or to send it again. *)
ToClose(h, f) ==
    pc[h] \in PlanLabels /\ (f \in plan[h].removed \/ (pc[h] = "close" /\ doc[h].file = f))
ToResend(h, f) ==
    \/ ToClose(h, f)
    \/ /\ pc[h] \in PlanLabels
       /\ f \in plan[h].edited \/ (pc[h] \in {"reread", "rechange"} /\ doc[h].file = f)

(* What the server holds is as recent as the daemon's last write, and of a  *)
(* file that is there, unless the handler is about to see to it.            *)
WriteInv(h) ==
    /\ \A f \in Files : disk[f] \in since[f]
    /\ pc[h] \in Reading \cup {"rechange", "rerecord"} => doc[h].text \in since[doc[h].file]
    /\ pc[h] \in Reading => disk[doc[h].file] # Missing
    /\ pc[h] \in {"reread", "rechange", "rerecord"} => plan[h].removed = {}
    /\ \A f \in Files : srv[f] # Closed =>
           broken \/ srv[f].text \in since[f] \/ ToResend(h, f)
    /\ \A f \in Files : srv[f] # Closed /\ disk[f] = Missing => broken \/ ToClose(h, f)

-----------------------------------------------------------------------------
(* A write to disk is noted in the histories. *)
LEMMA DiskNoted ==
    ASSUME TypeOK, NEW H \in Handlers, NEW d \in [Files -> Revs], NEW by, DiskBecomes(d, by)
    PROVE  /\ disk' = d
           /\ pc[H] # "idle" => \A f \in Files : seen'[H][f] = seen[H][f] \cup {d[f]}
           /\ \A f \in Files : f \notin by => since'[f] = since[f] \cup {d[f]}
           /\ \A f \in Files : d[f] \in since'[f]
  BY DEF DiskBecomes

LEMMA WriteNoted ==
    ASSUME TypeOK, NEW H \in Handlers, NEW f \in Files, NEW by, Write(f, by)
    PROVE  /\ NewRev # Missing /\ disk' = [disk EXCEPT ![f] = NewRev]
           /\ pc[H] # "idle" => \A g \in Files : seen'[H][g] = seen[H][g] \cup {disk'[g]}
           /\ \A g \in Files : g \notin by => since'[g] = since[g] \cup {disk'[g]}
           /\ \A g \in Files : disk'[g] \in since'[g]
<1>1. NewRev \in Revs /\ NewRev # Missing
  BY DEF Write, NewRev, Revs, TypeOK, Missing
<1>2. [disk EXCEPT ![f] = NewRev] \in [Files -> Revs]
  BY <1>1 DEF TypeOK
<1> QED
  BY <1>1, <1>2, DiskNoted, ZenonT(40) DEF Write

LEMMA MoveNoted ==
    ASSUME TypeOK, NEW H \in Handlers, NEW f \in Files, NEW g \in Files, MoveOnDisk(f, g)
    PROVE  /\ disk' = [disk EXCEPT ![f] = Missing, ![g] = disk[f]]
           /\ disk[f] # Missing /\ (broken' <=> broken \/ disk[g] # Missing)
           /\ pc[H] # "idle" => \A e \in Files : seen'[H][e] = seen[H][e] \cup {disk'[e]}
           /\ \A e \in Files : e \notin {f, g} => since'[e] = since[e] \cup {disk'[e]}
           /\ \A e \in Files : disk'[e] \in since'[e]
<1> DEFINE d == [disk EXCEPT ![f] = Missing, ![g] = disk[f]]
<1>1. d \in [Files -> Revs]
  BY DEF TypeOK, Revs, Missing
<1>2. DiskBecomes(d, {f, g}) /\ disk[f] # Missing /\ (broken' <=> broken \/ disk[g] # Missing)
  BY DEF MoveOnDisk, Overwrites
<1> HIDE DEF d
<1>3. /\ disk' = d
      /\ pc[H] # "idle" => \A e \in Files : seen'[H][e] = seen[H][e] \cup {d[e]}
      /\ \A e \in Files : e \notin {f, g} => since'[e] = since[e] \cup {d[e]}
      /\ \A e \in Files : d[e] \in since'[e]
  BY <1>1, <1>2, DiskNoted
<1> QED
  BY <1>2, <1>3 DEF d

DeleteOnDisk(f) == DiskBecomes([disk EXCEPT ![f] = Missing], {f})
LEMMA DeleteNoted ==
    ASSUME TypeOK, NEW H \in Handlers, NEW f \in Files, DeleteOnDisk(f)
    PROVE  /\ disk' = [disk EXCEPT ![f] = Missing]
           /\ pc[H] # "idle" => \A e \in Files : seen'[H][e] = seen[H][e] \cup {disk'[e]}
           /\ \A e \in Files : e # f => since'[e] = since[e] \cup {disk'[e]}
           /\ \A e \in Files : disk'[e] \in since'[e]
<1> DEFINE d == [disk EXCEPT ![f] = Missing]
<1>1. d \in [Files -> Revs] /\ DiskBecomes(d, {f})
  BY DEF TypeOK, Revs, Missing, DeleteOnDisk
<1> HIDE DEF d
<1>2. /\ disk' = d
      /\ pc[H] # "idle" => \A e \in Files : seen'[H][e] = seen[H][e] \cup {d[e]}
      /\ \A e \in Files : e \notin {f} => since'[e] = since[e] \cup {d[e]}
      /\ \A e \in Files : d[e] \in since'[e]
  BY <1>1, DiskNoted
<1> QED
  BY <1>2 DEF d

-----------------------------------------------------------------------------
(* The files of the next step of a plan. *)
LEMMA TargetType ==
    ASSUME TypeOK, NEW H \in Handlers, NEW kind, StepIs(H, kind)
    PROVE  Target(H) \in Files /\ Head(plan[H].todo).to \in Files
  BY PlanTypes DEF StepIs, Target, Steps

(* SyncedView *)

LEMMA ViewRequest ==
    ASSUME TypeInv, NEW H \in Handlers, OneInv(H), ViewInv(H), Request(H)
    PROVE  ViewInv(H)'
<1>0. /\ pc \in [Handlers -> Labels] /\ req \in [Handlers -> Reqs]
      /\ seen \in [Handlers -> [Files -> SUBSET Revs]]
  BY DEF TypeInv, TypeOK, Reqs
<1>1. ASSUME NEW r, Begin(H, r), r.op = "symbol" \/ r.files # {} PROVE ViewInv(H)'
  BY <1>0, <1>1 DEF Begin, Goto, ViewInv, Reading
<1>2. ASSUME NEW f \in Files, BeginOne(H, f) PROVE ViewInv(H)'
  <2> PICK kind \in {"query", "apply"} : Begin(H, [NoReq EXCEPT !.op = kind, !.files = {f}])
    BY <1>2 DEF BeginOne
  <2>1. [NoReq EXCEPT !.op = kind, !.files = {f}].files # {}
    BY DEF NoReq
  <2> QED
    BY <1>1, <2>1
<1>3. ASSUME NEW fs \in SUBSET Files, BeginSymbol(H, fs) PROVE ViewInv(H)'
  <2>1. [NoReq EXCEPT !.op = "symbol", !.files = fs].op = "symbol"
    BY DEF NoReq
  <2> QED
    BY <1>1, <1>3, <2>1 DEF BeginSymbol
<1>4. ASSUME NEW f \in Files, NEW g \in Files, BeginMove(H, f, g) PROVE ViewInv(H)'
  BY <1>1, <1>4 DEF BeginMove
<1>5. CASE Ask(H)
  BY <1>0, <1>5 DEF Ask, Goto, ViewInv, Reading, diskVars, docVars
<1>6. CASE Replied(H)
  BY <1>0, <1>6 DEF Replied, Finish, Goto, ViewInv, Reading
<1>7. ASSUME NEW p \in Plans, AnswerPlan(H, p) PROVE ViewInv(H)'
  BY <1>0, <1>7 DEF AnswerPlan, Goto, ViewInv, Reading, diskVars, docVars
<1> QED
  BY <1>2, <1>3, <1>4, <1>5, <1>6, <1>7, RequestCases

LEMMA ViewSync ==
    ASSUME TypeInv, NEW H \in Handlers, OneInv(H), ViewInv(H), Sync(H)
    PROVE  ViewInv(H)'
<1>0. /\ pc \in [Handlers -> Labels] /\ req \in [Handlers -> Reqs]
      /\ doc \in [Handlers -> Locals] /\ TypeOK
      /\ srv \in [Files -> Docs] /\ opened \in [Files -> Docs]
      /\ doc[H].file \in Files
  BY DEF TypeInv, TypeOK, Reqs, Locals
<1>1. ASSUME NEW f \in Files, ReadFile(H, f) PROVE ViewInv(H)'
  <2>1. /\ pc[H] = "next" /\ pc'[H] = "lookup" /\ UNCHANGED <<disk, seen, srv>>
        /\ doc'[H].file = f /\ doc'[H].text = disk[f]
    BY <1>0, <1>1 DEF ReadFile, Goto, diskVars, docVars, NoDoc
  <2> QED
    BY <2>1 DEF ViewInv, Reading
<1>2. ASSUME NEW f \in Files, ReadFails(H, f) PROVE ViewInv(H)'
  <2>1. CASE req[H].op = "symbol"
    <3>1. /\ UNCHANGED <<disk, seen, pc, doc>> /\ pc[H] = "next" /\ req'[H].op = "symbol"
      BY <1>0, <1>2, <2>1 DEF ReadFails, diskVars, Reqs
    <3> QED
      BY <3>1 DEF ViewInv, Reading
  <2>2. CASE req[H].op # "symbol"
    <3>1. pc'[H] = "idle"
      BY <1>0, <1>2, <2>2 DEF ReadFails, Finish, Goto
    <3> QED
      BY <3>1 DEF ViewInv, Reading
  <2> QED
    BY <2>1, <2>2
<1>3. CASE Lookup(H)
  <2>1. /\ pc[H] = "lookup" /\ pc'[H] \in {"open", "change", "next"}
        /\ UNCHANGED <<disk, seen, srv, req>>
        /\ doc'[H].file = doc[H].file /\ doc'[H].text = doc[H].text
        /\ pc'[H] = "next" => opened[doc[H].file].text = doc[H].text
    BY <1>0, <1>3 DEF Lookup, Goto, WhenUnknown, Differs, diskVars, docVars, Locals
  <2>2. opened[doc[H].file] = srv[doc[H].file]
    BY <1>0, <2>1 DEF OneInv, Agree, InRecord
  <2> QED
    BY <2>1, <2>2 DEF ViewInv, Reading
<1>4. CASE NotifyOpen(H)
  <2>1. pc[H] = "open" /\ pc'[H] = "record" /\ UNCHANGED <<disk, seen, req, doc>>
    BY <1>0, <1>4 DEF NotifyOpen, Goto, diskVars
  <2> QED
    BY <2>1 DEF ViewInv, Reading
<1>5. CASE NotifyChange(H)
  <2>1. /\ pc[H] \in {"change", "rechange"} /\ pc'[H] \in {"record", "rerecord"}
        /\ pc'[H] = "record" => pc[H] = "change"
        /\ UNCHANGED <<disk, seen, req, doc>>
    BY <1>0, <1>5 DEF NotifyChange, Goto, diskVars
  <2> QED
    BY <2>1 DEF ViewInv, Reading
<1>6. CASE SetOpen(H)
  <2>1. /\ pc[H] \in {"record", "rerecord"} /\ pc'[H] \in {"next", "reconcile"}
        /\ pc'[H] = "next" => pc[H] = "record"
        /\ UNCHANGED <<disk, seen, srv, req, doc>>
    BY <1>0, <1>6 DEF SetOpen, Goto, diskVars
  <2>2. srv[doc[H].file].text = doc[H].text
    BY <2>1 DEF OneInv, StageInv, Sent
  <2> QED
    BY <2>1, <2>2 DEF ViewInv, Reading
<1> QED
  BY <1>1, <1>2, <1>3, <1>4, <1>5, <1>6 DEF Sync

LEMMA ViewApply ==
    ASSUME TypeInv, NEW H \in Handlers, ViewInv(H), Apply(H)
    PROVE  ViewInv(H)'
<1>0. pc \in [Handlers -> Labels] /\ TypeOK /\ req \in [Handlers -> Reqs]
      /\ doc \in [Handlers -> Locals]
  BY DEF TypeInv, TypeOK, Reqs, Locals
<1>1. pc[H] \in PlanLabels /\ pc'[H] \in PlanLabels \cup {"idle"}
  BY <1>0 DEF Apply, EditRead, EditWrite, CreateFile, RenameFile, DeleteFile, StepFails,
              PlanApplied, FindRemoved, FindEdited, NotifyClose, DeleteOpen, ReRead, Applied,
              MoveFile, MoveFails, StepIs, Reconciled, Finish, Goto, Labels, AskLabels, PlanLabels
<1>2. pc'[H] = "idle" \/ \A f \in Files : disk'[f] \in seen'[H][f]
  <2>1. CASE EditRead(H) \/ PlanApplied(H) \/ NotifyClose(H) \/ DeleteOpen(H) \/ ReRead(H)
             \/ \E f \in Files : FindRemoved(H, f) \/ FindEdited(H, f)
    <3>1. UNCHANGED <<disk, seen>>
      BY <2>1 DEF EditRead, PlanApplied, NotifyClose, DeleteOpen, ReRead, FindRemoved, FindEdited,
                  diskVars
    <3> QED
      BY <1>1, <3>1 DEF ViewInv, PlanLabels, AskLabels
  <2>2. CASE StepFails(H) \/ Applied(H) \/ MoveFails(H)
    BY <1>0, <2>2 DEF StepFails, Applied, MoveFails, Finish, Goto
  <2>3. CASE EditWrite(H) \/ CreateFile(H)
    <3>1. PICK f \in Files : Write(f, {f})
      BY <1>0, <2>3, TargetType DEF EditWrite, CreateFile, Locals
    <3> QED
      BY <1>0, <1>1, <3>1, WriteNoted DEF PlanLabels, AskLabels
  <2>4. CASE RenameFile(H) \/ MoveFile(H)
    <3>1. PICK f, g \in Files : MoveOnDisk(f, g)
      BY <1>0, <2>4, TargetType DEF RenameFile, MoveFile, Reqs
    <3> QED
      BY <1>0, <1>1, <3>1, MoveNoted DEF PlanLabels, AskLabels
  <2>5. CASE DeleteFile(H)
    <3>1. PICK f \in Files : DeleteOnDisk(f)
      BY <1>0, <2>5, TargetType DEF DeleteFile, DeleteOnDisk
    <3> QED
      BY <1>0, <1>1, <3>1, DeleteNoted DEF PlanLabels, AskLabels
  <2> QED
    BY <2>1, <2>2, <2>3, <2>4, <2>5 DEF Apply
<1> QED
  BY <1>1, <1>2 DEF ViewInv, Reading, PlanLabels, AskLabels

(* The history of the disk grows with it. *)
LEMMA ViewEdits ==
    ASSUME TypeInv, NEW H \in Handlers, ViewInv(H), NEW f \in Files, UserEdits(f)
    PROVE  ViewInv(H)'
<1>1. UNCHANGED <<srv, pc, req, doc>> /\ Write(f, {}) /\ TypeOK
  BY DEF UserEdits, docVars, TypeInv
<1>2. pc[H] # "idle" => \A g \in Files : seen'[H][g] = seen[H][g] \cup {disk'[g]}
  BY <1>1, WriteNoted
<1>3. doc[H].file \in Files
  BY <1>1 DEF TypeOK
<1> QED
  BY <1>1, <1>2, <1>3 DEF ViewInv, Reading

(* sync.go: while requests do not overlap, a query is answered from a text  *)
(* its file held at some time since the request began.                      *)
THEOREM AnsweredFromPresent ==
    ASSUME NEW CONSTANT H, Handlers = {H}
    PROVE  Spec => []SyncedView
<1>1. Init => ViewInv(H)
  BY DEF Init, ViewInv, Reading
<1>2. TypeInv /\ OneInv(H) /\ ViewInv(H) /\ [Next]_vars => ViewInv(H)'
  <2> SUFFICES ASSUME TypeInv, OneInv(H), ViewInv(H), [Next]_vars PROVE ViewInv(H)'
    OBVIOUS
  <2>1. ASSUME NEW f \in Files, UserEdits(f) PROVE ViewInv(H)'
    BY <2>1, ViewEdits
  <2>2. CASE UNCHANGED vars
    BY <2>2 DEF vars, diskVars, docVars, ViewInv
  <2>3. CASE Request(H) \/ Sync(H) \/ Apply(H)
    BY <2>3, ViewRequest, ViewSync, ViewApply
  <2> QED
    BY <2>1, <2>2, <2>3 DEF Next
<1>3. OneInv(H) /\ ViewInv(H) => SyncedView
  BY DEF OneInv, FilesInv, ViewInv, SyncedView
<1> QED
  BY <1>1, <1>2, <1>3, OneInductive, PTL DEF Spec

-----------------------------------------------------------------------------
(* StaysInStep and NoGhostDocument *)

(* Outside a plan nothing is to be closed or sent again. *)
LEMMA WriteQuiet ==
    ASSUME NEW H \in Handlers, WriteInv(H), UNCHANGED <<disk, since, srv, broken>>,
           pc[H] \notin PlanLabels, pc'[H] \notin Reading \cup {"reread", "rechange", "rerecord"}
    PROVE  WriteInv(H)'
<1>1. /\ \A f \in Files : disk'[f] \in since'[f]
      /\ \A f \in Files : srv'[f] # Closed => broken' \/ srv'[f].text \in since'[f]
      /\ \A f \in Files : srv'[f] # Closed /\ disk'[f] = Missing => broken'
  BY DEF WriteInv, ToResend, ToClose
<1> QED
  BY <1>1 DEF WriteInv

LEMMA WriteRequest ==
    ASSUME TypeInv, NEW H \in Handlers, WriteInv(H), Request(H)
    PROVE  WriteInv(H)'
<1>0. pc \in [Handlers -> Labels]
  BY DEF TypeInv, TypeOK
<1>1. ASSUME NEW r, Begin(H, r) PROVE WriteInv(H)'
  <2>1. /\ UNCHANGED <<disk, since, srv, broken>> /\ pc[H] = "idle" /\ pc'[H] = "next"
    BY <1>0, <1>1 DEF Begin, Goto, docVars
  <2> QED
    BY <2>1, WriteQuiet DEF PlanLabels, AskLabels, Reading
<1>2. CASE Ask(H) \/ Replied(H) \/ \E p \in Plans : AnswerPlan(H, p)
  <2>1. /\ UNCHANGED <<disk, since, srv, broken>>
        /\ pc[H] \in {"next", "asked"} /\ pc'[H] \in {"asked", "idle", "plan"}
    BY <1>0, <1>2 DEF Ask, Replied, AnswerPlan, Finish, Goto, diskVars, docVars
  <2> QED
    BY <2>1, WriteQuiet DEF PlanLabels, AskLabels, Reading
<1> QED
  BY <1>1, <1>2, RequestCases DEF BeginOne, BeginSymbol, BeginMove

LEMMA WriteSync ==
    ASSUME TypeInv, NEW H \in Handlers, WriteInv(H), Sync(H)
    PROVE  WriteInv(H)'
<1>0. /\ pc \in [Handlers -> Labels] /\ doc \in [Handlers -> Locals] /\ TypeOK
      /\ srv \in [Files -> Docs] /\ doc[H].file \in Files
  BY DEF TypeInv, TypeOK, Locals
<1>1. ASSUME NEW f \in Files, ReadFile(H, f) PROVE WriteInv(H)'
  <2>1. /\ pc[H] = "next" /\ pc'[H] = "lookup" /\ UNCHANGED <<disk, since, srv, broken>>
        /\ doc'[H].file = f /\ doc'[H].text = disk[f] /\ disk[f] # Missing
    BY <1>0, <1>1 DEF ReadFile, Goto, diskVars, docVars, NoDoc
  <2> QED
    BY <2>1 DEF WriteInv, Reading, ToResend, ToClose, PlanLabels, AskLabels
<1>2. ASSUME NEW f \in Files, ReadFails(H, f) PROVE WriteInv(H)'
  <2>1. /\ UNCHANGED <<disk, since, srv, broken>> /\ pc[H] = "next" /\ pc'[H] \in {"next", "idle"}
    BY <1>0, <1>2 DEF ReadFails, Finish, Goto, diskVars, docVars
  <2> QED
    BY <2>1, WriteQuiet DEF PlanLabels, AskLabels, Reading
<1>3. CASE Lookup(H)
  <2>1. /\ pc[H] = "lookup" /\ pc'[H] \in {"open", "change", "next"}
        /\ UNCHANGED <<disk, since, srv, broken>>
        /\ doc'[H].file = doc[H].file /\ doc'[H].text = doc[H].text
    BY <1>0, <1>3 DEF Lookup, Goto, WhenUnknown, diskVars, docVars, Locals
  <2> QED
    BY <2>1 DEF WriteInv, Reading, ToResend, ToClose, PlanLabels, AskLabels
<1>4. CASE NotifyOpen(H)
  <2>1. /\ pc[H] = "open" /\ pc'[H] = "record" /\ UNCHANGED <<disk, since, doc, broken>>
        /\ srv' = [srv EXCEPT ![doc[H].file] = Sent(H)] /\ Sent(H).text = doc[H].text
    BY <1>0, <1>4 DEF NotifyOpen, Goto, diskVars, Sent
  <2> QED
    BY <1>0, <2>1 DEF WriteInv, Reading, ToResend, ToClose, PlanLabels, AskLabels
<1>5. CASE NotifyChange(H)
  <2>1. /\ UNCHANGED <<disk, since, doc, plan, broken>>
        /\ \A f \in Files : srv[f] = Closed => srv'[f] = Closed
        /\ \A f \in Files : f # doc[H].file => srv'[f] = srv[f]
        /\ srv'[doc[H].file] # Closed => srv'[doc[H].file].text = doc[H].text
        /\ \/ pc[H] = "change" /\ pc'[H] = "record"
           \/ pc[H] = "rechange" /\ pc'[H] = "rerecord"
    BY <1>0, <1>5 DEF NotifyChange, Goto, diskVars, Sent
  <2>2. ASSUME NEW f \in Files, srv'[f] # Closed
        PROVE  broken' \/ srv'[f].text \in since'[f] \/ ToResend(H, f)'
    <3>1. CASE f = doc[H].file
      BY <2>1, <2>2, <3>1 DEF WriteInv, Reading
    <3>2. CASE f # doc[H].file
      BY <2>1, <2>2, <3>2 DEF WriteInv, ToResend, ToClose, PlanLabels, AskLabels, Labels
    <3> QED
      BY <3>1, <3>2
  <2>3. ASSUME NEW f \in Files, srv'[f] # Closed, disk'[f] = Missing PROVE broken' \/ ToClose(H, f)'
    BY <2>1, <2>3 DEF WriteInv, ToClose, PlanLabels, AskLabels, Labels
  <2> QED
    BY <2>1, <2>2, <2>3 DEF WriteInv, Reading
<1>6. CASE SetOpen(H)
  <2>1. /\ UNCHANGED <<disk, since, srv, doc, plan, broken>>
        /\ \/ pc[H] = "record" /\ pc'[H] = "next"
           \/ pc[H] = "rerecord" /\ pc'[H] = "reconcile"
    BY <1>0, <1>6 DEF SetOpen, Goto, diskVars
  <2> QED
    BY <2>1 DEF WriteInv, Reading, ToResend, ToClose, PlanLabels, AskLabels, Labels
<1> QED
  BY <1>1, <1>2, <1>3, <1>4, <1>5, <1>6 DEF Sync

LEMMA WriteEdits ==
    ASSUME TypeInv, NEW H \in Handlers, WriteInv(H), NEW f \in Files, UserEdits(f)
    PROVE  WriteInv(H)'
<1>1. UNCHANGED <<srv, pc, doc, plan, broken>> /\ Write(f, {}) /\ TypeOK
  BY DEF UserEdits, docVars, TypeInv
<1>2. /\ NewRev # Missing /\ disk' = [disk EXCEPT ![f] = NewRev]
      /\ \A g \in Files : since'[g] = since[g] \cup {disk'[g]}
  BY <1>1, WriteNoted
<1>3. doc[H].file \in Files /\ disk \in [Files -> Revs]
  BY <1>1 DEF TypeOK
<1>4. /\ \A g \in Files : disk'[g] \in since'[g] /\ (disk'[g] = Missing => disk[g] = Missing)
      /\ \A g \in Files : ToClose(H, g)' <=> ToClose(H, g)
      /\ \A g \in Files : ToResend(H, g)' <=> ToResend(H, g)
  BY <1>1, <1>2, <1>3 DEF ToClose, ToResend
<1> QED
  BY <1>1, <1>2, <1>3, <1>4 DEF WriteInv

(* The steps of a plan that write to disk: what they write is to be sent    *)
(* again, what they remove to be closed, and what they write over is noted. *)
LEMMA WriteStep ==
    ASSUME TypeOK, NEW H \in Handlers, WriteInv(H), UNCHANGED srv,
           \A g \in Files : disk'[g] \in since'[g],
           pc[H] \in {"plan", "write", "reconcile"}, pc'[H] \in {"plan", "reconcile"},
           plan[H].removed \subseteq plan'[H].removed, plan[H].edited \subseteq plan'[H].edited,
           broken => broken',
           \A g \in Files :
              \/ disk'[g] = disk[g] /\ since[g] \subseteq since'[g]
              \/ g \in plan'[H].removed
              \/ /\ disk'[g] # Missing
                 /\ g \in plan'[H].edited \/ broken' \/ disk[g] = Missing
    PROVE  WriteInv(H)'
<1>1. \A g \in Files : /\ ToClose(H, g) => ToClose(H, g)'
                       /\ ToResend(H, g) => ToResend(H, g)'
                       /\ g \in plan'[H].removed => ToClose(H, g)' /\ ToResend(H, g)'
                       /\ g \in plan'[H].edited => ToResend(H, g)'
  BY DEF ToClose, ToResend, PlanLabels, AskLabels, Labels
<1>2. ASSUME NEW g \in Files, srv'[g] # Closed
      PROVE  /\ broken' \/ srv'[g].text \in since'[g] \/ ToResend(H, g)'
             /\ disk'[g] = Missing => broken' \/ ToClose(H, g)'
  <2>1. /\ broken \/ srv[g].text \in since[g] \/ ToResend(H, g)
        /\ disk[g] = Missing => broken \/ ToClose(H, g)
    BY <1>2 DEF WriteInv
  <2>2. ToClose(H, g)' => ToResend(H, g)'
    BY DEF ToResend
  <2> QED
    BY <1>1, <2>1, <2>2
<1> QED
  BY <1>2 DEF WriteInv, Reading

(* The steps of a plan that write nothing to disk. *)
LEMMA WriteReconcile ==
    ASSUME NEW H \in Handlers, WriteInv(H), UNCHANGED <<disk, since, broken>>,
           pc[H] \in PlanLabels \ {"rechange", "rerecord"}, pc'[H] \in PlanLabels \ {"rerecord"},
           pc'[H] = "rechange" => doc'[H].text \in since[doc'[H].file],
           pc'[H] \in {"reread", "rechange"} => plan'[H].removed = {},
           \A f \in Files : srv'[f] # Closed =>
               /\ srv[f] = srv'[f]
               /\ ToClose(H, f) => ToClose(H, f)'
               /\ ToResend(H, f) => ToResend(H, f)' \/ broken' \/ srv[f].text \in since[f]
    PROVE  WriteInv(H)'
<1>1. /\ \A f \in Files : disk'[f] \in since'[f]
      /\ \A f \in Files : srv'[f] # Closed =>
             broken' \/ srv'[f].text \in since'[f] \/ ToResend(H, f)'
      /\ \A f \in Files : srv'[f] # Closed /\ disk'[f] = Missing => broken' \/ ToClose(H, f)'
  BY DEF WriteInv
<1>2. pc'[H] \notin Reading
  BY DEF Reading, PlanLabels, AskLabels
<1> QED
  BY <1>1, <1>2 DEF WriteInv

LEMMA WriteApply ==
    ASSUME TypeInv, NEW H \in Handlers, OneInv(H), WriteInv(H), Apply(H)
    PROVE  WriteInv(H)'
<1>0. /\ pc \in [Handlers -> Labels] /\ doc \in [Handlers -> Locals] /\ TypeOK
      /\ plan \in [Handlers -> PlanRecs] /\ req \in [Handlers -> Reqs]
      /\ srv \in [Files -> Docs] /\ disk \in [Files -> Revs]
      /\ doc[H].file \in Files /\ plan[H].removed \subseteq Files /\ plan[H].edited \subseteq Files
  BY DEF TypeInv, TypeOK, Locals, PlanRecs, Reqs
<1>1. CASE EditRead(H) \/ PlanApplied(H)
  <2>1. /\ UNCHANGED <<disk, since, srv, plan, broken>>
        /\ pc[H] = "plan" /\ pc'[H] \in {"write", "reconcile"}
    BY <1>0, <1>1 DEF EditRead, PlanApplied, StepIs, Goto, diskVars, docVars
  <2> QED
    BY <2>1, WriteReconcile DEF ToClose, ToResend, PlanLabels, AskLabels, Labels
<1>2. CASE EditWrite(H)
  <2>1. PICK f \in Files : f = doc[H].file
    BY <1>0
  <2>2. /\ Write(f, {f}) /\ UNCHANGED <<srv, broken>> /\ pc[H] = "write" /\ pc'[H] = "plan"
        /\ plan'[H].removed = plan[H].removed /\ plan'[H].edited = plan[H].edited \cup {f}
    BY <1>0, <1>2, <2>1 DEF EditWrite, StepEdited, NoteEdited, Goto, docVars, PlanRecs
  <2>3. /\ NewRev # Missing /\ disk' = [disk EXCEPT ![f] = NewRev]
        /\ \A g \in Files : g \notin {f} => since'[g] = since[g] \cup {disk'[g]}
        /\ \A g \in Files : disk'[g] \in since'[g]
    BY <1>0, <2>2, WriteNoted
  <2> QED
    BY <1>0, <2>2, <2>3, WriteStep
<1>3. CASE CreateFile(H)
  <2>1. PICK f \in Files : f = Target(H)
    BY <1>0, <1>3, TargetType DEF CreateFile
  <2>2. /\ Write(f, {f}) /\ UNCHANGED <<srv, pc>> /\ pc[H] = "plan"
        /\ plan'[H].removed = plan[H].removed /\ plan'[H].edited = plan[H].edited
        /\ broken' <=> broken \/ disk[f] # Missing
    BY <1>0, <1>3, <2>1 DEF CreateFile, StepIs, StepDone, Overwrites, docVars, PlanRecs
  <2>3. /\ NewRev # Missing /\ disk' = [disk EXCEPT ![f] = NewRev]
        /\ \A g \in Files : g \notin {f} => since'[g] = since[g] \cup {disk'[g]}
        /\ \A g \in Files : disk'[g] \in since'[g]
    BY <1>0, <2>2, WriteNoted
  <2> QED
    BY <1>0, <2>2, <2>3, WriteStep
<1>4. CASE RenameFile(H) \/ MoveFile(H)
  <2>1. PICK f, g \in Files :
            /\ MoveOnDisk(f, g) /\ UNCHANGED <<srv, pc>> /\ pc[H] \in {"plan", "reconcile"}
            /\ plan'[H].removed = plan[H].removed \cup {f} /\ plan'[H].edited = plan[H].edited
    <3>1. CASE RenameFile(H)
      BY <1>0, <3>1, TargetType DEF RenameFile, StepIs, StepRemoved, NoteRemoved, docVars, PlanRecs
    <3>2. CASE MoveFile(H)
      BY <1>0, <3>2, ZenonT(40) DEF MoveFile, Reconciled, NoteRemoved, docVars, PlanRecs, Reqs
    <3> QED
      BY <1>4, <3>1, <3>2
  <2>2. /\ disk' = [disk EXCEPT ![f] = Missing, ![g] = disk[f]]
        /\ disk[f] # Missing /\ (broken' <=> broken \/ disk[g] # Missing)
        /\ \A e \in Files : e \notin {f, g} => since'[e] = since[e] \cup {disk'[e]}
        /\ \A e \in Files : disk'[e] \in since'[e]
    BY <1>0, <2>1, MoveNoted
  <2> QED
    BY <1>0, <2>1, <2>2, WriteStep
<1>5. CASE DeleteFile(H)
  <2>1. PICK f \in Files : f = Target(H)
    BY <1>0, <1>5, TargetType DEF DeleteFile
  <2>2. /\ DeleteOnDisk(f) /\ UNCHANGED <<srv, pc, broken>> /\ pc[H] = "plan"
        /\ plan'[H].removed = plan[H].removed \cup {f} /\ plan'[H].edited = plan[H].edited
    BY <1>0, <1>5, <2>1 DEF DeleteFile, DeleteOnDisk, StepIs, StepRemoved, NoteRemoved, docVars,
                            PlanRecs
  <2>3. /\ disk' = [disk EXCEPT ![f] = Missing]
        /\ \A e \in Files : e # f => since'[e] = since[e] \cup {disk'[e]}
        /\ \A e \in Files : disk'[e] \in since'[e]
    BY <1>0, <2>2, DeleteNoted
  <2> QED
    BY <1>0, <2>2, <2>3, WriteStep
<1>6. CASE StepFails(H) \/ MoveFails(H)
  <2>1. /\ UNCHANGED <<disk, since, srv>> /\ broken' /\ pc'[H] = "idle"
    BY <1>0, <1>6 DEF StepFails, MoveFails, Finish, Goto, docVars
  <2> QED
    BY <2>1 DEF WriteInv, Reading
<1>7. CASE Applied(H)
  <2>1. /\ UNCHANGED <<disk, since, srv, broken>> /\ pc'[H] = "idle" /\ pc[H] = "reconcile"
        /\ plan[H].removed = {} /\ plan[H].edited = {}
    BY <1>0, <1>7 DEF Applied, Reconciled, Finish, Goto, docVars
  <2> QED
    BY <2>1 DEF WriteInv, Reading, ToClose, ToResend
<1>8. ASSUME NEW f \in Files, FindRemoved(H, f) PROVE WriteInv(H)'
  <2>1. /\ UNCHANGED <<disk, since, srv, broken>> /\ pc[H] = "reconcile"
        /\ plan'[H].removed = plan[H].removed \ {f} /\ plan'[H].edited = plan[H].edited
        /\ doc'[H].file = f
        /\ pc'[H] = IF opened[f] # Closed THEN "close" ELSE "reconcile"
    BY <1>0, <1>8 DEF FindRemoved, Goto, diskVars, docVars, NoDoc, PlanRecs
  <2>2. opened[f] = srv[f]
    BY <2>1 DEF OneInv, Agree, InRecord
  <2> QED
    BY <2>1, <2>2, WriteReconcile DEF ToClose, ToResend, PlanLabels, AskLabels, Labels
<1>9. ASSUME NEW f \in Files, FindEdited(H, f) PROVE WriteInv(H)'
  <2>1. /\ UNCHANGED <<disk, since, srv, broken>> /\ pc[H] = "reconcile"
        /\ plan[H].removed = {} /\ plan'[H].removed = {}
        /\ plan'[H].edited = plan[H].edited \ {f}
        /\ \/ opened[f] = Closed /\ pc'[H] = "reconcile"
           \/ pc'[H] = "reread" /\ doc'[H].file = f
    BY <1>0, <1>9 DEF FindEdited, Goto, diskVars, docVars, PlanRecs
  <2>2. opened[f] = srv[f]
    BY <2>1 DEF OneInv, Agree, InRecord
  <2> QED
    BY <2>1, <2>2, WriteReconcile DEF ToClose, ToResend, PlanLabels, AskLabels, Labels
<1>10. CASE NotifyClose(H)
  <2>1. /\ UNCHANGED <<disk, since, plan, broken>> /\ pc[H] = "close" /\ pc'[H] = "forget"
        /\ srv' = [srv EXCEPT ![doc[H].file] = Closed]
    BY <1>0, <1>10 DEF NotifyClose, Goto, diskVars
  <2> QED
    BY <1>0, <2>1, WriteReconcile DEF ToClose, ToResend, PlanLabels, AskLabels, Labels
<1>11. CASE DeleteOpen(H)
  <2>1. /\ UNCHANGED <<disk, since, srv, plan, broken>> /\ pc[H] = "forget"
        /\ pc'[H] = "reconcile"
    BY <1>0, <1>11 DEF DeleteOpen, Goto, diskVars
  <2> QED
    BY <2>1, WriteReconcile DEF ToClose, ToResend, PlanLabels, AskLabels, Labels
<1>12. CASE ReRead(H)
  <2>1. /\ UNCHANGED <<disk, since, srv, plan, broken>> /\ pc[H] = "reread"
        /\ doc'[H].file = doc[H].file /\ doc'[H].text = disk[doc[H].file]
        /\ pc'[H] = IF disk[doc[H].file] = Missing THEN "reconcile" ELSE "rechange"
    BY <1>0, <1>12 DEF ReRead, Goto, diskVars, docVars, Locals
  <2>2. plan[H].removed = {} /\ disk[doc[H].file] \in since[doc[H].file]
    BY <1>0, <2>1 DEF WriteInv
  <2>3. srv[doc[H].file] # Closed /\ disk[doc[H].file] = Missing => broken
    BY <1>0, <2>1, <2>2 DEF WriteInv, ToClose
  <2> QED
    BY <1>0, <2>1, <2>2, <2>3, WriteReconcile DEF ToClose, ToResend, PlanLabels, AskLabels, Labels
<1> QED
  BY <1>1, <1>2, <1>3, <1>4, <1>5, <1>6, <1>7, <1>8, <1>9, <1>10, <1>11, <1>12 DEF Apply

LEMMA WriteInductive ==
    ASSUME NEW CONSTANT H, Handlers = {H}
    PROVE  Spec => []WriteInv(H)
<1>1. Init => WriteInv(H)
  BY DEF Init, WriteInv, Reading
<1>2. TypeInv /\ OneInv(H) /\ WriteInv(H) /\ [Next]_vars => WriteInv(H)'
  <2> SUFFICES ASSUME TypeInv, OneInv(H), WriteInv(H), [Next]_vars PROVE WriteInv(H)'
    OBVIOUS
  <2>1. ASSUME NEW f \in Files, UserEdits(f) PROVE WriteInv(H)'
    BY <2>1, WriteEdits
  <2>2. CASE UNCHANGED vars
    BY <2>2 DEF vars, diskVars, docVars, WriteInv, ToClose, ToResend
  <2>3. CASE Request(H) \/ Sync(H) \/ Apply(H)
    BY <2>3, WriteRequest, WriteSync, WriteApply
  <2> QED
    BY <2>1, <2>2, <2>3 DEF Next
<1> QED
  BY <1>1, <1>2, OneInductive, PTL DEF Spec

(* plan.go:71-73: while requests do not overlap, what the server holds is   *)
(* as recent as the last write of the daemon, once the request is done and  *)
(* unless a plan was abandoned or wrote over a file.                        *)
THEOREM InStepAfterPlans ==
    ASSUME NEW CONSTANT H, Handlers = {H}
    PROVE  Spec => []StaysInStep
<1>1. WriteInv(H) => StaysInStep
  BY DEF WriteInv, StaysInStep, Quiet, ToResend, ToClose, PlanLabels, AskLabels
<1> QED
  BY <1>1, WriteInductive, PTL

(* plan.go:110-116, mutate.go:105-109: nor does the server then hold the    *)
(* document of a file that was removed.                                     *)
THEOREM RemovedIsClosed ==
    ASSUME NEW CONSTANT H, Handlers = {H}
    PROVE  Spec => []NoGhostDocument
<1>1. WriteInv(H) => NoGhostDocument
  BY DEF WriteInv, NoGhostDocument, Quiet, ToClose, PlanLabels, AskLabels
<1> QED
  BY <1>1, WriteInductive, PTL
=============================================================================
