----------------------------- MODULE LspClient -----------------------------
(***************************************************************************)
(* The LSP client of src/lspclient/client.go: goroutines of the daemon     *)
(* call Request (or RequestCtx), one reader goroutine (pumpStdout)         *)
(* dispatches everything the language server writes, and both meet in      *)
(* `pending`, `applyEditWaiters` and `closed` under the mutex mu.  A       *)
(* caller of the kind "commander" is resolveEdit of src/daemon/mutate.go:  *)
(* it registers for the next workspace/applyEdit, executes a command and   *)
(* then waits two seconds for the edit.                                    *)
(*                                                                         *)
(* A response channel is named by the id of its request, an edit channel   *)
(* by its order of creation.  Both are buffered (1).  The two pipes are    *)
(* sequences of at most PipeRoom messages; a full pipe blocks its writer.  *)
(* The language server is external: it reads in order, answers a request   *)
(* at most once and in any order, may send workspace/applyEdit for it      *)
(* before, after or without answering it, and may die at any time.         *)
(***************************************************************************)
EXTENDS Naturals, Sequences

CONSTANTS Callers,      \* goroutines that call Request
          Commanders,   \* those that run the command path of resolveEdit
          Cancellable,  \* those whose context can end before the answer
          MaxRequests,  \* bound: requests, and edit channels, of a behaviour
          MaxAsks,      \* bound: requests and notifications the server sends
          PipeRoom      \* bound: messages a pipe holds

ASSUME CallersAssumption ==
    /\ Commanders \subseteq Callers
    /\ Cancellable \subseteq Callers
ASSUME BoundsAssumption ==
    MaxRequests \in Nat /\ MaxAsks \in Nat /\ PipeRoom \in Nat \ {0}

VARIABLES
    pending,      \* ids with an entry in the pending map
    nextID,       \* the next request id
    waiters,      \* applyEditWaiters: edit channels in registration order
    closed,       \* set by pumpStdout once the server's output ended
    chan,         \* chan[i]: what the response channel of request i holds
    editChan,     \* editChan[w]: what edit channel w holds
    nextWaiter,   \* the next edit channel
    pc,           \* pc[c]: where caller c is
    id,           \* id[c]: id of the latest request of c
    wid,          \* wid[c]: latest edit channel of c
    ret,          \* ret[c]: how the latest request of c returned
    rpc,          \* where the reader goroutine is
    rcur,         \* the message the reader is dispatching
    rwid,         \* the waiter it popped
    applied,      \* the applied flag of the reply it is about to send
    fan,          \* request channels pumpStdout still has to fail
    wfan,         \* edit channels it still has to close
    toServer,     \* the server's stdin
    toClient,     \* the server's stdout
    up,           \* the server process runs
    owed,         \* requests the server has read and not answered
    edits,        \* requests the server has read and sent no edit for
    asked,        \* messages the server sent on its own account
    answered      \* history: ids the server has answered

clientVars == <<pending, nextID, waiters, closed, chan, editChan, nextWaiter>>
callerVars == <<pc, id, wid, ret>>
readerVars == <<rpc, rcur, rwid, applied, fan, wfan>>
serverVars == <<up, owed, edits, asked, answered>>
vars == <<clientVars, callerVars, readerVars, toServer, toClient, serverVars>>

Ids == 1..MaxRequests
NoMsg == [kind |-> "none"]

Requests      == [kind : {"req"}, id : Ids, by : Callers]
ClientMsgs    == Requests \cup [kind : {"note"}] \cup [kind : {"reply"}, applied : BOOLEAN]
Answers       == [kind : {"res"}, id : Ids, by : Callers]
Edits         == [kind : {"edit"}, id : Ids]
ServerMsgs    == Answers \cup Edits \cup [kind : {"ask", "progress"}]
Empty         == [kind |-> "empty"]
Lost          == [kind |-> "lost"]
ChanContents  == Answers \cup {Empty, Lost}
EditContents  == Edits \cup {Empty, Lost}

FirstID == 1                     \* newClient numbers requests from 1

(* Small decisions of the code, named so that a faulty variant of each     *)
(* (defined just before it) can take its place in a mutation run.          *)

ReusedID == nextID               \* faulty: the counter is not advanced
FreshID == nextID + 1            \* c.nextID++

AssumedOpen == TRUE              \* faulty: closed is not looked at
IsOpen == ~closed                \* if c.closed { ... return }

StillTracked(i) == pending       \* faulty: the entry stays in the map
Untracked(i) == pending \ {i}    \* delete(c.pending, id)

NobodyWaits == {}                \* faulty: the entries are dropped unanswered
TakenOnClose == pending          \* pending := c.pending

ClaimsApplied == TRUE            \* faulty: claims an edit nobody took
DefaultApplied == FALSE          \* defaultServerRequestHandler

NeverFails == FALSE              \* faulty: a write waits for a dead reader
WriteFails == ~up                \* EPIPE

Init ==
    /\ pending = {} /\ nextID = FirstID /\ waiters = <<>> /\ closed = FALSE
    /\ chan = [i \in Ids |-> Empty]
    /\ editChan = [w \in Ids |-> Empty] /\ nextWaiter = 1
    /\ pc = [c \in Callers |-> "idle"]
    /\ id = [c \in Callers |-> 0] /\ wid = [c \in Callers |-> 0]
    /\ ret = [c \in Callers |-> "none"]
    /\ rpc = "read" /\ rcur = NoMsg /\ rwid = 0 /\ applied = FALSE
    /\ fan = {} /\ wfan = {}
    /\ toServer = <<>> /\ toClient = <<>>
    /\ up = TRUE /\ owed = {} /\ edits = {} /\ asked = 0 /\ answered = {}

-----------------------------------------------------------------------------
(* Callers *)

Goto(c, l) == pc' = [pc EXCEPT ![c] = l]
ReturnWith(c, how) == ret' = [ret EXCEPT ![c] = how]

HasRoom(pipe) == Len(pipe) < PipeRoom

(* NextApplyEdit: a fresh buffered channel joins the list, whether or not  *)
(* the connection is already closed.                                       *)
NextApplyEdit(c) ==
    /\ c \in Commanders /\ pc[c] = "idle" /\ nextWaiter \in Ids
    /\ waiters' = Append(waiters, nextWaiter)
    /\ wid' = [wid EXCEPT ![c] = nextWaiter]
    /\ nextWaiter' = nextWaiter + 1
    /\ Goto(c, "armed")
    /\ UNCHANGED <<pending, nextID, closed, chan, editChan, id, ret, readerVars,
                   toServer, toClient, serverVars>>

ReadyToRequest(c) == pc[c] = (IF c \in Commanders THEN "armed" ELSE "idle")

(* First critical section of RequestCtx. *)
Register(c) ==
    /\ ReadyToRequest(c) /\ IsOpen /\ nextID \in Ids
    /\ pending' = pending \cup {nextID}
    /\ id' = [id EXCEPT ![c] = nextID]
    /\ nextID' = FreshID
    /\ Goto(c, "registered")
    /\ UNCHANGED <<waiters, closed, chan, editChan, nextWaiter, wid, ret, readerVars,
                   toServer, toClient, serverVars>>

(* The same section when the connection is closed; the commander's request *)
(* panics out of resolveEdit and leaves its edit channel in the list.      *)
RefuseClosed(c) ==
    /\ ReadyToRequest(c) /\ closed
    /\ ReturnWith(c, "error") /\ Goto(c, "idle")
    /\ UNCHANGED <<clientVars, id, wid, readerVars, toServer, toClient, serverVars>>

RequestOf(c) == [kind |-> "req", id |-> id[c], by |-> c]

(* send: one Write of a whole frame under writeMu. *)
Send(c) ==
    /\ pc[c] = "registered" /\ up /\ HasRoom(toServer)
    /\ toServer' = Append(toServer, RequestOf(c))
    /\ Goto(c, "waiting")
    /\ UNCHANGED <<clientVars, id, wid, ret, readerVars, toClient, serverVars>>

(* The write fails once the process is gone: untrack the call, return the  *)
(* write error.                                                            *)
SendFails(c) ==
    /\ pc[c] = "registered" /\ ~up
    /\ pending' = Untracked(id[c])
    /\ ReturnWith(c, "error") /\ Goto(c, "idle")
    /\ UNCHANGED <<nextID, waiters, closed, chan, editChan, nextWaiter, id, wid,
                   readerVars, toServer, toClient, serverVars>>

(* The select of RequestCtx takes the result.  A commander whose command   *)
(* was answered goes on to wait for the edit; if its request failed it     *)
(* panics, and its edit channel stays in the list.                         *)
ReceiveAnswer(c) ==
    /\ pc[c] = "waiting" /\ chan[id[c]].kind = "res"
    /\ chan' = [chan EXCEPT ![id[c]] = Empty]
    /\ ReturnWith(c, "answer")
    /\ \/ Goto(c, "idle")
       \/ c \in Commanders /\ Goto(c, "awaitEdit")
    /\ UNCHANGED <<pending, nextID, waiters, closed, editChan, nextWaiter, id, wid,
                   readerVars, toServer, toClient, serverVars>>

ReceiveLost(c) ==
    /\ pc[c] = "waiting" /\ chan[id[c]] = Lost
    /\ chan' = [chan EXCEPT ![id[c]] = Empty]
    /\ ReturnWith(c, "error") /\ Goto(c, "idle")
    /\ UNCHANGED <<pending, nextID, waiters, closed, editChan, nextWaiter, id, wid,
                   readerVars, toServer, toClient, serverVars>>

Cancel(c) ==
    /\ c \in Cancellable /\ pc[c] = "waiting"
    /\ pending' = Untracked(id[c])
    /\ ReturnWith(c, "cancelled") /\ Goto(c, "idle")
    /\ UNCHANGED <<nextID, waiters, closed, chan, editChan, nextWaiter, id, wid,
                   readerVars, toServer, toClient, serverVars>>

(* resolveEdit's select: the edit (a closed channel reads as no edit) ...  *)
TakeEdit(c) ==
    /\ pc[c] = "awaitEdit" /\ editChan[wid[c]] # Empty
    /\ Goto(c, "idle")
    /\ UNCHANGED <<clientVars, id, wid, ret, readerVars, toServer, toClient, serverVars>>

(* ... or two seconds pass; the channel stays in the list. *)
EditTimeout(c) ==
    /\ pc[c] = "awaitEdit"
    /\ Goto(c, "idle")
    /\ UNCHANGED <<clientVars, id, wid, ret, readerVars, toServer, toClient, serverVars>>

(* Notify: a failed write is ignored. *)
Notify(c) ==
    /\ pc[c] = "idle" /\ up /\ HasRoom(toServer)
    /\ toServer' = Append(toServer, [kind |-> "note"])
    /\ UNCHANGED <<clientVars, callerVars, readerVars, toClient, serverVars>>

-----------------------------------------------------------------------------
(* The reader goroutine: pumpStdout and dispatch *)

NextMsg == Head(toClient)

ReadMsg(kind) ==
    /\ rpc = "read" /\ toClient # <<>> /\ NextMsg.kind = kind
    /\ rcur' = NextMsg
    /\ toClient' = Tail(toClient)

(* dispatch of a response: find the channel and untrack the call; an id    *)
(* nobody tracks is dropped.                                               *)
DispatchResponse ==
    /\ ReadMsg("res")
    /\ pending' = Untracked(NextMsg.id)
    /\ rpc' = IF NextMsg.id \in pending THEN "deliver" ELSE "read"
    /\ UNCHANGED <<nextID, waiters, closed, chan, editChan, nextWaiter, callerVars,
                   rwid, applied, fan, wfan, toServer, serverVars>>

(* ... and ch <- res outside the lock; a full channel would block here. *)
Deliver ==
    /\ rpc = "deliver" /\ chan[rcur.id] = Empty
    /\ chan' = [chan EXCEPT ![rcur.id] = rcur]
    /\ rpc' = "read"
    /\ UNCHANGED <<pending, nextID, waiters, closed, editChan, nextWaiter, callerVars,
                   rcur, rwid, applied, fan, wfan, toServer, toClient, serverVars>>

(* dispatch of workspace/applyEdit: the first waiter is popped; without    *)
(* one the default handler answers applied:false.                          *)
DispatchApplyEdit ==
    /\ ReadMsg("edit")
    /\ IF waiters # <<>>
         THEN /\ rwid' = Head(waiters) /\ waiters' = Tail(waiters)
              /\ rpc' = "handoff" /\ UNCHANGED applied
         ELSE /\ applied' = DefaultApplied /\ rpc' = "reply" /\ UNCHANGED <<rwid, waiters>>
    /\ UNCHANGED <<pending, nextID, closed, chan, editChan, nextWaiter, callerVars,
                   fan, wfan, toServer, serverVars>>

HandOff ==
    /\ rpc = "handoff" /\ editChan[rwid] = Empty
    /\ editChan' = [editChan EXCEPT ![rwid] = rcur]
    /\ applied' = TRUE /\ rpc' = "reply"
    /\ UNCHANGED <<pending, nextID, waiters, closed, chan, nextWaiter, callerVars,
                   rcur, rwid, fan, wfan, toServer, toClient, serverVars>>

(* Any other request of the server is answered by onServerRequest. *)
DispatchServerRequest ==
    /\ ReadMsg("ask")
    /\ applied' = FALSE /\ rpc' = "reply"
    /\ UNCHANGED <<clientVars, callerVars, rwid, fan, wfan, toServer, serverVars>>

(* A notification runs onNotification (the trackers) on this goroutine. *)
DispatchNotification ==
    /\ ReadMsg("progress")
    /\ UNCHANGED <<clientVars, callerVars, rpc, rwid, applied, fan, wfan, toServer,
                   serverVars>>

(* replyResult / replyError: written by the reader itself, which reads     *)
(* nothing until the write is done.  A failed write is ignored.            *)
Reply ==
    /\ rpc = "reply"
    /\ \/ up /\ HasRoom(toServer)
          /\ toServer' = Append(toServer, [kind |-> "reply", applied |-> applied])
       \/ WriteFails /\ UNCHANGED toServer
    /\ rpc' = "read"
    /\ UNCHANGED <<clientVars, callerVars, rcur, rwid, applied, fan, wfan, toClient,
                   serverVars>>

SeqElems(s) == {s[i] : i \in 1..Len(s)}

(* End of the output: one critical section marks the client closed and     *)
(* takes both tables, then every taken channel is failed or closed.        *)
Close ==
    /\ rpc = "read" /\ ~up /\ toClient = <<>>
    /\ closed' = TRUE
    /\ fan' = TakenOnClose /\ pending' = {}
    /\ wfan' = SeqElems(waiters) /\ waiters' = <<>>
    /\ rpc' = "fan"
    /\ UNCHANGED <<nextID, chan, editChan, nextWaiter, callerVars, rcur, rwid, applied,
                   toServer, toClient, serverVars>>

FailPending(i) ==
    /\ rpc = "fan" /\ i \in fan /\ chan[i] = Empty
    /\ chan' = [chan EXCEPT ![i] = Lost]
    /\ fan' = fan \ {i}
    /\ UNCHANGED <<pending, nextID, waiters, closed, editChan, nextWaiter, callerVars,
                   rpc, rcur, rwid, applied, wfan, toServer, toClient, serverVars>>

CloseWaiter(w) ==
    /\ rpc = "fan" /\ fan = {} /\ w \in wfan
    /\ editChan' = [editChan EXCEPT ![w] = Lost]
    /\ wfan' = wfan \ {w}
    /\ UNCHANGED <<pending, nextID, waiters, closed, chan, nextWaiter, callerVars,
                   rpc, rcur, rwid, applied, fan, toServer, toClient, serverVars>>

(* close(c.exited): what Exited() waits for. *)
SignalExited ==
    /\ rpc = "fan" /\ fan = {} /\ wfan = {}
    /\ rpc' = "exited"
    /\ UNCHANGED <<clientVars, callerVars, rcur, rwid, applied, fan, wfan, toServer,
                   toClient, serverVars>>

-----------------------------------------------------------------------------
(* The language server (external) *)

ServerRead ==
    /\ up /\ toServer # <<>>
    /\ toServer' = Tail(toServer)
    /\ LET m == Head(toServer) IN
         IF m.kind = "req" THEN owed' = owed \cup {m} /\ edits' = edits \cup {m.id}
                           ELSE UNCHANGED <<owed, edits>>
    /\ UNCHANGED <<clientVars, callerVars, readerVars, toClient, up, asked, answered>>

ServerWrite(m) == up /\ HasRoom(toClient) /\ toClient' = Append(toClient, m)

ServerAnswer(r) ==
    /\ r \in owed
    /\ ServerWrite([kind |-> "res", id |-> r.id, by |-> r.by])
    /\ owed' = owed \ {r}
    /\ answered' = answered \cup {r.id}
    /\ UNCHANGED <<clientVars, callerVars, readerVars, toServer, up, edits, asked>>

ServerApplyEdit(i) ==
    /\ i \in edits
    /\ ServerWrite([kind |-> "edit", id |-> i])
    /\ edits' = edits \ {i}
    /\ UNCHANGED <<clientVars, callerVars, readerVars, toServer, up, owed, asked, answered>>

ServerSpeak(kind) ==
    /\ asked < MaxAsks
    /\ ServerWrite([kind |-> kind])
    /\ asked' = asked + 1
    /\ UNCHANGED <<clientVars, callerVars, readerVars, toServer, up, owed, edits, answered>>

(* The process ends: what it had not read is lost, what it had written can *)
(* still be read ...                                                       *)
ServerExit ==
    /\ up /\ up' = FALSE
    /\ toServer' = <<>> /\ owed' = {} /\ edits' = {}
    /\ UNCHANGED <<clientVars, callerVars, readerVars, toClient, asked, answered>>

(* ... until cmd.Wait, on a goroutine of its own, reaps it and closes the  *)
(* pipes: what the reader has not read by then is lost.                    *)
Reap ==
    /\ ~up /\ toClient # <<>>
    /\ toClient' = <<>>
    /\ UNCHANGED <<clientVars, callerVars, readerVars, toServer, serverVars>>

-----------------------------------------------------------------------------
RequestStep(c) == Register(c) \/ RefuseClosed(c) \/ Send(c) \/ SendFails(c)
ResultStep(c)  == ReceiveAnswer(c) \/ ReceiveLost(c)

CallerStep(c) ==
    \/ NextApplyEdit(c) \/ RequestStep(c) \/ ResultStep(c) \/ Cancel(c)
    \/ TakeEdit(c) \/ EditTimeout(c) \/ Notify(c)

ReaderStep ==
    \/ DispatchResponse \/ Deliver \/ DispatchApplyEdit \/ HandOff
    \/ DispatchServerRequest \/ DispatchNotification \/ Reply \/ Close
    \/ \E i \in Ids : FailPending(i) \/ CloseWaiter(i)
    \/ SignalExited

ServerStep ==
    \/ ServerRead \/ ServerExit \/ Reap
    \/ \E r \in owed : ServerAnswer(r)
    \/ \E i \in edits : ServerApplyEdit(i)
    \/ \E kind \in {"ask", "progress"} : ServerSpeak(kind)

Next == (\E c \in Callers : CallerStep(c)) \/ ReaderStep \/ ServerStep

(* The scheduler runs every goroutine that can run, writeMu (a sync.Mutex, *)
(* which hands itself to the longest waiter) starves no writer, and the    *)
(* server keeps reading its input.  Nothing is assumed of its answers or   *)
(* of its death.                                                           *)
Fairness ==
    /\ \A c \in Callers :
          /\ SF_vars(Send(c)) /\ WF_vars(SendFails(c))
          /\ WF_vars(ResultStep(c))
    /\ WF_vars(ReaderStep) /\ SF_vars(Reply)
    /\ WF_vars(ServerRead)

Spec == Init /\ [][Next]_vars
FairSpec == Spec /\ Fairness

-----------------------------------------------------------------------------
(* Properties *)

Pcs  == {"idle", "armed", "registered", "waiting", "awaitEdit"}
Rpcs == {"read", "deliver", "handoff", "reply", "fan", "exited"}

InFlight(c) == pc[c] \in {"registered", "waiting"}

(* Every variable has its type; the reader's variables and id[c] have the  *)
(* narrower type of the point they are used at.                            *)
TypeOK ==
    /\ pending \subseteq Ids /\ nextID \in Nat \ {0} /\ nextID <= MaxRequests + 1
    /\ waiters \in Seq(Ids) /\ closed \in BOOLEAN
    /\ chan \in [Ids -> ChanContents]
    /\ editChan \in [Ids -> EditContents]
    /\ nextWaiter \in Nat \ {0} /\ nextWaiter <= MaxRequests + 1
    /\ pc \in [Callers -> Pcs]
    /\ id \in [Callers -> Ids \cup {0}] /\ wid \in [Callers -> Ids \cup {0}]
    /\ ret \in [Callers -> {"none", "answer", "error", "cancelled"}]
    /\ rpc \in Rpcs /\ rcur \in ServerMsgs \cup {NoMsg}
    /\ rwid \in Ids \cup {0} /\ applied \in BOOLEAN
    /\ fan \subseteq Ids /\ wfan \subseteq Ids
    /\ toServer \in Seq(ClientMsgs) /\ toClient \in Seq(ServerMsgs)
    /\ up \in BOOLEAN /\ owed \subseteq Requests /\ edits \subseteq Ids
    /\ asked \in Nat /\ answered \subseteq Ids
    /\ rpc = "deliver" => rcur \in Answers
    /\ rpc = "handoff" => rcur \in Edits /\ rwid \in Ids
    /\ \A c \in Callers : InFlight(c) => id[c] \in Ids

(* A call that is in flight is never forgotten: either it is tracked and   *)
(* the connection is not yet marked closed, or its failure or its answer   *)
(* is on its way to its channel, or already there.  The race is between    *)
(* the registration, the close of the connection and the reader that takes *)
(* an entry out of pending before it sends on the channel.                 *)
NeverForgotten ==
    \A c \in Callers : InFlight(c) =>
        \/ id[c] \in pending /\ ~closed
        \/ id[c] \in fan
        \/ rpc = "deliver" /\ rcur.id = id[c]
        \/ chan[id[c]] # Empty

(* The reader goroutine never blocks on a channel: whenever it is about to *)
(* send on a response channel or an edit channel, the slot is free, and no *)
(* channel is closed after it was used or used after it was closed.  If it *)
(* blocked, no caller of the daemon would ever be answered again.          *)
ReaderNeverBlocks ==
    /\ rpc = "deliver" => chan[rcur.id] = Empty
    /\ \A i \in fan : chan[i] = Empty
    /\ rpc = "handoff" => editChan[rwid] = Empty
    /\ \A w \in wfan : editChan[w] = Empty

(* What a caller receives is the answer to what it asked: the channel it   *)
(* waits on never holds the answer to a request of another caller, or to   *)
(* an earlier, cancelled request of its own.                               *)
Correlation ==
    \A c \in Callers :
        InFlight(c) /\ chan[id[c]].kind = "res" =>
            chan[id[c]].by = c /\ chan[id[c]].id = id[c]

(* The server is told applied:true exactly for the edits that went into an *)
(* edit channel of a resolveEdit call.                                     *)
AppliedIffHanded ==
    [][ rpc # "reply" /\ rpc' = "reply" =>
          (applied' <=> \E w \in Ids : editChan[w] = Empty /\ editChan'[w] # Empty) ]_vars

(* "with someone waiting for it": an edit is handed over only to a channel *)
(* some resolveEdit call still listens to, or is about to.                 *)
HandedToListener ==
    [][ \A w \in Ids :
          editChan[w] # editChan'[w] /\ editChan'[w].kind = "edit" =>
              \E c \in Callers : wid[c] = w /\ pc[c] # "idle" ]_vars

-----------------------------------------------------------------------------
(* The inductive invariant behind the safety properties. *)

(* Response channels: an id is in at most one place, and its channel is    *)
(* empty until the reader or the close fills it.                           *)
ChannelInv ==
    /\ \A i \in pending : i < nextID /\ chan[i] = Empty
    /\ \A i \in fan : i < nextID /\ chan[i] = Empty
    /\ rpc = "deliver" => chan[rcur.id] = Empty /\ rcur.id \notin pending
    /\ \A i \in Ids : i >= nextID => chan[i] = Empty
    /\ \A i \in Ids : chan[i].kind = "res" => chan[i].id = i
    /\ \A i \in Ids : chan[i] = Lost => ~up

(* Closing is final and happens once the server is gone. *)
CloseInv ==
    /\ closed <=> rpc \in {"fan", "exited"}
    /\ closed => pending = {} /\ ~up
    /\ rpc # "fan" => fan = {} /\ wfan = {}

(* Calls in flight have ids of their own. *)
CallInv ==
    /\ \A c \in Callers : InFlight(c) => id[c] < nextID
    /\ \A c, d \in Callers : InFlight(c) /\ InFlight(d) /\ id[c] = id[d] => c = d

(* A record under way between client and server was issued, and belongs to *)
(* the caller that still waits for its id, if one does.                    *)
Issued(r) ==
    /\ r.id < nextID
    /\ \A c \in Callers : InFlight(c) /\ id[c] = r.id => r.by = c

OriginInv ==
    /\ \A n \in 1..Len(toServer) : toServer[n].kind = "req" => Issued(toServer[n])
    /\ \A r \in owed : Issued(r)
    /\ \A n \in 1..Len(toClient) : toClient[n].kind = "res" => Issued(toClient[n])
    /\ rpc = "deliver" => Issued(rcur)
    /\ \A i \in Ids : chan[i].kind = "res" => Issued(chan[i])

(* Edit channels: queued once, empty while queued or about to be filled.   *)
EditInv ==
    /\ \A n \in 1..Len(waiters) : waiters[n] < nextWaiter /\ editChan[waiters[n]] = Empty
    /\ \A m, n \in 1..Len(waiters) : waiters[m] = waiters[n] => m = n
    /\ \A w \in wfan :
          /\ w < nextWaiter /\ editChan[w] = Empty
          /\ \A n \in 1..Len(waiters) : waiters[n] # w
    /\ rpc = "handoff" =>
          /\ rwid < nextWaiter /\ editChan[rwid] = Empty
          /\ \A n \in 1..Len(waiters) : waiters[n] # rwid
    /\ \A w \in Ids : w >= nextWaiter => editChan[w] = Empty

(* The inductive invariant: with TypeOK it is preserved by every step and  *)
(* implies NeverForgotten, ReaderNeverBlocks and Correlation.              *)
IInv == ChannelInv /\ CloseInv /\ CallInv /\ OriginInv /\ EditInv /\ NeverForgotten

(* The calls as their callers see them. *)
Calls == INSTANCE LspCalls WITH
    open     <- [c \in Callers |-> InFlight(c)],
    answered <- [c \in Callers |-> InFlight(c) /\ id[c] \in answered],
    last     <- ret

(* The client implements what it promises its callers; with fairness, a    *)
(* call the server answered returns, and once the server is gone every     *)
(* call returns.                                                           *)
ImplementsCalls == Calls!CallsSpec

(* When the server is gone, Exited() is eventually signalled: the daemon's *)
(* watcher depends on it.                                                  *)
ExitIsNoticed == ~up ~> rpc = "exited"
=============================================================================
