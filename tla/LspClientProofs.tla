-------------------------- MODULE LspClientProofs --------------------------
(***************************************************************************)
(* Proofs about LspClient, for every set of callers and every bound.       *)
(***************************************************************************)
EXTENDS LspClient, TLAPS

USE CallersAssumption, BoundsAssumption

(* What the kind of a message says of its shape. *)
LEMMA MessageShapes ==
    /\ \A m \in ServerMsgs : m.kind = "res" => m \in Answers
    /\ \A m \in ServerMsgs : m.kind = "edit" => m \in Edits
    /\ \A m \in ClientMsgs : m.kind = "req" => m \in Requests
    /\ \A r \in Answers : r.kind = "res" /\ r.id \in Ids /\ r.by \in Callers
    /\ \A r \in Requests : r.kind = "req" /\ r.id \in Ids /\ r.by \in Callers
    /\ \A e \in Edits : e.kind = "edit" /\ e.id \in Ids
  BY DEF ServerMsgs, ClientMsgs, Answers, Edits, Requests

(* Messages and channel contents have their types. *)
LEMMA MessageTypes ==
    /\ Answers \subseteq ServerMsgs /\ Edits \subseteq ServerMsgs
    /\ Requests \subseteq ClientMsgs
    /\ Answers \subseteq ChanContents /\ Edits \subseteq EditContents
    /\ Empty \in ChanContents /\ Lost \in ChanContents
    /\ Empty \in EditContents /\ Lost \in EditContents
    /\ [kind |-> "note"] \in ClientMsgs
    /\ \A b \in BOOLEAN : [kind |-> "reply", applied |-> b] \in ClientMsgs
    /\ \A k \in {"ask", "progress"} : [kind |-> k] \in ServerMsgs
    /\ \A i \in Ids : [kind |-> "edit", id |-> i] \in Edits
    /\ \A i \in Ids, c \in Callers :
          /\ [kind |-> "req", id |-> i, by |-> c] \in Requests
          /\ [kind |-> "res", id |-> i, by |-> c] \in Answers
  BY DEF ServerMsgs, ClientMsgs, Answers, Edits, Requests, ChanContents, EditContents,
         Empty, Lost

(* The kinds of channel contents tell them apart. *)
LEMMA ContentShapes ==
    /\ Empty.kind = "empty" /\ Lost.kind = "lost" /\ Empty # Lost
    /\ \A x \in ChanContents : x.kind = "res" => x \in Answers
    /\ \A x \in ChanContents : x.kind = "res" \/ x = Empty \/ x = Lost
    /\ \A x \in EditContents : x.kind = "edit" \/ x = Empty \/ x = Lost
    /\ \A r \in Answers : r # Empty /\ r # Lost
    /\ \A e \in Edits : e # Empty /\ e # Lost
  BY DEF Answers, Edits, ChanContents, EditContents, Empty, Lost

(* Reading a pipe. *)
LEMMA HeadAndTail ==
    ASSUME NEW S, NEW s \in Seq(S), s # <<>>
    PROVE  Head(s) \in S /\ Tail(s) \in Seq(S)
  OBVIOUS

(* Writing to a pipe. *)
LEMMA AppendType ==
    ASSUME NEW S, NEW s \in Seq(S), NEW m \in S
    PROVE  Append(s, m) \in Seq(S)
  OBVIOUS

(* TypeOK is preserved by every step of the client, its callers, the       *)
(* reader goroutine and the server.                                        *)
THEOREM TypeCorrect == Spec => []TypeOK
<1> USE DEF Pcs, Rpcs
<1>1. Init => TypeOK
  <2> SUFFICES ASSUME Init PROVE TypeOK
    OBVIOUS
  <2>1. /\ chan \in [Ids -> ChanContents] /\ editChan \in [Ids -> EditContents]
    BY MessageTypes DEF Init
  <2>2. /\ waiters \in Seq(Ids) /\ toServer \in Seq(ClientMsgs)
        /\ toClient \in Seq(ServerMsgs)
    BY DEF Init
  <2>3. 1 \in Nat \ {0} /\ 1 <= MaxRequests + 1
    OBVIOUS
  <2> QED
    BY <2>1, <2>2, <2>3 DEF Init, TypeOK, FirstID, InFlight
<1>2. ASSUME TypeOK, [Next]_vars
      PROVE  TypeOK'
  <2> USE <1>2 DEF TypeOK
  <2>1. ASSUME NEW c \in Callers, CallerStep(c)
        PROVE  TypeOK'
    <3> USE DEF Goto, ReturnWith, HasRoom, ReadyToRequest, Untracked, InFlight,
                readerVars, serverVars
    <3>1. CASE NextApplyEdit(c)
      BY <3>1 DEF NextApplyEdit, Ids
    <3>2. CASE Register(c)
      BY <3>2 DEF Register, FreshID, Ids
    <3>3. CASE RefuseClosed(c)
      BY <3>3 DEF RefuseClosed, clientVars
    <3>4. CASE Send(c)
      <4>1. RequestOf(c) \in ClientMsgs
        BY <3>4, MessageTypes DEF Send, RequestOf
      <4> QED
        BY <3>4, <4>1 DEF Send, clientVars
    <3>5. CASE SendFails(c)
      BY <3>5 DEF SendFails
    <3>6. CASE ReceiveAnswer(c)
      BY <3>6, MessageTypes DEF ReceiveAnswer
    <3>7. CASE ReceiveLost(c)
      BY <3>7, MessageTypes DEF ReceiveLost
    <3>8. CASE Cancel(c)
      BY <3>8 DEF Cancel
    <3>9. CASE TakeEdit(c) \/ EditTimeout(c)
      BY <3>9 DEF TakeEdit, EditTimeout, clientVars
    <3>10. CASE Notify(c)
      BY <3>10, MessageTypes DEF Notify, clientVars, callerVars
    <3> QED
      BY <2>1, <3>1, <3>2, <3>3, <3>4, <3>5, <3>6, <3>7, <3>8, <3>9, <3>10
      DEF CallerStep, RequestStep, ResultStep
  <2>2. ASSUME ReaderStep
        PROVE  TypeOK'
    <3> USE DEF HasRoom, InFlight, callerVars, serverVars
    <3>1. ASSUME NEW k, ReadMsg(k)
          PROVE  /\ NextMsg \in ServerMsgs /\ rcur' = NextMsg /\ NextMsg.kind = k
                 /\ toClient' \in Seq(ServerMsgs)
      BY <3>1, HeadAndTail DEF ReadMsg, NextMsg
    <3>2. CASE DispatchResponse
      BY <3>2, <3>1, MessageShapes DEF DispatchResponse, Untracked
    <3>3. CASE Deliver
      BY <3>3, MessageTypes DEF Deliver
    <3>4. CASE DispatchApplyEdit
      <4>1. waiters # <<>> => Head(waiters) \in Ids /\ Tail(waiters) \in Seq(Ids)
        BY HeadAndTail
      <4> QED
        BY <3>4, <3>1, <4>1, MessageShapes DEF DispatchApplyEdit, DefaultApplied
    <3>5. CASE HandOff
      BY <3>5, MessageTypes DEF HandOff
    <3>6. CASE DispatchServerRequest
      BY <3>6, <3>1 DEF DispatchServerRequest, clientVars
    <3>7. CASE DispatchNotification
      BY <3>7, <3>1 DEF DispatchNotification, clientVars, ReadMsg
    <3>8. CASE Reply
      <4>1. [kind |-> "reply", applied |-> applied] \in ClientMsgs
        BY MessageTypes
      <4>2. toServer' \in Seq(ClientMsgs)
        <5>1. CASE toServer' = Append(toServer, [kind |-> "reply", applied |-> applied])
          BY <5>1, <4>1, AppendType
        <5>2. CASE UNCHANGED toServer
          BY <5>2
        <5> QED
          BY <3>8, <5>1, <5>2 DEF Reply
      <4>3. /\ rpc' = "read"
            /\ UNCHANGED <<clientVars, callerVars, rcur, rwid, applied, fan, wfan,
                           toClient, serverVars>>
        BY <3>8 DEF Reply
      <4> QED
        BY <4>2, <4>3 DEF clientVars
    <3>9. CASE Close
      <4>1. fan' \subseteq Ids /\ pending' \subseteq Ids
        BY <3>9 DEF Close, TakenOnClose
      <4>2. wfan' \subseteq Ids /\ waiters' \in Seq(Ids)
        BY <3>9 DEF Close, SeqElems
      <4>3. closed' \in BOOLEAN /\ rpc' = "fan"
        BY <3>9 DEF Close
      <4>4. UNCHANGED <<nextID, chan, editChan, nextWaiter, callerVars, rcur, rwid,
                        applied, toServer, toClient, serverVars>>
        BY <3>9 DEF Close
      <4>5. \A c \in Callers : InFlight(c)' => id'[c] \in Ids
        BY <4>4
      <4> QED
        BY <4>1, <4>2, <4>3, <4>4, <4>5
    <3>10. ASSUME NEW i \in Ids, FailPending(i) \/ CloseWaiter(i)
           PROVE  TypeOK'
      <4>1. CASE FailPending(i)
        BY <4>1, MessageTypes DEF FailPending
      <4>2. CASE CloseWaiter(i)
        BY <4>2, MessageTypes DEF CloseWaiter
      <4> QED
        BY <3>10, <4>1, <4>2
    <3>11. CASE SignalExited
      BY <3>11 DEF SignalExited, clientVars
    <3> QED
      BY <2>2, <3>2, <3>3, <3>4, <3>5, <3>6, <3>7, <3>8, <3>9, <3>10, <3>11
      DEF ReaderStep
  <2>3. ASSUME ServerStep
        PROVE  TypeOK'
    <3> USE DEF ServerWrite, HasRoom, InFlight, clientVars, callerVars, readerVars
    <3>1. CASE ServerRead
      <4>1. Head(toServer) \in ClientMsgs /\ Tail(toServer) \in Seq(ClientMsgs)
        BY <3>1, HeadAndTail DEF ServerRead
      <4>2. owed' \subseteq Requests /\ edits' \subseteq Ids
        <5>1. CASE Head(toServer).kind = "req"
          <6>1. Head(toServer) \in Requests /\ Head(toServer).id \in Ids
            BY <4>1, <5>1, MessageShapes
          <6> QED
            BY <3>1, <5>1, <6>1 DEF ServerRead
        <5>2. CASE Head(toServer).kind # "req"
          BY <3>1, <5>2 DEF ServerRead
        <5> QED
          BY <5>1, <5>2
      <4> QED
        BY <3>1, <4>1, <4>2 DEF ServerRead
    <3>2. CASE ServerExit
      <4>1. toServer' \in Seq(ClientMsgs)
        BY <3>2 DEF ServerExit
      <4> QED
        BY <3>2, <4>1 DEF ServerExit
    <3>3. ASSUME NEW r \in owed, ServerAnswer(r)
          PROVE  TypeOK'
      <4>1. r.id \in Ids /\ [kind |-> "res", id |-> r.id, by |-> r.by] \in ServerMsgs
        BY MessageShapes, MessageTypes
      <4> QED
        BY <3>3, <4>1 DEF ServerAnswer
    <3>4. ASSUME NEW i \in edits, ServerApplyEdit(i)
          PROVE  TypeOK'
      <4>1. [kind |-> "edit", id |-> i] \in ServerMsgs
        BY MessageTypes
      <4> QED
        BY <3>4, <4>1 DEF ServerApplyEdit
    <3>5. ASSUME NEW kind \in {"ask", "progress"}, ServerSpeak(kind)
          PROVE  TypeOK'
      <4>1. [kind |-> kind] \in ServerMsgs
        BY MessageTypes
      <4> QED
        BY <3>5, <4>1 DEF ServerSpeak
    <3>6. CASE Reap
      <4>1. toClient' \in Seq(ServerMsgs)
        BY <3>6 DEF Reap
      <4> QED
        BY <3>6, <4>1 DEF Reap, serverVars
    <3> QED
      BY <2>3, <3>1, <3>2, <3>3, <3>4, <3>5, <3>6 DEF ServerStep
  <2>4. CASE UNCHANGED vars
    BY <2>4 DEF vars, clientVars, callerVars, readerVars, serverVars, InFlight
  <2> QED
    BY <1>2, <2>1, <2>2, <2>3, <2>4 DEF Next
<1> QED
  BY <1>1, <1>2, PTL DEF Spec

(* The elements of a pipe after a write, and of a list after a pop. *)
LEMMA AppendElements ==
    ASSUME NEW S, NEW s \in Seq(S), NEW m
    PROVE  /\ Len(Append(s, m)) = Len(s) + 1
           /\ \A n \in 1..Len(Append(s, m)) :
                 \/ n \in 1..Len(s) /\ Append(s, m)[n] = s[n]
                 \/ n = Len(s) + 1 /\ Append(s, m)[n] = m
  OBVIOUS

LEMMA TailElements ==
    ASSUME NEW S, NEW s \in Seq(S), s # <<>>
    PROVE  /\ 1 \in 1..Len(s) /\ Head(s) = s[1]
           /\ \A n \in 1..Len(Tail(s)) : n + 1 \in 1..Len(s) /\ Tail(s)[n] = s[n + 1]
  OBVIOUS

(* The inductive invariant holds initially and every step preserves it.    *)
THEOREM Inductive == Spec => []IInv
<1> USE DEF InFlight, Issued, clientVars, callerVars, readerVars, serverVars
<1>1. Init => IInv
  BY ContentShapes DEF Init, IInv, ChannelInv, CloseInv, CallInv, OriginInv, EditInv,
                       NeverForgotten, FirstID
<1>2. ASSUME TypeOK, IInv, [Next]_vars
      PROVE  IInv'
  <2> USE <1>2 DEF TypeOK, IInv, Issued, Pcs, Rpcs
  <2>1. ASSUME NEW c \in Callers, CallerStep(c)
        PROVE  IInv'
    <3> USE DEF Goto, ReturnWith
    <3>1. CASE NextApplyEdit(c)
      <4>1. ChannelInv'
        BY <3>1, MessageShapes, ContentShapes DEF NextApplyEdit, ChannelInv
      <4>2. CloseInv'
        BY <3>1 DEF NextApplyEdit, CloseInv
      <4>3. CallInv'
        BY <3>1 DEF NextApplyEdit, CallInv
      <4>4. OriginInv'
        BY <3>1, MessageShapes, ContentShapes DEF NextApplyEdit, OriginInv
      <4>5. EditInv'
        <5>1. \A n \in 1..Len(waiters') :
                 \/ n \in 1..Len(waiters) /\ waiters'[n] = waiters[n]
                 \/ n = Len(waiters) + 1 /\ waiters'[n] = nextWaiter
          BY <3>1, AppendElements DEF NextApplyEdit
        <5>2. /\ \A n \in 1..Len(waiters) :
                    waiters[n] \in Ids /\ waiters[n] < nextWaiter /\ waiters[n] # nextWaiter
              /\ \A w \in wfan : w < nextWaiter /\ w # nextWaiter
              /\ rpc = "handoff" => rwid # nextWaiter
              /\ \A m, n \in 1..Len(waiters) : waiters[m] = waiters[n] => m = n
          BY DEF EditInv, Ids
        <5>3. /\ nextWaiter \in Ids /\ nextWaiter' = nextWaiter + 1
              /\ UNCHANGED <<editChan, wfan, rpc, rwid, rcur>>
          BY <3>1 DEF NextApplyEdit
        <5>4. \A n \in 1..Len(waiters') :
                 waiters'[n] < nextWaiter' /\ editChan'[waiters'[n]] = Empty
          <6>1. \A n \in 1..Len(waiters) :
                   waiters[n] < nextWaiter + 1 /\ editChan[waiters[n]] = Empty
            BY <5>2 DEF EditInv, Ids
          <6>2. nextWaiter < nextWaiter + 1 /\ editChan[nextWaiter] = Empty
            BY <5>3 DEF EditInv, Ids
          <6> HIDE <1>2
          <6> QED
            BY <5>1, <5>3, <6>1, <6>2
        <5>5. \A m, n \in 1..Len(waiters') : waiters'[m] = waiters'[n] => m = n
          <6> SUFFICES ASSUME NEW m \in 1..Len(waiters'), NEW n \in 1..Len(waiters'),
                              waiters'[m] = waiters'[n]
                       PROVE  m = n
            OBVIOUS
          <6> HIDE <1>2
          <6> QED
            BY <5>1, <5>2
        <5>6. \A w \in wfan : w < nextWaiter' /\ \A n \in 1..Len(waiters') : waiters'[n] # w
          <6>1. \A w \in wfan : w < nextWaiter'
            BY <5>2, <5>3 DEF Ids
          <6>2. \A w \in wfan, n \in 1..Len(waiters) : waiters[n] # w
            BY DEF EditInv
          <6> HIDE <1>2
          <6> QED
            BY <5>1, <5>2, <6>1, <6>2
        <5>7. rpc = "handoff" => \A n \in 1..Len(waiters') : waiters'[n] # rwid
          <6>1. rpc = "handoff" => \A n \in 1..Len(waiters) : waiters[n] # rwid
            BY DEF EditInv
          <6> HIDE <1>2
          <6> QED
            BY <5>1, <5>2, <6>1
        <5>8. /\ \A w \in Ids : w >= nextWaiter' => editChan[w] = Empty
              /\ rpc = "handoff" => rwid < nextWaiter'
          BY <5>3 DEF EditInv, Ids
        <5> QED
          BY <5>3, <5>4, <5>5, <5>6, <5>7, <5>8 DEF EditInv
      <4>6. NeverForgotten'
        BY <3>1 DEF NextApplyEdit, NeverForgotten
      <4> QED
        BY <4>1, <4>2, <4>3, <4>4, <4>5, <4>6
    <3>2. CASE Register(c)
      <4>1. ChannelInv'
        <5>1. /\ nextID \in Ids /\ nextID' = nextID + 1 /\ nextID < nextID + 1
              /\ \A i \in Ids : i < nextID => i < nextID + 1
              /\ \A i \in Ids : i >= nextID + 1 => i >= nextID
              /\ pending' = pending \cup {nextID}
              /\ UNCHANGED <<chan, fan, rpc, rcur, up>>
          BY <3>2 DEF Register, FreshID, Ids
        <5>2. chan[nextID] = Empty
          BY <5>1 DEF ChannelInv, Ids
        <5>3. /\ \A i \in pending : i < nextID' /\ chan[i] = Empty
              /\ \A i \in fan : i < nextID' /\ chan[i] = Empty
              /\ \A i \in Ids : i >= nextID' => chan[i] = Empty
          BY <5>1 DEF ChannelInv
        <5>4. rpc = "deliver" => chan[rcur.id] = Empty /\ rcur.id \notin pending'
          <6>1. rpc = "deliver" => rcur.id # nextID
            BY <5>1 DEF OriginInv, Ids
          <6> QED
            BY <5>1, <6>1 DEF ChannelInv
        <5>5. /\ \A i \in Ids : chan[i].kind = "res" => chan[i].id = i
              /\ \A i \in Ids : chan[i] = Lost => ~up
          BY DEF ChannelInv
        <5> HIDE <1>2
        <5> QED
          BY <5>1, <5>2, <5>3, <5>4, <5>5 DEF ChannelInv
      <4>2. CloseInv'
        BY <3>2 DEF Register, FreshID, IsOpen, CloseInv
      <4>3. CallInv'
        BY <3>2 DEF Register, FreshID, IsOpen, ChannelInv, CallInv, Ids
      <4>4. OriginInv'
        <5>1. /\ nextID \in Ids /\ nextID' = nextID + 1 /\ id'[c] = nextID
              /\ \A d \in Callers : d # c => id'[d] = id[d] /\ pc'[d] = pc[d]
              /\ UNCHANGED <<toServer, toClient, owed, chan, rpc, rcur>>
          BY <3>2 DEF Register, FreshID
        <5>2. ASSUME NEW r, r.id \in Ids, Issued(r)
              PROVE  Issued(r)'
          <6>1. r.id < nextID' /\ r.id # nextID
            BY <5>1, <5>2 DEF Ids
          <6> HIDE <1>2
          <6>2. ASSUME NEW d \in Callers, InFlight(d)', id'[d] = r.id
                PROVE  r.by = d
            <7>1. d # c
              BY <5>1, <6>1, <6>2
            <7>2. InFlight(d) /\ id[d] = r.id
              BY <5>1, <6>2, <7>1
            <7> QED
              BY <5>2, <7>2
          <6> QED
            BY <6>1, <6>2
        <5>3. /\ \A n \in 1..Len(toServer) :
                    toServer[n].kind = "req" => Issued(toServer[n])'
              /\ \A r \in owed : Issued(r)'
          BY <5>1, <5>2, MessageShapes DEF OriginInv
        <5>4. /\ \A n \in 1..Len(toClient) :
                    toClient[n].kind = "res" => Issued(toClient[n])'
              /\ rpc = "deliver" => Issued(rcur)'
          <6>1. \A n \in 1..Len(toClient) :
                   toClient[n].kind = "res" =>
                      toClient[n].id \in Ids /\ Issued(toClient[n])
            BY MessageShapes DEF OriginInv
          <6>2. rpc = "deliver" => rcur.id \in Ids /\ Issued(rcur)
            BY MessageShapes DEF OriginInv
          <6> HIDE <1>2
          <6>3. \A n \in 1..Len(toClient) :
                   toClient[n].kind = "res" => Issued(toClient[n])'
            BY <5>1, <5>2, <6>1
          <6>4. rpc = "deliver" => Issued(rcur)'
            BY <5>1, <5>2, <6>2
          <6> QED
            BY <6>3, <6>4
        <5>5. \A i \in Ids : chan[i].kind = "res" => Issued(chan[i])'
          BY <5>1, <5>2, MessageShapes, ContentShapes DEF OriginInv
        <5> QED
          BY <5>1, <5>3, <5>4, <5>5 DEF OriginInv
      <4>5. EditInv'
        BY <3>2 DEF Register, FreshID, IsOpen, EditInv
      <4>6. NeverForgotten'
        BY <3>2 DEF Register, FreshID, IsOpen, NeverForgotten
      <4> QED
        BY <4>1, <4>2, <4>3, <4>4, <4>5, <4>6
    <3>3. CASE RefuseClosed(c)
      <4>1. ChannelInv'
        BY <3>3, MessageShapes, ContentShapes DEF RefuseClosed, ChannelInv
      <4>2. CloseInv'
        BY <3>3 DEF RefuseClosed, CloseInv
      <4>3. CallInv'
        BY <3>3 DEF RefuseClosed, CallInv
      <4>4. OriginInv'
        BY <3>3, MessageShapes, ContentShapes DEF RefuseClosed, OriginInv
      <4>5. EditInv'
        BY <3>3 DEF RefuseClosed, EditInv
      <4>6. NeverForgotten'
        BY <3>3 DEF RefuseClosed, NeverForgotten
      <4> QED
        BY <4>1, <4>2, <4>3, <4>4, <4>5, <4>6
    <3>4. CASE Send(c)
      <4>1. ChannelInv'
        BY <3>4, MessageShapes, ContentShapes DEF Send, RequestOf, ChannelInv
      <4>2. CloseInv'
        BY <3>4 DEF Send, RequestOf, CloseInv
      <4>3. CallInv'
        BY <3>4 DEF Send, RequestOf, CallInv
      <4>4. OriginInv'
        BY <3>4, AppendElements, MessageShapes, ContentShapes DEF Send, RequestOf, OriginInv, CallInv
      <4>5. EditInv'
        BY <3>4 DEF Send, RequestOf, EditInv
      <4>6. NeverForgotten'
        BY <3>4 DEF Send, RequestOf, NeverForgotten
      <4> QED
        BY <4>1, <4>2, <4>3, <4>4, <4>5, <4>6
    <3>5. CASE SendFails(c)
      <4>1. ChannelInv'
        BY <3>5, MessageShapes, ContentShapes DEF SendFails, Untracked, ChannelInv
      <4>2. CloseInv'
        BY <3>5 DEF SendFails, Untracked, CloseInv
      <4>3. CallInv'
        BY <3>5 DEF SendFails, Untracked, CallInv
      <4>4. OriginInv'
        BY <3>5, MessageShapes, ContentShapes DEF SendFails, Untracked, OriginInv
      <4>5. EditInv'
        BY <3>5 DEF SendFails, Untracked, EditInv
      <4>6. NeverForgotten'
        BY <3>5 DEF SendFails, Untracked, NeverForgotten, CallInv, ChannelInv
      <4> QED
        BY <4>1, <4>2, <4>3, <4>4, <4>5, <4>6
    <3>6. CASE ReceiveAnswer(c)
      <4>1. ChannelInv'
        BY <3>6, MessageShapes, ContentShapes DEF ReceiveAnswer, ChannelInv
      <4>2. CloseInv'
        BY <3>6 DEF ReceiveAnswer, CloseInv
      <4>3. CallInv'
        BY <3>6 DEF ReceiveAnswer, CallInv
      <4>4. OriginInv'
        BY <3>6, MessageShapes, ContentShapes DEF ReceiveAnswer, OriginInv
      <4>5. EditInv'
        BY <3>6 DEF ReceiveAnswer, EditInv
      <4>6. NeverForgotten'
        BY <3>6 DEF ReceiveAnswer, NeverForgotten, CallInv, ChannelInv
      <4> QED
        BY <4>1, <4>2, <4>3, <4>4, <4>5, <4>6
    <3>7. CASE ReceiveLost(c)
      <4>1. ChannelInv'
        BY <3>7, MessageShapes, ContentShapes DEF ReceiveLost, ChannelInv
      <4>2. CloseInv'
        BY <3>7 DEF ReceiveLost, CloseInv
      <4>3. CallInv'
        BY <3>7 DEF ReceiveLost, CallInv
      <4>4. OriginInv'
        BY <3>7, MessageShapes, ContentShapes DEF ReceiveLost, OriginInv
      <4>5. EditInv'
        BY <3>7 DEF ReceiveLost, EditInv
      <4>6. NeverForgotten'
        BY <3>7 DEF ReceiveLost, NeverForgotten, CallInv, ChannelInv
      <4> QED
        BY <4>1, <4>2, <4>3, <4>4, <4>5, <4>6
    <3>8. CASE Cancel(c)
      <4>1. ChannelInv'
        BY <3>8, MessageShapes, ContentShapes DEF Cancel, Untracked, ChannelInv
      <4>2. CloseInv'
        BY <3>8 DEF Cancel, Untracked, CloseInv
      <4>3. CallInv'
        BY <3>8 DEF Cancel, Untracked, CallInv
      <4>4. OriginInv'
        BY <3>8, MessageShapes, ContentShapes DEF Cancel, Untracked, OriginInv
      <4>5. EditInv'
        BY <3>8 DEF Cancel, Untracked, EditInv
      <4>6. NeverForgotten'
        BY <3>8 DEF Cancel, Untracked, NeverForgotten, CallInv, ChannelInv
      <4> QED
        BY <4>1, <4>2, <4>3, <4>4, <4>5, <4>6
    <3>9. CASE TakeEdit(c) \/ EditTimeout(c)
      <4>1. ChannelInv'
        BY <3>9, MessageShapes, ContentShapes DEF TakeEdit, EditTimeout, ChannelInv
      <4>2. CloseInv'
        BY <3>9 DEF TakeEdit, EditTimeout, CloseInv
      <4>3. CallInv'
        BY <3>9 DEF TakeEdit, EditTimeout, CallInv
      <4>4. OriginInv'
        BY <3>9, MessageShapes, ContentShapes DEF TakeEdit, EditTimeout, OriginInv
      <4>5. EditInv'
        BY <3>9 DEF TakeEdit, EditTimeout, EditInv
      <4>6. NeverForgotten'
        BY <3>9 DEF TakeEdit, EditTimeout, NeverForgotten
      <4> QED
        BY <4>1, <4>2, <4>3, <4>4, <4>5, <4>6
    <3>10. CASE Notify(c)
      <4>1. ChannelInv'
        BY <3>10, MessageShapes, ContentShapes DEF Notify, ChannelInv
      <4>2. CloseInv'
        BY <3>10 DEF Notify, CloseInv
      <4>3. CallInv'
        BY <3>10 DEF Notify, CallInv
      <4>4. OriginInv'
        BY <3>10, AppendElements, MessageShapes, ContentShapes DEF Notify, OriginInv
      <4>5. EditInv'
        BY <3>10 DEF Notify, EditInv
      <4>6. NeverForgotten'
        BY <3>10 DEF Notify, NeverForgotten
      <4> QED
        BY <4>1, <4>2, <4>3, <4>4, <4>5, <4>6
    <3> QED
      BY <2>1, <3>1, <3>2, <3>3, <3>4, <3>5, <3>6, <3>7, <3>8, <3>9, <3>10 DEF CallerStep, RequestStep, ResultStep
  <2>2. ASSUME ReaderStep
        PROVE  IInv'
    <3>1. CASE DispatchResponse
      <4>1. ChannelInv'
        BY <3>1, MessageShapes, ContentShapes DEF DispatchResponse, Untracked, ReadMsg, NextMsg, ChannelInv
      <4>2. CloseInv'
        BY <3>1 DEF DispatchResponse, Untracked, ReadMsg, NextMsg, CloseInv
      <4>3. CallInv'
        BY <3>1 DEF DispatchResponse, Untracked, ReadMsg, NextMsg, CallInv
      <4>4. OriginInv'
        BY <3>1, MessageShapes, ContentShapes DEF DispatchResponse, Untracked, ReadMsg, NextMsg, OriginInv
      <4>5. EditInv'
        BY <3>1 DEF DispatchResponse, Untracked, ReadMsg, NextMsg, EditInv
      <4>6. NeverForgotten'
        BY <3>1 DEF DispatchResponse, Untracked, ReadMsg, NextMsg, NeverForgotten
      <4> QED
        BY <4>1, <4>2, <4>3, <4>4, <4>5, <4>6
    <3>2. CASE Deliver
      <4>1. ChannelInv'
        BY <3>2, MessageShapes, ContentShapes DEF Deliver, ChannelInv, CloseInv, OriginInv, Issued, Ids
      <4>2. CloseInv'
        BY <3>2 DEF Deliver, CloseInv
      <4>3. CallInv'
        BY <3>2 DEF Deliver, CallInv
      <4>4. OriginInv'
        BY <3>2, MessageShapes, ContentShapes DEF Deliver, OriginInv
      <4>5. EditInv'
        BY <3>2 DEF Deliver, EditInv
      <4>6. NeverForgotten'
        BY <3>2, ContentShapes DEF Deliver, NeverForgotten
      <4> QED
        BY <4>1, <4>2, <4>3, <4>4, <4>5, <4>6
    <3>3. CASE DispatchApplyEdit
      <4>1. ChannelInv'
        BY <3>3, MessageShapes, ContentShapes DEF DispatchApplyEdit, ReadMsg, NextMsg, DefaultApplied, ChannelInv
      <4>2. CloseInv'
        BY <3>3 DEF DispatchApplyEdit, ReadMsg, NextMsg, DefaultApplied, CloseInv
      <4>3. CallInv'
        BY <3>3 DEF DispatchApplyEdit, ReadMsg, NextMsg, DefaultApplied, CallInv
      <4>4. OriginInv'
        <5>1. /\ rpc' # "deliver" /\ toClient' = Tail(toClient) /\ toClient # <<>>
              /\ UNCHANGED <<toServer, owed, chan, nextID, pc, id>>
          BY <3>3 DEF DispatchApplyEdit, ReadMsg
        <5>2. \A n \in 1..Len(toClient') :
                 n + 1 \in 1..Len(toClient) /\ toClient'[n] = toClient[n + 1]
          BY <5>1, TailElements
        <5> QED
          BY <5>1, <5>2 DEF OriginInv
      <4>5. EditInv'
        <5>1. CASE waiters = <<>>
          BY <3>3, <5>1 DEF DispatchApplyEdit, EditInv, CloseInv
        <5>2. CASE waiters # <<>>
          <6>1. /\ rwid' = waiters[1] /\ rwid' \in Ids
                /\ \A n \in 1..Len(waiters') :
                      n + 1 \in 1..Len(waiters) /\ waiters'[n] = waiters[n + 1]
                /\ 1 \in 1..Len(waiters)
            <7>1. rwid' = Head(waiters) /\ waiters' = Tail(waiters)
              BY <3>3, <5>2 DEF DispatchApplyEdit
            <7> QED
              BY <5>2, <7>1, TailElements
          <6>2. /\ \A n \in 1..Len(waiters') : waiters'[n] # rwid'
                /\ \A m, n \in 1..Len(waiters') : waiters'[m] = waiters'[n] => m = n
            BY <6>1 DEF EditInv
          <6>3. UNCHANGED <<editChan, nextWaiter, wfan>>
            BY <3>3 DEF DispatchApplyEdit
          <6>4. /\ rwid' < nextWaiter /\ editChan[rwid'] = Empty
                /\ \A n \in 1..Len(waiters') :
                      waiters'[n] < nextWaiter /\ editChan[waiters'[n]] = Empty
            BY <6>1 DEF EditInv
          <6>5. \A w \in wfan : \A n \in 1..Len(waiters') : waiters'[n] # w
            BY <6>1 DEF EditInv
          <6> QED
            BY <6>2, <6>3, <6>4, <6>5 DEF EditInv
        <5> QED
          BY <5>1, <5>2
      <4>6. NeverForgotten'
        BY <3>3 DEF DispatchApplyEdit, ReadMsg, NextMsg, DefaultApplied, NeverForgotten
      <4> QED
        BY <4>1, <4>2, <4>3, <4>4, <4>5, <4>6
    <3>4. CASE HandOff
      <4>1. ChannelInv'
        BY <3>4, MessageShapes, ContentShapes DEF HandOff, ChannelInv
      <4>2. CloseInv'
        BY <3>4 DEF HandOff, CloseInv
      <4>3. CallInv'
        BY <3>4 DEF HandOff, CallInv
      <4>4. OriginInv'
        BY <3>4, MessageShapes, ContentShapes DEF HandOff, OriginInv
      <4>5. EditInv'
        BY <3>4 DEF HandOff, EditInv, CloseInv, Ids
      <4>6. NeverForgotten'
        BY <3>4 DEF HandOff, NeverForgotten
      <4> QED
        BY <4>1, <4>2, <4>3, <4>4, <4>5, <4>6
    <3>5. CASE DispatchServerRequest
      <4>1. ChannelInv'
        BY <3>5, MessageShapes, ContentShapes DEF DispatchServerRequest, ReadMsg, NextMsg, ChannelInv
      <4>2. CloseInv'
        BY <3>5 DEF DispatchServerRequest, ReadMsg, NextMsg, CloseInv
      <4>3. CallInv'
        BY <3>5 DEF DispatchServerRequest, ReadMsg, NextMsg, CallInv
      <4>4. OriginInv'
        BY <3>5, MessageShapes, ContentShapes DEF DispatchServerRequest, ReadMsg, NextMsg, OriginInv
      <4>5. EditInv'
        BY <3>5 DEF DispatchServerRequest, ReadMsg, NextMsg, EditInv
      <4>6. NeverForgotten'
        BY <3>5 DEF DispatchServerRequest, ReadMsg, NextMsg, NeverForgotten
      <4> QED
        BY <4>1, <4>2, <4>3, <4>4, <4>5, <4>6
    <3>6. CASE DispatchNotification
      <4>1. ChannelInv'
        BY <3>6, MessageShapes, ContentShapes DEF DispatchNotification, ReadMsg, NextMsg, ChannelInv
      <4>2. CloseInv'
        BY <3>6 DEF DispatchNotification, ReadMsg, NextMsg, CloseInv
      <4>3. CallInv'
        BY <3>6 DEF DispatchNotification, ReadMsg, NextMsg, CallInv
      <4>4. OriginInv'
        BY <3>6, MessageShapes, ContentShapes DEF DispatchNotification, ReadMsg, NextMsg, OriginInv
      <4>5. EditInv'
        BY <3>6 DEF DispatchNotification, ReadMsg, NextMsg, EditInv
      <4>6. NeverForgotten'
        BY <3>6 DEF DispatchNotification, ReadMsg, NextMsg, NeverForgotten
      <4> QED
        BY <4>1, <4>2, <4>3, <4>4, <4>5, <4>6
    <3>7. CASE Reply
      <4>1. ChannelInv'
        BY <3>7, MessageShapes, ContentShapes DEF Reply, ChannelInv
      <4>2. CloseInv'
        BY <3>7 DEF Reply, CloseInv
      <4>3. CallInv'
        BY <3>7 DEF Reply, CallInv
      <4>4. OriginInv'
        <5>1. \A n \in 1..Len(toServer') : toServer'[n].kind = "req" =>
                 n \in 1..Len(toServer) /\ toServer'[n] = toServer[n]
          <6>1. CASE toServer' = Append(toServer, [kind |-> "reply", applied |-> applied])
            BY <6>1, AppendElements
          <6>2. CASE UNCHANGED toServer
            BY <6>2
          <6> QED
            BY <3>7, <6>1, <6>2 DEF Reply
        <5>2. /\ rpc' = "read"
              /\ UNCHANGED <<owed, toClient, chan, nextID, pc, id>>
          BY <3>7 DEF Reply
        <5> QED
          BY <5>1, <5>2 DEF OriginInv
      <4>5. EditInv'
        BY <3>7 DEF Reply, EditInv
      <4>6. NeverForgotten'
        BY <3>7 DEF Reply, NeverForgotten
      <4> QED
        BY <4>1, <4>2, <4>3, <4>4, <4>5, <4>6
    <3>8. CASE Close
      <4>1. ChannelInv'
        BY <3>8, MessageShapes, ContentShapes DEF Close, TakenOnClose, SeqElems, ChannelInv
      <4>2. CloseInv'
        BY <3>8 DEF Close, TakenOnClose, SeqElems, CloseInv
      <4>3. CallInv'
        BY <3>8 DEF Close, TakenOnClose, SeqElems, CallInv
      <4>4. OriginInv'
        BY <3>8, MessageShapes, ContentShapes DEF Close, TakenOnClose, SeqElems, OriginInv
      <4>5. EditInv'
        BY <3>8 DEF Close, TakenOnClose, SeqElems, EditInv
      <4>6. NeverForgotten'
        BY <3>8 DEF Close, TakenOnClose, NeverForgotten, CloseInv
      <4> QED
        BY <4>1, <4>2, <4>3, <4>4, <4>5, <4>6
    <3>9. ASSUME NEW i \in Ids, FailPending(i)
          PROVE  IInv'
      <4>1. ChannelInv'
        BY <3>9, ContentShapes DEF FailPending, ChannelInv, CloseInv, Ids
      <4>2. CloseInv'
        BY <3>9 DEF FailPending, CloseInv
      <4>3. CallInv'
        BY <3>9 DEF FailPending, CallInv
      <4>4. OriginInv'
        BY <3>9, MessageShapes, ContentShapes DEF FailPending, OriginInv
      <4>5. EditInv'
        BY <3>9 DEF FailPending, EditInv
      <4>6. NeverForgotten'
        BY <3>9, ContentShapes DEF FailPending, NeverForgotten
      <4> QED
        BY <4>1, <4>2, <4>3, <4>4, <4>5, <4>6
    <3>10. ASSUME NEW i \in Ids, CloseWaiter(i)
          PROVE  IInv'
      <4>1. ChannelInv'
        BY <3>10, MessageShapes, ContentShapes DEF CloseWaiter, ChannelInv
      <4>2. CloseInv'
        BY <3>10 DEF CloseWaiter, CloseInv
      <4>3. CallInv'
        BY <3>10 DEF CloseWaiter, CallInv
      <4>4. OriginInv'
        BY <3>10, MessageShapes, ContentShapes DEF CloseWaiter, OriginInv
      <4>5. EditInv'
        BY <3>10 DEF CloseWaiter, EditInv, CloseInv, Ids
      <4>6. NeverForgotten'
        BY <3>10 DEF CloseWaiter, NeverForgotten
      <4> QED
        BY <4>1, <4>2, <4>3, <4>4, <4>5, <4>6
    <3>11. CASE SignalExited
      <4>1. ChannelInv'
        BY <3>11, MessageShapes, ContentShapes DEF SignalExited, ChannelInv
      <4>2. CloseInv'
        BY <3>11 DEF SignalExited, CloseInv
      <4>3. CallInv'
        BY <3>11 DEF SignalExited, CallInv
      <4>4. OriginInv'
        BY <3>11, MessageShapes, ContentShapes DEF SignalExited, OriginInv
      <4>5. EditInv'
        BY <3>11 DEF SignalExited, EditInv
      <4>6. NeverForgotten'
        BY <3>11 DEF SignalExited, NeverForgotten
      <4> QED
        BY <4>1, <4>2, <4>3, <4>4, <4>5, <4>6
    <3> QED
      BY <2>2, <3>1, <3>2, <3>3, <3>4, <3>5, <3>6, <3>7, <3>8, <3>9, <3>10, <3>11 DEF ReaderStep
  <2>3. ASSUME ServerStep
        PROVE  IInv'
    <3>1. CASE ServerRead
      <4>1. ChannelInv'
        BY <3>1, MessageShapes, ContentShapes DEF ServerRead, ServerWrite, ChannelInv
      <4>2. CloseInv'
        BY <3>1 DEF ServerRead, ServerWrite, CloseInv
      <4>3. CallInv'
        BY <3>1 DEF ServerRead, ServerWrite, CallInv
      <4>4. OriginInv'
        BY <3>1, MessageShapes, ContentShapes DEF ServerRead, ServerWrite, OriginInv
      <4>5. EditInv'
        BY <3>1 DEF ServerRead, ServerWrite, EditInv
      <4>6. NeverForgotten'
        BY <3>1 DEF ServerRead, ServerWrite, NeverForgotten
      <4> QED
        BY <4>1, <4>2, <4>3, <4>4, <4>5, <4>6
    <3>2. CASE ServerExit
      <4>1. ChannelInv'
        BY <3>2, MessageShapes, ContentShapes DEF ServerExit, ServerWrite, ChannelInv
      <4>2. CloseInv'
        BY <3>2 DEF ServerExit, ServerWrite, CloseInv
      <4>3. CallInv'
        BY <3>2 DEF ServerExit, ServerWrite, CallInv
      <4>4. OriginInv'
        BY <3>2, MessageShapes, ContentShapes DEF ServerExit, ServerWrite, OriginInv
      <4>5. EditInv'
        BY <3>2 DEF ServerExit, ServerWrite, EditInv
      <4>6. NeverForgotten'
        BY <3>2 DEF ServerExit, ServerWrite, NeverForgotten
      <4> QED
        BY <4>1, <4>2, <4>3, <4>4, <4>5, <4>6
    <3>3. ASSUME NEW r \in owed, ServerAnswer(r)
          PROVE  IInv'
      <4>1. ChannelInv'
        BY <3>3, MessageShapes, ContentShapes DEF ServerAnswer, ServerWrite, ChannelInv
      <4>2. CloseInv'
        BY <3>3 DEF ServerAnswer, ServerWrite, CloseInv
      <4>3. CallInv'
        BY <3>3 DEF ServerAnswer, ServerWrite, CallInv
      <4>4. OriginInv'
        BY <3>3, MessageShapes, ContentShapes DEF ServerAnswer, ServerWrite, OriginInv
      <4>5. EditInv'
        BY <3>3 DEF ServerAnswer, ServerWrite, EditInv
      <4>6. NeverForgotten'
        BY <3>3 DEF ServerAnswer, ServerWrite, NeverForgotten
      <4> QED
        BY <4>1, <4>2, <4>3, <4>4, <4>5, <4>6
    <3>4. ASSUME NEW i \in edits, ServerApplyEdit(i)
          PROVE  IInv'
      <4>1. ChannelInv'
        BY <3>4, MessageShapes, ContentShapes DEF ServerApplyEdit, ServerWrite, ChannelInv
      <4>2. CloseInv'
        BY <3>4 DEF ServerApplyEdit, ServerWrite, CloseInv
      <4>3. CallInv'
        BY <3>4 DEF ServerApplyEdit, ServerWrite, CallInv
      <4>4. OriginInv'
        BY <3>4, MessageShapes, ContentShapes DEF ServerApplyEdit, ServerWrite, OriginInv
      <4>5. EditInv'
        BY <3>4 DEF ServerApplyEdit, ServerWrite, EditInv
      <4>6. NeverForgotten'
        BY <3>4 DEF ServerApplyEdit, ServerWrite, NeverForgotten
      <4> QED
        BY <4>1, <4>2, <4>3, <4>4, <4>5, <4>6
    <3>5. ASSUME NEW kind \in {"ask", "progress"}, ServerSpeak(kind)
          PROVE  IInv'
      <4>1. ChannelInv'
        BY <3>5, MessageShapes, ContentShapes DEF ServerSpeak, ServerWrite, ChannelInv
      <4>2. CloseInv'
        BY <3>5 DEF ServerSpeak, ServerWrite, CloseInv
      <4>3. CallInv'
        BY <3>5 DEF ServerSpeak, ServerWrite, CallInv
      <4>4. OriginInv'
        BY <3>5, MessageShapes, ContentShapes DEF ServerSpeak, ServerWrite, OriginInv
      <4>5. EditInv'
        BY <3>5 DEF ServerSpeak, ServerWrite, EditInv
      <4>6. NeverForgotten'
        BY <3>5 DEF ServerSpeak, ServerWrite, NeverForgotten
      <4> QED
        BY <4>1, <4>2, <4>3, <4>4, <4>5, <4>6
    <3>6. CASE Reap
      <4>1. ChannelInv' /\ CloseInv' /\ CallInv'
        BY <3>6 DEF Reap, ChannelInv, CloseInv, CallInv
      <4>2. OriginInv'
        BY <3>6 DEF Reap, OriginInv
      <4>3. EditInv' /\ NeverForgotten'
        BY <3>6 DEF Reap, EditInv, NeverForgotten
      <4> QED
        BY <4>1, <4>2, <4>3
    <3> QED
      BY <2>3, <3>1, <3>2, <3>3, <3>4, <3>5, <3>6 DEF ServerStep
  <2>4. CASE UNCHANGED vars
    <3> USE <2>4 DEF vars
    <3>1. ChannelInv' /\ CloseInv'
      BY DEF ChannelInv, CloseInv
    <3>2. CallInv' /\ OriginInv'
      BY DEF CallInv, OriginInv
    <3>3. EditInv' /\ NeverForgotten'
      BY DEF EditInv, NeverForgotten
    <3> QED
      BY <3>1, <3>2, <3>3
  <2> QED
    BY <1>2, <2>1, <2>2, <2>3, <2>4 DEF Next
<1> QED
  BY <1>1, <1>2, TypeCorrect, PTL DEF Spec

(* A call in flight is never forgotten. *)
THEOREM NoCallForgotten == Spec => []NeverForgotten
  BY Inductive, PTL DEF IInv

(* The reader goroutine never blocks on a channel. *)
THEOREM NeverBlocks == Spec => []ReaderNeverBlocks
<1>1. IInv => ReaderNeverBlocks
  BY DEF IInv, ChannelInv, EditInv, ReaderNeverBlocks
<1> QED
  BY <1>1, Inductive, PTL

(* A caller receives the answer to its own request. *)
THEOREM AnswersCorrelate == Spec => []Correlation
<1>1. TypeOK /\ IInv => Correlation
  BY DEF TypeOK, IInv, ChannelInv, OriginInv, Issued, Correlation
<1> QED
  BY <1>1, TypeCorrect, Inductive, PTL

(* The server is told applied:true exactly for the edits handed over: the  *)
(* reader comes to its reply in three ways, and only the hand-off fills an *)
(* edit channel.                                                           *)
THEOREM ToldWhatHappened == Spec => AppliedIffHanded
<1>1. ASSUME TypeOK, [Next]_vars, rpc # "reply", rpc' = "reply"
      PROVE  applied' <=> \E w \in Ids : editChan[w] = Empty /\ editChan'[w] # Empty
  <2>1. CASE DispatchApplyEdit
    <3>1. applied' = FALSE /\ editChan' = editChan
      BY <1>1, <2>1 DEF DispatchApplyEdit, DefaultApplied
    <3> QED  BY <3>1
  <2>2. CASE HandOff
    <3>1. rwid \in Ids /\ rcur \in Edits /\ editChan \in [Ids -> EditContents]
      BY <1>1, <2>2 DEF TypeOK, HandOff
    <3>2. rcur # Empty
      BY <3>1, ContentShapes
    <3>3. editChan[rwid] = Empty /\ editChan'[rwid] = rcur /\ applied' = TRUE
      BY <2>2, <3>1 DEF HandOff
    <3> QED  BY <3>1, <3>2, <3>3
  <2>3. CASE DispatchServerRequest
    <3>1. applied' = FALSE /\ editChan' = editChan
      BY <2>3 DEF DispatchServerRequest, clientVars
    <3> QED  BY <3>1
  <2>4. CASE \/ DispatchResponse \/ Deliver \/ DispatchNotification \/ Reply \/ Close
             \/ SignalExited \/ \E i \in Ids : FailPending(i) \/ CloseWaiter(i)
    BY <1>1, <2>4 DEF DispatchResponse, Deliver, DispatchNotification, Reply, Close,
                      SignalExited, FailPending, CloseWaiter
  <2>5. ASSUME NEW c \in Callers, CallerStep(c)
        PROVE  rpc' = rpc
    BY <2>5 DEF CallerStep, RequestStep, ResultStep, NextApplyEdit, Register, RefuseClosed,
                Send, SendFails, ReceiveAnswer, ReceiveLost, Cancel, TakeEdit, EditTimeout,
                Notify, readerVars
  <2>6. CASE ServerStep
    BY <1>1, <2>6 DEF ServerStep, ServerRead, ServerExit, Reap, ServerAnswer, ServerApplyEdit,
                      ServerSpeak, readerVars
  <2>7. CASE UNCHANGED vars
    BY <1>1, <2>7 DEF vars, readerVars
  <2> QED
    BY <1>1, <2>1, <2>2, <2>3, <2>4, <2>5, <2>6, <2>7 DEF Next, ReaderStep
<1>2. TypeOK /\ [Next]_vars =>
        [ rpc # "reply" /\ rpc' = "reply" =>
            (applied' <=> \E w \in Ids : editChan[w] = Empty /\ editChan'[w] # Empty) ]_vars
  BY <1>1
<1> QED
  BY <1>2, TypeCorrect, PTL DEF Spec, AppliedIffHanded
-----------------------------------------------------------------------------
(* The refinement of LspCalls. *)

(* A request that is on its way or in the server's hands is not answered   *)
(* yet, an answer that is on its way was given, and an id is used once.    *)
Carried(r) == r.id \notin answered /\ \A s \in owed : s.id # r.id
AnswerInv ==
    /\ \A i \in answered : i < nextID
    /\ \A r \in owed : r.id \notin answered
    /\ \A r, s \in owed : r.id = s.id => r = s
    /\ \A n \in 1..Len(toServer) : toServer[n].kind = "req" => Carried(toServer[n])
    /\ \A m, n \in 1..Len(toServer) :
          toServer[m].kind = "req" /\ toServer[n].kind = "req" /\ toServer[m].id = toServer[n].id
              => m = n
    /\ \A c \in Callers : pc[c] = "registered" =>
          /\ id[c] \notin answered /\ \A s \in owed : s.id # id[c]
          /\ \A n \in 1..Len(toServer) : toServer[n].kind = "req" => toServer[n].id # id[c]
    /\ \A n \in 1..Len(toClient) : toClient[n].kind = "res" => toClient[n].id \in answered
    /\ rpc = "deliver" => rcur.id \in answered
    /\ \A i \in Ids : chan[i].kind = "res" => i \in answered

(* Most steps issue, send and answer no request: they may drop some.       *)
LEMMA QuietStep ==
    ASSUME AnswerInv, answered' = answered, nextID' = nextID, owed' \subseteq owed,
           \A n \in 1..Len(toServer') : toServer'[n].kind = "req" =>
               n \in 1..Len(toServer) /\ toServer'[n] = toServer[n],
           \A c \in Callers : pc'[c] = "registered" => pc[c] = "registered" /\ id'[c] = id[c],
           \A n \in 1..Len(toClient') : toClient'[n].kind = "res" => toClient'[n].id \in answered,
           rpc' = "deliver" => rcur'.id \in answered,
           \A i \in Ids : chan'[i].kind = "res" => i \in answered
    PROVE  AnswerInv'
<1>1. \A n \in 1..Len(toServer)' : (toServer[n].kind = "req" => Carried(toServer[n]))'
  BY DEF AnswerInv, Carried
<1>2. \A m, n \in 1..Len(toServer') :
          toServer'[m].kind = "req" /\ toServer'[n].kind = "req" /\ toServer'[m].id = toServer'[n].id
              => m = n
  BY DEF AnswerInv
<1>3. \A c \in Callers : pc'[c] = "registered" =>
          /\ id'[c] \notin answered /\ \A s \in owed' : s.id # id'[c]
          /\ \A n \in 1..Len(toServer') : toServer'[n].kind = "req" => toServer'[n].id # id'[c]
  BY DEF AnswerInv
<1>4. /\ \A i \in answered' : i < nextID'
      /\ \A r \in owed' : r.id \notin answered'
      /\ \A r, s \in owed' : r.id = s.id => r = s
  BY DEF AnswerInv
<1> QED  BY <1>1, <1>2, <1>3, <1>4 DEF AnswerInv

LEMMA RegisterAnswers ==
    ASSUME TypeOK, IInv, AnswerInv, NEW c \in Callers, Register(c)
    PROVE  AnswerInv'
<1>1. /\ nextID \in Ids /\ nextID' = nextID + 1 /\ id' = [id EXCEPT ![c] = nextID]
      /\ pc' = [pc EXCEPT ![c] = "registered"]
      /\ UNCHANGED <<answered, owed, toServer, toClient, rpc, rcur, chan>>
  BY DEF Register, FreshID, Goto, readerVars, serverVars
<1>2. /\ nextID \notin answered /\ \A s \in owed : s.id # nextID
      /\ \A n \in 1..Len(toServer) : toServer[n].kind = "req" => toServer[n].id # nextID
  <2>1. nextID \in Nat /\ ~(nextID < nextID)
    BY <1>1 DEF Ids
  <2>2. \A i \in answered : i < nextID
    BY DEF AnswerInv
  <2>3. \A s \in owed : s.id < nextID
    BY DEF IInv, OriginInv, Issued
  <2>4. \A n \in 1..Len(toServer) : toServer[n].kind = "req" => toServer[n].id < nextID
    BY DEF IInv, OriginInv, Issued
  <2> QED  BY <2>1, <2>2, <2>3, <2>4
<1>3. \A d \in Callers : pc'[d] = "registered" =>
          /\ id'[d] \notin answered /\ \A s \in owed : s.id # id'[d]
          /\ \A n \in 1..Len(toServer) : toServer[n].kind = "req" => toServer[n].id # id'[d]
  <2> SUFFICES ASSUME NEW d \in Callers, pc'[d] = "registered"
               PROVE  /\ id'[d] \notin answered /\ \A s \in owed : s.id # id'[d]
                      /\ \A n \in 1..Len(toServer) :
                             toServer[n].kind = "req" => toServer[n].id # id'[d]
    OBVIOUS
  <2>1. CASE d = c
    <3>1. id'[d] = nextID
      BY <1>1, <2>1 DEF TypeOK
    <3> QED  BY <1>2, <3>1
  <2>2. CASE d # c
    <3>1. id'[d] = id[d] /\ pc[d] = "registered"
      BY <1>1, <2>2 DEF TypeOK
    <3> QED  BY <3>1 DEF AnswerInv
  <2> QED  BY <2>1, <2>2
<1>4. \A i \in answered : i < nextID'
  BY <1>1 DEF AnswerInv, TypeOK, Ids
<1>5. \A n \in 1..Len(toServer) : toServer[n].kind = "req" => Carried(toServer[n])'
  BY <1>1 DEF AnswerInv, Carried
<1> QED  BY <1>1, <1>3, <1>4, <1>5 DEF AnswerInv, Carried

LEMMA SendAnswers ==
    ASSUME TypeOK, IInv, AnswerInv, NEW c \in Callers, Send(c)
    PROVE  AnswerInv'
<1>1. /\ pc[c] = "registered" /\ toServer' = Append(toServer, RequestOf(c))
      /\ pc' = [pc EXCEPT ![c] = "waiting"]
      /\ UNCHANGED <<answered, owed, toClient, rpc, rcur, chan, nextID, id>>
  BY DEF Send, Goto, readerVars, serverVars, clientVars
<1>2. \A n \in 1..Len(toServer') :
          \/ n \in 1..Len(toServer) /\ toServer'[n] = toServer[n]
          \/ n = Len(toServer) + 1 /\ toServer'[n].id = id[c]
  BY <1>1, AppendElements DEF RequestOf, TypeOK
<1>3. /\ id[c] \notin answered /\ \A s \in owed : s.id # id[c]
      /\ \A n \in 1..Len(toServer) : toServer[n].kind = "req" => toServer[n].id # id[c]
  BY <1>1 DEF AnswerInv
<1>4. \A n \in 1..Len(toServer') : toServer'[n].kind = "req" =>
          toServer'[n].id \notin answered /\ \A s \in owed : s.id # toServer'[n].id
  BY <1>2, <1>3 DEF AnswerInv, Carried
<1>5. \A m, n \in 1..Len(toServer') :
          toServer'[m].kind = "req" /\ toServer'[n].kind = "req" /\ toServer'[m].id = toServer'[n].id
              => m = n
  BY <1>2, <1>3 DEF AnswerInv
<1>6. \A d \in Callers : pc'[d] = "registered" =>
          /\ id[d] \notin answered /\ \A s \in owed : s.id # id[d]
          /\ \A n \in 1..Len(toServer') : toServer'[n].kind = "req" => toServer'[n].id # id[d]
  <2> SUFFICES ASSUME NEW d \in Callers, pc'[d] = "registered"
               PROVE  /\ id[d] \notin answered /\ \A s \in owed : s.id # id[d]
                      /\ \A n \in 1..Len(toServer') :
                             toServer'[n].kind = "req" => toServer'[n].id # id[d]
    OBVIOUS
  <2>1. d # c /\ pc[d] = "registered"
    BY <1>1 DEF TypeOK
  <2>2. id[d] # id[c]
    BY <1>1, <2>1 DEF IInv, CallInv, InFlight
  <2> QED  BY <1>2, <2>1, <2>2 DEF AnswerInv
<1>7. \A n \in 1..Len(toServer)' : (toServer[n].kind = "req" => Carried(toServer[n]))'
  BY <1>1, <1>4 DEF Carried
<1> QED  BY <1>1, <1>5, <1>6, <1>7 DEF AnswerInv

LEMMA ReadAnswers ==
    ASSUME TypeOK, AnswerInv, ServerRead
    PROVE  AnswerInv'
<1>1. /\ toServer # <<>> /\ toServer' = Tail(toServer)
      /\ UNCHANGED <<answered, toClient, rpc, rcur, chan, nextID, id, pc>>
  BY DEF ServerRead, readerVars, callerVars, clientVars
<1>2. /\ 1 \in 1..Len(toServer) /\ Head(toServer) = toServer[1]
      /\ \A n \in 1..Len(toServer') : n + 1 \in 1..Len(toServer) /\ toServer'[n] = toServer[n + 1]
  BY <1>1, TailElements DEF TypeOK
<1>3. \A r \in owed' : r \in owed \/ (r = toServer[1] /\ toServer[1].kind = "req")
  BY <1>2 DEF ServerRead
<1>4. \A n \in 1..Len(toServer') : toServer'[n].kind = "req" =>
          /\ toServer'[n].id \notin answered
          /\ \A s \in owed' : s.id # toServer'[n].id
  <2> SUFFICES ASSUME NEW n \in 1..Len(toServer'), toServer'[n].kind = "req"
               PROVE  /\ toServer'[n].id \notin answered
                      /\ \A s \in owed' : s.id # toServer'[n].id
    OBVIOUS
  <2>1. n + 1 # 1 /\ n + 1 \in 1..Len(toServer) /\ toServer'[n] = toServer[n + 1]
    BY <1>2
  <2>2. Carried(toServer[n + 1]) /\ (toServer[1].kind = "req" => toServer[1].id # toServer[n + 1].id)
    BY <1>2, <2>1 DEF AnswerInv
  <2> QED  BY <1>3, <2>1, <2>2 DEF Carried
<1>5. \A m, n \in 1..Len(toServer') :
          toServer'[m].kind = "req" /\ toServer'[n].kind = "req" /\ toServer'[m].id = toServer'[n].id
              => m = n
  <2> SUFFICES ASSUME NEW m \in 1..Len(toServer'), NEW n \in 1..Len(toServer'),
                      toServer'[m].kind = "req", toServer'[n].kind = "req",
                      toServer'[m].id = toServer'[n].id
               PROVE  m = n
    OBVIOUS
  <2>1. /\ m + 1 \in 1..Len(toServer) /\ toServer[m + 1] = toServer'[m]
        /\ n + 1 \in 1..Len(toServer) /\ toServer[n + 1] = toServer'[n]
    BY <1>2
  <2>2. \A i, j \in 1..Len(toServer) :
            toServer[i].kind = "req" /\ toServer[j].kind = "req" /\ toServer[i].id = toServer[j].id
                => i = j
    BY DEF AnswerInv
  <2>3. m + 1 = n + 1
    BY <2>1, <2>2
  <2> QED  BY <2>3
<1>6. \A c \in Callers : pc[c] = "registered" =>
          /\ id[c] \notin answered /\ \A s \in owed' : s.id # id[c]
          /\ \A n \in 1..Len(toServer') : toServer'[n].kind = "req" => toServer'[n].id # id[c]
  BY <1>2, <1>3 DEF AnswerInv
<1>7. /\ \A r \in owed' : r.id \notin answered
      /\ \A r, s \in owed' : r.id = s.id => r = s
  BY <1>2, <1>3 DEF AnswerInv, Carried
<1>8. \A n \in 1..Len(toServer)' : (toServer[n].kind = "req" => Carried(toServer[n]))'
  BY <1>1, <1>4 DEF Carried
<1> QED  BY <1>1, <1>5, <1>6, <1>7, <1>8 DEF AnswerInv

LEMMA ServerAnswerAnswers ==
    ASSUME TypeOK, IInv, AnswerInv, NEW r \in owed, ServerAnswer(r)
    PROVE  AnswerInv'
<1>1. /\ toClient' = Append(toClient, [kind |-> "res", id |-> r.id, by |-> r.by])
      /\ owed' = owed \ {r} /\ answered' = answered \cup {r.id}
      /\ UNCHANGED <<toServer, rpc, rcur, chan, nextID, id, pc>>
  BY DEF ServerAnswer, ServerWrite, readerVars, callerVars, clientVars
<1>2. \A n \in 1..Len(toClient') : toClient'[n].kind = "res" => toClient'[n].id \in answered'
  <2>1. \A n \in 1..Len(toClient') :
          \/ n \in 1..Len(toClient) /\ toClient'[n] = toClient[n]
          \/ toClient'[n].id = r.id
    BY <1>1, AppendElements DEF TypeOK
  <2> QED  BY <1>1, <2>1 DEF AnswerInv
<1>3. /\ \A s \in owed' : s.id \notin answered'
      /\ \A s, t \in owed' : s.id = t.id => s = t
  BY <1>1 DEF AnswerInv
<1>4. \A n \in 1..Len(toServer) : toServer[n].kind = "req" =>
          toServer[n].id \notin answered' /\ \A s \in owed' : s.id # toServer[n].id
  BY <1>1 DEF AnswerInv, Carried
<1>5. \A c \in Callers : pc[c] = "registered" =>
          id[c] \notin answered' /\ \A s \in owed' : s.id # id[c]
  BY <1>1 DEF AnswerInv
<1>6. \A i \in answered' : i < nextID
  BY <1>1 DEF AnswerInv, IInv, OriginInv, Issued
<1>7. \A n \in 1..Len(toServer)' : (toServer[n].kind = "req" => Carried(toServer[n]))'
  BY <1>1, <1>4 DEF Carried
<1> QED  BY <1>1, <1>2, <1>3, <1>5, <1>6, <1>7 DEF AnswerInv

LEMMA AnswerStep ==
    ASSUME TypeOK, IInv, AnswerInv, [Next]_vars
    PROVE  AnswerInv'
<1> USE DEF clientVars, callerVars, readerVars, serverVars, Goto, ReturnWith
<1>1. ASSUME NEW c \in Callers, CallerStep(c)
      PROVE  AnswerInv'
  <2>1. CASE Register(c) \/ Send(c)
    BY <2>1, RegisterAnswers, SendAnswers
  <2>2. CASE NextApplyEdit(c) \/ RefuseClosed(c) \/ SendFails(c) \/ Cancel(c) \/ TakeEdit(c) \/ EditTimeout(c)
    <3>1. /\ UNCHANGED <<answered, owed, nextID, toServer, toClient, id, rpc, rcur, chan>>
          /\ \A d \in Callers : pc'[d] = "registered" => pc[d] = "registered"
      BY <2>2 DEF NextApplyEdit, RefuseClosed, SendFails, Cancel, TakeEdit, EditTimeout, TypeOK
    <3> QED  BY <3>1, QuietStep DEF AnswerInv
  <2>3. CASE ReceiveAnswer(c) \/ ReceiveLost(c)
    <3>1. /\ UNCHANGED <<answered, owed, nextID, toServer, toClient, id, rpc, rcur>>
          /\ \A d \in Callers : pc'[d] = "registered" => pc[d] = "registered"
      BY <2>3 DEF ReceiveAnswer, ReceiveLost, TypeOK
    <3>2. \A i \in Ids : chan'[i] = chan[i] \/ chan'[i] = Empty
      BY <2>3 DEF ReceiveAnswer, ReceiveLost, TypeOK
    <3> QED  BY <3>1, <3>2, ContentShapes, QuietStep DEF AnswerInv
  <2>4. CASE Notify(c)
    <3>1. /\ UNCHANGED <<answered, owed, nextID, toClient, pc, id, rpc, rcur, chan>>
          /\ toServer' = Append(toServer, [kind |-> "note"])
      BY <2>4 DEF Notify
    <3>2. \A n \in 1..Len(toServer') : toServer'[n].kind = "req" =>
               n \in 1..Len(toServer) /\ toServer'[n] = toServer[n]
      BY <3>1, AppendElements DEF TypeOK
    <3> QED  BY <3>1, <3>2, QuietStep DEF AnswerInv
  <2> QED  BY <1>1, <2>1, <2>2, <2>3, <2>4 DEF CallerStep, RequestStep, ResultStep
<1>2. ASSUME ReaderStep
      PROVE  AnswerInv'
  <2>1. ASSUME NEW k, ReadMsg(k)
        PROVE  /\ rcur' = toClient[1] /\ 1 \in 1..Len(toClient)
               /\ \A n \in 1..Len(toClient') : toClient'[n].kind = "res" => toClient'[n].id \in answered
    <3>1. toClient # <<>> /\ rcur' = Head(toClient) /\ toClient' = Tail(toClient)
      BY <2>1 DEF ReadMsg, NextMsg
    <3> QED  BY <3>1, TailElements DEF TypeOK, AnswerInv
  <2>2. CASE DispatchResponse
    <3>1. /\ UNCHANGED <<answered, owed, nextID, toServer, pc, id, chan>>
          /\ rcur'.kind = "res"
      BY <2>2 DEF DispatchResponse, ReadMsg
    <3>2. rcur'.id \in answered
      BY <2>1, <2>2, <3>1 DEF DispatchResponse, AnswerInv
    <3> QED  BY <2>1, <2>2, <3>1, <3>2, QuietStep DEF DispatchResponse, AnswerInv
  <2>3. CASE DispatchApplyEdit \/ DispatchServerRequest \/ DispatchNotification
    <3>1. /\ UNCHANGED <<answered, owed, nextID, toServer, pc, id, chan>>
          /\ \E k \in {"edit", "ask", "progress"} : ReadMsg(k)
          /\ rpc' # "deliver"
      BY <2>3 DEF DispatchApplyEdit, DispatchServerRequest, DispatchNotification, ReadMsg
    <3> QED  BY <2>1, <3>1, QuietStep DEF AnswerInv
  <2>4. CASE Deliver
    <3>1. /\ UNCHANGED <<answered, owed, nextID, toServer, toClient, pc, id, rcur>>
          /\ rpc = "deliver" /\ rpc' = "read"
          /\ \A i \in Ids : chan'[i] = chan[i] \/ i = rcur.id
      BY <2>4 DEF Deliver, TypeOK
    <3>2. \A i \in Ids : chan'[i].kind = "res" => i \in answered
      BY <3>1 DEF AnswerInv
    <3> QED  BY <3>1, <3>2, QuietStep DEF AnswerInv
  <2>5. CASE Reply
    <3>1. /\ UNCHANGED <<answered, owed, nextID, toClient, pc, id, rcur, chan>>
          /\ rpc' = "read"
          /\ \/ toServer' = Append(toServer, [kind |-> "reply", applied |-> applied])
             \/ toServer' = toServer
      BY <2>5 DEF Reply
    <3>2. \A n \in 1..Len(toServer') : toServer'[n].kind = "req" =>
               n \in 1..Len(toServer) /\ toServer'[n] = toServer[n]
      <4>1. CASE toServer' = Append(toServer, [kind |-> "reply", applied |-> applied])
        BY <4>1, AppendElements DEF TypeOK
      <4>2. CASE toServer' = toServer
        BY <4>2
      <4> QED  BY <3>1, <4>1, <4>2
    <3> QED  BY <3>1, <3>2, QuietStep DEF AnswerInv
  <2>6. CASE HandOff \/ Close \/ SignalExited \/ \E i \in Ids : CloseWaiter(i)
    <3>1. /\ UNCHANGED <<answered, owed, nextID, toServer, toClient, pc, id, chan>>
          /\ rpc' # "deliver"
      BY <2>6 DEF HandOff, Close, SignalExited, CloseWaiter
    <3> QED  BY <3>1, QuietStep DEF AnswerInv
  <2>7. CASE \E i \in Ids : FailPending(i)
    <3>1. /\ UNCHANGED <<answered, owed, nextID, toServer, toClient, pc, id, rpc, rcur>>
          /\ \A i \in Ids : chan'[i] = chan[i] \/ chan'[i] = Lost
      BY <2>7 DEF FailPending, TypeOK
    <3> QED  BY <3>1, ContentShapes, QuietStep DEF AnswerInv
  <2> QED  BY <1>2, <2>2, <2>3, <2>4, <2>5, <2>6, <2>7 DEF ReaderStep
<1>3. ASSUME ServerStep
      PROVE  AnswerInv'
  <2>1. CASE ServerRead
    BY <2>1, ReadAnswers
  <2>2. ASSUME NEW r \in owed, ServerAnswer(r)
        PROVE  AnswerInv'
    BY <2>2, ServerAnswerAnswers
  <2>3. CASE ServerExit
    <3>1. /\ UNCHANGED <<answered, nextID, toClient, pc, id, rpc, rcur, chan>>
          /\ toServer' = <<>> /\ owed' = {}
      BY <2>3 DEF ServerExit
    <3> QED  BY <3>1, QuietStep DEF AnswerInv
  <2>4. CASE \/ \E i \in edits : ServerApplyEdit(i)
             \/ \E kind \in {"ask", "progress"} : ServerSpeak(kind)
    <3>1. PICK m \in [kind : {"edit"}, id : Ids] \cup [kind : {"ask", "progress"}] :
              toClient' = Append(toClient, m)
      <4>1. CASE \E i \in edits : ServerApplyEdit(i)
        <5>1. PICK i \in edits : toClient' = Append(toClient, [kind |-> "edit", id |-> i])
          BY <4>1 DEF ServerApplyEdit, ServerWrite
        <5>2. [kind |-> "edit", id |-> i] \in [kind : {"edit"}, id : Ids]
          BY DEF TypeOK
        <5> QED  BY <5>1, <5>2
      <4>2. CASE \E kind \in {"ask", "progress"} : ServerSpeak(kind)
        BY <4>2 DEF ServerSpeak, ServerWrite
      <4> QED  BY <2>4, <4>1, <4>2
    <3>2. m.kind # "res"
      OBVIOUS
    <3>3. UNCHANGED <<answered, owed, nextID, toServer, pc, id, rpc, rcur, chan>>
      BY <2>4 DEF ServerApplyEdit, ServerSpeak
    <3>4. \A n \in 1..Len(toClient') : toClient'[n].kind = "res" => toClient'[n].id \in answered
      BY <3>1, <3>2, AppendElements DEF TypeOK, AnswerInv
    <3> QED  BY <3>3, <3>4, QuietStep DEF AnswerInv
  <2>5. CASE Reap
    <3>1. /\ UNCHANGED <<answered, owed, nextID, toServer, pc, id, rpc, rcur, chan>>
          /\ toClient' = <<>>
      BY <2>5 DEF Reap
    <3> QED  BY <3>1, QuietStep DEF AnswerInv
  <2> QED  BY <1>3, <2>1, <2>2, <2>3, <2>4, <2>5 DEF ServerStep
<1>4. CASE UNCHANGED vars
  BY <1>4, QuietStep DEF vars, AnswerInv
<1> QED  BY <1>1, <1>2, <1>3, <1>4 DEF Next

OpenCalls == [c \in Callers |-> InFlight(c)]
AnsweredCalls == [c \in Callers |-> InFlight(c) /\ id[c] \in answered]

(* What callers see of a step that concerns one of them, or none. *)
LEMMA OneCallChanges ==
    ASSUME NEW c \in Callers, NEW o \in BOOLEAN, NEW a \in BOOLEAN,
           InFlight(c)' <=> o, (InFlight(c) /\ id[c] \in answered)' <=> a,
           \A d \in Callers : d # c =>
               /\ InFlight(d)' <=> InFlight(d)
               /\ (InFlight(d) /\ id[d] \in answered)' <=> (InFlight(d) /\ id[d] \in answered)
    PROVE  /\ OpenCalls' = [OpenCalls EXCEPT ![c] = o]
           /\ AnsweredCalls' = [AnsweredCalls EXCEPT ![c] = a]
<1>1. OpenCalls' = [OpenCalls EXCEPT ![c] = o]
  <2>1. \A d \in Callers : OpenCalls'[d] = [OpenCalls EXCEPT ![c] = o][d]
    BY DEF OpenCalls, InFlight
  <2> QED  BY <2>1 DEF OpenCalls
<1>2. AnsweredCalls' = [AnsweredCalls EXCEPT ![c] = a]
  <2>1. \A d \in Callers : AnsweredCalls'[d] = [AnsweredCalls EXCEPT ![c] = a][d]
    BY DEF AnsweredCalls, InFlight
  <2> QED  BY <2>1 DEF AnsweredCalls
<1> QED  BY <1>1, <1>2

LEMMA NoCallChanges ==
    ASSUME \A d \in Callers :
               /\ InFlight(d)' <=> InFlight(d)
               /\ (InFlight(d) /\ id[d] \in answered)' <=> (InFlight(d) /\ id[d] \in answered)
    PROVE  OpenCalls' = OpenCalls /\ AnsweredCalls' = AnsweredCalls
<1>1. OpenCalls' = OpenCalls
  BY DEF OpenCalls, InFlight
<1>2. AnsweredCalls' = AnsweredCalls
  BY DEF AnsweredCalls, InFlight
<1> QED  BY <1>1, <1>2

LEMMA StepRefines ==
    ASSUME TypeOK, IInv, AnswerInv, [Next]_vars
    PROVE  [Calls!CallsNext]_(Calls!callVars)
<1> USE DEF clientVars, callerVars, readerVars, serverVars, Goto, ReturnWith
<1>1. ASSUME OpenCalls' = OpenCalls, AnsweredCalls' = AnsweredCalls, ret' = ret, up' = up
      PROVE  UNCHANGED Calls!callVars
  BY <1>1 DEF Calls!callVars, OpenCalls, AnsweredCalls
<1>2. ASSUME UNCHANGED <<pc, id, answered, ret, up>>
      PROVE  UNCHANGED Calls!callVars
  BY <1>2 DEF Calls!callVars, InFlight
<1>3. ASSUME NEW c \in Callers, CallerStep(c)
      PROVE  [Calls!CallsNext]_(Calls!callVars)
  <2>1. CASE Register(c)
    <3>1. /\ ~InFlight(c) /\ InFlight(c)' /\ id'[c] = nextID /\ nextID \in Ids
          /\ UNCHANGED <<answered, ret, up>>
          /\ \A d \in Callers : d # c => pc'[d] = pc[d] /\ id'[d] = id[d]
      BY <2>1 DEF Register, ReadyToRequest, InFlight, TypeOK
    <3>2. nextID \notin answered
      BY <3>1 DEF AnswerInv, Ids
    <3>3. /\ OpenCalls' = [OpenCalls EXCEPT ![c] = TRUE]
          /\ AnsweredCalls' = [AnsweredCalls EXCEPT ![c] = FALSE]
      <4>1. InFlight(c)' <=> TRUE
        BY <3>1
      <4>2. (InFlight(c) /\ id[c] \in answered)' <=> FALSE
        BY <3>1, <3>2
      <4>3. \A d \in Callers : d # c =>
               /\ InFlight(d)' <=> InFlight(d)
               /\ (InFlight(d) /\ id[d] \in answered)' <=> (InFlight(d) /\ id[d] \in answered)
        BY <3>1 DEF InFlight
      <4> QED  BY <4>1, <4>2, <4>3, OneCallChanges
    <3>4. ~OpenCalls[c]
      BY <3>1 DEF OpenCalls
    <3>5. Calls!Begin(c)
      BY <3>1, <3>3, <3>4 DEF Calls!Begin, OpenCalls, AnsweredCalls
    <3> QED  BY <3>5 DEF Calls!CallsNext
  <2>2. CASE RefuseClosed(c)
    <3>1. /\ ~InFlight(c) /\ ~up /\ ret' = [ret EXCEPT ![c] = "error"]
          /\ \A d \in Callers : InFlight(d)' <=> InFlight(d)
          /\ UNCHANGED <<id, answered, up>>
      BY <2>2 DEF RefuseClosed, ReadyToRequest, InFlight, TypeOK, IInv, CloseInv
    <3>2. OpenCalls' = OpenCalls /\ AnsweredCalls' = AnsweredCalls
      BY <3>1, NoCallChanges
    <3>3. ~OpenCalls[c]
      BY <3>1 DEF OpenCalls
    <3>4. Calls!Refuse(c)
      BY <3>1, <3>2, <3>3 DEF Calls!Refuse, OpenCalls, AnsweredCalls
    <3> QED  BY <3>4 DEF Calls!CallsNext
  <2>3. CASE Send(c) \/ NextApplyEdit(c) \/ TakeEdit(c) \/ EditTimeout(c) \/ Notify(c)
    <3>1. /\ \A d \in Callers : InFlight(d)' <=> InFlight(d)
          /\ UNCHANGED <<id, answered, ret, up>>
      BY <2>3 DEF Send, NextApplyEdit, TakeEdit, EditTimeout, Notify, InFlight, TypeOK
    <3>2. OpenCalls' = OpenCalls /\ AnsweredCalls' = AnsweredCalls
      BY <3>1, NoCallChanges
    <3> QED  BY <1>1, <3>1, <3>2
  <2>4. ASSUME NEW how, InFlight(c), ~InFlight(c)', ret' = [ret EXCEPT ![c] = how],
               UNCHANGED <<id, answered, up>>, \A d \in Callers : d # c => pc'[d] = pc[d]
        PROVE  Calls!Return(c, how)
    <3>1. /\ OpenCalls' = [OpenCalls EXCEPT ![c] = FALSE]
          /\ AnsweredCalls' = [AnsweredCalls EXCEPT ![c] = FALSE]
      <4>1. InFlight(c)' <=> FALSE
        BY <2>4
      <4>2. (InFlight(c) /\ id[c] \in answered)' <=> FALSE
        BY <2>4
      <4>3. \A d \in Callers : d # c =>
               /\ InFlight(d)' <=> InFlight(d)
               /\ (InFlight(d) /\ id[d] \in answered)' <=> (InFlight(d) /\ id[d] \in answered)
        BY <2>4 DEF InFlight
      <4> QED  BY <4>1, <4>2, <4>3, OneCallChanges
    <3>2. OpenCalls[c]
      BY <2>4 DEF OpenCalls
    <3> QED  BY <2>4, <3>1, <3>2 DEF Calls!Return, OpenCalls, AnsweredCalls
  <2>5. CASE SendFails(c) \/ ReceiveLost(c)
    <3>1. /\ InFlight(c) /\ ~InFlight(c)' /\ ret' = [ret EXCEPT ![c] = "error"]
          /\ UNCHANGED <<id, answered, up>>
          /\ \A d \in Callers : d # c => pc'[d] = pc[d]
      BY <2>5 DEF SendFails, ReceiveLost, InFlight, TypeOK
    <3>2. ~up
      <4>1. CASE SendFails(c)
        BY <4>1 DEF SendFails
      <4>2. CASE ReceiveLost(c)
        BY <4>2 DEF ReceiveLost, InFlight, TypeOK, IInv, ChannelInv
      <4> QED  BY <2>5, <4>1, <4>2
    <3>3. Calls!Return(c, "error")
      BY <2>4, <3>1
    <3>4. Calls!ReturnError(c)
      BY <3>2, <3>3 DEF Calls!ReturnError
    <3> QED  BY <3>4 DEF Calls!CallsNext
  <2>6. CASE ReceiveAnswer(c)
    <3>1. /\ InFlight(c) /\ ~InFlight(c)' /\ ret' = [ret EXCEPT ![c] = "answer"]
          /\ UNCHANGED <<id, answered, up>>
          /\ \A d \in Callers : d # c => pc'[d] = pc[d]
      BY <2>6 DEF ReceiveAnswer, InFlight, TypeOK
    <3>2. id[c] \in answered
      BY <2>6, <3>1 DEF ReceiveAnswer, TypeOK, AnswerInv
    <3>3. Calls!Return(c, "answer")
      BY <2>4, <3>1
    <3>4. AnsweredCalls[c]
      BY <3>1, <3>2 DEF AnsweredCalls
    <3>5. Calls!ReturnAnswer(c)
      BY <3>3, <3>4 DEF Calls!ReturnAnswer, AnsweredCalls
    <3> QED  BY <3>5 DEF Calls!CallsNext
  <2>7. CASE Cancel(c)
    <3>1. /\ InFlight(c) /\ ~InFlight(c)' /\ ret' = [ret EXCEPT ![c] = "cancelled"]
          /\ UNCHANGED <<id, answered, up>> /\ c \in Cancellable
          /\ \A d \in Callers : d # c => pc'[d] = pc[d]
      BY <2>7 DEF Cancel, InFlight, TypeOK
    <3>2. Calls!ReturnCancelled(c)
      BY <2>4, <3>1 DEF Calls!ReturnCancelled
    <3> QED  BY <3>2 DEF Calls!CallsNext
  <2> QED  BY <1>3, <2>1, <2>2, <2>3, <2>5, <2>6, <2>7 DEF CallerStep, RequestStep, ResultStep
<1>4. CASE ReaderStep
  <2>1. UNCHANGED <<pc, id, answered, ret, up>>
    BY <1>4 DEF ReaderStep, DispatchResponse, Deliver, DispatchApplyEdit, HandOff,
                DispatchServerRequest, DispatchNotification, Reply, Close, FailPending,
                CloseWaiter, SignalExited
  <2> QED  BY <1>2, <2>1
<1>5. CASE ServerStep
  <2>1. CASE \/ ServerRead \/ Reap \/ \E i \in edits : ServerApplyEdit(i)
             \/ \E kind \in {"ask", "progress"} : ServerSpeak(kind)
    <3>1. UNCHANGED <<pc, id, answered, ret, up>>
      BY <2>1 DEF ServerRead, Reap, ServerApplyEdit, ServerSpeak, ServerWrite
    <3> QED  BY <1>2, <3>1
  <2>2. CASE ServerExit
    <3>1. up /\ ~up' /\ up' = FALSE /\ UNCHANGED <<pc, id, answered, ret>>
      BY <2>2 DEF ServerExit
    <3>2. OpenCalls' = OpenCalls /\ AnsweredCalls' = AnsweredCalls
      BY <3>1, NoCallChanges DEF InFlight
    <3>3. Calls!Lose
      BY <3>1, <3>2 DEF Calls!Lose, OpenCalls, AnsweredCalls
    <3> QED  BY <3>3 DEF Calls!CallsNext
  <2>3. ASSUME NEW r \in owed, ServerAnswer(r)
        PROVE  [Calls!CallsNext]_(Calls!callVars)
    <3>1. /\ up /\ answered' = answered \cup {r.id} /\ r.id \notin answered
          /\ UNCHANGED <<pc, id, ret, up>>
      BY <2>3 DEF ServerAnswer, ServerWrite, AnswerInv
    <3>2. CASE \E c \in Callers : InFlight(c) /\ id[c] = r.id
      <4>1. PICK c \in Callers : InFlight(c) /\ id[c] = r.id
        BY <3>2
      <4>2. \A d \in Callers : d # c => (InFlight(d) => id[d] # r.id)
        BY <4>1 DEF IInv, CallInv
      <4>3. /\ InFlight(c)' <=> TRUE
            /\ (InFlight(c) /\ id[c] \in answered)' <=> TRUE
        BY <3>1, <4>1 DEF InFlight
      <4>4. \A d \in Callers :
               /\ InFlight(d)' <=> InFlight(d)
               /\ d # c => ((InFlight(d) /\ id[d] \in answered)' <=> (InFlight(d) /\ id[d] \in answered))
        BY <3>1, <4>2 DEF InFlight
      <4>5. OpenCalls' = [OpenCalls EXCEPT ![c] = TRUE] /\ AnsweredCalls' = [AnsweredCalls EXCEPT ![c] = TRUE]
        BY <4>3, <4>4, OneCallChanges
      <4>6. OpenCalls' = OpenCalls
        BY <3>1 DEF OpenCalls, InFlight
      <4>7. OpenCalls[c] /\ ~AnsweredCalls[c]
        BY <3>1, <4>1 DEF OpenCalls, AnsweredCalls
      <4>8. Calls!Answer(c)
        BY <3>1, <4>5, <4>6, <4>7 DEF Calls!Answer, OpenCalls, AnsweredCalls
      <4> QED  BY <4>8 DEF Calls!CallsNext
    <3>3. CASE ~\E c \in Callers : InFlight(c) /\ id[c] = r.id
      <4>1. \A d \in Callers :
               /\ InFlight(d)' <=> InFlight(d)
               /\ (InFlight(d) /\ id[d] \in answered)' <=> (InFlight(d) /\ id[d] \in answered)
        BY <3>1, <3>3 DEF InFlight
      <4>2. OpenCalls' = OpenCalls /\ AnsweredCalls' = AnsweredCalls
        BY <4>1, NoCallChanges
      <4> QED  BY <1>1, <3>1, <4>2
    <3> QED  BY <3>2, <3>3
  <2> QED  BY <1>5, <2>1, <2>2, <2>3 DEF ServerStep
<1>6. CASE UNCHANGED vars
  BY <1>2, <1>6 DEF vars
<1> QED  BY <1>3, <1>4, <1>5, <1>6 DEF Next

LEMMA InitRefines == Init => Calls!CallsInit /\ AnswerInv
<1> SUFFICES ASSUME Init PROVE Calls!CallsInit /\ AnswerInv
  OBVIOUS
<1>1. pc = [c \in Callers |-> "idle"]
  BY DEF Init
<1>2. ASSUME NEW c \in Callers
      PROVE  /\ OpenCalls[c] = [d \in Callers |-> FALSE][c]
             /\ AnsweredCalls[c] = [d \in Callers |-> FALSE][c]
  <2>1. pc[c] = "idle"
    BY <1>1
  <2>2. ~InFlight(c)
    BY <2>1 DEF InFlight
  <2>3. ~OpenCalls[c] /\ ~AnsweredCalls[c]
    BY <2>2, Zenon DEF OpenCalls, AnsweredCalls
  <2>4. OpenCalls[c] \in BOOLEAN /\ AnsweredCalls[c] \in BOOLEAN
    BY DEF OpenCalls, AnsweredCalls, InFlight
  <2>5. [d \in Callers |-> FALSE][c] = FALSE
    OBVIOUS
  <2> QED  BY <2>3, <2>4, <2>5
<1>3. OpenCalls = [c \in Callers |-> FALSE]
  BY <1>2 DEF OpenCalls
<1>4. AnsweredCalls = [c \in Callers |-> FALSE]
  BY <1>2 DEF AnsweredCalls
<1>5. Calls!CallsInit
  BY <1>3, <1>4 DEF Init, Calls!CallsInit, OpenCalls, AnsweredCalls
<1>6. AnswerInv
  BY ContentShapes DEF Init, AnswerInv
<1> QED  BY <1>5, <1>6

(* The client does nothing that LspCalls forbids: a call returns once, its *)
(* answer only after the server gave it, an error only when the server is  *)
(* gone, and is cancelled only if its caller can. (That it returns at all, *)
(* under fairness, is left to the run.)                                    *)
THEOREM CallsRefined == Spec => Calls!CallsInit /\ [][Calls!CallsNext]_(Calls!callVars)
<1>1. AnswerInv /\ TypeOK /\ IInv /\ [Next]_vars => AnswerInv'
  BY AnswerStep
<1>2. TypeOK /\ IInv /\ AnswerInv /\ [Next]_vars => [Calls!CallsNext]_(Calls!callVars)
  BY StepRefines
<1> QED  BY <1>1, <1>2, InitRefines, TypeCorrect, Inductive, PTL DEF Spec
=============================================================================
