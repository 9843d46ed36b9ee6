------------------------------- MODULE Framing -------------------------------
(* MessageDecoder of lsputil/framing.go. The server writes frames, a header  *)
(* with the length of the body, an empty line, and the body; the client      *)
(* reads the bytes in chunks cut anywhere and pushes each into the decoder.  *)
EXTENDS Integers, Sequences, SequencesExt

CONSTANTS
    MaxFrames,      \* bound on the number of frames
    MaxBody         \* bound on the length of a body

VARIABLES
    frames,         \* what the server wrote, as frames
    wire,           \* the bytes of it the client has not read yet
    buf,            \* the decoder's buffer
    decoding,       \* whether Push is in its loop
    got             \* the bodies it returned

frameVars == <<frames, wire, buf, decoding, got>>

-----------------------------------------------------------------------------
(* What the decoder tells apart: the end of a line, the Content-Length field *)
(* with its number, and any other byte. A read that ends within one of them  *)
(* is to the decoder one that ends before it, for it looks at a header only  *)
(* behind an empty line. A body may contain an empty line.                   *)
Eol       == [is |-> "eol", length |-> 0]
Other     == [is |-> "other", length |-> 0]
LengthOf(n) == [is |-> "length", length |-> n]

Bodies == SeqOf({Eol, Other}, MaxBody)

(* A message, one with a second header field, or a header without length. *)
Frames == [shape : {"plain", "extra"}, body : Bodies] \cup [shape : {"junk"}, body : {<<>>}]

(* EncodeMessage, and what else a server may write. *)
Encode(frame) ==
    LET header == [plain |-> <<LengthOf(Len(frame.body))>>,
                   extra |-> <<Other, Eol, LengthOf(Len(frame.body))>>,
                   junk  |-> <<Other>>]
    IN  header[frame.shape] \o <<Eol, Eol>> \o frame.body

EncodeAll(fs) == FlattenSeq([n \in DOMAIN fs |-> Encode(fs[n])])

Init ==
    /\ frames \in SeqOf(Frames, MaxFrames)
    /\ wire = EncodeAll(frames)
    /\ buf = <<>> /\ decoding = FALSE /\ got = <<>>

-----------------------------------------------------------------------------
Terminated(b) == \E n \in 0..Len(b) - 2 : b[n + 1] = Eol /\ b[n + 2] = Eol
HeaderEnd(b) == CHOOSE n \in 0..Len(b) - 2 :
                   /\ b[n + 1] = Eol /\ b[n + 2] = Eol
                   /\ \A k \in 0..n - 1 : ~(b[k + 1] = Eol /\ b[k + 2] = Eol)

LengthFields(b) == {n \in 1..HeaderEnd(b) : b[n].is = "length"}
BodyLength(b)   == b[CHOOSE n \in LengthFields(b) : \A k \in LengthFields(b) : n <= k].length

InsideEnd(b)  == HeaderEnd(b) + 1           \* faulty: half of the empty line stays
BodyStart(b)  == HeaderEnd(b) + 2           \* headerEnd + len(headerTerminator)

(* faulty: waits for one byte more *)
SurelyComplete(b) == Len(b) > BodyStart(b) + BodyLength(b)
Complete(b)       == Len(b) >= BodyStart(b) + BodyLength(b)

From(b, n) == SubSeq(b, n + 1, Len(b))      \* d.buf[n:]

(* One Read of the reader goroutine: any number of the bytes written. *)
Push(n) ==
    /\ ~decoding
    /\ buf' = buf \o SubSeq(wire, 1, n) /\ wire' = From(wire, n)
    /\ decoding' = TRUE
    /\ UNCHANGED <<frames, got>>

NoHeader ==
    /\ decoding /\ ~Terminated(buf)
    /\ decoding' = FALSE
    /\ UNCHANGED <<frames, wire, buf, got>>

(* "Unparseable header — drop it and resync rather than wedging." *)
DropHeader ==
    /\ decoding /\ Terminated(buf) /\ LengthFields(buf) = {}
    /\ buf' = From(buf, BodyStart(buf))
    /\ UNCHANGED <<frames, wire, decoding, got>>

BodyMissing ==
    /\ decoding /\ Terminated(buf) /\ LengthFields(buf) # {} /\ ~Complete(buf)
    /\ decoding' = FALSE
    /\ UNCHANGED <<frames, wire, buf, got>>

TakeBody ==
    /\ decoding /\ Terminated(buf) /\ LengthFields(buf) # {} /\ Complete(buf)
    /\ LET stop == BodyStart(buf) + BodyLength(buf)
       IN  /\ got' = Append(got, SubSeq(buf, BodyStart(buf) + 1, stop))
           /\ buf' = From(buf, stop)
    /\ UNCHANGED <<frames, wire, decoding>>

Next ==
    \/ \E n \in 1..Len(wire) : Push(n)
    \/ NoHeader \/ DropHeader \/ BodyMissing \/ TakeBody

Spec == Init /\ [][Next]_frameVars

-----------------------------------------------------------------------------
Body(frame)  == IF frame.shape = "junk" THEN <<>> ELSE <<frame.body>>
Messages(fs) == FlattenSeq([n \in DOMAIN fs |-> Body(fs[n])])

(* However the bytes are cut, the decoder returns the bodies the server      *)
(* wrote, whole and in order, and the reader never sees anything else.       *)
DeliveredInOrder == IsPrefix(got, Messages(frames))

(* When Push returns, every message all of whose bytes were read has been    *)
(* returned: an answer never waits in the buffer for the next one.           *)
NothingWithheld ==
    ~decoding =>
        \A k \in 0..Len(frames) :
            LET first == SubSeq(frames, 1, k)
            IN  Len(EncodeAll(frames)) - Len(wire) >= Len(EncodeAll(first))
                    => Len(got) >= Len(Messages(first))
=============================================================================
