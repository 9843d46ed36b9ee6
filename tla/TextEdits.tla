------------------------------ MODULE TextEdits ------------------------------
(* ApplyTextEdits of lsputil/workspaceedit.go: the text edits a server sends *)
(* for one document are sorted by their start offset, highest first, and     *)
(* spliced into the text one after the other.                                *)
(*                                                                           *)
(* A position names its line by the offset at which the line starts, which   *)
(* lineStartOffsets looks up, and a place in it by a number of UTF-16 units. *)
EXTENDS Splices, FiniteSets

CONSTANTS
    Newline,        \* the byte that ends a line
    Continuation,   \* the second byte of a character that has two
    MaxContent,     \* bound on the length of the document
    MaxEdits        \* bound on the number of edits

VARIABLES
    content,        \* the text the edits were computed on
    edits,          \* the edits, in the order the server listed them
    left,           \* the edits that are not applied yet
    out             \* the text so far

editVars == <<content, edits, left, out>>

-----------------------------------------------------------------------------
(* A second byte follows a first. *)
WellFormed(t) ==
    \A n \in 1..Len(t) :
        t[n] = Continuation => n > 1 /\ t[n - 1] \notin {Newline, Continuation}

(* The server's side: positions, and which offset they name.                 *)
LineStarts(text) == {0} \cup {n \in 1..Len(text) : text[n] = Newline}

(* UTF-16 units between two offsets: one per character of one or two bytes.  *)
Units(text, from, to) == Cardinality({n \in from + 1..to : text[n] # Continuation})

Names(text, p, o) ==
    /\ p.line <= o /\ \A n \in p.line + 1..o : text[n] # Newline
    /\ o < Len(text) => text[o + 1] # Continuation
    /\ p.character = Units(text, p.line, o)

(* The line after the last stands for the end of the text. *)
PastEnd(text) == [line |-> Len(text) + 1, character |-> 0]

(* So does a character past the end of the last line. One past the end of    *)
(* another line stands for the end of that line, while the client counts on  *)
(* in the lines below; none is among the positions.                          *)
PastLastLine(text, p) ==
    /\ \A n \in p.line + 1..Len(text) : text[n] # Newline
    /\ p.character = Units(text, p.line, Len(text)) + 1

Positions(text) ==
    {p \in [line : LineStarts(text), character : 0..Len(text) + 1] :
        PastLastLine(text, p) \/ \E o \in 0..Len(text) : Names(text, p, o)} \cup {PastEnd(text)}

Named(text, p) ==
    IF \E o \in 0..Len(text) : Names(text, p, o)
    THEN CHOOSE o \in 0..Len(text) : Names(text, p, o)
    ELSE Len(text)

Before(p, q) ==
    p.line < q.line \/ (p.line = q.line /\ p.character <= q.character)

(* "LSP guarantees edits within one document don't overlap." Edits may       *)
(* still start at the same place, if one of them is an insertion.            *)
Apart(e, f) == Before(e.end, f.start) \/ Before(f.end, e.start)

ServerEdit(text) ==
    {e \in [start : Positions(text), end : Positions(text), new : NewTexts] :
        Before(e.start, e.end)}

AllApart(es) == \A i, j \in DOMAIN es : i # j => Apart(es[i], es[j])

ServerEdits(text) ==
    {es \in SeqOf(ServerEdit(text), MaxEdits) : AllApart(es)}

-----------------------------------------------------------------------------
(* The client's side.                                                        *)
LesserOf(a, b) == IF a <= b THEN a ELSE b

(* offsetOf: the units are added to the offset of the line, as bytes. *)
OffsetOf(text, p) == LesserOf(p.line + p.character, Len(text))

Start(i) == OffsetOf(content, edits[i].start)
End(i)   == OffsetOf(content, edits[i].end)

(* sort.SliceStable, highest offset first. *)
LowestFirst(i, j) == Start(i) < Start(j) \/ (Start(i) = Start(j) /\ i <= j)   \* faulty: ascending
Precedes(i, j) == Start(i) > Start(j) \/ (Start(i) = Start(j) /\ i <= j)

AfterEnd(i) == End(i) + 1               \* faulty: the byte at the end is cut, too
CutUpTo(i) == End(i)                    \* out[end:]

Init ==
    /\ content \in {t \in SeqOf(Bytes, MaxContent) : WellFormed(t)}
    /\ edits \in ServerEdits(content)
    /\ left = DOMAIN edits
    /\ out = content

ApplyEdit(i) ==
    /\ i \in left /\ \A j \in left : Precedes(i, j)
    /\ out' = Splice(out, Start(i), CutUpTo(i), edits[i].new)
    /\ left' = left \ {i}
    /\ UNCHANGED <<content, edits>>

Next == \E i \in left : ApplyEdit(i)

Spec == Init /\ [][Next]_editVars

-----------------------------------------------------------------------------
TypeOK ==
    /\ content \in Seq(Bytes) /\ out \in Seq(Bytes)
    /\ edits \in Seq(ServerEdit(content)) /\ AllApart(edits)
    /\ left \subseteq DOMAIN edits

(* The slices of the splices still to come are within the text, however the  *)
(* edits before them changed its length: none panics.                        *)
SlicesInRange == \A i \in left : Start(i) <= End(i) /\ End(i) <= Len(out)

DistinctStarts ==
    \A i, j \in DOMAIN edits : Start(i) = Start(j) => i = j

(* "Edits are applied bottom-to-top (highest offset first) so each splice    *)
(* can't invalidate the offsets of edits not yet applied": up to the end of  *)
(* each such edit the text is as it was. An insertion and a change at one    *)
(* place break it: the insertion moves what the change is to cut.            *)
SplicesIndependent ==
    \A i \in left : \A n \in 1..End(i) : n <= Len(out) /\ out[n] = content[n]

(* It holds if no two edits start at one offset. *)
OffsetsIntact == DistinctStarts => SplicesIndependent

Changes == {[from |-> Named(content, edits[i].start), to |-> Named(content, edits[i].end),
             new |-> edits[i].new] : i \in DOMAIN edits}

(* The document ends up as the server described it, if no two edits start at *)
(* one place and no character has two bytes: with one, characters and bytes  *)
(* differ, and a change lands too far to the left.                           *)
AppliedAtOnce ==
    left = {} /\ DistinctStarts /\ (\A n \in 1..Len(content) : content[n] # Continuation)
        => out = AtOnce(content, Changes)

(* With TypeOK it is inductive. *)
EditsInv == TypeOK /\ SlicesInRange /\ OffsetsIntact
=============================================================================
