------------------------------- MODULE Splices -------------------------------
(* Replacing ranges of a text. ApplyTextEdits (lsputil/workspaceedit.go) and *)
(* applyReplacements (cli/replace.go) both rewrite a text by one splice per  *)
(* edit, from the last edit to the first. A text is a sequence of bytes, an  *)
(* offset the number of bytes before it.                                     *)
EXTENDS Integers, Sequences, SequencesExt

CONSTANTS
    Bytes,      \* the bytes of a text
    NewTexts    \* the texts that edits insert

ASSUME TextsAssumption == NewTexts \subseteq Seq(Bytes)

(* out[:from] + new + out[to:] *)
Splice(text, from, to, new) ==
    SubSeq(text, 1, from) \o new \o SubSeq(text, to + 1, Len(text))

(* The reference: what the text becomes when all edits, whose starts are     *)
(* distinct, are made at once, byte by byte from the front.                  *)
NewAt(changes, n) ==
    IF \E e \in changes : e.from = n THEN (CHOOSE e \in changes : e.from = n).new ELSE <<>>
Kept(text, changes, n) ==
    IF \E e \in changes : e.from < n /\ n <= e.to THEN <<>> ELSE <<text[n]>>

AtOnce(text, changes) ==
    NewAt(changes, 0) \o
        FlattenSeq([n \in 1..Len(text) |-> Kept(text, changes, n) \o NewAt(changes, n)])
=============================================================================
