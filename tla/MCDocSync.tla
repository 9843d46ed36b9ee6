------------------------------ MODULE MCDocSync ------------------------------
(* Instances of DocSync for TLC: the edits a server answers with. *)
EXTENDS DocSync

CONSTANTS f1, f2, f3

OnFile(kind, f) == [kind |-> kind, file |-> f, to |-> f]
RenameTo(f, g)  == [kind |-> "rename", file |-> f, to |-> g]
TextOf(f)       == OnFile("none", f)

DocumentChanges(list) == [ordered |-> TRUE, list |-> list]
ChangesOf(list)       == [ordered |-> FALSE, list |-> list]

(* A map of edits to two files, a renamed file that is edited under its    *)
(* new name, a deletion and a creation; an edit without changes is what a  *)
(* move that touches no import gets.                                       *)
SomeAnswers ==
    {ChangesOf(<<>>),
     ChangesOf(<<TextOf(f1), TextOf(f2)>>),
     DocumentChanges(<<RenameTo(f1, f2), TextOf(f2)>>),
     DocumentChanges(<<OnFile("delete", f2)>>),
     DocumentChanges(<<OnFile("create", f2), TextOf(f1)>>)}

(* No edit at all, for the instances without an operation that applies one. *)
NoAnswers == {}
=============================================================================
