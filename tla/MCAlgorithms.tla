---------------------------- MODULE MCAlgorithms ----------------------------
(* Values of the constants of Algorithms.                                    *)
EXTENDS Algorithms

CONSTANT b

(* Shorter than what it replaces, as long, and longer. *)
NewTextsMC == {<<>>, <<b, b>>}

(* The digits 0, 1 and 2, of which the last has a lower-case form. *)
UpperMC == [v \in 0..2 |-> v]
LowerMC == [v \in 0..2 |-> IF v = 2 THEN 3 ELSE v]

(* A file of five lines and one of one. *)
MaxLinesMC == <<5, 1>>
MaxSitesMC == <<2, 1>>
ContextsMC == {-1, 0, 1, 2}

(* A directory with a file, 2, and a directory with the file 4 and a third *)
(* directory, in which the file 6 is.                                      *)
ParentOfMC == <<0, 1, 1, 3, 3, 5>>
=============================================================================
