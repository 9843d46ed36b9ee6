---------------------------- MODULE ServerLists ----------------------------
(* Lists of configured servers, by the names that stand in them. *)
EXTENDS Naturals, Sequences

NamesOf(s) == {s[i].name : i \in 1..Len(s)}

DistinctNames(s) == \A i, j \in 1..Len(s) : s[i].name = s[j].name => i = j

(* f lists, in order, the positions up to `last` of the servers in s that  *)
(* are not called n; it has k of them.                                     *)
ListsOthers(f, k, s, last, n) ==
    /\ f \in [1..k -> 1..last]
    /\ \A i, j \in 1..k : i < j => f[i] < f[j]
    /\ \A i \in 1..k : s[f[i]].name # n
    /\ \A p \in 1..last : s[p].name # n => \E i \in 1..k : f[i] = p

(* t is s without the servers called n. *)
IsWithout(s, t, n) ==
    \E f \in [1..Len(t) -> 1..Len(s)] :
        ListsOthers(f, Len(t), s, Len(s), n) /\ \A i \in 1..Len(t) : t[i] = s[f[i]]
=============================================================================
