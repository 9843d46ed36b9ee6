------------------------------- MODULE Locate -------------------------------
(* A target file#a.b.c is resolved to one declaration: Locate of             *)
(* treesitter/locate.go walks the syntax tree one segment at a time, and     *)
(* resolveSymbol, resolveLocation and resolveRange of cli/resolve.go turn    *)
(* what it reports into a position, a range or an exit code.                 *)
(*                                                                           *)
(* The nodes of the tree are numbered in the order of their first bytes, so  *)
(* that the subtree of n is n..last[n]. Parser and queries are external: a   *)
(* query started at a node finds each pattern whose own root lies in the     *)
(* subtree of that node, the node itself included, and captures a name.      *)
EXTENDS Naturals, Sequences, FiniteSets, SequencesExt, FiniteSetsExt

CONSTANTS Idents,       \* what a declaration may be called
          MaxNodes,     \* bound on the nodes of a tree
          MaxSegments   \* bound on the segments of a path

VARIABLES
    last,       \* the tree
    decls,      \* what the queries find: name node, root of the pattern, text
    segments,   \* the path
    readable,   \* the file can be read, and there is a grammar for it
    seg,        \* the segment looked for
    scope,      \* the node to look in
    outcome,    \* LocateOutcome: NotYet, or the segment and its matches
    reply       \* of the command: NotYet, or exit code, position and span

locateVars == <<last, decls, segments, readable, seg, scope, outcome, reply>>

Nodes == DOMAIN last
Subtree(n) == n..last[n]
Parent(n) == Max({m \in Nodes : m < n /\ n \in Subtree(m)})
NotYet == [segment |-> 0, matches |-> {}]
NoReply == [exit |-> 0, places |-> {}]

Trees ==
    UNION {{t \in [1..n -> 1..n] :
              /\ t[1] = n
              /\ \A i \in 1..n : t[i] >= i /\ \A j \in i..t[i] : t[j] <= t[i]} :
           n \in 1..MaxNodes}

(* A name is a leaf; the root of a pattern is its parent or the node above. *)
Names == {n \in Nodes \ {1} : last[n] = n}
Above(n) == {Parent(n)} \cup (IF Parent(n) = 1 THEN {} ELSE {Parent(Parent(n))})
Captures == UNION {{[name |-> n, root |-> r] : r \in Above(n)} : n \in Names}

Init ==
    /\ last \in Trees
    /\ \E captured \in SUBSET Captures, text \in [Names -> Idents] :
          decls = {[name |-> c.name, root |-> c.root, text |-> text[c.name]] : c \in captured}
    /\ segments \in SeqOf(Idents, MaxSegments) \ {<<>>}
    /\ readable \in BOOLEAN
    /\ seg = 1 /\ scope = 1 /\ outcome = NotYet /\ reply = NoReply

-----------------------------------------------------------------------------
(* declsNamed: a name found by two patterns is one candidate. *)
DeclsNamed(text) == {d.name : d \in {e \in decls : e.root \in Subtree(scope) /\ e.text = text}}

TheName(n) == n             \* faulty: a name contains nothing
Descent(n) == Parent(n)     \* the node to descend into for the next segment

Resolves(cands) == Cardinality(cands) = 1 /\ seg < Len(segments)

Descend ==
    /\ readable /\ outcome = NotYet
    /\ LET cands == DeclsNamed(segments[seg])
       IN  Resolves(cands) /\ \E n \in cands : scope' = Descent(n)
    /\ seg' = seg + 1
    /\ UNCHANGED <<last, decls, segments, readable, outcome, reply>>

Stop ==
    /\ readable /\ outcome = NotYet
    /\ LET cands == DeclsNamed(segments[seg])
       IN  ~Resolves(cands) /\ outcome' = [segment |-> seg, matches |-> cands]
    /\ UNCHANGED <<last, decls, segments, readable, seg, scope, reply>>

(* toLocateMatches: the name, and the declaration for the range commands. *)
LocateMatch(n) == [position |-> n, span |-> Descent(n)]

(* exitResolveErr, when the target is not one declaration. *)
ExitOf(matches) ==
    CASE Cardinality(matches) = 1 -> 0
      [] matches = {} -> 2
      [] OTHER -> 3

(* The reply names no segment: whatever the last one looked for matched is   *)
(* the target, or the choice left to the user (exit 3), or missing (exit 2). *)
Answer ==
    /\ outcome # NotYet /\ reply = NoReply
    /\ reply' = [exit   |-> ExitOf(outcome.matches),
                 places |-> {LocateMatch(n) : n \in outcome.matches}]
    /\ UNCHANGED <<last, decls, segments, readable, seg, scope, outcome>>

Refuse ==
    /\ ~readable /\ reply = NoReply
    /\ reply' = [NoReply EXCEPT !.exit = 1]
    /\ UNCHANGED <<last, decls, segments, readable, seg, scope, outcome>>

Next == Descend \/ Stop \/ Answer \/ Refuse

Spec == Init /\ [][Next]_locateVars
-----------------------------------------------------------------------------
(* The declarations a path of k segments can mean: each one within the node  *)
(* that declares the one before.                                             *)
Meant(k) ==
    {c[k].name : c \in {c \in [1..k -> decls] :
        /\ \A i \in 1..k : c[i].text = segments[i]
        /\ \A i \in 1..k - 1 : c[i + 1].root \in Subtree(Parent(c[i].name))}}

(* A target is resolved only to the one declaration its path can mean; a     *)
(* path that is not found means nothing, and one that is reported ambiguous  *)
(* lists all declarations the path means up to that segment. A rename never  *)
(* starts at a declaration that was one of several.                          *)
OneMeaning ==
    reply # NoReply /\ readable =>
        LET places == {p.position : p \in reply.places}
        IN  /\ reply.exit = 0 => places = Meant(Len(segments)) /\ Cardinality(places) = 1
            /\ reply.exit = 2 => Meant(Len(segments)) = {}
            /\ reply.exit = 3 => places = Meant(outcome.segment) /\ Cardinality(places) > 1
=============================================================================
