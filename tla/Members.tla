------------------------------ MODULE Members ------------------------------
(* The members operation after the server's answer (daemon/ops.go): the      *)
(* completion items are filtered by name in place, each of the first         *)
(* resolveLimit is resolved by a goroutine of its own, a few at a time, and  *)
(* the results are put in the server's ranking. Whether a name matches is    *)
(* external.                                                                 *)
EXTENDS Integers, Sequences, FiniteSets, SequencesExt, FiniteSetsExt

CONSTANTS MaxItems,     \* bound on the items of an answer
          Ranks,        \* values of sortText, or of the label if there is none
          ResolveLimit, \* 200
          Slots         \* capacity of the channel sem, 16

VARIABLES
    answer,     \* the items the server sent
    detail,     \* --detail
    items,      \* the slice of items
    read, kept, \* the loop of FilterCompletion
    task,       \* each goroutine: "spawned", "asking" or "done"
    resolved,   \* what the goroutines wrote
    told,       \* history: each item of the answer, as the server described it last
    members     \* the result: NoMembers before

memberVars == <<answer, detail, items, read, kept, task, resolved, told, members>>

Zero == [id |-> 0, fits |-> FALSE, rank |-> 0, full |-> FALSE]
NoMembers == [i \in {0} |-> Zero]
Items == {a \in SeqOf([id : 1..MaxItems, fits : BOOLEAN, rank : Ranks, full : {FALSE}], MaxItems) :
             \A i \in 1..Len(a) : a[i].id = i}

Init ==
    /\ answer \in Items /\ detail \in BOOLEAN
    /\ items = answer /\ read = 1 /\ kept = 0
    /\ task = <<>> /\ resolved = <<>> /\ told = answer /\ members = NoMembers

-----------------------------------------------------------------------------
Filtering == task = <<>> /\ members = NoMembers

(* FilterCompletion: what is kept is moved to the front of the same slice. *)
FilterItem ==
    /\ Filtering /\ read <= Len(answer)
    /\ IF items[read].fits
       THEN /\ items' = [items EXCEPT ![kept + 1] = items[read]]
            /\ kept' = kept + 1
       ELSE UNCHANGED <<items, kept>>
    /\ read' = read + 1
    /\ UNCHANGED <<answer, detail, task, resolved, told, members>>

Filtered == SubSeq(items, 1, kept)

(* resolveItems starts one goroutine for each item it resolves. *)
Spawned == Min({kept, ResolveLimit})

Spawn ==
    /\ Filtering /\ read > Len(answer) /\ detail /\ Spawned > 0
    /\ task' = [i \in 1..Spawned |-> "spawned"]
    /\ resolved' = [i \in 1..Spawned |-> Zero]
    /\ UNCHANGED <<answer, detail, items, read, kept, told, members>>

InFlight == Cardinality({i \in DOMAIN task : task[i] = "asking"})

Ask(i) ==
    /\ task[i] = "spawned" /\ InFlight < Slots
    /\ task' = [task EXCEPT ![i] = "asking"]
    /\ UNCHANGED <<answer, detail, items, read, kept, resolved, told, members>>

(* The server's reply takes the place of the whole item, with another rank   *)
(* perhaps; if the request fails or the reply is null the item stays.        *)
Replies(item) == {[item EXCEPT !.rank = r, !.full = TRUE] : r \in Ranks}

Resolved(i, result) ==
    /\ task[i] = "asking"
    /\ resolved' = [resolved EXCEPT ![i] = result]
    /\ told' = [told EXCEPT ![items[i].id] = result]
    /\ task' = [task EXCEPT ![i] = "done"]
    /\ UNCHANGED <<answer, detail, items, read, kept, members>>

Started == \A i \in DOMAIN task : task[i] # "spawned"   \* faulty: counts a goroutine down early
AllDone == \A i \in DOMAIN task : task[i] = "done"      \* wg.Wait

(* ToMembers: a stable sort by rank. *)
Before(s, i, j) == s[i].rank < s[j].rank \/ (s[i].rank = s[j].rank /\ i < j)
Place(s, i)     == Cardinality({j \in 1..Len(s) : j = i \/ Before(s, j, i)})
Ranked(s)       == [k \in 1..Len(s) |-> s[CHOOSE i \in 1..Len(s) : Place(s, i) = k]]

Reply ==
    /\ members = NoMembers /\ read > Len(answer)
    /\ detail => DOMAIN task = 1..Spawned /\ AllDone
    /\ members' = IF detail THEN Ranked(resolved) ELSE Ranked(Filtered)
    /\ UNCHANGED <<answer, detail, items, read, kept, task, resolved, told>>

Next ==
    \/ FilterItem \/ Spawn \/ Reply
    \/ \E i \in DOMAIN task :
          Ask(i) \/ \E result \in {items[i]} \cup Replies(items[i]) : Resolved(i, result)

Spec == Init /\ [][Next]_memberVars
-----------------------------------------------------------------------------
Detailed(a) == told[a.id]
Matching(s) == FlattenSeq([i \in 1..Len(s) |-> IF s[i].fits THEN <<s[i]>> ELSE <<>>])

(* In the reply stands every item that matches, and nothing else, up to the  *)
(* limit if details are asked for; none is lost to the limit for the sake of *)
(* one that does not match. Each is as the server described it last, in      *)
(* whatever order it told; they are in the server's ranking, equals in the   *)
(* order of its answer.                                                      *)
EveryMatchResolved ==
    members # NoMembers =>
        LET fit   == Matching(answer)
            asked == IF detail THEN SubSeq(fit, 1, Min({Len(fit), ResolveLimit})) ELSE fit
        IN  /\ Len(members) = Len(asked)
            /\ Range(members) = {Detailed(a) : a \in Range(asked)}
            /\ \A i \in 1..Len(members) - 1 :
                  \/ members[i].rank < members[i + 1].rank
                  \/ members[i].rank = members[i + 1].rank /\ members[i].id < members[i + 1].id
=============================================================================
