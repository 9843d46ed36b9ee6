------------------------- MODULE ConfigStoreProofs -------------------------
(* Theorems about ConfigStore, for any number of commands. *)
EXTENDS ConfigStore, WellFoundedInduction, TLAPS

Labels == {"idle", "filter", "built", "open"}
Kinds == {"none", "add", "remove", "init"}

TypeOK ==
    /\ file \in [state : {"missing", "text", "garbled"}, entries : Seq(Server)]
    /\ pc \in [Commands -> Labels]
    /\ change \in [Commands -> [kind : Kinds, name : Names]]
    /\ cfg \in [Commands -> Seq(Server)] /\ base \in [Commands -> Seq(Server)]
    /\ kept \in [Commands -> Nat] /\ pos \in [Commands -> Nat]
    /\ blank \in BOOLEAN /\ tangled \in BOOLEAN /\ disturbed \in BOOLEAN
    /\ ops \in Nat

AllWellFormed(s) == \A i \in 1..Len(s) : WellFormed(s[i])
AllNormal(s) == \A i \in 1..Len(s) : Normal(s[i]) = s[i]

(* Inside the loop of remove: the first `kept` cells hold what is kept of  *)
(* the first pos - 1, and the cells from pos on are as they were read.     *)
Filtered(b, s, k, p, n) ==
    /\ Len(s) = Len(b) /\ p \in 1..(Len(b) + 1) /\ k < p
    /\ \A i \in p..Len(b) : s[i] = b[i]
    /\ \E f \in [1..k -> 1..(p - 1)] :
           ListsOthers(f, k, b, p - 1, n) /\ \A i \in 1..k : s[i] = b[f[i]]

(* What the list in memory owes to the list that was read. *)
AddInv(c) ==
    \E s \in Server : /\ cfg[c] = Append(base[c], s)
                      /\ s.name \notin NamesOf(base[c])
                      /\ s.exts # {} /\ (~blank => s.command)
RemoveInv(c) ==
    /\ change[c].name \in NamesOf(base[c])
    /\ pc[c] = "filter" => Filtered(base[c], cfg[c], kept[c], pos[c], change[c].name)
    /\ pc[c] # "filter" => IsWithout(base[c], cfg[c], change[c].name)
CommandInv(c) ==
    /\ change[c].kind \in {"add", "remove", "init"}
    /\ AllWellFormed(base[c]) /\ AllNormal(base[c])
    /\ ~tangled => DistinctNames(base[c])
    /\ change[c].kind # "remove" => pc[c] # "filter"
    /\ change[c].kind = "add" => AddInv(c)
    /\ change[c].kind = "remove" => RemoveInv(c)
    /\ change[c].kind = "init" => base[c] = <<>> /\ cfg[c] = <<>>

(* As long as no two writes met, the writer has an empty file to itself. *)
WriteInv ==
    ~tangled => \A c \in Commands : pc[c] = "open" =>
                    /\ file = Text(<<>>)
                    /\ \A d \in Commands : pc[d] = "open" => d = c

FileInv == NamesDistinct /\ LoadsBack

(* As long as nothing was disturbed, a writer is alone, and every other    *)
(* command holds what is in the file.                                      *)
SoundInv ==
    ~disturbed =>
        /\ ~tangled
        /\ \A c, d \in Commands : pc[c] = "open" /\ pc[d] # "idle" => d = c
        /\ \A c \in Commands : pc[c] \in {"filter", "built"} => base[c] = Read(file)

IInv ==
    /\ TypeOK
    /\ \A c \in Commands : pc[c] # "idle" => CommandInv(c)
    /\ WriteInv /\ FileInv /\ SoundInv
-----------------------------------------------------------------------------
Files == [state : {"missing", "text", "garbled"}, entries : Seq(Server)]

(* Load turns the entries of a file into servers one by one. *)
LEMMA ReadOfFile ==
    ASSUME NEW f \in Files
    PROVE  /\ Read(f) \in Seq(Server) /\ Len(Read(f)) = Len(f.entries)
           /\ \A i \in 1..Len(f.entries) : /\ Read(f)[i] = Normal(f.entries[i])
                                           /\ Read(f)[i].name = f.entries[i].name
<1>1. \A s \in Server : Normal(s) \in Server /\ Normal(s).name = s.name
  BY DEF Normal, Server
<1>2. f.entries \in Seq(Server) /\ Len(f.entries) \in Nat
  BY DEF Files
<1>3. \A i \in 1..Len(f.entries) : f.entries[i] \in Server
  BY <1>2
<1>4. Read(f) = [i \in 1..Len(f.entries) |-> Normal(f.entries[i])]
  BY DEF Read
<1>5. \A i \in 1..Len(f.entries) : Normal(f.entries[i]) \in Server
  BY <1>1, <1>3
<1>6. Read(f) \in Seq(Server) /\ Len(Read(f)) = Len(f.entries)
  BY <1>2, <1>4, <1>5
<1> QED  BY <1>1, <1>3, <1>4, <1>6

LEMMA ReadKeeps ==
    ASSUME NEW f \in Files
    PROVE  /\ AllNormal(Read(f))
           /\ Loads(f) => AllWellFormed(Read(f))
           /\ DistinctNames(f.entries) => DistinctNames(Read(f))
<1>1. \A s \in Server : Normal(Normal(s)) = Normal(s) /\ (WellFormed(s) => WellFormed(Normal(s)))
  <2> SUFFICES ASSUME NEW s \in Server
               PROVE  Normal(Normal(s)) = Normal(s) /\ (WellFormed(s) => WellFormed(Normal(s)))
    OBVIOUS
  <2>1. CASE s.lang = Unset
    <3>1. Normal(s) = [s EXCEPT !.lang = s.name]
      BY <2>1 DEF Normal
    <3>2. Normal(s).lang = s.name /\ Normal(s).name = s.name
          /\ Normal(s).command = s.command /\ Normal(s).exts = s.exts /\ Normal(s) \in Server
      BY <3>1 DEF Server
    <3>3. [Normal(s) EXCEPT !.lang = Normal(s).name] = Normal(s)
      BY <3>1, <3>2 DEF Server
    <3> QED  BY <3>2, <3>3 DEF Normal, WellFormed
  <2>2. CASE s.lang # Unset
    BY <2>2 DEF Normal
  <2> QED  BY <2>1, <2>2
<1>2. f.entries \in Seq(Server) /\ \A i \in 1..Len(f.entries) : f.entries[i] \in Server
  BY DEF Files
<1>3. AllNormal(Read(f))
  BY <1>1, <1>2, ReadOfFile DEF AllNormal
<1>4. Loads(f) => AllWellFormed(Read(f))
  BY <1>1, <1>2, ReadOfFile DEF AllWellFormed, Loads
<1>5. DistinctNames(f.entries) => DistinctNames(Read(f))
  BY ReadOfFile DEF DistinctNames
<1> QED  BY <1>3, <1>4, <1>5
-----------------------------------------------------------------------------
(* The loop of remove. *)

LEMMA FilterStarts ==
    ASSUME NEW b \in Seq(Server), NEW n PROVE Filtered(b, b, 0, 1, n)
<1> DEFINE f == [i \in 1..0 |-> 0]
<1>1. f \in [1..0 -> 1..(1 - 1)]
  OBVIOUS
<1>2. ListsOthers(f, 0, b, 1 - 1, n)
  BY <1>1 DEF ListsOthers
<1>5. \A i \in 1..0 : b[i] = b[f[i]]
  OBVIOUS
<1> HIDE DEF f
<1>3. \E g \in [1..0 -> 1..(1 - 1)] :
          ListsOthers(g, 0, b, 1 - 1, n) /\ \A i \in 1..0 : b[i] = b[g[i]]
  BY <1>1, <1>2, <1>5, Zenon
<1>4. Len(b) = Len(b) /\ 1 \in 1..(Len(b) + 1) /\ 0 < 1 /\ \A i \in 1..Len(b) : b[i] = b[i]
  OBVIOUS
<1> QED  BY <1>3, <1>4, Zenon DEF Filtered

(* A server that is to go is passed over. *)
LEMMA FilterSkips ==
    ASSUME NEW b \in Seq(Server), NEW s \in Seq(Server), NEW k \in Nat, NEW p \in Nat, NEW n,
           Filtered(b, s, k, p, n), p <= Len(s), s[p].name = n
    PROVE  Filtered(b, s, k, p + 1, n)
<1>1. PICK f \in [1..k -> 1..(p - 1)] :
          ListsOthers(f, k, b, p - 1, n) /\ \A i \in 1..k : s[i] = b[f[i]]
  BY DEF Filtered
<1>2. Len(b) \in Nat /\ Len(s) = Len(b) /\ p \in 1..Len(b) /\ k < p
      /\ b[p].name = n /\ (p + 1) - 1 = p /\ 1..(p - 1) \subseteq 1..p
  BY DEF Filtered
<1>3. f \in [1..k -> 1..p]
  BY <1>1, <1>2
<1>4. ListsOthers(f, k, b, p, n)
  <2>1. \A q \in 1..p : b[q].name # n => q \in 1..(p - 1)
    BY <1>2
  <2> QED  BY <1>1, <1>3, <2>1 DEF ListsOthers
<1>5. \A i \in (p + 1)..Len(b) : s[i] = b[i]
  BY <1>2 DEF Filtered
<1>6. \E g \in [1..k -> 1..((p + 1) - 1)] :
          ListsOthers(g, k, b, (p + 1) - 1, n) /\ \A i \in 1..k : s[i] = b[g[i]]
  BY <1>1, <1>2, <1>3, <1>4
<1>7. p + 1 \in 1..(Len(b) + 1) /\ k < p + 1
  BY <1>2
<1> QED  BY <1>2, <1>5, <1>6, <1>7, Zenon DEF Filtered

(* A server that stays is moved down to the first free cell, which is at   *)
(* or before its own, so nothing that is still to be read is overwritten.  *)
LEMMA FilterMoves ==
    ASSUME NEW b \in Seq(Server), NEW s \in Seq(Server), NEW k \in Nat, NEW p \in Nat, NEW n,
           Filtered(b, s, k, p, n), p <= Len(s), s[p].name # n
    PROVE  /\ [s EXCEPT ![k + 1] = s[p]] \in Seq(Server)
           /\ Filtered(b, [s EXCEPT ![k + 1] = s[p]], k + 1, p + 1, n)
<1> DEFINE t == [s EXCEPT ![k + 1] = s[p]]
<1>1. PICK f \in [1..k -> 1..(p - 1)] :
          ListsOthers(f, k, b, p - 1, n) /\ \A i \in 1..k : s[i] = b[f[i]]
  BY DEF Filtered
<1>2. Len(b) \in Nat /\ Len(s) = Len(b) /\ p \in 1..Len(b) /\ k < p /\ s[p] = b[p]
      /\ (p + 1) - 1 = p /\ k + 1 \in 1..Len(b)
  BY DEF Filtered
<1>3. t \in Seq(Server) /\ Len(t) = Len(b) /\ t[k + 1] = b[p]
      /\ \A i \in 1..Len(b) : i # k + 1 => t[i] = s[i]
  BY <1>2
<1> DEFINE g == [i \in 1..(k + 1) |-> IF i = k + 1 THEN p ELSE f[i]]
<1>4. g[k + 1] = p /\ \A i \in 1..k : g[i] = f[i] /\ g[i] \in 1..(p - 1)
  BY <1>1
<1>5. g \in [1..(k + 1) -> 1..p]
  BY <1>1, <1>2
<1>6. ListsOthers(g, k + 1, b, p, n)
  <2>1. \A i, j \in 1..(k + 1) : i < j => g[i] < g[j]
    <3> SUFFICES ASSUME NEW i \in 1..(k + 1), NEW j \in 1..(k + 1), i < j PROVE g[i] < g[j]
      OBVIOUS
    <3>1. i \in 1..k
      OBVIOUS
    <3>2. CASE j = k + 1
      BY <1>2, <1>4, <3>1, <3>2
    <3>3. CASE j # k + 1
      <4>1. j \in 1..k
        BY <3>3
      <4> QED  BY <1>1, <1>4, <3>1, <4>1 DEF ListsOthers
    <3> QED  BY <3>2, <3>3
  <2>2. \A i \in 1..(k + 1) : b[g[i]].name # n
    <3> SUFFICES ASSUME NEW i \in 1..(k + 1) PROVE b[g[i]].name # n
      OBVIOUS
    <3>1. CASE i = k + 1
      BY <1>2, <1>4, <3>1
    <3>2. CASE i \in 1..k
      BY <1>1, <1>4, <3>2 DEF ListsOthers
    <3> QED  BY <3>1, <3>2
  <2>3. \A q \in 1..p : b[q].name # n => \E i \in 1..(k + 1) : g[i] = q
    <3> SUFFICES ASSUME NEW q \in 1..p, b[q].name # n PROVE \E i \in 1..(k + 1) : g[i] = q
      OBVIOUS
    <3>1. CASE q = p
      BY <1>4, <3>1
    <3>2. CASE q # p
      <4>1. q \in 1..(p - 1)
        BY <1>2, <3>2
      <4>2. PICK i \in 1..k : f[i] = q
        BY <1>1, <4>1 DEF ListsOthers
      <4>3. i \in 1..(k + 1) /\ g[i] = q
        BY <1>4, <4>2
      <4> QED  BY <4>3
    <3> QED  BY <3>1, <3>2
  <2> HIDE DEF g
  <2> QED  BY <1>5, <2>1, <2>2, <2>3 DEF ListsOthers
<1>7. \A i \in 1..(k + 1) : t[i] = b[g[i]]
  <2> SUFFICES ASSUME NEW i \in 1..(k + 1) PROVE t[i] = b[g[i]]
    OBVIOUS
  <2>1. CASE i = k + 1
    BY <1>3, <1>4, <2>1
  <2>2. CASE i \in 1..k
    BY <1>1, <1>2, <1>3, <1>4, <2>2
  <2> QED  BY <2>1, <2>2
<1>8. \A i \in (p + 1)..Len(b) : t[i] = b[i]
  <2>1. \A i \in p..Len(b) : s[i] = b[i]
    BY DEF Filtered
  <2>2. \A i \in (p + 1)..Len(b) : i \in p..Len(b) /\ i \in 1..Len(b) /\ i # k + 1
    BY <1>2
  <2> HIDE DEF t
  <2> QED  BY <1>3, <2>1, <2>2, Zenon
<1> HIDE DEF t, g
<1>9. Filtered(b, t, k + 1, p + 1, n)
  <2>1. p + 1 \in 1..(Len(b) + 1) /\ k + 1 < p + 1
    BY <1>2
  <2> QED  BY <1>2, <1>3, <1>5, <1>6, <1>7, <1>8, <2>1 DEF Filtered
<1> QED  BY <1>3, <1>9 DEF t

(* What the loop leaves is the list without the name. *)
LEMMA FilterEnds ==
    ASSUME NEW b \in Seq(Server), NEW s \in Seq(Server), NEW k \in Nat, NEW p \in Nat, NEW n,
           Filtered(b, s, k, p, n), p > Len(s)
    PROVE  SubSeq(s, 1, k) \in Seq(Server) /\ IsWithout(b, SubSeq(s, 1, k), n)
<1>1. PICK f \in [1..k -> 1..(p - 1)] :
          ListsOthers(f, k, b, p - 1, n) /\ \A i \in 1..k : s[i] = b[f[i]]
  BY DEF Filtered
<1>2. Len(b) \in Nat /\ Len(s) = Len(b) /\ p - 1 = Len(b) /\ k <= Len(s)
  BY SMTT(30) DEF Filtered
<1>3. SubSeq(s, 1, k) \in Seq(Server) /\ Len(SubSeq(s, 1, k)) = k
      /\ \A i \in 1..k : SubSeq(s, 1, k)[i] = s[i]
  BY <1>2
<1>4. f \in [1..Len(SubSeq(s, 1, k)) -> 1..Len(b)]
      /\ ListsOthers(f, Len(SubSeq(s, 1, k)), b, Len(b), n)
      /\ \A i \in 1..Len(SubSeq(s, 1, k)) : SubSeq(s, 1, k)[i] = b[f[i]]
  BY <1>1, <1>2, <1>3
<1> QED  BY <1>3, <1>4 DEF IsWithout

LEMMA WithoutKeeps ==
    ASSUME NEW b \in Seq(Server), NEW t \in Seq(Server), NEW n, IsWithout(b, t, n)
    PROVE  /\ AllWellFormed(b) => AllWellFormed(t)
           /\ AllNormal(b) => AllNormal(t)
           /\ DistinctNames(b) => DistinctNames(t)
<1>1. PICK f \in [1..Len(t) -> 1..Len(b)] :
          ListsOthers(f, Len(t), b, Len(b), n) /\ \A i \in 1..Len(t) : t[i] = b[f[i]]
  BY DEF IsWithout
<1>2. \A i \in 1..Len(t) : f[i] \in 1..Len(b) /\ t[i] = b[f[i]]
  BY <1>1
<1>3. \A i, j \in 1..Len(t) : f[i] = f[j] => i = j
  <2> SUFFICES ASSUME NEW i \in 1..Len(t), NEW j \in 1..Len(t), f[i] = f[j], i # j PROVE FALSE
    OBVIOUS
  <2>1. i < j \/ j < i
    OBVIOUS
  <2>2. f[i] \in Nat /\ f[j] \in Nat
    BY <1>2
  <2> QED  BY <1>1, <2>1, <2>2 DEF ListsOthers
<1>4. DistinctNames(b) => DistinctNames(t)
  BY <1>2, <1>3 DEF DistinctNames
<1> QED  BY <1>2, <1>4 DEF AllWellFormed, AllNormal
-----------------------------------------------------------------------------
(* The inductive invariant. *)

LEMMA InitInv == Init => IInv
<1> SUFFICES ASSUME Init PROVE IInv
  OBVIOUS
<1>1. NoChange \in [kind : Kinds, name : Names] /\ Missing \in Files
      /\ \A w \in HandWritten : Text(w) \in Files
  BY BoundsAssumption, HandWrittenAssumption DEF NoChange, Kinds, Missing, Files, Text
<1>2. TypeOK
  <2>1. file \in Files
    BY <1>1 DEF Init
  <2>2. change \in [Commands -> [kind : Kinds, name : Names]]
    BY <1>1 DEF Init
  <2>3. pc \in [Commands -> Labels] /\ kept \in [Commands -> Nat] /\ pos \in [Commands -> Nat]
    BY DEF Init, Labels
  <2>4. cfg \in [Commands -> Seq(Server)] /\ base \in [Commands -> Seq(Server)]
    BY DEF Init
  <2>5. ops \in Nat /\ blank \in BOOLEAN /\ tangled \in BOOLEAN /\ disturbed \in BOOLEAN
    BY DEF Init
  <2> QED  BY <2>1, <2>2, <2>3, <2>4, <2>5 DEF TypeOK, Files
<1>3. \A c \in Commands : pc[c] = "idle"
  BY DEF Init
<1>4. FileInv
  <2>1. CASE file = Missing
    BY <2>1 DEF FileInv, NamesDistinct, LoadsBack, DistinctNames, Loads, Missing
  <2>2. CASE \E w \in HandWritten : file = Text(w)
    BY <2>2, HandWrittenAssumption DEF FileInv, NamesDistinct, LoadsBack, Loads, Text
  <2> QED  BY <2>1, <2>2 DEF Init
<1>5. WriteInv /\ SoundInv
  BY <1>3 DEF Init, WriteInv, SoundInv
<1> QED  BY <1>2, <1>3, <1>4, <1>5 DEF IInv

(* A command is not disturbed by what the others do. *)
LEMMA Frame ==
    ASSUME NEW d \in Commands, CommandInv(d),
           pc'[d] = pc[d], change'[d] = change[d], base'[d] = base[d], cfg'[d] = cfg[d],
           kept'[d] = kept[d], pos'[d] = pos[d],
           ~blank' => ~blank, ~tangled' => ~tangled
    PROVE  CommandInv(d)'
<1>1. AddInv(d) => AddInv(d)'
  BY DEF AddInv
<1>2. RemoveInv(d) => RemoveInv(d)'
  BY DEF RemoveInv
<1> QED  BY <1>1, <1>2 DEF CommandInv

(* The commands that have begun: what the three of them share. *)
LEMMA BeginStep ==
    ASSUME IInv, NEW c \in Commands, NEW kind \in Kinds, NEW name \in Names,
           NEW list \in Seq(Server), NEW label \in {"filter", "built"},
           Begin(c, kind, name, list, label),
           blank' \in BOOLEAN, ~blank' => ~blank,
           kept' \in [Commands -> Nat], pos' \in [Commands -> Nat],
           \A d \in Commands : d # c => kept'[d] = kept[d] /\ pos'[d] = pos[d],
           CommandInv(c)'
    PROVE  IInv'
<1> USE DEF IInv
<1>1. file \in Files /\ Read(file) \in Seq(Server)
  BY ReadOfFile DEF TypeOK, Files
<1>2. TypeOK'
  <2>1. pc' \in [Commands -> Labels] /\ file' \in Files
    BY <1>1 DEF TypeOK, Begin, Goto, Labels
  <2>2. change' \in [Commands -> [kind : Kinds, name : Names]]
    BY DEF TypeOK, Begin
  <2>3. cfg' \in [Commands -> Seq(Server)] /\ base' \in [Commands -> Seq(Server)]
    BY <1>1 DEF TypeOK, Begin
  <2>4. ops' \in Nat /\ tangled' \in BOOLEAN /\ disturbed' \in BOOLEAN
    BY DEF TypeOK, Begin
  <2> QED  BY <2>1, <2>2, <2>3, <2>4 DEF TypeOK, Files
<1>3. \A d \in Commands : d # c =>
          /\ pc'[d] = pc[d] /\ change'[d] = change[d]
          /\ base'[d] = base[d] /\ cfg'[d] = cfg[d]
  BY DEF Begin, Goto, TypeOK
<1>4. pc'[c] = label /\ base'[c] = Read(file)
      /\ file' = file /\ tangled' = tangled /\ disturbed' = (disturbed \/ Writing # {})
  BY DEF Begin, Goto, TypeOK
<1>5. \A d \in Commands : pc'[d] # "idle" => CommandInv(d)'
  BY <1>3, <1>4, Frame
<1>6. \A d \in Commands : pc'[d] = "open" <=> pc[d] = "open"
  <2>1. pc[c] = "idle" /\ label # "open"
    BY DEF Begin
  <2> QED  BY <1>3, <1>4, <2>1
<1>7. WriteInv'
  BY <1>4, <1>6 DEF WriteInv
<1>8. FileInv'
  BY <1>4 DEF FileInv, NamesDistinct, LoadsBack, Loads
<1>9. SoundInv'
  <2> SUFFICES ASSUME ~disturbed'
               PROVE  /\ ~tangled'
                      /\ \A d, e \in Commands : pc'[d] = "open" /\ pc'[e] # "idle" => e = d
                      /\ \A d \in Commands :
                             pc'[d] \in {"filter", "built"} => base'[d] = Read(file)'
    BY DEF SoundInv
  <2>1. ~disturbed /\ \A d \in Commands : pc[d] # "open"
    BY <1>4 DEF Writing
  <2>2. Read(file)' = Read(file)
    BY <1>4 DEF Read
  <2> QED  BY <1>3, <1>4, <1>6, <2>1, <2>2 DEF SoundInv
<1> QED  BY <1>2, <1>5, <1>7, <1>8, <1>9

LEMMA AddStep ==
    ASSUME IInv, NEW c \in Commands, NEW s \in Presets \cup Customs, NEW auto \in BOOLEAN,
           AddServer(c, s, auto)
    PROVE  IInv'
<1> DEFINE t == WithInterpreter(s, auto)
<1>1. s \in Server /\ s.exts # {}
  BY PresetsAssumption, CustomsAssumption DEF WellFormed
<1>2. t \in Server /\ t.name = s.name /\ t.exts = s.exts /\ t.command = s.command
  BY <1>1 DEF WithInterpreter, Server
<1>3. s.name \in Names
  BY <1>1 DEF Server
<1>4. file \in Files
  BY DEF IInv, TypeOK, Files
<1>5. Added(t, Read(file)) \in Seq(Server)
  BY <1>2, <1>4, ReadOfFile DEF Added
<1>6. /\ pc'[c] = "built" /\ change'[c] = [kind |-> "add", name |-> s.name]
      /\ base'[c] = Read(file) /\ cfg'[c] = Append(Read(file), t)
      /\ tangled' = tangled /\ blank' = (blank \/ ~s.command)
  BY DEF AddServer, Begin, Goto, Added, IInv, TypeOK
<1>7. s.name \notin NamesOf(Read(file)) /\ Loads(file)
  BY DEF AddServer, IsNew
<1> HIDE DEF t
<1>8. AddInv(c)'
  BY <1>1, <1>2, <1>6, <1>7 DEF AddInv
<1>9. ~tangled' => DistinctNames(base[c])'
  <2>1. ~tangled => DistinctNames(Read(file))
    BY <1>4, ReadKeeps DEF IInv, FileInv, NamesDistinct
  <2> QED  BY <1>6, <2>1
<1>10. CommandInv(c)'
  <2>1. AllWellFormed(base[c])' /\ AllNormal(base[c])'
    BY <1>4, <1>6, <1>7, ReadKeeps
  <2> QED  BY <1>6, <1>8, <1>9, <2>1 DEF CommandInv
<1>11. Begin(c, "add", s.name, Added(t, Read(file)), "built")
       /\ blank' \in BOOLEAN /\ (~blank' => ~blank) /\ kept' = kept /\ pos' = pos
  BY <1>1, <1>6 DEF AddServer, IInv, TypeOK, Server, t
<1>12. kept' \in [Commands -> Nat] /\ pos' \in [Commands -> Nat]
  BY <1>11 DEF IInv, TypeOK
<1>13. "add" \in Kinds
  BY DEF Kinds
<1> QED  BY <1>3, <1>5, <1>10, <1>11, <1>12, <1>13, BeginStep

LEMMA RemoveStep ==
    ASSUME IInv, NEW c \in Commands, NEW n \in Names, RemoveServer(c, n)
    PROVE  IInv'
<1>1. file \in Files /\ Read(file) \in Seq(Server)
  BY ReadOfFile DEF IInv, TypeOK, Files
<1>2. /\ pc'[c] = "filter" /\ change'[c] = [kind |-> "remove", name |-> n]
      /\ base'[c] = Read(file) /\ cfg'[c] = Read(file)
      /\ kept'[c] = 0 /\ pos'[c] = 1
      /\ tangled' = tangled /\ blank' = blank
  BY DEF RemoveServer, Begin, Goto, IInv, TypeOK
<1>3. Loads(file) /\ n \in NamesOf(Read(file))
  BY DEF RemoveServer
<1>4. Filtered(Read(file), Read(file), 0, 1, n)
  BY <1>1, FilterStarts
<1>5. RemoveInv(c)'
  BY <1>2, <1>3, <1>4 DEF RemoveInv
<1>6. ~tangled' => DistinctNames(base[c])'
  <2>1. ~tangled => DistinctNames(Read(file))
    BY <1>1, ReadKeeps DEF IInv, FileInv, NamesDistinct
  <2> QED  BY <1>2, <2>1
<1>7. CommandInv(c)'
  <2>1. AllWellFormed(base[c])' /\ AllNormal(base[c])'
    BY <1>1, <1>2, <1>3, ReadKeeps
  <2> QED  BY <1>2, <1>5, <1>6, <2>1 DEF CommandInv
<1>8. /\ Begin(c, "remove", n, Read(file), "filter")
      /\ blank' \in BOOLEAN /\ (~blank' => ~blank)
      /\ kept' \in [Commands -> Nat] /\ pos' \in [Commands -> Nat]
      /\ \A d \in Commands : d # c => kept'[d] = kept[d] /\ pos'[d] = pos[d]
  BY <1>2 DEF RemoveServer, IInv, TypeOK
<1>9. "remove" \in Kinds
  BY DEF Kinds
<1> QED  BY <1>1, <1>7, <1>8, <1>9, BeginStep

LEMMA InitWorkspaceStep ==
    ASSUME IInv, NEW c \in Commands, InitWorkspace(c)
    PROVE  IInv'
<1>1. /\ pc'[c] = "built" /\ change'[c] = [kind |-> "init", name |-> NoChange.name]
      /\ base'[c] = Read(file) /\ cfg'[c] = <<>>
  BY DEF InitWorkspace, Begin, Goto, IInv, TypeOK
<1>2. Read(file) = <<>>
  BY DEF InitWorkspace, Missing, Read
<1>3. CommandInv(c)'
  BY <1>1, <1>2 DEF CommandInv, AllWellFormed, AllNormal, DistinctNames
<1>4. /\ Begin(c, "init", NoChange.name, <<>>, "built")
      /\ blank' \in BOOLEAN /\ (~blank' => ~blank)
      /\ kept' \in [Commands -> Nat] /\ pos' \in [Commands -> Nat]
      /\ kept' = kept /\ pos' = pos
  BY DEF InitWorkspace, IInv, TypeOK
<1>5. "init" \in Kinds /\ NoChange.name \in Names
  BY BoundsAssumption DEF Kinds, NoChange
<1>6. <<>> \in Seq(Server) /\ "built" \in {"filter", "built"}
  OBVIOUS
<1>7. \A d \in Commands : d # c => kept'[d] = kept[d] /\ pos'[d] = pos[d]
  BY <1>4
<1> QED  BY <1>3, <1>4, <1>5, <1>6, <1>7, BeginStep

(* A step of the loop touches only the memory of its command. *)
LEMMA LoopStep ==
    ASSUME IInv, NEW c \in Commands, NEW label \in {"filter", "built"},
           pc[c] = "filter", pc' = [pc EXCEPT ![c] = label],
           cfg' \in [Commands -> Seq(Server)],
           kept' \in [Commands -> Nat], pos' \in [Commands -> Nat],
           \A d \in Commands : d # c =>
               cfg'[d] = cfg[d] /\ kept'[d] = kept[d] /\ pos'[d] = pos[d],
           UNCHANGED <<file, change, base, blank, tangled, disturbed, ops>>,
           RemoveInv(c)'
    PROVE  IInv'
<1>1. TypeOK'
  BY DEF IInv, TypeOK, Labels
<1>2. pc'[c] = label /\ \A d \in Commands : d # c => pc'[d] = pc[d]
  BY DEF IInv, TypeOK
<1>3. CommandInv(c) /\ change[c].kind = "remove"
  BY DEF IInv, CommandInv
<1>4. CommandInv(c)'
  BY <1>2, <1>3 DEF CommandInv
<1>5. \A d \in Commands : pc'[d] # "idle" => CommandInv(d)'
  BY <1>2, <1>4, Frame DEF IInv
<1>6. \A d \in Commands : /\ pc'[d] = "open" <=> pc[d] = "open"
                          /\ pc'[d] = "idle" <=> pc[d] = "idle"
                          /\ pc'[d] \in {"filter", "built"} <=> pc[d] \in {"filter", "built"}
  BY <1>2
<1>7. WriteInv'
  BY <1>6 DEF IInv, WriteInv
<1>8. FileInv'
  BY DEF IInv, FileInv, NamesDistinct, LoadsBack, Loads
<1>9. SoundInv'
  <2>1. Read(file)' = Read(file)
    BY DEF Read
  <2> QED  BY <1>6, <2>1 DEF IInv, SoundInv
<1> QED  BY <1>1, <1>5, <1>7, <1>8, <1>9 DEF IInv

LEMMA FilterPassStep ==
    ASSUME IInv, NEW c \in Commands, FilterPass(c)
    PROVE  IInv'
<1>1. /\ base[c] \in Seq(Server) /\ cfg[c] \in Seq(Server)
      /\ kept[c] \in Nat /\ pos[c] \in Nat /\ pc[c] = "filter" /\ pos[c] <= Len(cfg[c])
  BY DEF IInv, TypeOK, FilterPass
<1>2. RemoveInv(c) /\ Filtered(base[c], cfg[c], kept[c], pos[c], change[c].name)
  BY <1>1 DEF IInv, CommandInv, RemoveInv
<1>3. /\ pos' = [pos EXCEPT ![c] = pos[c] + 1] /\ pos'[c] = pos[c] + 1
      /\ pos' \in [Commands -> Nat] /\ \A d \in Commands : d # c => pos'[d] = pos[d]
  BY DEF FilterPass, IInv, TypeOK
<1>4. UNCHANGED <<file, change, base, blank, tangled, disturbed, ops>> /\ pc' = pc
      /\ pc = [pc EXCEPT ![c] = "filter"]
  BY <1>1 DEF FilterPass, IInv, TypeOK
<1>5. CASE cfg[c][pos[c]].name = change[c].name
  <2>1. cfg' = cfg /\ kept' = kept
    BY <1>5 DEF FilterPass
  <2>2. Filtered(base[c], cfg[c], kept[c], pos[c] + 1, change[c].name)
    BY <1>1, <1>2, <1>5, FilterSkips
  <2>3. RemoveInv(c)'
    BY <1>1, <1>2, <1>3, <1>4, <2>1, <2>2 DEF RemoveInv
  <2>4. cfg' \in [Commands -> Seq(Server)] /\ kept' \in [Commands -> Nat]
    BY <2>1 DEF IInv, TypeOK
  <2> QED  BY <1>1, <1>3, <1>4, <2>1, <2>3, <2>4, LoopStep
<1>6. CASE cfg[c][pos[c]].name # change[c].name
  <2> DEFINE new == [cfg[c] EXCEPT ![kept[c] + 1] = cfg[c][pos[c]]]
  <2>1. new \in Seq(Server) /\ Filtered(base[c], new, kept[c] + 1, pos[c] + 1, change[c].name)
    BY <1>1, <1>2, <1>6, FilterMoves
  <2>2. cfg' = [cfg EXCEPT ![c] = new] /\ kept' = [kept EXCEPT ![c] = kept[c] + 1]
    BY <1>6 DEF FilterPass, NextKept
  <2> HIDE DEF new
  <2>3. /\ cfg' \in [Commands -> Seq(Server)] /\ cfg'[c] = new
        /\ kept' \in [Commands -> Nat] /\ kept'[c] = kept[c] + 1
        /\ \A d \in Commands : d # c => cfg'[d] = cfg[d] /\ kept'[d] = kept[d]
    BY <1>1, <2>1, <2>2 DEF IInv, TypeOK
  <2>4. RemoveInv(c)'
    BY <1>1, <1>2, <1>3, <1>4, <2>1, <2>3 DEF RemoveInv
  <2> QED  BY <1>1, <1>3, <1>4, <2>3, <2>4, LoopStep
<1> QED  BY <1>5, <1>6

LEMMA FilterDoneStep ==
    ASSUME IInv, NEW c \in Commands, FilterDone(c)
    PROVE  IInv'
<1>1. /\ base[c] \in Seq(Server) /\ cfg[c] \in Seq(Server)
      /\ kept[c] \in Nat /\ pos[c] \in Nat /\ pc[c] = "filter" /\ pos[c] > Len(cfg[c])
  BY DEF IInv, TypeOK, FilterDone
<1>2. RemoveInv(c) /\ Filtered(base[c], cfg[c], kept[c], pos[c], change[c].name)
  BY <1>1 DEF IInv, CommandInv, RemoveInv
<1> DEFINE new == SubSeq(cfg[c], 1, kept[c])
<1>3. new \in Seq(Server) /\ IsWithout(base[c], new, change[c].name)
  BY <1>1, <1>2, FilterEnds
<1>4. /\ cfg' = [cfg EXCEPT ![c] = new] /\ pc' = [pc EXCEPT ![c] = "built"]
      /\ UNCHANGED <<file, change, kept, pos, base, blank, tangled, disturbed, ops>>
  BY DEF FilterDone, Goto
<1> HIDE DEF new
<1>5. /\ cfg' \in [Commands -> Seq(Server)] /\ cfg'[c] = new /\ pc'[c] = "built"
      /\ \A d \in Commands : d # c => cfg'[d] = cfg[d]
      /\ kept' \in [Commands -> Nat] /\ pos' \in [Commands -> Nat]
  BY <1>3, <1>4 DEF IInv, TypeOK
<1>6. RemoveInv(c)'
  BY <1>2, <1>3, <1>4, <1>5 DEF RemoveInv
<1> QED  BY <1>1, <1>4, <1>5, <1>6, LoopStep
-----------------------------------------------------------------------------
(* The write. *)

LEMMA OpenStep ==
    ASSUME IInv, NEW c \in Commands, OpenFile(c)
    PROVE  IInv'
<1>1. /\ pc[c] = "built" /\ pc'[c] = "open" /\ file' = Text(<<>>)
      /\ \A d \in Commands : d # c => pc'[d] = pc[d]
      /\ UNCHANGED <<change, cfg, kept, pos, base, blank, ops>>
      /\ tangled' = (tangled \/ Writing # {})
      /\ disturbed' = (disturbed \/ \E d \in Commands \ {c} : pc[d] # "idle")
  BY DEF OpenFile, Emptied, Goto, IInv, TypeOK
<1>2. TypeOK'
  BY <1>1 DEF IInv, TypeOK, Text, OpenFile, Goto, Labels
<1>3. CommandInv(c)'
  <2>1. CommandInv(c)
    BY <1>1 DEF IInv
  <2>2. AddInv(c) => AddInv(c)'
    BY <1>1 DEF AddInv
  <2>3. RemoveInv(c) => RemoveInv(c)'
    BY <1>1 DEF RemoveInv
  <2> QED  BY <1>1, <2>1, <2>2, <2>3 DEF CommandInv
<1>4. \A d \in Commands : pc'[d] # "idle" => CommandInv(d)'
  <2> SUFFICES ASSUME NEW d \in Commands, pc'[d] # "idle" PROVE CommandInv(d)'
    OBVIOUS
  <2>1. CASE d = c
    BY <1>3, <2>1
  <2>2. CASE d # c
    <3>1. CommandInv(d) /\ pc'[d] = pc[d] /\ (~blank' => ~blank) /\ (~tangled' => ~tangled)
      BY <1>1, <2>2 DEF IInv
    <3> QED  BY <1>1, <3>1, Frame
  <2> QED  BY <2>1, <2>2
<1>5. WriteInv'
  BY <1>1 DEF WriteInv, Writing
<1>6. FileInv'
  BY <1>1 DEF FileInv, NamesDistinct, LoadsBack, DistinctNames, Loads, Text
<1>7. SoundInv'
  <2> SUFFICES ASSUME ~disturbed'
               PROVE  /\ ~tangled'
                      /\ \A d, e \in Commands : pc'[d] = "open" /\ pc'[e] # "idle" => e = d
                      /\ \A d \in Commands :
                             pc'[d] \in {"filter", "built"} => base'[d] = Read(file)'
    BY DEF SoundInv
  <2>1. ~disturbed /\ \A d \in Commands : d # c => pc[d] = "idle"
    BY <1>1
  <2>2. ~tangled /\ Writing = {}
    BY <1>1, <2>1 DEF IInv, SoundInv, Writing
  <2>3. \A d \in Commands : d # c => pc'[d] = "idle"
    BY <1>1, <2>1
  <2> QED  BY <1>1, <2>2, <2>3
<1> QED  BY <1>2, <1>4, <1>5, <1>6, <1>7 DEF IInv

(* The end of a process: what it shared with the other steps. *)
LEMMA ExitStep ==
    ASSUME IInv, NEW c \in Commands, Exit(c), UNCHANGED <<blank, tangled, ops>>
    PROVE  /\ pc' \in [Commands -> Labels]
           /\ change' \in [Commands -> [kind : Kinds, name : Names]]
           /\ cfg' \in [Commands -> Seq(Server)] /\ base' \in [Commands -> Seq(Server)]
           /\ kept' \in [Commands -> Nat] /\ pos' \in [Commands -> Nat]
           /\ pc'[c] = "idle"
           /\ \A d \in Commands : d # c => pc'[d] = pc[d] /\ base'[d] = base[d]
           /\ \A d \in Commands : pc'[d] # "idle" => d # c /\ CommandInv(d)'
<1>1. NoChange \in [kind : Kinds, name : Names]
  BY BoundsAssumption DEF NoChange, Kinds
<1>2. pc' \in [Commands -> Labels] /\ pc'[c] = "idle" /\ \A d \in Commands : d # c => pc'[d] = pc[d]
  BY DEF Exit, Goto, IInv, TypeOK, Labels
<1>3. /\ change' \in [Commands -> [kind : Kinds, name : Names]]
      /\ \A d \in Commands : d # c => change'[d] = change[d]
  BY <1>1 DEF Exit, IInv, TypeOK
<1>4. /\ cfg' \in [Commands -> Seq(Server)] /\ base' \in [Commands -> Seq(Server)]
      /\ \A d \in Commands : d # c => cfg'[d] = cfg[d] /\ base'[d] = base[d]
  BY DEF Exit, IInv, TypeOK
<1>5. /\ kept' \in [Commands -> Nat] /\ pos' \in [Commands -> Nat]
      /\ \A d \in Commands : d # c => kept'[d] = kept[d] /\ pos'[d] = pos[d]
  BY DEF Exit, IInv, TypeOK
<1>6. \A d \in Commands : pc'[d] # "idle" => d # c /\ CommandInv(d)'
  <2> SUFFICES ASSUME NEW d \in Commands, pc'[d] # "idle" PROVE d # c /\ CommandInv(d)'
    OBVIOUS
  <2>1. d # c /\ CommandInv(d)
    BY <1>2 DEF IInv
  <2> QED  BY <1>2, <1>3, <1>4, <1>5, <2>1, Frame
<1> QED  BY <1>2, <1>3, <1>4, <1>5, <1>6

(* What a command writes, when it writes a file of its own. *)
LEMMA WrittenList ==
    ASSUME IInv, NEW c \in Commands, pc[c] = "open"
    PROVE  /\ ~tangled => DistinctNames(cfg[c])
           /\ ~blank => AllWellFormed(cfg[c])
<1>1. CommandInv(c) /\ base[c] \in Seq(Server) /\ cfg[c] \in Seq(Server)
  BY DEF IInv, TypeOK
<1>2. CASE change[c].kind = "add"
  <2>1. PICK s \in Server : /\ cfg[c] = Append(base[c], s) /\ s.name \notin NamesOf(base[c])
                            /\ s.exts # {} /\ (~blank => s.command)
    BY <1>1, <1>2 DEF CommandInv, AddInv
  <2>2. /\ Len(cfg[c]) = Len(base[c]) + 1 /\ cfg[c][Len(base[c]) + 1] = s
        /\ \A i \in 1..Len(base[c]) : cfg[c][i] = base[c][i]
        /\ Len(base[c]) \in Nat
    BY <1>1, <2>1
  <2>3. DistinctNames(base[c]) => DistinctNames(cfg[c])
    <3> SUFFICES ASSUME DistinctNames(base[c]),
                        NEW i \in 1..Len(cfg[c]), NEW j \in 1..Len(cfg[c]),
                        cfg[c][i].name = cfg[c][j].name
                 PROVE  i = j
      BY DEF DistinctNames
    <3>1. CASE i \in 1..Len(base[c]) /\ j \in 1..Len(base[c])
      BY <2>2, <3>1 DEF DistinctNames
    <3>2. CASE i = Len(base[c]) + 1 /\ j = Len(base[c]) + 1
      BY <3>2
    <3>3. CASE i \in 1..Len(base[c]) /\ j = Len(base[c]) + 1
      BY <2>1, <2>2, <3>3 DEF NamesOf
    <3>4. CASE i = Len(base[c]) + 1 /\ j \in 1..Len(base[c])
      BY <2>1, <2>2, <3>4 DEF NamesOf
    <3> QED  BY <2>2, <3>1, <3>2, <3>3, <3>4
  <2>4. ~blank => AllWellFormed(cfg[c])
    <3> SUFFICES ASSUME ~blank, NEW i \in 1..Len(cfg[c]) PROVE WellFormed(cfg[c][i])
      BY DEF AllWellFormed
    <3>1. CASE i \in 1..Len(base[c])
      BY <1>1, <2>2, <3>1 DEF CommandInv, AllWellFormed
    <3>2. CASE i = Len(base[c]) + 1
      BY <2>1, <2>2, <3>2 DEF WellFormed
    <3> QED  BY <2>2, <3>1, <3>2
  <2> QED  BY <1>1, <2>3, <2>4 DEF CommandInv
<1>3. CASE change[c].kind = "remove"
  <2>1. IsWithout(base[c], cfg[c], change[c].name)
    BY <1>1, <1>3 DEF CommandInv, RemoveInv
  <2> QED  BY <1>1, <2>1, WithoutKeeps DEF CommandInv
<1>4. CASE change[c].kind = "init"
  BY <1>1, <1>4 DEF CommandInv, DistinctNames, AllWellFormed
<1> QED  BY <1>1, <1>2, <1>3, <1>4 DEF CommandInv

LEMMA FillStep ==
    ASSUME IInv, NEW c \in Commands, FillFile(c)
    PROVE  IInv'
<1>1. /\ pc[c] = "open" /\ Exit(c) /\ file' \in Left(file, cfg[c])
      /\ UNCHANGED <<blank, tangled, ops>> /\ disturbed' = disturbed
  BY DEF FillFile
<1>2. cfg[c] \in Seq(Server) /\ file \in Files
  BY DEF IInv, TypeOK, Files
<1>3. file' \in Files
  <2>1. Text(cfg[c]) \in Files /\ Garbled \in Files
    BY <1>2 DEF Text, Garbled, Files
  <2>2. \A i \in 2..Len(file.entries) :
            Text(cfg[c] \o SubSeq(file.entries, i, Len(file.entries))) \in Files
    <3> SUFFICES ASSUME NEW i \in 2..Len(file.entries)
                 PROVE  Text(cfg[c] \o SubSeq(file.entries, i, Len(file.entries))) \in Files
      OBVIOUS
    <3>1. file.entries \in Seq(Server) /\ Len(file.entries) \in Nat /\ i \in 1..Len(file.entries)
      BY <1>2 DEF Files
    <3>2. SubSeq(file.entries, i, Len(file.entries)) \in Seq(Server)
      BY <3>1
    <3>3. cfg[c] \o SubSeq(file.entries, i, Len(file.entries)) \in Seq(Server)
      BY <1>2, <3>2
    <3> QED  BY <3>3 DEF Text, Files
  <2> QED  BY <1>1, <2>1, <2>2 DEF Left
<1>4. TypeOK'
  BY <1>1, <1>3, ExitStep DEF IInv, TypeOK, Files
<1>5. \A d \in Commands : pc'[d] # "idle" => CommandInv(d)'
  BY <1>1, ExitStep
<1>6. /\ pc'[c] = "idle"
      /\ \A d \in Commands : d # c => pc'[d] = pc[d] /\ base'[d] = base[d]
  BY <1>1, ExitStep
<1>7. ~tangled => file = Text(<<>>) /\ file' = Text(cfg[c])
                  /\ \A d \in Commands : pc'[d] # "open"
  BY <1>1, <1>6 DEF IInv, WriteInv, Left
<1>8. WriteInv'
  BY <1>1, <1>7 DEF WriteInv
<1>9. FileInv'
  <2>1. ~tangled' => DistinctNames(file.entries)'
    BY <1>1, <1>7, WrittenList DEF Text
  <2>2. ~tangled' /\ ~blank' => Loads(file)'
    BY <1>1, <1>7, WrittenList DEF Text, Loads, AllWellFormed
  <2> QED  BY <2>1, <2>2 DEF FileInv, NamesDistinct, LoadsBack
<1>10. SoundInv'
  <2> SUFFICES ASSUME ~disturbed'
               PROVE  /\ ~tangled'
                      /\ \A d, e \in Commands : pc'[d] = "open" /\ pc'[e] # "idle" => e = d
                      /\ \A d \in Commands :
                             pc'[d] \in {"filter", "built"} => base'[d] = Read(file)'
    BY DEF SoundInv
  <2>1. \A d \in Commands : d # c => pc[d] = "idle"
    BY <1>1 DEF IInv, SoundInv
  <2>2. \A d \in Commands : pc'[d] = "idle"
    BY <1>6, <2>1
  <2>3. ~tangled'
    BY <1>1 DEF IInv, SoundInv
  <2> QED  BY <2>2, <2>3
<1> QED  BY <1>4, <1>5, <1>8, <1>9, <1>10 DEF IInv

LEMMA KilledStep ==
    ASSUME IInv, NEW c \in Commands, Killed(c)
    PROVE  IInv'
<1>1. /\ pc[c] # "idle" /\ Exit(c) /\ UNCHANGED <<blank, tangled, ops>> /\ file' = file
      /\ disturbed' = (disturbed \/ pc[c] = "open")
  BY DEF Killed
<1>2. TypeOK'
  BY <1>1, ExitStep DEF IInv, TypeOK
<1>3. \A d \in Commands : pc'[d] # "idle" => d # c /\ CommandInv(d)'
  BY <1>1, ExitStep
<1>4. /\ pc'[c] = "idle"
      /\ \A d \in Commands : d # c => pc'[d] = pc[d] /\ base'[d] = base[d]
  BY <1>1, ExitStep
<1>5. WriteInv'
  BY <1>1, <1>4 DEF IInv, WriteInv
<1>6. FileInv'
  BY <1>1 DEF IInv, FileInv, NamesDistinct, LoadsBack, Loads
<1>7. SoundInv'
  <2>1. Read(file)' = Read(file)
    BY <1>1 DEF Read
  <2> QED  BY <1>1, <1>4, <2>1 DEF IInv, SoundInv
<1> QED  BY <1>2, <1>3, <1>5, <1>6, <1>7 DEF IInv

LEMMA NextStep == IInv /\ [Next]_vars => IInv'
<1> SUFFICES ASSUME IInv, [Next]_vars PROVE IInv'
  OBVIOUS
<1>1. CASE UNCHANGED vars
  <2>1. \A d \in Commands : CommandInv(d) => CommandInv(d)'
    BY <1>1 DEF vars, CommandInv, AddInv, RemoveInv
  <2>2. \A d \in Commands : pc'[d] # "idle" => CommandInv(d)'
    BY <1>1, <2>1 DEF vars, IInv
  <2>3. TypeOK'
    BY <1>1 DEF vars, IInv, TypeOK
  <2>4. WriteInv' /\ FileInv' /\ SoundInv'
    BY <1>1 DEF vars, IInv, WriteInv, FileInv, NamesDistinct, LoadsBack, Loads, SoundInv, Read
  <2> QED  BY <2>2, <2>3, <2>4 DEF IInv
<1>2. ASSUME NEW c \in Commands, NEW s \in Presets \cup Customs, NEW auto \in BOOLEAN,
             AddServer(c, s, auto)
      PROVE  IInv'
  BY <1>2, AddStep
<1>3. ASSUME NEW c \in Commands, NEW n \in Names, RemoveServer(c, n)
      PROVE  IInv'
  BY <1>3, RemoveStep
<1>4. ASSUME NEW c \in Commands, FilterPass(c) \/ FilterDone(c) \/ InitWorkspace(c)
      PROVE  IInv'
  BY <1>4, FilterPassStep, FilterDoneStep, InitWorkspaceStep
<1>5. ASSUME NEW c \in Commands, OpenFile(c) \/ FillFile(c) \/ Killed(c)
      PROVE  IInv'
  BY <1>5, OpenStep, FillStep, KilledStep
<1> QED  BY <1>1, <1>2, <1>3, <1>4, <1>5 DEF Next

(* The invariant: what each command holds in memory, the loop of remove    *)
(* included, and what the file holds while and after it is written.        *)
THEOREM Inductive == Spec => []IInv
<1> QED  BY InitInv, NextStep, PTL DEF Spec

(* server.go:42: no name is configured twice, however many commands        *)
(* overlap, unless two of them write at the same time.                     *)
THEOREM NamesStayDistinct == Spec => []NamesDistinct
<1>1. IInv => NamesDistinct
  BY DEF IInv, FileInv
<1> QED  BY <1>1, Inductive, PTL

(* What the commands write can be loaded again, however they overlap and   *)
(* wherever they are killed, with the two exceptions LoadsBack names.      *)
THEOREM FileLoadsBack == Spec => []LoadsBack
<1>1. IInv => LoadsBack
  BY DEF IInv, FileInv
<1> QED  BY <1>1, Inductive, PTL
-----------------------------------------------------------------------------
(* The order of the list. *)

Less == {q \in Nat \X Nat : q[1] < q[2]}

LEMMA Least ==
    ASSUME NEW S \in SUBSET Nat, S # {} PROVE \E i \in S : \A j \in S : i <= j
<1>1. IsWellFoundedOn(Less, Nat)
  BY NatLessThanWellFounded DEF OpToRel, Less
<1>2. PICK i \in S : \A j \in S : <<j, i>> \notin Less
  <2> HIDE DEF Less
  <2> QED  BY <1>1, WFMin
<1>3. \A j \in S : ~(j < i)
  BY <1>2 DEF Less
<1> QED  BY <1>3

(* If a server of the list has the extension, a first one has. *)
LEMMA FirstExists ==
    ASSUME NEW s \in Seq(Server), NEW e, Choice(s, e) # NoServer
    PROVE  \E i \in 1..Len(s) : Serves(s, e, i)
<1> DEFINE S == {i \in 1..Len(s) : e \in s[i].exts}
<1>1. Len(s) \in Nat /\ S \in SUBSET Nat /\ S # {}
  BY DEF Choice
<1>2. PICK i \in S : \A j \in S : i <= j
  <2> HIDE DEF S
  <2> QED  BY <1>1, Least
<1>3. \A j \in 1..(i - 1) : j \in 1..Len(s) /\ ~(i <= j)
  BY <1>1, <1>2
<1> QED  BY <1>2, <1>3 DEF Serves

(* ... and it is the one that is chosen. *)
LEMMA FirstChosen ==
    ASSUME NEW s \in Seq(Server), NEW e, NEW i \in 1..Len(s), Serves(s, e, i)
    PROVE  Choice(s, e) = s[i]
<1>1. \A j \in 1..Len(s) : Serves(s, e, j) => j = i
  <2> SUFFICES ASSUME NEW j \in 1..Len(s), Serves(s, e, j), j # i PROVE FALSE
    OBVIOUS
  <2>1. j \in 1..(i - 1) \/ i \in 1..(j - 1)
    OBVIOUS
  <2> QED  BY <2>1 DEF Serves
<1>2. (CHOOSE j \in 1..Len(s) : Serves(s, e, j)) = i
  BY <1>1
<1> QED  BY <1>2 DEF Choice, Serves

LEMMA AddedComesLast ==
    ASSUME NEW s \in Seq(Server), NEW new \in Server, NEW e, Choice(s, e) # NoServer
    PROVE  Choice(Append(s, new), e) = Choice(s, e)
<1>1. PICK i \in 1..Len(s) : Serves(s, e, i)
  BY FirstExists
<1>2. /\ Append(s, new) \in Seq(Server) /\ i \in 1..Len(Append(s, new))
      /\ \A j \in 1..i : Append(s, new)[j] = s[j]
  OBVIOUS
<1>3. Serves(Append(s, new), e, i) /\ Append(s, new)[i] = s[i]
  BY <1>1, <1>2 DEF Serves
<1> QED  BY <1>1, <1>2, <1>3, FirstChosen

(* The servers before the first that serves e come before it in what is    *)
(* left, so it stays the first.                                            *)
LEMMA OthersStayInOrder ==
    ASSUME NEW s \in Seq(Server), NEW t \in Seq(Server), NEW n, IsWithout(s, t, n),
           NEW e, Choice(s, e) # NoServer, Choice(s, e).name # n
    PROVE  Choice(t, e) = Choice(s, e)
<1>1. PICK i \in 1..Len(s) : Serves(s, e, i)
  BY FirstExists
<1>2. Choice(s, e) = s[i] /\ s[i].name # n
  BY <1>1, FirstChosen
<1>3. PICK f \in [1..Len(t) -> 1..Len(s)] :
          ListsOthers(f, Len(t), s, Len(s), n) /\ \A k \in 1..Len(t) : t[k] = s[f[k]]
  BY DEF IsWithout
<1>4. PICK k \in 1..Len(t) : f[k] = i
  BY <1>2, <1>3 DEF ListsOthers
<1>5. \A j \in 1..(k - 1) : j \in 1..Len(t) /\ f[j] \in 1..(i - 1)
  <2> SUFFICES ASSUME NEW j \in 1..(k - 1) PROVE j \in 1..Len(t) /\ f[j] \in 1..(i - 1)
    OBVIOUS
  <2>1. j \in 1..Len(t) /\ j < k
    OBVIOUS
  <2>2. f[j] < f[k] /\ f[j] \in 1..Len(s)
    BY <1>3, <2>1 DEF ListsOthers
  <2> QED  BY <1>4, <2>1, <2>2
<1>6. t[k] = s[i] /\ \A j \in 1..(k - 1) : t[j] = s[f[j]]
  BY <1>3, <1>4, <1>5
<1>7. Serves(t, e, k)
  BY <1>1, <1>5, <1>6 DEF Serves
<1> QED  BY <1>2, <1>6, <1>7, FirstChosen

(* config.go: ServerForFile takes the first server of the list, so a       *)
(* change leaves every extension with the server it had, but for those of  *)
(* the server that goes: nothing is put before, and what stays keeps its   *)
(* order although the list is filtered in place.                           *)
THEOREM ChoiceStays == Spec => []ChoiceKept
<1>1. IInv => ChoiceKept
  <2> SUFFICES ASSUME IInv, NEW c \in Commands, NEW e \in Exts,
                      pc[c] \in {"built", "open"},
                      Choice(base[c], e) # NoServer,
                      ~(change[c].kind = "remove" /\ Choice(base[c], e).name = change[c].name)
               PROVE  Choice(cfg[c], e) = Choice(base[c], e)
    BY DEF ChoiceKept
  <2>1. CommandInv(c) /\ base[c] \in Seq(Server) /\ cfg[c] \in Seq(Server)
    BY DEF IInv, TypeOK
  <2>2. CASE change[c].kind = "add"
    BY <2>1, <2>2, AddedComesLast DEF CommandInv, AddInv
  <2>3. CASE change[c].kind = "remove"
    <3>1. IsWithout(base[c], cfg[c], change[c].name)
      BY <2>1, <2>3 DEF CommandInv, RemoveInv
    <3> QED  BY <2>1, <2>3, <3>1, OthersStayInOrder
  <2>4. CASE change[c].kind = "init"
    BY <2>1, <2>4 DEF CommandInv
  <2> QED  BY <2>1, <2>2, <2>3, <2>4 DEF CommandInv
<1> QED  BY <1>1, Inductive, PTL
-----------------------------------------------------------------------------
(* The refinement: what the list is while a command writes. *)

LEMMA RestingList ==
    ASSUME \A c \in Commands : pc[c] # "open" PROVE Committed = Read(file)
<1> QED  BY DEF Committed, Writing

LEMMA WritersList ==
    ASSUME NEW c \in Commands, pc[c] = "open",
           \A d \in Commands : pc[d] = "open" => d = c
    PROVE  Committed = base[c]
<1>1. Writing # {} /\ (CHOOSE d \in Commands : pc[d] = "open") = c
  BY DEF Writing
<1> QED  BY <1>1 DEF Committed

(* A write is the addition or the removal its command announced. *)
LEMMA WriteIsChange ==
    ASSUME IInv, NEW c \in Commands, pc[c] = "open"
    PROVE  LET new == Read(Text(cfg[c])) IN
           \/ new = base[c]
           \/ /\ Len(new) = Len(base[c]) + 1
              /\ \A i \in 1..Len(base[c]) : new[i] = base[c][i]
              /\ new[Len(new)].name \notin NamesOf(base[c])
           \/ \E n \in NamesOf(base[c]) : IsWithout(base[c], new, n)
<1> DEFINE new == Read(Text(cfg[c]))
<1>1. CommandInv(c) /\ base[c] \in Seq(Server) /\ cfg[c] \in Seq(Server)
  BY DEF IInv, TypeOK
<1>2. Text(cfg[c]) \in Files /\ Text(cfg[c]).entries = cfg[c]
  BY <1>1 DEF Text, Files
<1>3. /\ new \in Seq(Server) /\ Len(new) = Len(cfg[c])
      /\ \A i \in 1..Len(cfg[c]) : new[i] = Normal(cfg[c][i]) /\ new[i].name = cfg[c][i].name
  BY <1>2, ReadOfFile
<1> HIDE DEF new
<1>4. CASE change[c].kind = "add"
  <2>1. PICK s \in Server : cfg[c] = Append(base[c], s) /\ s.name \notin NamesOf(base[c])
    BY <1>1, <1>4 DEF CommandInv, AddInv
  <2>2. /\ Len(base[c]) \in Nat /\ Len(new) = Len(base[c]) + 1
        /\ cfg[c][Len(base[c]) + 1] = s
        /\ \A i \in 1..Len(base[c]) : i \in 1..Len(cfg[c]) /\ cfg[c][i] = base[c][i]
    BY <1>1, <1>3, <2>1
  <2>3. \A i \in 1..Len(base[c]) : new[i] = base[c][i]
    BY <1>1, <1>3, <2>2 DEF CommandInv, AllNormal
  <2>4. new[Len(new)].name = s.name
    BY <1>3, <2>2
  <2> QED  BY <2>1, <2>2, <2>3, <2>4 DEF new
<1>5. CASE change[c].kind = "remove"
  <2>1. PICK n : n = change[c].name /\ n \in NamesOf(base[c]) /\ IsWithout(base[c], cfg[c], n)
    BY <1>1, <1>5 DEF CommandInv, RemoveInv
  <2>2. \A i \in 1..Len(cfg[c]) : new[i] = cfg[c][i]
    BY <1>1, <1>3, <2>1, WithoutKeeps DEF CommandInv, AllNormal
  <2>3. PICK f \in [1..Len(cfg[c]) -> 1..Len(base[c])] :
            /\ ListsOthers(f, Len(cfg[c]), base[c], Len(base[c]), n)
            /\ \A i \in 1..Len(cfg[c]) : cfg[c][i] = base[c][f[i]]
    BY <2>1 DEF IsWithout
  <2>4. /\ f \in [1..Len(new) -> 1..Len(base[c])]
        /\ ListsOthers(f, Len(new), base[c], Len(base[c]), n)
        /\ \A i \in 1..Len(new) : new[i] = base[c][f[i]]
    BY <1>3, <2>2, <2>3
  <2>5. IsWithout(base[c], new, n)
    BY <2>4, Zenon DEF IsWithout
  <2> QED  BY <2>1, <2>5 DEF new
<1>6. CASE change[c].kind = "init"
  <2>1. base[c] = <<>> /\ cfg[c] = <<>>
    BY <1>1, <1>6 DEF CommandInv
  <2>2. Read(Text(<<>>)) = <<>>
    BY DEF Read, Text
  <2> QED  BY <2>1, <2>2
<1> QED  BY <1>1, <1>4, <1>5, <1>6 DEF CommandInv

(* While nothing is disturbed, only the end of a write changes the list. *)
LEMMA OnlyWritesChange ==
    ASSUME IInv, Next, ~disturbed'
    PROVE  \/ Committed' = Committed
           \/ \E c \in Commands :
                  pc[c] = "open" /\ Committed = base[c] /\ Committed' = Read(Text(cfg[c]))
<1>1. PICK c \in Commands :
          \/ \E s \in Presets \cup Customs, auto \in BOOLEAN : AddServer(c, s, auto)
          \/ \E n \in Names : RemoveServer(c, n)
          \/ FilterPass(c) \/ FilterDone(c) \/ InitWorkspace(c)
          \/ OpenFile(c) \/ FillFile(c) \/ Killed(c)
  BY DEF Next
<1>2. pc \in [Commands -> Labels]
  BY DEF IInv, TypeOK
<1>3. ASSUME file' = file, \A d \in Commands : pc[d] # "open", \A d \in Commands : pc'[d] # "open"
      PROVE  Committed' = Committed
  BY <1>3 DEF Committed, Writing, Read
<1>4. ASSUME NEW kind, NEW name, NEW list, NEW label \in {"filter", "built"},
             Begin(c, kind, name, list, label)
      PROVE  Committed' = Committed
  <2>1. file' = file /\ \A d \in Commands : pc[d] # "open"
    BY <1>4 DEF Begin, Writing
  <2>2. \A d \in Commands : pc'[d] # "open"
    BY <1>2, <1>4, <2>1 DEF Begin, Goto
  <2> QED  BY <1>3, <2>1, <2>2
<1>5. CASE FilterPass(c) \/ FilterDone(c)
  <2>1. ~disturbed /\ file' = file /\ pc[c] = "filter" /\ (pc' = pc \/ pc' = [pc EXCEPT ![c] = "built"])
    BY <1>5 DEF FilterPass, FilterDone, Goto
  <2>2. \A d \in Commands : pc[d] # "open"
    BY <2>1 DEF IInv, SoundInv
  <2>3. \A d \in Commands : pc'[d] # "open"
    BY <1>2, <2>1, <2>2
  <2> QED  BY <1>3, <2>1, <2>2, <2>3
<1>6. CASE OpenFile(c)
  <2>1. /\ ~disturbed /\ pc[c] = "built" /\ base' = base
        /\ \A d \in Commands : d # c => pc[d] = "idle"
    BY <1>6 DEF OpenFile
  <2>2. pc'[c] = "open" /\ \A d \in Commands : d # c => pc'[d] = "idle"
    BY <1>2, <1>6, <2>1 DEF OpenFile, Goto
  <2>3. Committed = Read(file)
    BY <2>1, RestingList
  <2>4. Read(file) = base[c]
    BY <2>1 DEF IInv, SoundInv
  <2>5. (CHOOSE d \in Commands : pc'[d] = "open") = c
    BY <2>2
  <2>6. Committed' = base'[c]
    BY <2>2, <2>5 DEF Committed, Writing
  <2> QED  BY <2>1, <2>3, <2>4, <2>6
<1>7. CASE FillFile(c)
  <2>1. ~disturbed /\ pc[c] = "open" /\ file' \in Left(file, cfg[c])
        /\ pc' = [pc EXCEPT ![c] = "idle"]
    BY <1>7 DEF FillFile, Exit, Goto
  <2>2. \A d \in Commands : pc[d] = "open" => d = c
    BY <2>1 DEF IInv, SoundInv
  <2>3. Committed = base[c]
    BY <2>1, <2>2, WritersList
  <2>4. file' = Text(cfg[c])
    BY <2>1 DEF IInv, SoundInv, WriteInv, Left
  <2>5. \A d \in Commands : pc'[d] # "open"
    BY <1>2, <2>1, <2>2
  <2>6. Committed' = Read(file')
    BY <2>5 DEF Committed, Writing, Read
  <2> QED  BY <2>1, <2>3, <2>4, <2>6
<1>8. CASE Killed(c)
  <2>1. ~disturbed /\ file' = file /\ pc[c] # "idle" /\ pc[c] # "open"
        /\ pc' = [pc EXCEPT ![c] = "idle"]
    BY <1>8 DEF Killed, Exit, Goto
  <2>2. \A d \in Commands : pc[d] # "open"
    BY <2>1 DEF IInv, SoundInv
  <2>3. \A d \in Commands : pc'[d] # "open"
    BY <1>2, <2>1, <2>2
  <2> QED  BY <1>3, <2>1, <2>2, <2>3
<1>9. CASE InitWorkspace(c)
  BY <1>4, <1>9 DEF InitWorkspace
<1>10. CASE \E n \in Names : RemoveServer(c, n)
  BY <1>4, <1>10 DEF RemoveServer
<1>11. CASE \E s \in Presets \cup Customs, auto \in BOOLEAN : AddServer(c, s, auto)
  BY <1>4, <1>11 DEF AddServer
<1> QED  BY <1>1, <1>5, <1>6, <1>7, <1>8, <1>9, <1>10, <1>11

LEMMA StepRefines == IInv /\ [Next]_vars => [Promised!Next]_<<Committed, ~disturbed>>
<1> SUFFICES ASSUME IInv, [Next]_vars PROVE [Promised!Next]_<<Committed, ~disturbed>>
  OBVIOUS
<1>1. CASE UNCHANGED vars
  BY <1>1 DEF vars, Committed, Writing, Read
<1>2. CASE Next /\ disturbed
  BY <1>2 DEF Promised!Next
<1>3. CASE Next /\ disturbed'
  BY <1>3 DEF Promised!Next, Promised!Disturb
<1>4. CASE Next /\ ~disturbed /\ ~disturbed'
  <2>1. CASE Committed' = Committed
    BY <1>4, <2>1
  <2>2. CASE \E c \in Commands :
                 pc[c] = "open" /\ Committed = base[c] /\ Committed' = Read(Text(cfg[c]))
    <3>1. PICK c \in Commands :
              pc[c] = "open" /\ Committed = base[c] /\ Committed' = Read(Text(cfg[c]))
      BY <2>2
    <3>2. (~disturbed)' = ~disturbed
      BY <1>4
    <3>3. \/ Committed' = Committed
          \/ /\ Len(Committed') = Len(Committed) + 1
             /\ \A i \in 1..Len(Committed) : Committed'[i] = Committed[i]
             /\ Committed'[Len(Committed')].name \notin NamesOf(Committed)
          \/ \E n \in NamesOf(Committed) : IsWithout(Committed, Committed', n)
      BY <3>1, WriteIsChange
    <3> QED  BY <3>2, <3>3 DEF Promised!Next, Promised!Add, Promised!Remove,
                               Promised!NamesOf, Promised!IsWithout, Promised!ListsOthers,
                               NamesOf, IsWithout, ListsOthers
  <2> QED  BY <1>4, <2>1, <2>2, OnlyWritesChange
<1> QED  BY <1>1, <1>2, <1>3, <1>4

LEMMA InitRefines == Init => Promised!Init
<1> SUFFICES ASSUME Init PROVE Promised!Init
  OBVIOUS
<1>1. Committed = Read(file)
  BY RestingList DEF Init
<1>2. file \in Files /\ DistinctNames(file.entries)
  BY InitInv DEF IInv, TypeOK, Files, FileInv, NamesDistinct, Init
<1>3. DistinctNames(Read(file)) /\ disturbed = FALSE
  BY <1>2, ReadKeeps DEF Init
<1> QED  BY <1>1, <1>3 DEF Promised!Init, Promised!DistinctNames, DistinctNames

(* config.go:38: the commands implement Registry. While none overlaps with *)
(* the write of another and none dies in one, a server that was added      *)
(* stays, once and in its place, until it is removed.                      *)
THEOREM RegistryImplemented == Spec => ImplementsRegistry
<1> QED  BY InitRefines, StepRefines, Inductive, PTL DEF Spec, ImplementsRegistry, Promised!Spec
=============================================================================
