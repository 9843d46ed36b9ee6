-------------------------------- MODULE URIs --------------------------------
(* FileToURI and URIToFile of lsputil/uri.go. Paths go to the server as URIs *)
(* and come back in its answers, its edits and its notifications, in the     *)
(* server's own spelling: it may encode bytes that FileToURI leaves alone,   *)
(* leave alone bytes that FileToURI encodes, write hexadecimal digits in     *)
(* lower case, and name a host. The prefix file:// is left out.              *)
EXTENDS Naturals, Sequences, SequencesExt, FiniteSetsExt

CONSTANTS
    Base,       \* a byte is written with two digits of this base (16)
    Upper,      \* the bytes that are digits, by their value
    Lower,      \* the same digits in lower case
    Percent, Slash,
    Special,    \* other bytes that FileToURI encodes
    Ordinary,   \* bytes that it does not encode
    MaxPath     \* bound on the length of a path

Digits == 0..Base - 1
Byte   == 0..Base * Base - 1

(* What the constants have to be; the instances assume it. *)
CodesApart ==
    /\ Base \in Nat \ {0} /\ MaxPath \in Nat
    /\ Upper \in [Digits -> Byte] /\ Lower \in [Digits -> Byte]
    /\ \A v, w \in Digits : Upper[v] \in {Upper[w], Lower[w]} => v = w
    /\ \A v, w \in Digits : Lower[v] \in {Upper[w], Lower[w]} => v = w
    /\ {Percent, Slash} \cup Special \cup Ordinary \subseteq Byte
    /\ Percent # Slash /\ Slash \notin Special
    /\ {Percent, Slash} \cap Ordinary = {}
    /\ \A v \in Digits : {Upper[v], Lower[v]} \cap ({Percent, Slash} \cup Special) = {}

VARIABLES
    path,       \* the path the URI stands for
    uri,        \* the URI
    next,       \* i of percentDecode
    decoded     \* its output

uriVars == <<path, uri, next, decoded>>

-----------------------------------------------------------------------------
ShouldEncode(c) == c = Percent \/ c \in Special

Escaped(c, digit) == <<Percent, digit[c \div Base], digit[c % Base]>>

(* p with the bytes at the positions `at` encoded. *)
Encode(p, at, digit) ==
    FlattenSeq([i \in 1..Len(p) |-> IF i \in at THEN Escaped(p[i], digit) ELSE <<p[i]>>])

FileToURI(p) == Encode(p, {i \in 1..Len(p) : ShouldEncode(p[i])}, Upper)

(* What the server may write: it encodes a %, and does not encode a slash. *)
ServerURI(p, host, at, digit) ==
    host \o Encode(p, at \cup {i \in 1..Len(p) : p[i] = Percent}, digit)

ServerURIs(p) ==
    {ServerURI(p, host, at, digit) :
        host \in {<<>>} \cup {<<c>> : c \in Ordinary},
        at \in SUBSET {i \in 1..Len(p) : p[i] # Slash}, digit \in {Upper, Lower}}

Paths == {<<Slash>> \o p : p \in SeqOf({Slash, Percent} \cup Special \cup Ordinary, MaxPath - 1)}

(* URIToFile: the path begins at the first slash, if the URI has one. *)
Slashes(u)    == {i \in 1..Len(u) : u[i] = Slash}
SkipHost(u)   == IF Slashes(u) = {} THEN u ELSE SubSeq(u, Min(Slashes(u)), Len(u))

Init ==
    /\ path \in Paths
    /\ uri \in {SkipHost(u) : u \in {FileToURI(path)} \cup ServerURIs(path)}
    /\ next = 1 /\ decoded = <<>>

-----------------------------------------------------------------------------
Values(c) == {v \in Digits : c \in {Upper[v], Lower[v]}}    \* fromHex

ReadsPast(i) == i + 2 < Len(uri)    \* faulty: an escape at the very end is not decoded
HasDigits(i) == i + 2 <= Len(uri)

IsEscape(i) ==
    /\ uri[i] = Percent /\ HasDigits(i)
    /\ Values(uri[i + 1]) # {} /\ Values(uri[i + 2]) # {}

DecodeEscape ==
    /\ next <= Len(uri) /\ IsEscape(next)
    /\ \E high \in Values(uri[next + 1]), low \in Values(uri[next + 2]) :
          decoded' = Append(decoded, high * Base + low)
    /\ next' = next + 3
    /\ UNCHANGED <<path, uri>>

CopyByte ==
    /\ next <= Len(uri) /\ ~IsEscape(next)
    /\ decoded' = Append(decoded, uri[next])
    /\ next' = next + 1
    /\ UNCHANGED <<path, uri>>

Next == DecodeEscape \/ CopyByte

Spec == Init /\ [][Next]_uriVars
-----------------------------------------------------------------------------
(* A file comes back under the name it was sent with, whatever bytes are in  *)
(* the name and in whatever spelling the server writes its URI: a plan is    *)
(* applied to the file the server means, and a result names it.              *)
PathComesBack == next > Len(uri) => decoded = path
=============================================================================
