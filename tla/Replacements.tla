---------------------------- MODULE Replacements ----------------------------
(* `idit replace`: SearchReplace (treesitter/treesitter.go) collects the     *)
(* matches of a regular expression inside captured nodes, one per start, and *)
(* applyReplacements (cli/replace.go) splices them in from the last to the   *)
(* first, leaving out what overlaps. The command then writes the file and    *)
(* reports what was applied, or, asked for a dry run, only reports. Nobody   *)
(* else writes the file meanwhile, and a write that fails ends the command.  *)
EXTENDS Splices

CONSTANTS
    MaxSource,      \* bound on the length of the file
    MaxCaptures     \* bound on the number of matches found

VARIABLES
    src,            \* the file
    captures,       \* matches in the order the queries yield them
    matches,        \* those with a start not seen before
    waiting,        \* collected matches not looked at yet
    text,           \* the file so far
    prevStart,      \* lowest start applied
    applied,        \* the matches applied
    dryRun,         \* the user asked for a preview
    onDisk,         \* what the file holds
    reported        \* the matches reported to the user

fileVars == <<dryRun, onDisk, reported>>
replaceVars == <<src, captures, matches, waiting, text, prevStart, applied, fileVars>>

MatchesOf(s) == {m \in [from : 0..Len(s), to : 0..Len(s), new : NewTexts] : m.from <= m.to}

Init ==
    /\ src \in SeqOf(Bytes, MaxSource)
    /\ captures \in SeqOf(MatchesOf(src), MaxCaptures)
    /\ matches = {} /\ waiting = {} /\ applied = {}
    /\ text = src /\ prevStart = Len(src) + 1
    /\ dryRun \in BOOLEAN /\ onDisk = src /\ reported = {}

NeverSeen(m) == FALSE                               \* faulty: matches are not compared
Seen(m) == \E k \in matches : k.from = m.from       \* seen[ms]

Collect ==
    /\ captures # <<>>
    /\ captures' = Tail(captures)
    /\ matches' = IF Seen(Head(captures)) THEN matches ELSE matches \cup {Head(captures)}
    /\ waiting' = matches'
    /\ UNCHANGED <<src, text, prevStart, applied, fileVars>>

Touches(m)  == m.to >= prevStart        \* faulty: what ends where the last one starts is dropped
Overlaps(m) == m.to > prevStart         \* overlaps an already-applied match

Highest(m) == captures = <<>> /\ m \in waiting /\ \A k \in waiting : k.from <= m.from

Apply(m) ==
    /\ Highest(m) /\ ~Overlaps(m)
    /\ text' = Splice(text, m.from, m.to, m.new)
    /\ prevStart' = m.from
    /\ applied' = applied \cup {m}
    /\ waiting' = waiting \ {m}
    /\ UNCHANGED <<src, captures, matches, fileVars>>

Skip(m) ==
    /\ Highest(m) /\ Overlaps(m)
    /\ waiting' = waiting \ {m}
    /\ UNCHANGED <<src, captures, matches, text, prevStart, applied, fileVars>>

Done == captures = <<>> /\ waiting = {}

(* A file nothing applies to is neither written nor reported. *)
WriteFile ==
    /\ Done /\ applied # {} /\ reported = {}
    /\ reported' = applied
    /\ onDisk' = IF dryRun THEN onDisk ELSE text
    /\ UNCHANGED <<src, captures, matches, waiting, text, prevStart, applied, dryRun>>

Next == Collect \/ (\E m \in waiting : Apply(m) \/ Skip(m)) \/ WriteFile

Spec == Init /\ [][Next]_replaceVars

-----------------------------------------------------------------------------
TypeOK ==
    /\ src \in Seq(Bytes) /\ text \in Seq(Bytes) /\ captures \in Seq(MatchesOf(src))
    /\ matches \subseteq MatchesOf(src) /\ waiting \subseteq matches
    /\ applied \subseteq matches
    /\ prevStart \in 0..Len(src) + 1
    /\ dryRun \in BOOLEAN /\ onDisk \in Seq(Bytes) /\ reported \subseteq applied

(* What lies before the lowest match applied is as it was, so the offsets of *)
(* the matches still to come are valid in the text so far.                   *)
FrontIntact ==
    /\ prevStart <= Len(text) + 1
    /\ prevStart = Len(src) + 1 => Len(text) = Len(src)
    /\ \A n \in 1..Len(src) : n <= prevStart => n <= Len(text) /\ text[n] = src[n]

(* With TypeOK it is inductive. *)
ReplaceInv == TypeOK /\ FrontIntact

(* The file holds the substitutions reported to the user, all of them and    *)
(* nothing else, at every moment; a dry run leaves it as it was.             *)
WrittenIsReported == onDisk = IF dryRun THEN src ELSE AtOnce(src, reported)

(* A match is left out only if one that starts within it was applied. *)
OnlyOverlapsSkipped ==
    Done => \A m \in matches \ applied : \E k \in applied : m.from <= k.from /\ k.from < m.to
=============================================================================
