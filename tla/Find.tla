-------------------------------- MODULE Find --------------------------------
(* What `idit find` prints (cli/find.go): the matches of each file are noted *)
(* by line, and printed in groups of lines with their context, or, with -v,  *)
(* the lines without a match are. Which lines and columns match is external: *)
(* they come from the regular expression, per kind and in any order.         *)
EXTENDS Integers, Sequences, SequencesExt, FiniteSetsExt

CONSTANTS MaxLines,     \* for each file, bound on the elements of strings.Split(src, "\n")
          MaxSites,     \* for each file, bound on the matches
          MaxCol,       \* bound on columns
          Contexts      \* values of -C, which the command does not check

VARIABLES
    sources,    \* each file: its number of lines, and if the last one is empty
    sites,      \* each file: the matches found
    context,    \* -C
    invert,     \* -v
    noted,      \* each file: number of matches in `matched`
    matched,    \* each file: the first match column of each line, 0 for none
    file,       \* the file being printed; 0 while files are searched
    merged,     \* its last line that is in a window or, with -v, passed
    windows,    \* its windows
    printed     \* the lines printed

findVars == <<sources, sites, context, invert, noted, matched, file, merged, windows, printed>>

Files == DOMAIN MaxLines

(* strings.Split returns at least one element. *)
Bounds ==
    /\ MaxLines \in Seq(Nat \ {0}) /\ MaxSites \in [Files -> Nat]
    /\ MaxCol \in Nat /\ Contexts \subseteq Int

Site(f) == [line : 1..sources[f].lines, col : 1..MaxCol]

Init ==
    /\ sources \in {s \in [Files -> [lines : UNION {1..MaxLines[f] : f \in Files}, newline : BOOLEAN]] :
                       \A f \in Files : s[f].lines <= MaxLines[f]}
    /\ \E found \in [Files -> UNION {SeqOf(Site(f), MaxSites[f]) : f \in Files}] :
          /\ \A f \in Files : found[f] \in SeqOf(Site(f), MaxSites[f])
          /\ sites = found
    /\ context \in Contexts /\ invert \in BOOLEAN
    /\ noted = [f \in Files |-> 0]
    /\ matched = [f \in Files |-> [n \in 1..MaxLines[f] |-> 0]]
    /\ file = 0 /\ merged = 0 /\ windows = <<>> /\ printed = <<>>

-----------------------------------------------------------------------------
FirstCol(old, col) == IF old = 0 THEN col ELSE Min({old, col})

NoteSite(f) ==
    /\ file = 0 /\ noted[f] < Len(sites[f])
    /\ \A g \in 1..f - 1 : noted[g] = Len(sites[g])
    /\ LET s == sites[f][noted[f] + 1]
       IN  matched' = [matched EXCEPT ![f][s.line] = FirstCol(@, s.col)]
    /\ noted' = [noted EXCEPT ![f] = @ + 1]
    /\ UNCHANGED <<sources, sites, context, invert, file, merged, windows, printed>>

MatchLines(f) == {n \in 1..sources[f].lines : matched[f][n] # 0}
Unmerged == IF file \in Files THEN {n \in MatchLines(file) : n > merged} ELSE {}

(* "A trailing newline yields a final empty element from Split; don't emit   *)
(* it." (renderInvert)                                                       *)
Limit(f) == IF sources[f].newline THEN sources[f].lines - 1 ELSE sources[f].lines

FileDone == IF invert THEN merged >= Limit(file) ELSE Unmerged = {} /\ windows = <<>>

(* The first file, in the order of names, and the next when one is done. *)
NextFile ==
    /\ \A f \in Files : noted[f] = Len(sites[f])
    /\ file = 0 \/ (file \in Files /\ FileDone)
    /\ file' = file + 1 /\ merged' = 0
    /\ UNCHANGED <<sources, sites, context, invert, noted, matched, windows, printed>>

Meets(w, lo)  == lo <= w.hi         \* faulty: windows side by side stay two
Adjoins(w, lo) == lo <= w.hi + 1    \* overlapping or adjacent

(* mergeWindows *)
MergeLine ==
    /\ ~invert /\ Unmerged # {}
    /\ LET line == Min(Unmerged)
           lo == Max({1, line - context})
           hi == Min({sources[file].lines, line + context})
           n  == Len(windows)
       IN  /\ merged' = line
           /\ windows' = IF n > 0 /\ Adjoins(windows[n], lo)
                         THEN [windows EXCEPT ![n].hi = Max({@, hi})]
                         ELSE Append(windows, [lo |-> lo, hi |-> hi])
    /\ UNCHANGED <<sources, sites, context, invert, noted, matched, file, printed>>

Separator == [file |-> 0, line |-> 0, col |-> 0]
LineOf(f, n) == [file |-> f, line |-> n, col |-> matched[f][n]]

Between == IF context > 0 /\ printed # <<>> THEN <<Separator>> ELSE <<>>
LinesOf(w) == [k \in 1..Max({0, w.hi - w.lo + 1}) |-> LineOf(file, w.lo + k - 1)]

(* renderMatches *)
PrintWindow ==
    /\ windows # <<>> /\ Unmerged = {}
    /\ printed' = printed \o Between \o LinesOf(Head(windows))
    /\ windows' = Tail(windows)
    /\ UNCHANGED <<sources, sites, context, invert, noted, matched, file, merged>>

(* renderInvert *)
PassLine ==
    /\ invert /\ file \in Files /\ merged < Limit(file)
    /\ merged' = merged + 1
    /\ printed' = IF matched[file][merged + 1] = 0
                  THEN Append(printed, LineOf(file, merged + 1)) ELSE printed
    /\ UNCHANGED <<sources, sites, context, invert, noted, matched, file, windows>>

Next == (\E f \in Files : NoteSite(f)) \/ NextFile \/ MergeLine \/ PrintWindow \/ PassLine

Spec == Init /\ [][Next]_findVars
-----------------------------------------------------------------------------
Printed == file > Len(MaxLines)

(* The lines that have to be printed, and where a group ends. *)
Due(f, n) ==
    IF invert THEN n <= Limit(f) /\ \A k \in 1..Len(sites[f]) : sites[f][k].line # n
    ELSE \E k \in 1..Len(sites[f]) : sites[f][k].line \in (n - context)..(n + context)
Shown(f, n) == \E k \in 1..Len(printed) : printed[k].file = f /\ printed[k].line = n
FirstCols(f, n) == {sites[f][k].col : k \in {j \in 1..Len(sites[f]) : sites[f][j].line = n}}

Line(l) == l.file # 0       \* not a separator
LineRight(l) ==
    /\ l.file \in Files /\ l.line \in 1..sources[l.file].lines
    /\ l.col = IF FirstCols(l.file, l.line) = {} THEN 0 ELSE Min(FirstCols(l.file, l.line))
Before(l, m)     == l.file < m.file \/ (l.file = m.file /\ l.line < m.line)
SideBySide(l, m) == l.file = m.file /\ m.line = l.line + 1

(* With -C, where a separator stands, and where none does. *)
Grouped == context > 0 /\ ~invert
SeparatorRight(k) == Grouped /\ k > 1 /\ k < Len(printed) /\ ~SideBySide(printed[k - 1], printed[k + 1])
GroupRight(k) == Grouped /\ k < Len(printed) /\ Line(printed[k + 1]) => SideBySide(printed[k], printed[k + 1])

(* Every line within the context of a match, or with -v every other line, is *)
(* printed once, files and lines in order, with the column of the first      *)
(* match in it; with -C a separator stands exactly between lines that do not *)
(* follow each other. (A negative -C, which the command accepts, prints      *)
(* nothing at all.)                                                          *)
PrintedAsAsked ==
    Printed /\ context >= 0 =>
        /\ \A f \in Files : \A n \in 1..sources[f].lines : Shown(f, n) <=> Due(f, n)
        /\ \A j, k \in 1..Len(printed) :
              j < k /\ Line(printed[j]) /\ Line(printed[k]) => Before(printed[j], printed[k])
        /\ \A k \in 1..Len(printed) :
              IF Line(printed[k]) THEN LineRight(printed[k]) /\ GroupRight(k) ELSE SeparatorRight(k)
=============================================================================
