----------------------------- MODULE Discovery -----------------------------
(* Which files `idit find` and `idit replace` read: discoverFiles of         *)
(* cli/discover.go, over ripgrep or, where that fails, the bounded walk      *)
(* ScanFiles of fsscan/fsscan.go. The workspace is a tree of numbered        *)
(* entries, in the order ReadDir lists them. External: what ripgrep prints,  *)
(* which is the matching files it does not hide.                             *)
EXTENDS Integers, Sequences, FiniteSets, SequencesExt

CONSTANTS
    ParentOf,       \* the directory of each entry, 0 for the topmost
    Dirs,           \* the entries that are directories
    Starts,         \* entries that may be given as paths
    HiddenFrom,     \* what ripgrep skips for an ignore file
    ScanBudget,     \* 4000
    FileLimit,      \* findFileLimit
    MaxPaths        \* bound on the paths of a command

VARIABLES
    wanted,     \* the files with an extension that is searched (hasExt)
    matching,   \* the files that contain a match
    ignored,    \* the directories the walk never descends into
    everything, \* -v searches every file, matching or not
    paths,      \* the paths of the command still to go through
    walking,    \* whether ScanFiles is in its loop
    stack, entries, budget, hits,   \* its variables; the entries of dir to come
    files,      \* the files to search
    given       \* history: all paths of the command

discoveryVars == <<wanted, matching, ignored, everything, paths, walking, stack, entries,
                   budget, hits, files, given>>

Entries == DOMAIN ParentOf
Plain   == Entries \ Dirs

(* What the constants have to be: a tree, whose directories are numbered     *)
(* before what they hold.                                                    *)
IsTree ==
    /\ ParentOf \in Seq(Nat) /\ Dirs \subseteq Entries /\ Starts \subseteq Entries
    /\ \A e \in Entries : ParentOf[e] \in {0} \cup Dirs /\ ParentOf[e] < e
    /\ ScanBudget \in Nat /\ FileLimit \in Nat /\ MaxPaths \in Nat

Children(d) == {e \in Entries : ParentOf[e] = d}
Sorted(s)   == \A i, j \in DOMAIN s : i < j => s[i] < s[j]
Listed(d)   == CHOOSE s \in [1..Cardinality(Children(d)) -> Children(d)] : Sorted(s)

(* d, and of the entries in `among` all that are in it, at any depth: the    *)
(* least set with d in it that is closed under the directory's children.     *)
Closed(S, among) == \A e \in among : ParentOf[e] \in S => e \in S
Below(d, among)  ==
    {e \in Entries : \A S \in SUBSET Entries : d \in S /\ Closed(S, among) => e \in S}

Init ==
    /\ wanted \in SUBSET Plain /\ matching \in SUBSET Plain
    /\ ignored \in SUBSET {d \in Dirs : ParentOf[d] # 0}
    /\ everything \in BOOLEAN
    /\ paths \in SeqOf(Starts, MaxPaths) \ {<<>>} /\ given = paths
    /\ walking = FALSE /\ stack = <<>> /\ entries = <<>> /\ budget = 0 /\ hits = <<>>
    /\ files = <<>>

-----------------------------------------------------------------------------
AllNew(f, list) == TRUE                     \* faulty: a file of two paths is searched twice
Unseen(f, list) == f \notin Range(list)     \* seen

(* `add`, for each file found: what is wanted and was not seen before it. *)
New(list, found, i) ==
    IF found[i] \in wanted /\ Unseen(found[i], list \o SubSeq(found, 1, i - 1))
    THEN <<found[i]>> ELSE <<>>
Added(list, found) == list \o FlattenSeq([i \in 1..Len(found) |-> New(list, found, i)])

Under(d) == Below(d, Entries) \cap Plain

FilePath ==
    /\ ~walking /\ paths # <<>> /\ Head(paths) \notin Dirs
    /\ files' = Added(files, <<Head(paths)>>)
    /\ paths' = Tail(paths)
    /\ UNCHANGED <<wanted, matching, ignored, everything, walking, stack, entries, budget,
                   hits, given>>

Ripgrep ==
    /\ ~walking /\ paths # <<>> /\ Head(paths) \in Dirs /\ ~everything
    /\ LET printed == (Under(Head(paths)) \cap matching) \ HiddenFrom
       IN  files' = Added(files, SetToSeq(printed))
    /\ paths' = Tail(paths)
    /\ UNCHANGED <<wanted, matching, ignored, everything, walking, stack, entries, budget,
                   hits, given>>

(* With -v, or if ripgrep is missing or fails. *)
BeginWalk ==
    /\ ~walking /\ paths # <<>> /\ Head(paths) \in Dirs
    /\ walking' = TRUE
    /\ stack' = <<Head(paths)>> /\ entries' = <<>> /\ budget' = ScanBudget /\ hits' = <<>>
    /\ UNCHANGED <<wanted, matching, ignored, everything, paths, files, given>>

Stops == budget <= 0 \/ Len(hits) >= FileLimit

PopDir ==
    /\ walking /\ entries = <<>> /\ stack # <<>> /\ ~Stops
    /\ entries' = Listed(Last(stack)) /\ stack' = Front(stack)
    /\ UNCHANGED <<wanted, matching, ignored, everything, paths, walking, budget, hits, files,
                   given>>

PushDir ==
    /\ walking /\ entries # <<>> /\ Head(entries) \in Dirs
    /\ stack' = IF Head(entries) \in ignored THEN stack ELSE Append(stack, Head(entries))
    /\ entries' = Tail(entries)
    /\ UNCHANGED <<wanted, matching, ignored, everything, paths, walking, budget, hits, files,
                   given>>

PassFile ==
    /\ walking /\ entries # <<>> /\ Head(entries) \in Plain \ wanted
    /\ entries' = Tail(entries)
    /\ UNCHANGED <<wanted, matching, ignored, everything, paths, walking, stack, budget, hits,
                   files, given>>

(* The budget counts the file before it is read, so that the last file the   *)
(* budget counts is not. The loop over a directory ends at either bound.     *)
ReadFile ==
    /\ walking /\ entries # <<>> /\ Head(entries) \in wanted
    /\ budget' = budget - 1
    /\ hits' = IF budget' > 0 /\ (everything \/ Head(entries) \in matching)
               THEN Append(hits, Head(entries)) ELSE hits
    /\ entries' = IF budget' <= 0 \/ Len(hits') >= FileLimit THEN <<>> ELSE Tail(entries)
    /\ UNCHANGED <<wanted, matching, ignored, everything, paths, walking, stack, files, given>>

EndWalk ==
    /\ walking /\ entries = <<>> /\ (stack = <<>> \/ Stops)
    /\ walking' = FALSE /\ stack' = <<>> /\ budget' = 0 /\ hits' = <<>>
    /\ files' = Added(files, hits)
    /\ paths' = Tail(paths)
    /\ UNCHANGED <<wanted, matching, ignored, everything, entries, given>>

Next ==
    \/ FilePath \/ Ripgrep \/ BeginWalk
    \/ PopDir \/ PushDir \/ PassFile \/ ReadFile \/ EndWalk

Spec == Init /\ [][Next]_discoveryVars
-----------------------------------------------------------------------------
(* What lies under d, in no directory on the way that the walk ignores. *)
Reach(d)  == Below(d, Entries \ ignored)
Sought(f) == f \in wanted /\ (everything \/ f \in matching)

(* Whatever paths are given, in one another or not, and whether ripgrep or   *)
(* the walk goes through them, no file is searched twice (its matches would  *)
(* be counted and printed twice), and while there are fewer files than the   *)
(* walk may read, every file is searched that should be, except one that     *)
(* ripgrep hides or that lies in an ignored directory.                       *)
SearchedOnce ==
    paths = <<>> /\ ~walking =>
        /\ \A i, j \in 1..Len(files) : files[i] = files[j] => i = j
        /\ \A f \in Range(files) : Sought(f) \/ (f \in wanted /\ f \in Range(given))
        /\ Cardinality(wanted) < ScanBudget /\ Cardinality({f \in Plain : Sought(f)}) <= FileLimit
              => \A f \in Plain \ HiddenFrom, k \in 1..Len(given) :
                    Sought(f) /\ f \in Reach(given[k]) => f \in Range(files)
=============================================================================
