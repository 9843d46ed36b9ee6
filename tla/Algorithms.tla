----------------------------- MODULE Algorithms -----------------------------
(* The algorithms without shared state, side by side: each behaviour runs    *)
(* one of them, while the others rest with nothing to do.                    *)
EXTENDS TextEdits

CONSTANTS MaxSource, MaxCaptures, MaxFrames, MaxBody
CONSTANTS Base, Upper, Lower, Percent, Slash, Special, Ordinary, MaxPath
CONSTANTS Idents, MaxNodes, MaxSegments
CONSTANTS MaxLines, MaxSites, MaxCol, Contexts
CONSTANTS MaxItems, Ranks, ResolveLimit, Slots
CONSTANTS ParentOf, Dirs, Starts, HiddenFrom, ScanBudget, FileLimit, MaxPaths

VARIABLES src, captures, matches, waiting, text, prevStart, applied, dryRun, onDisk, reported
VARIABLES frames, wire, buf, decoding, got
VARIABLES path, uri, next, decoded
VARIABLES last, decls, segments, readable, seg, scope, outcome, reply
VARIABLES sources, sites, context, invert, noted, matched, file, merged, windows, printed
VARIABLES answer, detail, items, read, kept, task, resolved, told, members
VARIABLES wanted, matching, ignored, everything, paths, walking, stack, entries, budget,
          hits, files, given

RE == INSTANCE Replacements
FR == INSTANCE Framing
UR == INSTANCE URIs
LO == INSTANCE Locate
FI == INSTANCE Find
ME == INSTANCE Members
DI == INSTANCE Discovery

ASSUME CodesAssumption == UR!CodesApart
ASSUME LocateBounds == MaxNodes \in Nat /\ MaxSegments \in Nat
ASSUME DiscoveryTree == DI!IsTree
ASSUME FindBounds == FI!Bounds
ASSUME MembersBounds == MaxItems \in Nat /\ ResolveLimit \in Nat /\ Ranks \subseteq Int

EditsRest    == content = <<>> /\ edits = <<>> /\ left = {} /\ out = <<>>
ReplaceRests ==
    /\ src = <<>> /\ captures = <<>> /\ text = <<>>
    /\ matches = {} /\ waiting = {} /\ applied = {} /\ prevStart = 1
    /\ dryRun = FALSE /\ onDisk = <<>> /\ reported = {}
FramingRests == frames = <<>> /\ wire = <<>> /\ buf = <<>> /\ decoding = FALSE /\ got = <<>>
URIsRest     == path = <<>> /\ uri = <<>> /\ next = 1 /\ decoded = <<>>
LocateRests  ==
    /\ last = <<1>> /\ decls = {} /\ segments = <<>> /\ readable = FALSE
    /\ seg = 1 /\ scope = 1 /\ outcome = LO!NotYet /\ reply = [LO!NoReply EXCEPT !.exit = 1]
FindRests ==
    /\ sources = <<>> /\ context = -1 /\ invert = TRUE
    /\ sites = [f \in DOMAIN MaxLines |-> <<>>] /\ noted = [f \in DOMAIN MaxLines |-> 0]
    /\ matched = <<>> /\ file = Len(MaxLines) + 1 /\ merged = 0 /\ windows = <<>>
    /\ printed = <<>>
MembersRest ==
    /\ answer = <<>> /\ detail = FALSE /\ items = <<>> /\ read = 1 /\ kept = 0
    /\ task = <<>> /\ resolved = <<>> /\ told = <<>> /\ members = <<>>
DiscoveryRests ==
    /\ wanted = {} /\ matching = {} /\ ignored = {} /\ everything = FALSE /\ paths = <<>>
    /\ walking = FALSE /\ stack = <<>> /\ entries = <<>> /\ budget = 0 /\ hits = <<>>
    /\ files = <<>> /\ given = <<>>

EditsStill     == UNCHANGED <<content, edits, left, out>>
ReplaceStill   == UNCHANGED <<src, captures, matches, waiting, text, prevStart, applied,
                              dryRun, onDisk, reported>>
FramingStill   == UNCHANGED <<frames, wire, buf, decoding, got>>
URIsStill      == UNCHANGED <<path, uri, next, decoded>>
LocateStill    == UNCHANGED <<last, decls, segments, readable, seg, scope, outcome, reply>>
FindStill      == UNCHANGED <<sources, sites, context, invert, noted, matched, file, merged,
                              windows, printed>>
MembersStill   == UNCHANGED <<answer, detail, items, read, kept, task, resolved, told, members>>
DiscoveryStill == UNCHANGED <<wanted, matching, ignored, everything, paths, walking, stack,
                              entries, budget, hits, files, given>>

TextsRest  == EditsRest /\ ReplaceRests /\ FramingRests /\ URIsRest
SearchRests == LocateRests /\ FindRests /\ MembersRest /\ DiscoveryRests

InitAll ==
    \/ /\ SearchRests
       /\ \/ Init /\ ReplaceRests /\ FramingRests /\ URIsRest
          \/ EditsRest /\ RE!Init /\ FramingRests /\ URIsRest
          \/ EditsRest /\ ReplaceRests /\ FR!Init /\ URIsRest
          \/ EditsRest /\ ReplaceRests /\ FramingRests /\ UR!Init
    \/ /\ TextsRest
       /\ \/ LO!Init /\ FindRests /\ MembersRest /\ DiscoveryRests
          \/ LocateRests /\ FI!Init /\ MembersRest /\ DiscoveryRests
          \/ LocateRests /\ FindRests /\ ME!Init /\ DiscoveryRests
          \/ LocateRests /\ FindRests /\ MembersRest /\ DI!Init

TextsStill  == EditsStill /\ ReplaceStill /\ FramingStill /\ URIsStill
SearchStill == LocateStill /\ FindStill /\ MembersStill /\ DiscoveryStill

NextAll ==
    \/ /\ SearchStill
       /\ \/ Next /\ ReplaceStill /\ FramingStill /\ URIsStill
          \/ RE!Next /\ EditsStill /\ FramingStill /\ URIsStill
          \/ FR!Next /\ EditsStill /\ ReplaceStill /\ URIsStill
          \/ UR!Next /\ EditsStill /\ ReplaceStill /\ FramingStill
    \/ /\ TextsStill
       /\ \/ LO!Next /\ FindStill /\ MembersStill /\ DiscoveryStill
          \/ FI!Next /\ LocateStill /\ MembersStill /\ DiscoveryStill
          \/ ME!Next /\ LocateStill /\ FindStill /\ DiscoveryStill
          \/ DI!Next /\ LocateStill /\ FindStill /\ MembersStill

SpecAll ==
    InitAll /\ [][NextAll]_<<content, edits, left, out, RE!replaceVars, FR!frameVars,
                             UR!uriVars, LO!locateVars, FI!findVars, ME!memberVars,
                             DI!discoveryVars>>

(* Properties of the instantiated modules, by their names there. *)
WrittenIsReported   == RE!WrittenIsReported
OnlyOverlapsSkipped == RE!OnlyOverlapsSkipped
DeliveredInOrder    == FR!DeliveredInOrder
NothingWithheld     == FR!NothingWithheld
PathComesBack       == UR!PathComesBack
OneMeaning          == LO!OneMeaning
PrintedAsAsked      == FI!PrintedAsAsked
EveryMatchResolved  == ME!EveryMatchResolved
SearchedOnce        == DI!SearchedOnce
=============================================================================
