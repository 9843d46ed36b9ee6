\* Documents of three bytes and three edits, files of two bytes and three
\* matches, three frames cut anywhere; paths of four bytes; trees of five
\* nodes; files of five and of one line; answers of four items; and a tree of
\* three directories with a file in each.
CONSTANTS
    b = b
    Newline = Newline
    Continuation = Continuation
    Bytes = {b, Newline, Continuation}
    NewTexts <- NewTextsMC
    MaxContent = 3
    MaxEdits = 3
    MaxSource = 2
    MaxCaptures = 3
    MaxFrames = 3
    MaxBody = 2
    Base = 3
    Upper <- UpperMC
    Lower <- LowerMC
    Percent = 4
    Slash = 5
    Special = {6}
    Ordinary = {1, 3, 7}
    MaxPath = 4
    Idents = {x, y}
    MaxNodes = 5
    MaxSegments = 3
    MaxLines <- MaxLinesMC
    MaxSites <- MaxSitesMC
    MaxCol = 2
    Contexts <- ContextsMC
    MaxItems = 4
    Ranks = {1, 2}
    ResolveLimit = 3
    Slots = 2
    ParentOf <- ParentOfMC
    Dirs = {1, 3, 5}
    Starts = {1, 3, 4, 5}
    HiddenFrom = {6}
    ScanBudget = 3
    FileLimit = 2
    MaxPaths = 2
SPECIFICATION SpecAll
INVARIANTS OffsetsIntact AppliedAtOnce WrittenIsReported OnlyOverlapsSkipped DeliveredInOrder NothingWithheld
INVARIANTS PathComesBack OneMeaning PrintedAsAsked EveryMatchResolved SearchedOnce
\* An algorithm ends.
CHECK_DEADLOCK FALSE
