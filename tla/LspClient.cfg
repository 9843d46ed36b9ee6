\* One caller whose context can end and one resolveEdit, two requests, pipes of
\* one message: every write can block.
CONSTANTS
    Callers = {c1, c2}
    Commanders = {c2}
    Cancellable = {c1}
    MaxRequests = 2
    MaxAsks = 1
    PipeRoom = 1
SPECIFICATION FairSpec
INVARIANTS NeverForgotten ReaderNeverBlocks Correlation
PROPERTIES AppliedIffHanded ImplementsCalls ExitIsNoticed
\* The behaviour ends when the request budget is used up or the server died.
CHECK_DEADLOCK FALSE
