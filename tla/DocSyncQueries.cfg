\* Queries and symbol searches that overlap in any way, on the same files, while
\* users edit them.
CONSTANTS
    f1 = f1  f2 = f2  f3 = f3
    Files = {f1, f2}
    Handlers = {h1, h2}
    Ops = {"query", "symbol"}
    Answers <- NoAnswers
    MaxRev = 3
    MaxOps = 3
SPECIFICATION Spec
INVARIANT AskedIsOpen
\* The behaviour ends when the budget of requests is used up.
CHECK_DEADLOCK FALSE
