\* Two queries on the same file while it is edited.
CONSTANTS
    f1 = f1  f2 = f2  f3 = f3
    Files = {f1, f2}
    Handlers = {h1, h2}
    Ops = {"query"}
    Answers <- NoAnswers
    MaxRev = 3
    MaxOps = 3
SPECIFICATION Spec
INVARIANT OpenedIsSent
\* The behaviour ends when the budget of requests is used up.
CHECK_DEADLOCK FALSE
