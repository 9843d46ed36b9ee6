\* Every operation, one request after the other, users editing between any two
\* steps: three requests open, change and then close or reopen a document.
CONSTANTS
    f1 = f1  f2 = f2  f3 = f3
    Files = {f1, f2}
    Handlers = {h1}
    Ops = {"query", "symbol", "apply", "mv"}
    Answers <- SomeAnswers
    MaxRev = 5
    MaxOps = 3
SPECIFICATION Spec
INVARIANTS OpenedIsSent SyncedView StaysInStep NoGhostDocument
PROPERTY VersionsIncrease
\* The behaviour ends when the budget of requests is used up.
CHECK_DEADLOCK FALSE
