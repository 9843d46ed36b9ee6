\* One resolveEdit whose command fails or whose edit comes late, three requests.
CONSTANTS
    Callers = {c1, c2}
    Commanders = {c2}
    Cancellable = {c1}
    MaxRequests = 3
    MaxAsks = 0
    PipeRoom = 1
SPECIFICATION Spec
PROPERTY HandedToListener
\* The behaviour ends when the request budget is used up or the server died.
CHECK_DEADLOCK FALSE
