\* Two handlers that settle twice, two tokens, three begins: a handler can see
\* work begin, end and begin again between two of its own steps.
CONSTANTS
    Handlers = {h1, h2}
    Tokens = {t1, t2}
    MaxCalls = 2
    MaxBegins = 3
SPECIFICATION FairSpec
INVARIANTS NoLostWakeup NoEarlyReturn ClosedOnce
PROPERTY ReturnsWhenIdle
\* The behaviour ends when the call and begin budgets are used up.
CHECK_DEADLOCK FALSE
