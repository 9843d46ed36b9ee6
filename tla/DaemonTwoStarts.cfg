\* Two daemons that start over the stale socket of a third.
CONSTANTS
    Daemons = {d1, d2, d3}
    Untimed = {}
    Commands = {c1}
    None = None
    MaxFaults = 1
SPECIFICATION Spec
SYMMETRY Symmetry
PROPERTY OnlyStaleCleared
\* The behaviour ends when commands, daemons and faults are used up.
CHECK_DEADLOCK FALSE
