\* Two daemons, one of them without an idle timer, two commands, one fault,
\* all overlapping: a daemon can crash, leave its files and be replaced.
CONSTANTS
    Daemons = {d1, d2}
    Untimed = {d2}
    Commands = {c1, c2}
    None = None
    MaxFaults = 1
SPECIFICATION FairSpec
INVARIANTS TypeOK ServingPid ServedUnlessHit
PROPERTIES LiveSocketKept ServingEnds
\* The behaviour ends when commands, daemons and faults are used up.
CHECK_DEADLOCK FALSE
