\* Two checks of changed texts, two waves.
CONSTANTS
    Checks = {c1, c2}
    MaxWaves = 2
SPECIFICATION Spec
INVARIANT ReportsCurrentText
\* The behaviour ends when every check has returned.
CHECK_DEADLOCK FALSE
