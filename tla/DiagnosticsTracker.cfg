\* Two checks, the second of which can change the document while the first waits,
\* and two waves, of an old text and of the new one.
CONSTANTS
    Checks = {c1, c2}
    MaxWaves = 2
SPECIFICATION FairSpec
INVARIANTS WaitsForNewWave NoSubscriberLeaks
PROPERTY CollectReturns
\* The behaviour ends when every check has returned.
CHECK_DEADLOCK FALSE
