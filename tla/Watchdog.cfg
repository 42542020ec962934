SPECIFICATION Spec
CONSTANTS
    MaxProcs = 3
    MaxStarts = 2
    Conns = {c1, c2}
INVARIANTS
    ConnsCounted
    NoStrayProcess
PROPERTIES
    DisownedOnlyByOldWaiter
    DeathRelaunched
CHECK_DEADLOCK FALSE
