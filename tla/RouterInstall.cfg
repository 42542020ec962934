SPECIFICATION InstallSpec
CONSTANTS
    Installs = {i1, i2}
    MaxReboots = 2
INVARIANT KeepsServing
PROPERTY VerifiedServes
CHECK_DEADLOCK FALSE
