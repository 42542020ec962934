SPECIFICATION FairSpec
CONSTANTS
    MaxGen = 2
    Tries = 2
    MaxMissed = 1
INVARIANTS
    OneHeartbeat
    RouterKeepsProxy
PROPERTY RouterLetsGo
