SPECIFICATION Spec
CONSTANTS
    Threads = {t1, t2, t3}
    p1 = p1
    p2 = p2
    p3 = p3
    p4 = p4
    Ports = {p1, p2, p3, p4}
    Configs <- MovingConfigs
    None = None
    Direct = Direct
    MaxGen = 2
    MaxProcs = 1
SYMMETRY Symmetry
INVARIANTS
    RunningProxyListens
    NoListenerLeaks
    ClosedOnce
    PacNamesLiveProxy
    DivertOnlyForCurrent
PROPERTIES
    ImplementsService
