SPECIFICATION FairSpec
CONSTANTS
    Threads = {t1, t2}
    p1 = p1
    p2 = p2
    p3 = p3
    p4 = p4
    Ports = {p1, p3}
    Configs <- OneConfig
    None = None
    Direct = Direct
    MaxGen = 2
    MaxProcs = 0
PROPERTIES
    StartNotStuck
    PortsFreed
