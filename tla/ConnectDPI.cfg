SPECIFICATION FairSpec
CONSTANTS
    Conns = {c1, c2}
    Hosts = {"h", "ip"}
    Literals = {"ip"}
    Singles = {"ip"}
    Providers = 2
INVARIANTS
    HelloOnKeptConnection
    NothingLeftOpen
PROPERTIES
    ListedOnlyIfBypassHelps
    AnswerLostOnlyToRace
    ProvidersFinish
    TunnelsEnd
