SPECIFICATION Spec
CONSTANTS
    Handles = {h1, h2, h3}
    Hosts = 2
    Strategies = 2
    MaxSessions = 2
SYMMETRY Symmetry
INVARIANTS
    OneOwner
    SessionIsRead
    SettledStrategy
