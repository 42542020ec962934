SPECIFICATION Spec
CONSTANTS
    Hosts = {"a", "b"}
    Defaults = {"a"}
    Finders = {f1}
    UI = ui
    MaxQueue = 2
INVARIANTS
    NextRunHasList
    ListedAreShown
