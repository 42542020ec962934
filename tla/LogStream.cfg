SPECIFICATION Spec
CONSTANTS
    maxLogEntries = 3
    MaxAdds = 7
    MaxClears = 2
INVARIANTS
    ShownOnceInOrder
    NoGapBeforeFull
