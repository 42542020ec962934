SPECIFICATION SegmentsSpec
CONSTANTS
    Lengths = {4, 5}
    FakeLen = 4
    Routes = {0, 2, 3, 8, 12, 30}
    SeqSpace = 12
    FirstSeqs = {0, 9}
    MaxResends = 1
INVARIANTS
    ServerReadsHello
    RecordsGiveHello
    NameNeverWhole
CHECK_DEADLOCK FALSE
