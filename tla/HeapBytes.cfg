CONSTANTS
    Start = 2
    Length = 18
    Top = 23
    Requests = {2, 6}
    Resizes = {2, 6}
SPECIFICATION Spec
INVARIANTS TypeOK OthersKept MemAvailExact
PROPERTIES MaxAvailDecides IsMemHeap
