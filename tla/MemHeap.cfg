CONSTANTS
    Start = 2
    Length = 24
    Top = 32
    Requests = {2, 3, 6}
SPECIFICATION RequestSpec
INVARIANTS TypeOK Disjoint Sorted Coalesced NoLeak
PROPERTIES KeepsPromise CallsReturn
