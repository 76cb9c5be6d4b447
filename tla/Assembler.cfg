CONSTANTS
    MaxMem = 65535
    Reach = 8
    None = None
    Pools <- MCPools
SPECIFICATION Spec
INVARIANTS TypeOK OperandsAreRight NameComplaintsAreRight WaitsReachable InitsRunFirst
