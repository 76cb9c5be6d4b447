CONSTANTS
    Byte = 8
    Lengths = {1, 2, 4, 6}
SPECIFICATION Spec
INVARIANTS TypeOK TakesFreeChannel StealsLongest
