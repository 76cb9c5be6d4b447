CONSTANTS
    Byte = 8
    Tried = {}
    Base <- MCBase
    FixedValues = {0, 32, 64, 96, 640, 2048, 4032, 4095}
    DwordValues = {0, 1, 2, 63, 64, 2047, 2048, 4095}
    WordValues = {0, 1, 2, 7, 8, 31, 32, 63}
SPECIFICATION Spec
INVARIANTS TypeOK ResultAsSpecified StackKept
PROPERTY OnlyTargetWritten
