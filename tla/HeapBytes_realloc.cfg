CONSTANTS
    Start = 2
    Length = 18
    Top = 23
    Requests = {8}
    Resizes = {4}
SPECIFICATION Spec
PROPERTY ReallocKeepsContent
