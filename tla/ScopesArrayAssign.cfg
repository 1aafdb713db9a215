\* n=(...) for a variable that is local.
CONSTANTS
    a = a
    b = b
    x = x
    Empty = Empty
    Absent = Absent
    None = None
    Words = {Empty, a}
    Values = {Empty, a}
    MaxIndex = 1
    VarNames = {x}
    Script = a
    Files = {a}
    ArgLists <- NoArgs
    ArrayValues <- SmallArrays
    WordLists <- NoArrays
    PrefixNames = {}
    Targets = {}
    ShiftNumbers = {}
    MaxScopes = 2
SPECIFICATION Spec
PROPERTIES
    ArrayAssignmentIsSeen
