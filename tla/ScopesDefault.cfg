\* What ${n=v} does to a variable that is set.
CONSTANTS
    a = a
    b = b
    x = x
    Empty = Empty
    Absent = Absent
    None = None
    Words = {Empty, a, b}
    Values = {Empty, a, b}
    MaxIndex = 1
    VarNames = {x}
    Script = a
    Files = {a}
    ArgLists <- NoArgs
    ArrayValues <- NoArrays
    WordLists <- NoArrays
    PrefixNames = {}
    Targets = {x}
    ShiftNumbers = {}
    MaxScopes = 2
SPECIFICATION Spec
PROPERTIES
    DefaultKeepsSetVariable
