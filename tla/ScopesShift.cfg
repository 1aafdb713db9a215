\* shift where no positional parameters were defined.
CONSTANTS
    a = a
    b = b
    x = x
    Empty = Empty
    Absent = Absent
    None = None
    Words = {Empty, a}
    Values = {Empty, a}
    MaxIndex = 1
    VarNames = {x}
    Script = a
    Files = {a}
    ArgLists <- NoArgs
    ArrayValues <- NoArrays
    WordLists <- NoArrays
    PrefixNames = {}
    Targets = {"*"}
    ShiftNumbers = {0, 1}
    MaxScopes = 2
SPECIFICATION Spec
INVARIANTS
    ShiftReturns
