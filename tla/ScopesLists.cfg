\* Positional parameters of a script and a function, with holes made by unset,
\* and arrays of one name, global and local.
CONSTANTS
    a = a
    b = b
    x = x
    Empty = Empty
    Absent = Absent
    None = None
    Words = {Empty, a}
    Values = {a}
    MaxIndex = 3
    VarNames = {x}
    Script = a
    Files = {a}
    ArgLists <- UpToThree
    ArrayValues <- SmallArrays
    WordLists <- SmallLists
    PrefixNames = {}
    Targets = {x, "*"}
    ShiftNumbers <- Shifts
    MaxScopes = 2
SPECIFICATION Spec
CONSTRAINT OneKind
PROPERTIES
    ShiftDropsFirst
    SetIsLocal
    AppendKeepsElements
