\* Scalars and positional parameters in three scopes, prefix assignments; a
\* script a that sources a file b.
CONSTANTS
    a = a
    b = b
    x = x
    Empty = Empty
    Absent = Absent
    None = None
    Words = {Empty, a, b}
    Values = {Empty, a}
    MaxIndex = 0
    VarNames = {x}
    Script = a
    Files = {b}
    ArgLists <- NoArgs
    ArrayValues <- NoArrays
    WordLists <- NoArrays
    PrefixNames = {x}
    Targets = {x, "*", "0"}
    ShiftNumbers = {1}
    MaxScopes = 3
SPECIFICATION Spec
INVARIANTS
    TypeOK
    OnlyZeroIsReadonly
    ZeroIsCurrentFile
PROPERTIES
    HiddenVariablesKeep
    UnsetRevealsNext
    ReadonlyKept
