\* Functions that a temporary AST defines.
CONSTANTS
    None = None
    Dangling = Dangling
    Script = s
    Files = {}
    Functions = {f}
    Keywords = {}
    Redirections = {FALSE}
    MaxCount = 1
    MaxDepth = 2
SPECIFICATION Spec
INVARIANTS
    FunctionsRun
