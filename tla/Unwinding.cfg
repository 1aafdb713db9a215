\* Jumps, and what frames own: two kinds of loops, redirections, a function and
\* a file, three nested frames.
CONSTANTS
    None = None
    Dangling = Dangling
    Script = s
    Files = {p}
    Functions = {f}
    Keywords = {"while", "for"}
    Redirections = {TRUE, FALSE}
    MaxCount = 2
    MaxDepth = 3
SPECIFICATION Spec
INVARIANTS
    TypeOK
    Balanced
    WalkedAstsAlive
PROPERTIES
    ZeroLostByJumpsOnly
    ImplementsControlFlow
