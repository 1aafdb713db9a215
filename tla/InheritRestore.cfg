\* What a nested inherit puts back.
CONSTANTS
    a = a
    b = b
    Eclasses = {a, b}
    PartOf <- PartialNames
    Keys = {}
    Functions = {f}
    ArgLists <- Lists
    Ebuild = Ebuild
    Empty = Empty
    None = None
    MaxDepth = 2
    MaxAppended = 1
SPECIFICATION Spec
PROPERTIES
    RestoresBeforeReturning
