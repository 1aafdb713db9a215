\* Two eclasses, nested inherits, one metadata variable, one export.
CONSTANTS
    a = a
    b = b
    Eclasses = {a, b}
    PartOf <- PartialNames
    Keys = {IUSE}
    Functions = {f}
    ArgLists <- Lists
    Ebuild = Ebuild
    Empty = Empty
    None = None
    MaxDepth = 2
    MaxAppended = 1
SPECIFICATION Spec
INVARIANTS
    TypeOK
    EclassIsFile
    EbuildMetadataApart
    StubsCallTheirEclass
PROPERTIES
    CallerMetadataKept
    ExportsAreDefined
