\* Three threads, two files, three ebuilds of at most two source commands each.
\* Liveness is checked here too, so there is no symmetry.
CONSTANTS
    Threads = {t1, t2, t3}
    Paths = {p1, p2}
    NoThread = NoThread
    Tasks = 3
    MaxCommands = 2
SPECIFICATION FairSpec
INVARIANTS
    TypeOK
    ParseExclusive
    ParsedAtMostOnce
    NeverInterpretsNull
    FactoryExclusive
PROPERTIES
    EntriesAreFinal
    ImplementsParseOnce
    AllEbuildsProcessed
