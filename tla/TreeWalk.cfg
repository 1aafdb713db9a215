\* 195 scripts; commands and tests decide five times, counts up to two.
CONSTANTS
    Scripts <- AllScripts
    MaxOutcomes = 5
    MaxCount = 2
SPECIFICATION Spec
INVARIANTS
    TypeOK
    ExecutesTheScript
    FunctionsKnowTheirBody
CHECK_DEADLOCK FALSE
