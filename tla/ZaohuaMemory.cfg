SPECIFICATION Spec
CONSTANTS
    Nil = Nil
    Specs <- MemorySpecs
    Counts = {0, 2}
    Loads = {0, 20}
    AverageValue = 10
    ScaleTolerance = 10
    Leads = FALSE
    MaxTime = 3
    MaxMoves = 3
    MaxRecords = 1
    MaxEdits = 2
INVARIANTS EventsAddUp
PROPERTIES RecordsKept
