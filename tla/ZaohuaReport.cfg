SPECIFICATION Spec
CONSTANTS
    Nil = Nil
    Specs <- LiveSpecs
    Counts = {0, 1, 2}
    Loads = {0, 11, 21}
    AverageValue = 10
    ScaleTolerance = 10
    Leads = FALSE
    MaxTime = 0
    MaxMoves = 3
    MaxRecords = 0
    MaxEdits = 1
INVARIANTS ScaledMeansWritten
