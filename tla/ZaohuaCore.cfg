SPECIFICATION Spec
CONSTANTS
    Nil = Nil
    Specs <- CoreSpecs
    Counts = {0, 1, 3}
    Loads = {0, 21}
    AverageValue = 10
    ScaleTolerance = 10
    Leads = TRUE
    MaxTime = 0
    MaxMoves = 2
    MaxRecords = 1
    MaxEdits = 2
INVARIANTS TypeOK RoundInv ReportTruthful
PROPERTIES ImplementsScaler WritesInRange NoLostUpdate ShrinksOnlyForLagOrMax GrowsOnlyForCause PanicsOnlyUnsound
