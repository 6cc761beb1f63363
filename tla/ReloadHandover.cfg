SPECIFICATION FairSpec
CONSTANTS
    Nil = Nil
    own = own
    other = other
    Houmaos = {own, other}
    Own = own
    Versions <- MCVersions
    Parts <- MCParts
    Leads = TRUE
    CanStop = TRUE
    MaxEdits = 3
INVARIANTS TypeOK Settled
PROPERTIES LatestWins SignalTaken LoopStops
CHECK_DEADLOCK FALSE
