SPECIFICATION FairSpec
CONSTANTS
    Nil = Nil
    Liangs = {1, 2}
    Own <- MCOwn
    Foreign <- MCForeign
    Removable = {"shifa", "other"}
    Admits = TRUE
    MaxLives = 2
    MaxEdits = 4
INVARIANTS TypeOK Guarded
PROPERTIES KeepsEdits DestroysOnlyDoomed XianqiServes XianqiGoes
CHECK_DEADLOCK FALSE
