SPECIFICATION FairSpec
CONSTANTS
    Nil = Nil
    Liangs = {1}
    Own <- MCOwn
    Foreign <- MCForeign
    Removable <- MCForeign
    Admits = TRUE
    MaxLives = 1
    MaxEdits = 2
PROPERTIES NoOrphan
CHECK_DEADLOCK FALSE
