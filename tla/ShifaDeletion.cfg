SPECIFICATION FairSpec
CONSTANTS
    Nil = Nil
    Liangs = {1}
    Own <- MCOwn
    Foreign = {}
    Removable = {}
    Admits = TRUE
    MaxLives = 1
    MaxEdits = 2
PROPERTIES DeletionCompletes
CHECK_DEADLOCK FALSE
