SPECIFICATION FairSpec
CONSTANTS
    Tasks = {1, 2}
    Keys = {k1}
    MaxInst = 1
    MaxVer = 1
    MaxFiles = 2
    None = None
    Redelivered = FALSE
INVARIANT ResultsReturned
INVARIANT NothingLeftBehind
PROPERTY StoreMovesForward
 
CHECK_DEADLOCK FALSE
