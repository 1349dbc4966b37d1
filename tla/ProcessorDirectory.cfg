SPECIFICATION Spec
CONSTANTS
    Tasks = {1, 2}
    Keys = {k1}
    MaxInst = 1
    MaxVer = 1
    MaxFiles = 2
    None = None
    Redelivered = TRUE
INVARIANT DirectoryIsOwn
CHECK_DEADLOCK FALSE
