SPECIFICATION FairSpec
CONSTANTS
    MaxOut = 2
    MaxErr = 1
    Newlines = {1}
    QueueCap = 1
    None = None
INVARIANT NoSendOnClosed
INVARIANT AtMostLastLineMissing
PROPERTY RunSettles
PROPERTY ReportsDrained
CHECK_DEADLOCK FALSE
