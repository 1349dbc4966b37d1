SPECIFICATION FairSpec
CONSTANTS
    Msgs = {m1, m2, m3}
    Names = {n1, n2, n3, n4}
    Workers = {w1, w2}
    None = None
    MaxCrashes = 1
    MaxRefused = 1
INVARIANT OneHandler
INVARIANT LossBounded
PROPERTY EveryMessageHandled
