SPECIFICATION FairSpec
CONSTANTS
    Msgs = {m1, m2}
    Workers = {w1, w2}
    None = None
    ExtendFails = 1
INVARIANT OneHandler
PROPERTY Delivers
PROPERTY ComesBack
