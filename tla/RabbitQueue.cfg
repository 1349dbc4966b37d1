SPECIFICATION FairSpec
CONSTANTS
    Msgs = {m1, m2}
    Workers = {w1, w2, w3}
    None = None
INVARIANT OnePlace
PROPERTY Delivers
PROPERTY ComesBack
