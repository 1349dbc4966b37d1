SPECIFICATION FairSpec
CONSTANTS
    k1 = k1
    k2 = k2
    m1 = m1
    m2 = m2
    b1 = b1
    b2 = b2
    other = other
    Indexes = {k1, k2}
    Contents <- MCContents
    Bases = {m1, m2}
    Blobs = {b1, b2}
    Strangers = {other}
    Torn = {other}
    None = None
    NoBase = NoBase
    Garbled = Garbled
    MaxChanges = 3
INVARIANT EtagVouches
INVARIANT StaysServed
PROPERTY BridgeConverges
CHECK_DEADLOCK FALSE
