SPECIFICATION FairSpec
CONSTANTS
    Sessions = {s1, s2}
    Workers = {w1}
    MaxFilters = 2
    MaxMissed = 2
    None = None
INVARIANT OneLiveSession
INVARIANT CoolDownBeforeCancel
PROPERTY QueueKeepsBeingFetched
PROPERTY ProjectEndQuiesces
