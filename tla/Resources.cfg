SPECIFICATION FairSpec
CONSTANTS
    Tasks = {t1, t2}
    NoTask = NoTask
    c1 = c1
    c2 = c2
    Cards = {c1, c2}
    CardMem <- Mem
    Ids = {i1, i2}
    SoftMaxCores = 2
    SoftMaxMem = 3
    UintRange = 16
    CardSlots <- SameSlots
    Requests <- MixedRequests
    DiskSize = 3
    Reserved = 0
    MinFree = 1
INVARIANT CardsExclusive
INVARIANT RefusalHoldsNothing
INVARIANT TrackersMatchHolders
INVARIANT DiskWithinCapacity
PROPERTY NoGrantOfFailedCard
PROPERTY AllocIsAtomic
PROPERTY ResourcesComeBack
