SPECIFICATION FairSpec
CONSTANTS
    Projs = {p1, p2}
    Queues = {q1}
    Runners = {r1, r2}
    Absent = Absent
    Nil = Nil
INVARIANT SlotsClaimed
INVARIANT GoroutinesCancellable
INVARIANT QueueServedOnce
PROPERTY GoneProjectQuiesces
PROPERTY ShutdownQuiesces
