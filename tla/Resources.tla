------------------------------ MODULE Resources ------------------------------
(***************************************************************************)
(* The machine resource trackers of one runner process and the allocation  *)
(* transaction that spans them: GPU cards (internal/cuda/cuda.go), cores   *)
(* and memory (internal/cpu_resource/cpu.go), local disk                   *)
(* (internal/disk_resource/disk.go), the three-step Alloc/Release of       *)
(* internal/resources/resources.go and its callers in                      *)
(* cmd/runner/resource.go, which serialise allocations with                *)
(* guardAllocation.                                                        *)
(*                                                                         *)
(* Each tracker has its own mutex, so the three steps of an allocation are *)
(* separate actions; the GPU monitor and the file system move between      *)
(* them.  A task is one message handler goroutine: it first tests its      *)
(* request (live = FALSE), later reserves it (live = TRUE), runs, and      *)
(* returns what it reserved.                                               *)
(***************************************************************************)
EXTENDS Integers, FiniteSets, Functions

CONSTANTS
    Tasks,         \* message handlers that may run at the same time
    Cards,         \* UUIDs of the GPU cards in the tracking table
    CardSlots,     \* slots of a card; 0 when the model is not recognised
    CardMem,       \* memory of a card
    Ids,           \* tracking identifiers (xid values)
    Requests,      \* resource blocks an experiment may ask for
    SoftMaxCores, SoftMaxMem,
    DiskSize,      \* largest space statfs may report available to the user
    Reserved,      \* blocks statfs counts in Bfree but not in Bavail
    MinFree,       \* headroom kept free on the device
    UintRange,     \* 2^w for the unsigned integers of the trackers
    NoTask         \* guardAllocation is not held

ASSUME ConstantsAssumption ==
    /\ CardSlots \in [Cards -> Nat] /\ CardMem \in [Cards -> Nat]
    /\ NoTask \notin Tasks
    /\ UintRange \in Nat \ {0}
    /\ SoftMaxCores \in 0..(UintRange - 1) /\ SoftMaxMem \in 0..(UintRange - 1)
    /\ DiskSize \in Nat /\ Reserved \in Nat /\ MinFree \in Nat
    /\ DiskSize + Reserved < UintRange /\ MinFree < UintRange
    /\ Requests \subseteq [cpu : 0..(UintRange - 1), mem : 0..(UintRange - 1),
                           disk : 0..(UintRange - 1),
                           gpu : Nat, gpuMem : Nat, gpuCount : Nat]

VARIABLES
    Allocated, EccFailure, Tracking,  \* gpuTracker.Allocs, field by field
    AllocCores, AllocMem,             \* cpuTracker
    AllocSpace,                       \* diskTracker
    bavail,                           \* what statfs would report now
    guardAllocation,                  \* holder of the allocation mutex
    pc, live, rqst,                   \* per task: step, live flag, request
    allocGPU, allocCPU, allocDisk,    \* per task: the fields of Allocated
    avail                             \* per task: result of GetDiskFree

gpuVars  == <<Allocated, EccFailure, Tracking>>
cpuVars  == <<AllocCores, AllocMem>>
diskVars == <<AllocSpace, bavail>>
holdVars == <<allocGPU, allocCPU, allocDisk>>
taskVars == <<pc, live, rqst, holdVars, avail>>
vars     == <<gpuVars, cpuVars, diskVars, guardAllocation, taskVars>>

\* Unsigned arithmetic wraps.
Uint(n) == n % UintRange

\* Nothing is held: the allocation is nil, or &Allocated{}.
HoldsNothing(t) == allocGPU[t] = {} /\ ~allocCPU[t] /\ ~allocDisk[t]

Steps == {"idle", "lock", "gpu", "cpu", "statfs", "disk", "tested", "running",
          "relock", "returnGPU", "returnCPU", "returnDisk"}

TypeOK ==
    /\ Allocated \in [Cards -> BOOLEAN] /\ EccFailure \in [Cards -> BOOLEAN]
    /\ Tracking \in [Cards -> SUBSET Ids]
    /\ AllocCores \in 0..(UintRange - 1) /\ AllocMem \in 0..(UintRange - 1)
    /\ AllocSpace \in 0..(UintRange - 1) /\ bavail \in 0..DiskSize
    /\ guardAllocation \in Tasks \cup {NoTask}
    /\ pc \in [Tasks -> Steps] /\ live \in [Tasks -> BOOLEAN]
    /\ rqst \in [Tasks -> Requests]
    /\ allocGPU \in [Tasks -> SUBSET (Cards \X Ids)]
    /\ allocCPU \in [Tasks -> BOOLEAN] /\ allocDisk \in [Tasks -> BOOLEAN]
    /\ avail \in [Tasks -> 0..(UintRange - 1)]

Init ==
    /\ Allocated = [c \in Cards |-> FALSE]
    /\ EccFailure \in [Cards -> BOOLEAN]
    /\ Tracking = [c \in Cards |-> {}]
    /\ AllocCores = 0 /\ AllocMem = 0 /\ AllocSpace = 0
    /\ bavail \in 0..DiskSize
    /\ guardAllocation = NoTask
    /\ pc = [t \in Tasks |-> "idle"] /\ live = [t \in Tasks |-> FALSE]
    /\ rqst \in [Tasks -> Requests]
    /\ allocGPU = [t \in Tasks |-> {}]
    /\ allocCPU = [t \in Tasks |-> FALSE] /\ allocDisk = [t \in Tasks |-> FALSE]
    /\ avail = [t \in Tasks |-> 0]
-----------------------------------------------------------------------------
(* The caller: newProcessor tests, Process reserves, runs and returns.     *)

Goto(t, step) == pc' = [pc EXCEPT ![t] = step]

\* Enter allocResource for a request, testing it first.
Receive(t) ==
    /\ pc[t] = "idle"
    /\ \E r \in Requests : rqst' = [rqst EXCEPT ![t] = r]
    /\ live' = [live EXCEPT ![t] = FALSE]
    /\ Goto(t, "lock")
    /\ UNCHANGED <<gpuVars, cpuVars, diskVars, guardAllocation, holdVars, avail>>

\* The message is given up after the test: no directory, no executor.
Abandon(t) ==
    /\ pc[t] = "tested"
    /\ Goto(t, "idle")
    /\ UNCHANGED <<gpuVars, cpuVars, diskVars, guardAllocation, live, rqst, holdVars, avail>>

\* Process asks for the live allocation.
Process(t) ==
    /\ pc[t] = "tested"
    /\ live' = [live EXCEPT ![t] = TRUE]
    /\ Goto(t, "lock")
    /\ UNCHANGED <<gpuVars, cpuVars, diskVars, guardAllocation, rqst, holdVars, avail>>

\* deployAndRun is over, the deferred deallocate starts.
Finish(t) ==
    /\ pc[t] = "running"
    /\ Goto(t, "relock")
    /\ UNCHANGED <<gpuVars, cpuVars, diskVars, guardAllocation, live, rqst, holdVars, avail>>

\* Mutation: the mutex is taken without waiting for its holder.
LockUnguarded(t) ==
    /\ \/ pc[t] = "lock"   /\ Goto(t, "gpu")
       \/ pc[t] = "relock" /\ Goto(t, "returnGPU")
    /\ guardAllocation' = t
    /\ UNCHANGED <<gpuVars, cpuVars, diskVars, live, rqst, holdVars, avail>>

\* guardAllocation.Lock() in allocResource and in deallocResource.
Lock(t) ==
    /\ \/ pc[t] = "lock"   /\ Goto(t, "gpu")
       \/ pc[t] = "relock" /\ Goto(t, "returnGPU")
    /\ guardAllocation = NoTask
    /\ guardAllocation' = t
    /\ UNCHANGED <<gpuVars, cpuVars, diskVars, live, rqst, holdVars, avail>>

\* The deferred guardAllocation.Unlock().
Unlock == guardAllocation' = NoTask
-----------------------------------------------------------------------------
(* GPU cards.                                                              *)

\* Mutation: cards in use are offered again.
UsableBusy(r) ==
    {c \in Cards : /\ ~EccFailure[c]
                   /\ (r.gpuMem = 0 \/ CardMem[c] >= r.gpuMem)
                   /\ CardSlots[c] = r.gpu}

\* Mutation: failed cards are offered.
UsableFailed(r) ==
    {c \in Cards : /\ ~Allocated[c]
                   /\ (r.gpuMem = 0 \/ CardMem[c] >= r.gpuMem)
                   /\ CardSlots[c] = r.gpu}

\* Free, healthy, enough memory, and exactly the slots that were asked for
\* (GPUUnits holds the single value rsc.Gpus).
Usable(r) ==
    {c \in Cards : /\ ~Allocated[c]
                   /\ ~EccFailure[c]
                   /\ (r.gpuMem = 0 \/ CardMem[c] >= r.gpuMem)
                   /\ CardSlots[c] = r.gpu}

\* Tracking identifiers nobody has: xid.New() never repeats one.
FreshIds ==
    Ids \ (UNION {Tracking[c] : c \in Cards}
           \cup {a[2] : a \in UNION {allocGPU[t] : t \in Tasks}})

\* AllocGPU: an empty request takes nothing; too few usable cards is an
\* error; otherwise gpuCount of them are taken, when live.  All usable cards
\* have the same slots, so the sort in the code only fixes an order on UUIDs:
\* here any choice is allowed.
AllocGPU(t) ==
    /\ pc[t] = "gpu"
    /\ LET r == rqst[t]
           none == r.gpu = 0 /\ r.gpuMem = 0
       IN
       \/ /\ none \/ (~live[t] /\ Cardinality(Usable(r)) >= r.gpuCount)
          /\ Goto(t, "cpu")
          /\ UNCHANGED <<Allocated, Tracking, guardAllocation, allocGPU>>
       \/ /\ ~none /\ Cardinality(Usable(r)) < r.gpuCount
          /\ Goto(t, "idle")
          /\ Unlock
          /\ UNCHANGED <<Allocated, Tracking, allocGPU>>
       \/ /\ ~none /\ live[t]
          /\ \E taken \in SUBSET Usable(r) :
                /\ Cardinality(taken) = r.gpuCount
                /\ \E id \in Injection(taken, FreshIds) :
                     /\ Tracking' = [c \in Cards |-> IF c \in taken
                                        THEN Tracking[c] \cup {id[c]} ELSE Tracking[c]]
                     /\ allocGPU' = [allocGPU EXCEPT ![t] = {<<c, id[c]>> : c \in taken}]
                /\ Allocated' = [c \in Cards |-> Allocated[c] \/ c \in taken]
          /\ Goto(t, "cpu")
          /\ UNCHANGED guardAllocation
    /\ UNCHANGED <<EccFailure, cpuVars, diskVars, live, rqst, allocCPU, allocDisk, avail>>

\* ReturnGPU for every card of an allocation.  An allocation of a card with
\* no slots is not returned; one whose identifier is not tracked is refused.
Returned(a) == {c \in Cards : /\ CardSlots[c] # 0
                              /\ \E id \in Tracking[c] : <<c, id>> \in a}

ReturnGPU(t) ==
    /\ pc[t] = "returnGPU"
    /\ LET a == allocGPU[t] IN
       /\ Allocated' = [c \in Cards |-> Allocated[c] /\ c \notin Returned(a)]
       /\ Tracking' = [c \in Cards |-> IF c \in Returned(a)
                         THEN Tracking[c] \ {id \in Ids : <<c, id>> \in a}
                         ELSE Tracking[c]]
    /\ allocGPU' = [allocGPU EXCEPT ![t] = {}]
    /\ Goto(t, "returnCPU")
    /\ UNCHANGED <<EccFailure, cpuVars, diskVars, guardAllocation, live, rqst,
                   allocCPU, allocDisk, avail>>

\* MonitorGPUs found an ECC failure; a failure is never taken back.
MarkFailure(c) ==
    /\ ~EccFailure[c]
    /\ EccFailure' = [EccFailure EXCEPT ![c] = TRUE]
    /\ UNCHANGED <<Allocated, Tracking, cpuVars, diskVars, guardAllocation, taskVars>>
-----------------------------------------------------------------------------
(* Cores and memory.                                                       *)

\* Mutation: a refused live allocation returns without its Release.
RefusedUnreleased(t) == Goto(t, "idle") /\ Unlock

\* Mutation: a refused test returns without unlocking.
RefusedLocked(t) ==
    /\ UNCHANGED guardAllocation
    /\ \/ live[t] /\ Goto(t, "returnGPU")
       \/ ~live[t] /\ Goto(t, "idle")

\* Mutation: the error of a live allocation is overlooked.
RefusedOverlooked(t) ==
    /\ Unlock
    /\ \/ live[t] /\ Goto(t, "running")
       \/ ~live[t] /\ Goto(t, "idle")

\* What Alloc does when a later resource is refused: a live allocation
\* releases what it has, still holding guardAllocation; a test returns.
Refused(t) ==
    \/ live[t] /\ Goto(t, "returnGPU") /\ UNCHANGED guardAllocation
    \/ ~live[t] /\ Goto(t, "idle") /\ Unlock

\* Mutation: the request is compared without what is already given out.
FitsCPUAlone(r) == r.cpu <= SoftMaxCores /\ r.mem <= SoftMaxMem

FitsCPU(r) == /\ Uint(r.cpu + AllocCores) <= SoftMaxCores
              /\ Uint(r.mem + AllocMem) <= SoftMaxMem

AllocCPU(t) ==
    /\ pc[t] = "cpu"
    /\ LET r == rqst[t] IN
       \/ /\ FitsCPU(r)
          /\ \/ /\ live[t]
                /\ AllocCores' = Uint(AllocCores + r.cpu)
                /\ AllocMem' = Uint(AllocMem + r.mem)
                /\ allocCPU' = [allocCPU EXCEPT ![t] = TRUE]
             \/ /\ ~live[t]
                /\ UNCHANGED <<cpuVars, allocCPU>>
          /\ Goto(t, "statfs")
          /\ UNCHANGED guardAllocation
       \/ /\ ~FitsCPU(r)
          /\ Refused(t)
          /\ UNCHANGED <<cpuVars, allocCPU>>
    /\ UNCHANGED <<gpuVars, diskVars, live, rqst, allocGPU, allocDisk, avail>>

ReleaseCPU(t) ==
    /\ pc[t] = "returnCPU"
    /\ \/ /\ allocCPU[t]
          /\ AllocCores' = Uint(AllocCores - rqst[t].cpu)
          /\ AllocMem' = Uint(AllocMem - rqst[t].mem)
       \/ /\ ~allocCPU[t]
          /\ UNCHANGED cpuVars
    /\ allocCPU' = [allocCPU EXCEPT ![t] = FALSE]
    /\ Goto(t, "returnDisk")
    /\ UNCHANGED <<gpuVars, diskVars, guardAllocation, live, rqst,
                   allocGPU, allocDisk, avail>>
-----------------------------------------------------------------------------
(* Local disk.                                                             *)

\* The free space GetDiskFree reports: nothing when Bfree is under the
\* headroom, otherwise Bavail less headroom and reservations.  The check is
\* on Bfree and the subtraction on Bavail.
DiskFree ==
    LET highWater == Uint(bavail - MinFree) IN
    IF bavail + Reserved < MinFree \/ highWater <= AllocSpace
    THEN 0 ELSE highWater - AllocSpace

\* AllocDisk reads the free space under the disk mutex and releases it ...
GetDiskFree(t) ==
    /\ pc[t] = "statfs"
    /\ avail' = [avail EXCEPT ![t] = DiskFree]
    /\ Goto(t, "disk")
    /\ UNCHANGED <<gpuVars, cpuVars, diskVars, guardAllocation, live, rqst, holdVars>>

\* ... and takes it again to compare and reserve.
AllocDisk(t) ==
    /\ pc[t] = "disk"
    /\ LET r == rqst[t] IN
       \/ /\ avail[t] >= r.disk
          /\ \/ /\ live[t]
                /\ AllocSpace' = Uint(AllocSpace + r.disk)
                /\ allocDisk' = [allocDisk EXCEPT ![t] = TRUE]
                /\ Goto(t, "running")
             \/ /\ ~live[t]
                /\ Goto(t, "tested")
                /\ UNCHANGED <<AllocSpace, allocDisk>>
          /\ Unlock
       \/ /\ avail[t] < r.disk
          /\ Refused(t)
          /\ UNCHANGED <<AllocSpace, allocDisk>>
    /\ UNCHANGED <<gpuVars, cpuVars, bavail, live, rqst, allocGPU, allocCPU, avail>>

\* The last step of Release.  A nil disk block is only reported.
ReleaseDisk(t) ==
    /\ pc[t] = "returnDisk"
    /\ \/ /\ allocDisk[t]
          /\ AllocSpace' = Uint(AllocSpace - rqst[t].disk)
       \/ /\ ~allocDisk[t]
          /\ UNCHANGED AllocSpace
    /\ allocDisk' = [allocDisk EXCEPT ![t] = FALSE]
    /\ Goto(t, "idle")
    /\ Unlock
    /\ UNCHANGED <<gpuVars, cpuVars, bavail, live, rqst, allocGPU, allocCPU, avail>>

\* Experiments and other processes use the file system.
FileSystem ==
    /\ bavail' \in 0..DiskSize \ {bavail}
    /\ UNCHANGED <<gpuVars, cpuVars, AllocSpace, guardAllocation, taskVars>>
-----------------------------------------------------------------------------
\* The steps of allocResource and deallocResource once the mutex is held.
Holding(t) ==
    \/ AllocGPU(t) \/ AllocCPU(t) \/ GetDiskFree(t) \/ AllocDisk(t)
    \/ ReturnGPU(t) \/ ReleaseCPU(t) \/ ReleaseDisk(t)

Next ==
    \/ \E t \in Tasks : Receive(t) \/ Abandon(t) \/ Process(t) \/ Finish(t)
                        \/ Lock(t) \/ Holding(t)
    \/ \E c \in Cards : MarkFailure(c)
    \/ FileSystem

Spec == Init /\ [][Next]_vars

\* A handler goroutine keeps running, a sync.Mutex does not starve a waiter,
\* and every experiment ends: Process bounds it by calcTimeLimit.
Fairness ==
    \A t \in Tasks : /\ WF_vars(Holding(t)) /\ WF_vars(Finish(t))
                     /\ SF_vars(Lock(t))

FairSpec == Spec /\ Fairness
-----------------------------------------------------------------------------
(* Properties.                                                             *)

CardsOf(t) == {a[1] : a \in allocGPU[t]}

\* "Any allocations will take an entire card, we do not break cards across
\* experiments" (cuda.go AllocGPU): no two handlers hold the same card, a
\* handler's card is marked allocated and tracked under the handler's own
\* identifier, and a card is tracked exactly while it is allocated.
CardsExclusive ==
    /\ \A t, u \in Tasks : t # u => CardsOf(t) \cap CardsOf(u) = {}
    /\ \A t \in Tasks : \A a \in allocGPU[t] : a[2] \in Tracking[a[1]]
    /\ \A c \in Cards : Allocated[c] <=> Tracking[c] # {}
    /\ \A c \in Cards : \A i, j \in Tracking[c] : i = j

\* "If any single resource be not available then the ones done so far will be
\* released" (resources.go Alloc): a handler that has no live allocation
\* under way or running holds no card, no cores and no disk.
RefusalHoldsNothing ==
    \A t \in Tasks : pc[t] \in {"idle", "lock", "tested"} => HoldsNothing(t)

SumOver(P(_), amount(_)) ==
    FoldFunction(+, 0, [t \in Tasks |-> IF P(t) THEN amount(t) ELSE 0])

\* The CPU and disk trackers count exactly what the handlers hold, and never
\* more than the soft limits, whatever allocations were refused half way; and
\* an allocated card is in the allocation of some handler, so that it can
\* still come back: Release "returns any allocated resources to the sub system
\* from which they were obtained" (resources.go).
TrackersMatchHolders ==
    /\ \A c \in Cards : Allocated[c] => \E t \in Tasks : c \in CardsOf(t)
    /\ AllocCores = SumOver(LAMBDA t : allocCPU[t], LAMBDA t : rqst[t].cpu)
    /\ AllocMem = SumOver(LAMBDA t : allocCPU[t], LAMBDA t : rqst[t].mem)
    /\ AllocSpace = SumOver(LAMBDA t : allocDisk[t], LAMBDA t : rqst[t].disk)
    /\ AllocCores <= SoftMaxCores /\ AllocMem <= SoftMaxMem

\* Disk reservations leave the headroom of the device: reading the free space
\* and reserving it are two critical sections of the disk tracker, and the
\* subtraction is unsigned (disk.go GetDiskFree: "Before we try to do the math
\* with unsigned ints make sure it wont underflow").
DiskWithinCapacity == AllocSpace + MinFree <= DiskSize \/ AllocSpace = 0

\* From the end of a live Alloc to the start of Release a handler has what its
\* request asked for.
Granted(t) == pc[t] \in {"running", "relock"} \/ (pc[t] = "returnGPU" /\ allocDisk[t])

grant == [t \in {u \in Tasks : Granted(u)} |-> [rqst |-> rqst[t], cards |-> CardsOf(t)]]

Allocation == INSTANCE Allocator WITH grant <- grant

\* Three trackers, a mutex each and error paths at every step notwithstanding,
\* an allocation is atomic: the handlers see an allocator that gives a request
\* as a whole, when there is enough of everything, or not at all
\* (resources.go Alloc and Release, called from cmd/runner/resource.go).
AllocIsAtomic == Allocation!Spec

\* A card that failed is never handed out again, even when the failure is
\* noticed while it is in use (cuda.go MarkFailure, AllocGPU).
NoGrantOfFailedCard ==
    [][\A c \in Cards : EccFailure[c] /\ ~Allocated[c] => ~Allocated'[c]]_vars

\* Every experiment that got its resources eventually has given them all back.
ResourcesComeBack ==
    \A t \in Tasks : pc[t] = "running" ~> (pc[t] = "idle" /\ HoldsNothing(t))
=============================================================================
