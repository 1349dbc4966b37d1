--------------------------- MODULE ResourcesProofs ---------------------------
(***************************************************************************)
(* Proofs about Resources, for any number of tasks, cards and requests,    *)
(* any card inventory (cards with no slots included) and any file system;  *)
(* the theorems on what the trackers count say what they need besides.     *)
(***************************************************************************)
EXTENDS Resources, FiniteSetTheorems, WellFoundedInduction, TLAPS

(* Unsigned arithmetic of the trackers stays in range. *)
LEMMA UintInRange == \A n \in Int : Uint(n) \in 0..(UintRange - 1)
  BY ConstantsAssumption DEF Uint

(* The amounts a request names are unsigned integers. *)
LEMMA RequestAmounts ==
  ASSUME NEW r \in Requests
  PROVE  /\ r.cpu \in 0..(UintRange - 1) /\ r.mem \in 0..(UintRange - 1)
         /\ r.disk \in 0..(UintRange - 1)
  BY ConstantsAssumption

(* GetDiskFree returns an unsigned integer. *)
LEMMA DiskFreeInRange == TypeOK => DiskFree \in 0..(UintRange - 1)
  <1> SUFFICES ASSUME TypeOK PROVE DiskFree \in 0..(UintRange - 1)
    OBVIOUS
  <1> DEFINE highWater == Uint(bavail - MinFree)
  <1>1. highWater \in 0..(UintRange - 1)
    <2>1. bavail - MinFree \in Int
      BY ConstantsAssumption DEF TypeOK
    <2> QED BY <2>1, UintInRange
  <1>2. CASE highWater <= AllocSpace \/ bavail + Reserved < MinFree
    BY <1>2, ConstantsAssumption DEF DiskFree
  <1>3. CASE ~(highWater <= AllocSpace \/ bavail + Reserved < MinFree)
    <2>1. DiskFree = highWater - AllocSpace
      BY <1>3 DEF DiskFree
    <2> HIDE DEF highWater
    <2> QED BY <2>1, <1>1, <1>3, ConstantsAssumption DEF TypeOK
  <1> QED BY <1>2, <1>3

(* Every variable keeps its type: the trackers never leave the range of an  *)
(* unsigned integer and an allocation only names known cards (all of the    *)
(* operations of the trackers).                                             *)
THEOREM TypeCorrect == Spec => []TypeOK
  <1>1. Init => TypeOK
    BY ConstantsAssumption DEF Init, TypeOK, Steps
  <1>2. TypeOK /\ [Next]_vars => TypeOK'
    <2> SUFFICES ASSUME TypeOK, [Next]_vars PROVE TypeOK'
      OBVIOUS
    <2> USE DEF gpuVars, cpuVars, diskVars, holdVars, taskVars, Goto, Unlock
    <2>1. CASE UNCHANGED vars
      BY <2>1 DEF TypeOK, vars
    <2>2. ASSUME NEW t \in Tasks,
                 Receive(t) \/ Abandon(t) \/ Process(t) \/ Finish(t) \/ Lock(t)
          PROVE  TypeOK'
      BY <2>2 DEF TypeOK, Receive, Abandon, Process, Finish, Lock, Steps
    <2>3. ASSUME NEW t \in Tasks, AllocGPU(t) PROVE TypeOK'
      <3>1. /\ Allocated' \in [Cards -> BOOLEAN]
            /\ pc' \in [Tasks -> Steps]
            /\ guardAllocation' \in Tasks \cup {NoTask}
            /\ UNCHANGED <<EccFailure, cpuVars, diskVars, live, rqst,
                           allocCPU, allocDisk, avail>>
        BY <2>3 DEF TypeOK, AllocGPU, Steps
      <3>2. CASE UNCHANGED <<Tracking, allocGPU>>
        BY <3>1, <3>2 DEF TypeOK
      <3>3. CASE \E taken \in SUBSET Cards : \E id \in [taken -> Ids] :
                   /\ Tracking' = [c \in Cards |-> IF c \in taken
                                     THEN Tracking[c] \cup {id[c]} ELSE Tracking[c]]
                   /\ allocGPU' = [allocGPU EXCEPT ![t] = {<<c, id[c]>> : c \in taken}]
        BY <3>1, <3>3 DEF TypeOK
      <3>4. QED
        <4>1. Usable(rqst[t]) \subseteq Cards /\ FreshIds \subseteq Ids
          BY DEF Usable, FreshIds
        <4> QED BY <2>3, <3>2, <3>3, <4>1 DEF AllocGPU, Injection
    <2>4. ASSUME NEW t \in Tasks, AllocCPU(t) PROVE TypeOK'
      <3>1. rqst[t] \in Requests
        BY DEF TypeOK
      <3>2. /\ Uint(AllocCores + rqst[t].cpu) \in 0..(UintRange - 1)
            /\ Uint(AllocMem + rqst[t].mem) \in 0..(UintRange - 1)
        BY <3>1, RequestAmounts, UintInRange DEF TypeOK
      <3> QED BY <2>4, <3>2 DEF AllocCPU, Refused, TypeOK, Steps
    <2>5. ASSUME NEW t \in Tasks, GetDiskFree(t) PROVE TypeOK'
      BY <2>5, DiskFreeInRange DEF GetDiskFree, TypeOK, Steps
    <2>6. ASSUME NEW t \in Tasks, AllocDisk(t) PROVE TypeOK'
      <3>1. rqst[t] \in Requests
        BY DEF TypeOK
      <3>2. Uint(AllocSpace + rqst[t].disk) \in 0..(UintRange - 1)
        BY <3>1, RequestAmounts, UintInRange DEF TypeOK
      <3> QED BY <2>6, <3>2 DEF AllocDisk, Refused, TypeOK, Steps
    <2>7. ASSUME NEW t \in Tasks, ReturnGPU(t) PROVE TypeOK'
      BY <2>7 DEF ReturnGPU, TypeOK, Steps
    <2>8. ASSUME NEW t \in Tasks, ReleaseCPU(t) PROVE TypeOK'
      <3>1. rqst[t] \in Requests
        BY DEF TypeOK
      <3>2. /\ Uint(AllocCores - rqst[t].cpu) \in 0..(UintRange - 1)
            /\ Uint(AllocMem - rqst[t].mem) \in 0..(UintRange - 1)
        BY <3>1, RequestAmounts, UintInRange DEF TypeOK
      <3> QED BY <2>8, <3>2 DEF ReleaseCPU, TypeOK, Steps
    <2>9. ASSUME NEW t \in Tasks, ReleaseDisk(t) PROVE TypeOK'
      <3>1. rqst[t] \in Requests
        BY DEF TypeOK
      <3>2. Uint(AllocSpace - rqst[t].disk) \in 0..(UintRange - 1)
        BY <3>1, RequestAmounts, UintInRange DEF TypeOK
      <3> QED BY <2>9, <3>2 DEF ReleaseDisk, TypeOK, Steps
    <2>10. ASSUME NEW c \in Cards, MarkFailure(c) PROVE TypeOK'
      BY <2>10 DEF MarkFailure, TypeOK
    <2>11. CASE FileSystem
      BY <2>11 DEF FileSystem, TypeOK
    <2>12. QED
      BY <2>1, <2>2, <2>3, <2>4, <2>5, <2>6, <2>7, <2>8, <2>9, <2>10, <2>11
      DEF Next, Holding
  <1>3. QED BY <1>1, <1>2, PTL DEF Spec
-----------------------------------------------------------------------------
(* Cards.                                                                   *)

(* Whatever happens to the other variables, exclusive cards stay exclusive  *)
(* when the GPU tables do not change.                                       *)
LEMMA CardsUntouched ==
  CardsExclusive /\ UNCHANGED <<Allocated, Tracking, allocGPU>> => CardsExclusive'
  BY DEF CardsExclusive, CardsOf

(* No two handlers ever hold the same card, and the tracking table and the  *)
(* handlers' allocations agree (cuda.go AllocGPU, ReturnGPU).  A taken card *)
(* was free, so untracked, so held by nobody; a returned card was tracked   *)
(* under one identifier only, the one that is taken out.                    *)
THEOREM CardsAreExclusive == Spec => []CardsExclusive
  <1>1. Init => CardsExclusive
    BY DEF Init, CardsExclusive, CardsOf
  <1>2. TypeOK /\ CardsExclusive /\ [Next]_vars => CardsExclusive'
    <2> SUFFICES ASSUME TypeOK, CardsExclusive, [Next]_vars PROVE CardsExclusive'
      OBVIOUS
    <2> USE DEF gpuVars, cpuVars, diskVars, holdVars, taskVars
    <2>1. ASSUME NEW t \in Tasks, AllocGPU(t) PROVE CardsExclusive'
      <3>1. CASE UNCHANGED <<Allocated, Tracking, allocGPU>>
        BY <3>1, CardsUntouched
      <3>2. CASE ~UNCHANGED <<Allocated, Tracking, allocGPU>>
        <4>1. PICK taken \in SUBSET Usable(rqst[t]) : \E id \in Injection(taken, FreshIds) :
                /\ Tracking' = [c \in Cards |-> IF c \in taken
                                  THEN Tracking[c] \cup {id[c]} ELSE Tracking[c]]
                /\ allocGPU' = [allocGPU EXCEPT ![t] = {<<c, id[c]>> : c \in taken}]
                /\ Allocated' = [c \in Cards |-> Allocated[c] \/ c \in taken]
          BY <2>1, <3>2 DEF AllocGPU
        <4>2. PICK id \in [taken -> Ids] :
                /\ Tracking' = [c \in Cards |-> IF c \in taken
                                  THEN Tracking[c] \cup {id[c]} ELSE Tracking[c]]
                /\ allocGPU' = [allocGPU EXCEPT ![t] = {<<c, id[c]>> : c \in taken}]
          <5>1. FreshIds \subseteq Ids
            BY DEF FreshIds
          <5>2. Injection(taken, FreshIds) \subseteq [taken -> Ids]
            BY <5>1 DEF Injection
          <5> QED BY <4>1, <5>2
        <4>3. taken \subseteq Cards /\ \A c \in taken : ~Allocated[c] /\ Tracking[c] = {}
          BY <4>1 DEF Usable, CardsExclusive
        <4>4. \A u \in Tasks : CardsOf(u) \cap taken = {}
          BY <4>3 DEF CardsOf, CardsExclusive
        <4>5. CardsOf(t)' = taken /\ \A u \in Tasks \ {t} : CardsOf(u)' = CardsOf(u)
          <5>1. allocGPU'[t] = {<<c, id[c]>> : c \in taken}
            BY <4>2 DEF TypeOK
          <5>2. ASSUME NEW x PROVE x \in {a[1] : a \in allocGPU'[t]} <=> x \in taken
            <6>1. ASSUME x \in taken PROVE \E a \in allocGPU'[t] : x = a[1]
              <7>1. <<x, id[x]>> \in allocGPU'[t] /\ x = <<x, id[x]>>[1]
                BY <5>1, <6>1
              <7> QED BY <7>1
            <6>2. ASSUME NEW a \in allocGPU'[t], x = a[1] PROVE x \in taken
              BY <5>1, <6>2
            <6> QED BY <6>1, <6>2
          <5>3. {a[1] : a \in allocGPU'[t]} = taken
            BY <5>2
          <5>4. \A u \in Tasks \ {t} : allocGPU'[u] = allocGPU[u]
            BY <4>2 DEF TypeOK
          <5> QED BY <5>3, <5>4 DEF CardsOf
        <4>6. \A u, v \in Tasks : u # v => CardsOf(u)' \cap CardsOf(v)' = {}
          BY <4>4, <4>5 DEF CardsExclusive
        <4>7. \A u \in Tasks : \A a \in allocGPU'[u] : a[2] \in Tracking'[a[1]]
          <5>1. \A a \in allocGPU'[t] : a[2] \in Tracking'[a[1]]
            BY <4>2, <4>3 DEF TypeOK
          <5>2. ASSUME NEW u \in Tasks, u # t, NEW a \in allocGPU'[u]
                PROVE  a[2] \in Tracking'[a[1]]
            <6>1. a \in allocGPU[u] /\ a[1] \in Cards /\ a[2] \in Tracking[a[1]]
              BY <5>2, <4>2 DEF TypeOK, CardsExclusive
            <6> QED BY <6>1, <4>2 DEF TypeOK
          <5> QED BY <5>1, <5>2
        <4>8. \A c \in Cards : Allocated'[c] <=> Tracking'[c] # {}
          BY <4>1, <4>2 DEF CardsExclusive, TypeOK
        <4>9. \A c \in Cards : \A i, j \in Tracking'[c] : i = j
          BY <4>2, <4>3 DEF CardsExclusive, TypeOK
        <4> QED BY <4>6, <4>7, <4>8, <4>9 DEF CardsExclusive
      <3> QED BY <3>1, <3>2
    <2>2. ASSUME NEW t \in Tasks, ReturnGPU(t) PROVE CardsExclusive'
      <3> DEFINE back == Returned(allocGPU[t])
      <3>1. /\ allocGPU' = [allocGPU EXCEPT ![t] = {}]
            /\ Allocated' = [c \in Cards |-> Allocated[c] /\ c \notin back]
            /\ Tracking' = [c \in Cards |-> IF c \in back
                              THEN Tracking[c] \ {id \in Ids : <<c, id>> \in allocGPU[t]}
                              ELSE Tracking[c]]
        BY <2>2 DEF ReturnGPU
      <3>2. back \subseteq CardsOf(t)
        <4> SUFFICES ASSUME NEW c \in back PROVE c \in CardsOf(t)
          OBVIOUS
        <4>1. PICK id : <<c, id>> \in allocGPU[t]
          BY DEF Returned
        <4>2. <<c, id>>[1] = c
          OBVIOUS
        <4> QED BY <4>1, <4>2 DEF CardsOf
      <3>3. \A c \in back : Tracking'[c] = {}
        <4> SUFFICES ASSUME NEW c \in back PROVE Tracking'[c] = {}
          OBVIOUS
        <4>1. c \in Cards /\ \E id \in Tracking[c] : <<c, id>> \in allocGPU[t]
          BY DEF Returned
        <4>2. PICK id \in Tracking[c] : <<c, id>> \in allocGPU[t]
          BY <4>1
        <4>3. Tracking[c] = {id} /\ id \in Ids
          BY <4>1, <4>2 DEF CardsExclusive, TypeOK
        <4>4. Tracking'[c] = Tracking[c] \ {i \in Ids : <<c, i>> \in allocGPU[t]}
          BY <4>1, <3>1
        <4> QED BY <4>2, <4>3, <4>4
      <3>4. CardsOf(t)' = {} /\ \A u \in Tasks \ {t} : CardsOf(u)' = CardsOf(u)
        BY <3>1 DEF CardsOf, TypeOK
      <3>5. \A u, v \in Tasks : u # v => CardsOf(u)' \cap CardsOf(v)' = {}
        BY <3>4 DEF CardsExclusive
      <3>6. ASSUME NEW u \in Tasks, NEW a \in allocGPU'[u]
            PROVE  a[2] \in Tracking'[a[1]]
        <4>1. u # t /\ a \in allocGPU[u]
          BY <3>6, <3>1 DEF TypeOK
        <4>2. a[1] \in Cards /\ a[1] \in CardsOf(u) /\ a[2] \in Tracking[a[1]]
          BY <4>1 DEF TypeOK, CardsOf, CardsExclusive
        <4>3. a[1] \notin back
          BY <4>1, <4>2, <3>2 DEF CardsExclusive
        <4> QED BY <4>2, <4>3, <3>1
      <3>7. \A c \in Cards : Allocated'[c] <=> Tracking'[c] # {}
        BY <3>1, <3>3 DEF CardsExclusive, TypeOK
      <3>8. \A c \in Cards : \A i, j \in Tracking'[c] : i = j
        BY <3>1, <3>3 DEF CardsExclusive, TypeOK
      <3> QED BY <3>5, <3>6, <3>7, <3>8 DEF CardsExclusive
    <2>3. ASSUME ~(\E t \in Tasks : AllocGPU(t) \/ ReturnGPU(t))
          PROVE  UNCHANGED <<Allocated, Tracking, allocGPU>>
      BY <2>3 DEF Next, Holding, vars, Receive, Abandon, Process, Finish, Lock,
                  AllocCPU, GetDiskFree, AllocDisk, ReleaseCPU, ReleaseDisk,
                  MarkFailure, FileSystem
    <2>4. QED BY <2>1, <2>2, <2>3, CardsUntouched
  <1>3. QED BY <1>1, <1>2, TypeCorrect, PTL DEF Spec
-----------------------------------------------------------------------------
(* A refused or tested allocation.                                          *)

(* How much of the allocation exists at each step of Alloc and Release: the *)
(* strengthening that makes RefusalHoldsNothing inductive.                  *)
HoldProgress ==
    \A t \in Tasks :
      /\ pc[t] \in {"idle", "lock", "tested", "gpu"} => HoldsNothing(t)
      /\ pc[t] \in {"cpu", "statfs", "disk"} /\ ~live[t] => HoldsNothing(t)
      /\ pc[t] = "cpu" => ~allocCPU[t]
      /\ pc[t] \in {"cpu", "statfs", "disk"} => ~allocDisk[t]
      /\ pc[t] \in {"returnCPU", "returnDisk"} => allocGPU[t] = {}
      /\ pc[t] = "returnDisk" => ~allocCPU[t]

(* HoldProgress is inductive: one step per action of a handler.             *)
LEMMA HoldProgressStep == TypeOK /\ HoldProgress /\ [Next]_vars => HoldProgress'
  <1> SUFFICES ASSUME TypeOK, HoldProgress, [Next]_vars PROVE HoldProgress'
    OBVIOUS
  <1> USE DEF gpuVars, cpuVars, diskVars, holdVars, taskVars, Goto, HoldProgress,
              HoldsNothing, TypeOK
  <1>1. CASE UNCHANGED taskVars
    BY <1>1
  <1>2. ASSUME NEW t \in Tasks,
               Receive(t) \/ Abandon(t) \/ Process(t) \/ Finish(t) \/ Lock(t)
        PROVE  HoldProgress'
    BY <1>2 DEF Receive, Abandon, Process, Finish, Lock
  <1>3. ASSUME NEW t \in Tasks, AllocGPU(t) PROVE HoldProgress'
    <2>1. /\ \A u \in Tasks \ {t} : pc'[u] = pc[u] /\ allocGPU'[u] = allocGPU[u]
          /\ UNCHANGED <<live, allocCPU, allocDisk>>
          /\ pc[t] = "gpu"
          /\ \/ pc'[t] \in {"cpu", "idle"} /\ allocGPU'[t] = allocGPU[t]
             \/ pc'[t] = "cpu" /\ live[t]
      BY <1>3 DEF AllocGPU
    <2> QED BY <2>1
  <1>4. ASSUME NEW t \in Tasks, AllocCPU(t) PROVE HoldProgress'
    BY <1>4 DEF AllocCPU, Refused
  <1>5. ASSUME NEW t \in Tasks, GetDiskFree(t) \/ AllocDisk(t) PROVE HoldProgress'
    BY <1>5 DEF GetDiskFree, AllocDisk, Refused
  <1>6. ASSUME NEW t \in Tasks, ReturnGPU(t) \/ ReleaseCPU(t) \/ ReleaseDisk(t)
        PROVE  HoldProgress'
    BY <1>6 DEF ReturnGPU, ReleaseCPU, ReleaseDisk
  <1>7. QED
    BY <1>1, <1>2, <1>3, <1>4, <1>5, <1>6 DEF Next, Holding, MarkFailure, FileSystem, vars

(* A refused allocation, a test and a handler that waits hold nothing: the  *)
(* Release on the error paths of Alloc gives back all that was taken        *)
(* (resources.go Alloc).                                                    *)
THEOREM RefusalReleases == Spec => []RefusalHoldsNothing
  <1>1. Init => HoldProgress
    BY DEF Init, HoldProgress, HoldsNothing
  <1>2. HoldProgress => RefusalHoldsNothing
    BY DEF HoldProgress, RefusalHoldsNothing
  <1>3. QED BY <1>1, <1>2, HoldProgressStep, TypeCorrect, PTL DEF Spec
-----------------------------------------------------------------------------
(* Action properties.                                                       *)

(* A card whose failure was noticed is never given to a handler again       *)
(* (cuda.go MarkFailure, AllocGPU).                                         *)
THEOREM FailedCardsStayOut == Spec => NoGrantOfFailedCard
  <1>1. ASSUME TypeOK, [Next]_vars, NEW c \in Cards, EccFailure[c], ~Allocated[c]
        PROVE  ~Allocated'[c]
    <2> USE <1>1 DEF gpuVars, cpuVars, diskVars, holdVars, taskVars
    <2>1. ASSUME NEW t \in Tasks, AllocGPU(t) PROVE ~Allocated'[c]
      <3>1. c \notin Usable(rqst[t])
        BY DEF Usable
      <3> QED BY <2>1, <3>1 DEF AllocGPU
    <2>2. ASSUME NEW t \in Tasks, ReturnGPU(t) PROVE ~Allocated'[c]
      BY <2>2 DEF ReturnGPU
    <2>3. CASE ~(\E t \in Tasks : AllocGPU(t) \/ ReturnGPU(t))
      <3>1. Allocated' = Allocated
        BY <2>3 DEF Next, Holding, vars, Receive, Abandon, Process, Finish, Lock,
                    AllocCPU, GetDiskFree, AllocDisk, ReleaseCPU, ReleaseDisk,
                    MarkFailure, FileSystem
      <3> QED BY <3>1
    <2> QED BY <2>1, <2>2, <2>3
  <1>2. TypeOK /\ [Next]_vars =>
          [\A c \in Cards : EccFailure[c] /\ ~Allocated[c] => ~Allocated'[c]]_vars
    BY <1>1
  <1>3. QED BY <1>2, TypeCorrect, PTL DEF Spec, NoGrantOfFailedCard
-----------------------------------------------------------------------------
(* Sums over finite sets.  A sum is folded in an unspecified order: what it *)
(* is over a subset of the set is shown by taking a minimal subset for      *)
(* which it would fail.                                                     *)

Total(f) == FoldFunction(+, 0, f)

Pick(s) == CHOOSE x \in s : TRUE

(* g gives, for each subset of S, the sum of f over it.                     *)
IsSum(g, f, S) ==
    g = [s \in SUBSET S |-> IF s = {} THEN 0 ELSE f[Pick(s)] + g[s \ {Pick(s)}]]

Sums(f, S) == CHOOSE g : IsSum(g, f, S)

LEMMA FoldIsSum == \A f : Total(f) = Sums(f, DOMAIN f)[DOMAIN f]
  BY Zenon DEF Total, FoldFunction, FoldFunctionOnSet, MapThenFoldSet, Sums, IsSum, Pick

(* A nonempty set of subsets of a finite set has a minimal one.             *)
LEMMA MinimalSet ==
  ASSUME NEW T, IsFiniteSet(T), NEW B \in SUBSET SUBSET T, B # {}
  PROVE  \E s \in B : \A u \in SUBSET s : u # s => u \notin B
  <1>1. IsWellFoundedOn(StrictSubsetOrdering(T), SUBSET T)
    BY FS_StrictSubsetOrderingWellFounded, FS_FiniteSubsetsOfFinite
  <1>2. PICK s \in B : \A u \in B : ~(<<u, s>> \in StrictSubsetOrdering(T))
    BY <1>1, WFMin
  <1> QED BY <1>2 DEF StrictSubsetOrdering

(* What the definition says of one set.                                     *)
LEMMA SumStep ==
  ASSUME NEW f, NEW S, NEW g, IsSum(g, f, S), NEW s \in SUBSET S
  PROVE  /\ s = {} => g[s] = 0
         /\ s # {} => Pick(s) \in s /\ g[s] = f[Pick(s)] + g[s \ {Pick(s)}]
  <1>1. s # {} => Pick(s) \in s
    BY DEF Pick
  <1>2. g[s] = IF s = {} THEN 0 ELSE f[Pick(s)] + g[s \ {Pick(s)}]
    BY Zenon DEF IsSum
  <1> QED BY <1>1, <1>2

(* The sum over a set depends on the values in it only.                     *)
LEMMA SumAgree ==
  ASSUME NEW T, IsFiniteSet(T),
         NEW f, NEW S \in SUBSET T, NEW g, IsSum(g, f, S),
         NEW h, NEW R \in SUBSET T, NEW k, IsSum(k, h, R),
         NEW s, s \subseteq S, s \subseteq R, \A x \in s : f[x] = h[x]
  PROVE  g[s] = k[s]
  <1> DEFINE B == {u \in SUBSET s : g[u] # k[u]}
  <1>1. SUFFICES ASSUME B # {} PROVE FALSE
    OBVIOUS
  <1>2. B \in SUBSET SUBSET T
    OBVIOUS
  <1>3. PICK u \in B : \A v \in SUBSET u : v # u => v \notin B
    <2> HIDE DEF B
    <2> QED BY <1>1, <1>2, MinimalSet
  <1>4. u \in SUBSET S /\ u \in SUBSET R /\ u \subseteq s /\ g[u] # k[u]
    OBVIOUS
  <1>5. /\ u = {} => g[u] = 0
        /\ u # {} => Pick(u) \in u /\ g[u] = f[Pick(u)] + g[u \ {Pick(u)}]
    BY <1>4, SumStep
  <1>6. /\ u = {} => k[u] = 0
        /\ u # {} => Pick(u) \in u /\ k[u] = h[Pick(u)] + k[u \ {Pick(u)}]
    BY <1>4, SumStep
  <1>7. u # {}
    BY <1>4, <1>5, <1>6
  <1> DEFINE v == u \ {Pick(u)}
  <1>8. g[v] = k[v]
    <2>1. v \in SUBSET u /\ v # u /\ v \in SUBSET s
      BY <1>4, <1>5, <1>7
    <2> QED BY <1>3, <2>1
  <1>9. f[Pick(u)] = h[Pick(u)]
    BY <1>4, <1>5, <1>7
  <1> QED BY <1>4, <1>5, <1>6, <1>7, <1>8, <1>9

(* Sums of a finite set are well defined.                                   *)
LEMMA SumExists ==
  ASSUME NEW T, IsFiniteSet(T), NEW f, NEW S \in SUBSET T
  PROVE  IsSum(Sums(f, S), f, S)
  <1> DEFINE B == {U \in SUBSET T : ~IsSum(Sums(f, U), f, U)}
  <1>1. SUFFICES ASSUME B # {} PROVE FALSE
    OBVIOUS
  <1>2. B \in SUBSET SUBSET T
    OBVIOUS
  <1>3. PICK U \in B : \A v \in SUBSET U : v # U => v \notin B
    <2> HIDE DEF B
    <2> QED BY <1>1, <1>2, MinimalSet
  <1>4. U \in SUBSET T /\ ~IsSum(Sums(f, U), f, U)
    OBVIOUS
  <1>5. \A v \in SUBSET U : v # U => IsSum(Sums(f, v), f, v)
    BY <1>3, <1>4
  <1> DEFINE Rest(s) == s \ {Pick(s)}
             Last(s) == IF s = {} THEN 0 ELSE f[Pick(s)] + Sums(f, Rest(s))[Rest(s)]
             G == [s \in SUBSET U |-> Last(s)]
  <1>6. ASSUME NEW s \in SUBSET U, s # {} PROVE Last(s) = f[Pick(s)] + G[Rest(s)]
    <2>1. Pick(s) \in s
      BY <1>6 DEF Pick
    <2> DEFINE r == Rest(s)
    <2>2. r \in SUBSET U /\ r # U /\ IsSum(Sums(f, r), f, r)
      BY <1>5, <2>1
    <2>3. /\ r = {} => Sums(f, r)[r] = 0
          /\ r # {} => Pick(r) \in r /\ Sums(f, r)[r] = f[Pick(r)] + Sums(f, r)[Rest(r)]
      <3> HIDE DEF r
      <3> DEFINE k == Sums(f, r)
      <3>1. IsSum(k, f, r)
        BY <2>2
      <3> HIDE DEF k
      <3>2. /\ r = {} => k[r] = 0
            /\ r # {} => Pick(r) \in r /\ k[r] = f[Pick(r)] + k[r \ {Pick(r)}]
        BY <3>1, SumStep
      <3> QED BY <3>2 DEF k
    <2>4. r # {} => Sums(f, r)[Rest(r)] = Sums(f, Rest(r))[Rest(r)]
      <3> SUFFICES ASSUME r # {} PROVE Sums(f, r)[Rest(r)] = Sums(f, Rest(r))[Rest(r)]
        OBVIOUS
      <3> DEFINE q == Rest(r)
      <3>1. q \in SUBSET U /\ q # U /\ q \subseteq r
        BY <2>2, <2>3
      <3>2. IsSum(Sums(f, q), f, q)
        BY <1>5, <3>1
      <3>3. r \in SUBSET T /\ q \in SUBSET T
        BY <1>4, <2>2, <3>1
      <3> HIDE DEF q, r
      <3> QED BY <2>2, <3>1, <3>2, <3>3, SumAgree DEF q
    <2>5. Sums(f, r)[r] = Last(r)
      BY <2>3, <2>4
    <2>6. G[r] = Last(r)
      BY <2>2
    <2> QED BY <1>6, <2>5, <2>6
  <1>7. G = [s \in SUBSET U |-> IF s = {} THEN 0 ELSE f[Pick(s)] + G[s \ {Pick(s)}]]
    BY <1>6
  <1>8. IsSum(G, f, U)
    BY <1>7 DEF IsSum
  <1> HIDE DEF G
  <1>9. IsSum(Sums(f, U), f, U)
    BY <1>8, Zenon DEF Sums
  <1> QED BY <1>4, <1>9

(* Any element can be taken out of the sum.                                 *)
LEMMA SumSplit ==
  ASSUME NEW T, IsFiniteSet(T), NEW f \in [T -> Nat], NEW g, IsSum(g, f, T),
         NEW s \in SUBSET T
  PROVE  /\ g[s] \in Nat
         /\ \A x \in s : g[s] = f[x] + g[s \ {x}]
  <1> DEFINE Good(u) == g[u] \in Nat /\ \A x \in u : g[u] = f[x] + g[u \ {x}]
             B == {u \in SUBSET T : ~Good(u)}
  <1>1. SUFFICES ASSUME B # {} PROVE FALSE
    OBVIOUS
  <1>2. B \in SUBSET SUBSET T
    OBVIOUS
  <1>3. PICK u \in B : \A v \in SUBSET u : v # u => v \notin B
    <2> HIDE DEF B
    <2> QED BY <1>1, <1>2, MinimalSet
  <1>4. u \in SUBSET T /\ ~Good(u)
    OBVIOUS
  <1>5. \A v \in SUBSET u : v # u => Good(v)
    BY <1>3, <1>4
  <1>6. /\ u = {} => g[u] = 0
        /\ u # {} => Pick(u) \in u /\ g[u] = f[Pick(u)] + g[u \ {Pick(u)}]
    BY <1>4, SumStep
  <1>7. u # {}
    BY <1>4, <1>6
  <1> DEFINE p == Pick(u)
  <1> HIDE DEF p, B
  <1>8. p \in u /\ g[u] = f[p] + g[u \ {p}] /\ p \in T /\ f[p] \in Nat
    BY <1>4, <1>6, <1>7 DEF p
  <1>9. Good(u \ {p})
    BY <1>5, <1>8
  <1>10. g[u] \in Nat
    BY <1>8, <1>9
  <1>11. ASSUME NEW x \in u PROVE g[u] = f[x] + g[u \ {x}]
    <2>1. CASE x = p
      BY <1>8, <2>1
    <2>2. CASE x # p
      <3>1. Good(u \ {x})
        BY <1>5
      <3>2. g[u \ {p}] = f[x] + g[(u \ {p}) \ {x}]
        BY <1>9, <2>2
      <3>3. g[u \ {x}] = f[p] + g[(u \ {x}) \ {p}]
        BY <1>8, <2>2, <3>1
      <3>4. (u \ {p}) \ {x} = (u \ {x}) \ {p}
        OBVIOUS
      <3>5. Good((u \ {x}) \ {p}) /\ x \in T /\ f[x] \in Nat
        BY <1>4, <1>5, <1>8, <2>2
      <3> DEFINE a == g[(u \ {x}) \ {p}]  b == f[x]  c == f[p]
      <3>6. a \in Nat /\ b \in Nat /\ c \in Nat
        BY <1>8, <3>5
      <3>7. g[u] = c + g[u \ {p}] /\ g[u \ {p}] = b + a /\ g[u \ {x}] = c + a
        BY <1>8, <3>2, <3>3, <3>4
      <3>8. c + (b + a) = b + (c + a)
        <4> HIDE DEF a, b, c
        <4> QED BY <3>6
      <3> QED BY <3>7, <3>8
    <2> QED BY <2>1, <2>2
  <1> QED BY <1>4, <1>10, <1>11

(* What changes in a sum when one of its terms does.                        *)
LEMMA SumChange ==
  ASSUME NEW T, IsFiniteSet(T), NEW f \in [T -> Nat], NEW h \in [T -> Nat],
         NEW t \in T, \A x \in T \ {t} : h[x] = f[x]
  PROVE  /\ Total(f) \in Nat /\ Total(h) \in Nat
         /\ Total(h) = Total(f) - f[t] + h[t]
         /\ Total(f) >= f[t]
  <1> DEFINE g == Sums(f, T)  k == Sums(h, T)
  <1>1. Total(f) = g[T] /\ Total(h) = k[T]
    BY FoldIsSum
  <1>2. IsSum(g, f, T) /\ IsSum(k, h, T)
    BY SumExists
  <1> HIDE DEF g, k
  <1>3. /\ g[T] \in Nat /\ g[T] = f[t] + g[T \ {t}] /\ g[T \ {t}] \in Nat
    BY <1>2, SumSplit
  <1>4. /\ k[T] \in Nat /\ k[T] = h[t] + k[T \ {t}] /\ k[T \ {t}] \in Nat
    <2>1. T \in SUBSET T /\ T \ {t} \in SUBSET T
      OBVIOUS
    <2>2. k[T] \in Nat /\ \A x \in T : k[T] = h[x] + k[T \ {x}]
      BY <1>2, <2>1, SumSplit
    <2>3. k[T \ {t}] \in Nat
      BY <1>2, <2>1, SumSplit
    <2> QED BY <2>2, <2>3
  <1>5. k[T \ {t}] = g[T \ {t}]
    BY <1>2, SumAgree
  <1> DEFINE a == g[T \ {t}]  b == f[t]  c == h[t]
  <1>6. a \in Nat /\ b \in Nat /\ c \in Nat /\ g[T] = b + a /\ k[T] = c + a
    BY <1>3, <1>4, <1>5
  <1>7. k[T] = g[T] - b + c /\ g[T] >= b
    <2> HIDE DEF a, b, c
    <2> QED BY <1>6
  <1> QED BY <1>1, <1>3, <1>4, <1>7

(* A sum of nothing.                                                        *)
LEMMA SumZero ==
  ASSUME NEW T, IsFiniteSet(T), NEW f, DOMAIN f = T, \A x \in T : f[x] = 0
  PROVE  Total(f) = 0
  <1>1. PICK g : Total(f) = g[T] /\ IsSum(g, f, T)
    BY FoldIsSum, SumExists
  <1> DEFINE B == {u \in SUBSET T : g[u] # 0}
  <1>2. SUFFICES ASSUME B # {} PROVE FALSE
    BY <1>1
  <1>3. B \in SUBSET SUBSET T
    OBVIOUS
  <1>4. PICK u \in B : \A v \in SUBSET u : v # u => v \notin B
    <2> HIDE DEF B
    <2> QED BY <1>2, <1>3, MinimalSet
  <1>5. u # {} /\ Pick(u) \in u /\ g[u] = f[Pick(u)] + g[u \ {Pick(u)}] /\ g[u] # 0
    <2>1. u \in SUBSET T /\ g[u] # 0
      OBVIOUS
    <2>2. /\ u = {} => g[u] = 0
          /\ u # {} => Pick(u) \in u /\ g[u] = f[Pick(u)] + g[u \ {Pick(u)}]
      BY <1>1, <2>1, SumStep
    <2> QED BY <2>1, <2>2
  <1>6. g[u \ {Pick(u)}] = 0
    BY <1>4, <1>5
  <1>7. f[Pick(u)] = 0
    BY <1>5
  <1> QED BY <1>5, <1>6, <1>7
-----------------------------------------------------------------------------
(* What the trackers count.                                                 *)

(* What each handler holds.                                                 *)
Cores == [t \in Tasks |-> IF allocCPU[t] THEN rqst[t].cpu ELSE 0]
Mems  == [t \in Tasks |-> IF allocCPU[t] THEN rqst[t].mem ELSE 0]
Space == [t \in Tasks |-> IF allocDisk[t] THEN rqst[t].disk ELSE 0]

LEMMA UintSame == \A n \in 0..(UintRange - 1) : Uint(n) = n
  BY ConstantsAssumption DEF Uint

LEMMA TermsTyped ==
  ASSUME TypeOK
  PROVE  Cores \in [Tasks -> Nat] /\ Mems \in [Tasks -> Nat] /\ Space \in [Tasks -> Nat]
  <1>1. \A t \in Tasks : rqst[t].cpu \in Nat /\ rqst[t].mem \in Nat /\ rqst[t].disk \in Nat
    BY RequestAmounts, ConstantsAssumption DEF TypeOK
  <1> QED BY <1>1 DEF Cores, Mems, Space, TypeOK

(* Between Lock and Unlock a handler holds guardAllocation.                 *)
Guarded ==
    \A t \in Tasks : pc[t] \in {"gpu", "cpu", "statfs", "disk", "returnGPU",
                                "returnCPU", "returnDisk"} => guardAllocation = t

LEMMA GuardedStep == TypeOK /\ Guarded /\ [Next]_vars => Guarded'
  <1> SUFFICES ASSUME TypeOK, Guarded, [Next]_vars PROVE Guarded'
    OBVIOUS
  <1> USE ConstantsAssumption DEF Guarded, TypeOK, gpuVars, cpuVars, diskVars, holdVars,
          taskVars, Goto, Unlock
  <1>1. CASE UNCHANGED <<pc, guardAllocation>>
    BY <1>1
  <1>2. ASSUME NEW t \in Tasks,
               Receive(t) \/ Abandon(t) \/ Process(t) \/ Finish(t) \/ Lock(t)
        PROVE  Guarded'
    BY <1>2 DEF Receive, Abandon, Process, Finish, Lock
  <1>3. ASSUME NEW t \in Tasks, AllocGPU(t) PROVE Guarded'
    BY <1>3 DEF AllocGPU
  <1>4. ASSUME NEW t \in Tasks, AllocCPU(t) \/ GetDiskFree(t) \/ AllocDisk(t) PROVE Guarded'
    BY <1>4 DEF AllocCPU, GetDiskFree, AllocDisk, Refused
  <1>5. ASSUME NEW t \in Tasks, ReturnGPU(t) \/ ReleaseCPU(t) \/ ReleaseDisk(t)
        PROVE  Guarded'
    BY <1>5 DEF ReturnGPU, ReleaseCPU, ReleaseDisk
  <1> QED BY <1>1, <1>2, <1>3, <1>4, <1>5 DEF Next, Holding, MarkFailure, FileSystem, vars

(* guardAllocation is held by a handler between Lock and Unlock, or free.    *)
HolderAtWork ==
    guardAllocation # NoTask =>
       pc[guardAllocation] \in {"gpu", "cpu", "statfs", "disk", "returnGPU",
                                "returnCPU", "returnDisk"}

(* The mutex of the allocations is never left locked: on every way out of   *)
(* Alloc and Release, refusals included, its holder unlocks it, and only    *)
(* then (cmd/runner/resource.go allocResource, deallocResource).            *)
THEOREM MutexIsReturned == Spec => [](Guarded /\ HolderAtWork)
  <1>1. Init => Guarded /\ HolderAtWork
    BY DEF Init, Guarded, HolderAtWork
  <1>2. TypeOK /\ Guarded /\ HolderAtWork /\ [Next]_vars => HolderAtWork'
    <2> SUFFICES ASSUME TypeOK, Guarded, HolderAtWork, [Next]_vars PROVE HolderAtWork'
      OBVIOUS
    <2> USE ConstantsAssumption DEF Guarded, HolderAtWork, TypeOK, gpuVars, cpuVars,
            diskVars, holdVars, taskVars, Goto, Unlock
    <2>1. CASE UNCHANGED <<pc, guardAllocation>>
      BY <2>1
    <2>2. ASSUME NEW t \in Tasks,
                 Receive(t) \/ Abandon(t) \/ Process(t) \/ Finish(t) \/ Lock(t)
          PROVE  HolderAtWork'
      BY <2>2 DEF Receive, Abandon, Process, Finish, Lock
    <2>3. ASSUME NEW t \in Tasks, AllocGPU(t) PROVE HolderAtWork'
      BY <2>3 DEF AllocGPU
    <2>4. ASSUME NEW t \in Tasks, AllocCPU(t) \/ GetDiskFree(t) \/ AllocDisk(t)
          PROVE  HolderAtWork'
      BY <2>4 DEF AllocCPU, GetDiskFree, AllocDisk, Refused
    <2>5. ASSUME NEW t \in Tasks, ReturnGPU(t) \/ ReleaseCPU(t) \/ ReleaseDisk(t)
          PROVE  HolderAtWork'
      BY <2>5 DEF ReturnGPU, ReleaseCPU, ReleaseDisk
    <2> QED BY <2>1, <2>2, <2>3, <2>4, <2>5
            DEF Next, Holding, MarkFailure, FileSystem, vars
  <1> QED BY <1>1, <1>2, GuardedStep, TypeCorrect, PTL DEF Spec

(* The trackers' counters are the totals of what the handlers hold, within  *)
(* the limits, and a handler that is about to reserve disk space has read   *)
(* an amount that still does not wrap.                                      *)
Counted ==
    /\ AllocCores = Total(Cores) /\ AllocCores <= SoftMaxCores
    /\ AllocMem = Total(Mems) /\ AllocMem <= SoftMaxMem
    /\ AllocSpace = Total(Space)
    /\ \A t \in Tasks : pc[t] = "disk" => avail[t] + AllocSpace < UintRange

(* A request does not overflow the counter it is added to.                  *)
NoOverflow ==
    \A r \in Requests : /\ r.cpu + SoftMaxCores < UintRange
                        /\ r.mem + SoftMaxMem < UintRange

LEMMA DiskFreeFits == TypeOK => DiskFree + AllocSpace < UintRange
  <1> SUFFICES ASSUME TypeOK PROVE DiskFree + AllocSpace < UintRange
    OBVIOUS
  <1> DEFINE highWater == Uint(bavail - MinFree)
  <1>1. highWater \in 0..(UintRange - 1)
    <2>1. bavail - MinFree \in Int
      BY ConstantsAssumption DEF TypeOK
    <2> QED BY <2>1, UintInRange
  <1>2. DiskFree = 0 \/ DiskFree = highWater - AllocSpace
    BY DEF DiskFree
  <1> HIDE DEF highWater
  <1> QED BY <1>1, <1>2, ConstantsAssumption DEF TypeOK

LEMMA CountedStep ==
  ASSUME IsFiniteSet(Tasks), NoOverflow,
         TypeOK, HoldProgress, Guarded, Counted, [Next]_vars
  PROVE  Counted'
  <1> USE DEF gpuVars, cpuVars, diskVars, holdVars, taskVars, Goto
  (* Steps that move no counter and no allocation.                          *)
  <1>1. ASSUME UNCHANGED <<AllocCores, AllocMem, AllocSpace, allocCPU, allocDisk>>,
               \A t \in Tasks : rqst'[t] # rqst[t] => ~allocCPU[t] /\ ~allocDisk[t],
               \A t \in Tasks : pc'[t] = "disk" =>
                  \/ pc[t] = "disk" /\ avail'[t] = avail[t]
                  \/ avail'[t] = DiskFree
        PROVE  Counted'
    <2>1. Cores' = Cores /\ Mems' = Mems /\ Space' = Space
      BY <1>1 DEF Cores, Mems, Space
    <2>2. \A t \in Tasks : pc'[t] = "disk" => avail'[t] + AllocSpace < UintRange
      BY <1>1, DiskFreeFits DEF Counted
    <2> QED BY <1>1, <2>1, <2>2 DEF Counted
  <1>2. CASE UNCHANGED vars
    BY <1>1, <1>2 DEF vars
  <1>3. ASSUME NEW t \in Tasks,
               Receive(t) \/ Abandon(t) \/ Process(t) \/ Finish(t) \/ Lock(t)
        PROVE  Counted'
    <2>1. /\ UNCHANGED <<AllocCores, AllocMem, AllocSpace, allocCPU, allocDisk, avail>>
          /\ \A u \in Tasks : pc'[u] = "disk" => pc[u] = "disk"
      BY <1>3 DEF Receive, Abandon, Process, Finish, Lock, TypeOK
    <2>2. \A u \in Tasks : rqst'[u] # rqst[u] => ~allocCPU[u] /\ ~allocDisk[u]
      BY <1>3 DEF Receive, Abandon, Process, Finish, Lock, TypeOK, HoldProgress, HoldsNothing
    <2> QED BY <1>1, <2>1, <2>2
  <1>4. ASSUME NEW t \in Tasks, AllocGPU(t) \/ ReturnGPU(t) PROVE Counted'
    <2>1. /\ UNCHANGED <<AllocCores, AllocMem, AllocSpace, allocCPU, allocDisk, avail, rqst>>
          /\ \A u \in Tasks : pc'[u] = "disk" => pc[u] = "disk"
      BY <1>4 DEF AllocGPU, ReturnGPU, TypeOK
    <2> QED BY <1>1, <2>1
  <1>5. ASSUME NEW t \in Tasks, GetDiskFree(t) PROVE Counted'
    <2>1. /\ UNCHANGED <<AllocCores, AllocMem, AllocSpace, allocCPU, allocDisk, rqst>>
          /\ avail'[t] = DiskFree /\ \A u \in Tasks \ {t} : avail'[u] = avail[u] /\ pc'[u] = pc[u]
      BY <1>5 DEF GetDiskFree, TypeOK
    <2> QED BY <1>1, <2>1
  <1>6. ASSUME NEW t \in Tasks, AllocCPU(t) PROVE Counted'
    <2>1. /\ UNCHANGED <<AllocSpace, allocDisk, avail, rqst>>
          /\ \A u \in Tasks : pc'[u] = "disk" => pc[u] = "disk"
      BY <1>6 DEF AllocCPU, Refused, TypeOK
    <2>2. CASE UNCHANGED <<AllocCores, AllocMem, allocCPU>>
      BY <1>1, <2>1, <2>2
    <2>3. CASE /\ FitsCPU(rqst[t])
               /\ AllocCores' = Uint(AllocCores + rqst[t].cpu)
               /\ AllocMem' = Uint(AllocMem + rqst[t].mem)
               /\ allocCPU' = [allocCPU EXCEPT ![t] = TRUE]
      <3>1. ~allocCPU[t]
        BY <1>6 DEF AllocCPU, HoldProgress
      <3> DEFINE r == rqst[t]
      <3>2. r \in Requests
        BY DEF TypeOK
      <3>3. /\ r.cpu \in Nat /\ r.mem \in Nat
            /\ r.cpu + SoftMaxCores < UintRange /\ r.mem + SoftMaxMem < UintRange
        BY <3>2, RequestAmounts, ConstantsAssumption DEF NoOverflow
      <3>4. /\ Cores' \in [Tasks -> Nat] /\ Cores[t] = 0 /\ Cores'[t] = r.cpu
            /\ \A u \in Tasks \ {t} : Cores'[u] = Cores[u]
        BY <2>1, <2>3, <3>1, <3>3, TermsTyped DEF Cores, TypeOK
      <3>5. /\ Mems' \in [Tasks -> Nat] /\ Mems[t] = 0 /\ Mems'[t] = r.mem
            /\ \A u \in Tasks \ {t} : Mems'[u] = Mems[u]
        BY <2>1, <2>3, <3>1, <3>3, TermsTyped DEF Mems, TypeOK
      <3>6. Space' = Space
        BY <2>1 DEF Space
      <3> HIDE DEF r
      <3>7. Total(Cores') = Total(Cores) - 0 + r.cpu /\ Total(Cores) \in Nat
        <4>1. Total(Cores') = Total(Cores) - Cores[t] + Cores'[t] /\ Total(Cores) \in Nat
          BY <3>4, TermsTyped, SumChange
        <4> QED BY <3>4, <4>1
      <3>8. Total(Mems') = Total(Mems) - 0 + r.mem /\ Total(Mems) \in Nat
        BY <3>5, TermsTyped, SumChange
      <3>9. /\ AllocCores + r.cpu \in 0..(UintRange - 1)
            /\ AllocMem + r.mem \in 0..(UintRange - 1)
        BY <3>3, ConstantsAssumption DEF Counted, TypeOK
      <3>10. AllocCores' = AllocCores + r.cpu /\ AllocMem' = AllocMem + r.mem
        BY <2>3, <3>9, UintSame DEF r
      <3>11. AllocCores + r.cpu <= SoftMaxCores /\ AllocMem + r.mem <= SoftMaxMem
        <4>1. r.cpu + AllocCores = AllocCores + r.cpu /\ r.mem + AllocMem = AllocMem + r.mem
          BY <3>3 DEF TypeOK
        <4> QED BY <2>3, <3>9, <4>1, UintSame DEF FitsCPU, r
      <3>12. AllocCores' = Total(Cores') /\ AllocMem' = Total(Mems')
        BY <3>3, <3>7, <3>8, <3>10 DEF Counted
      <3> QED BY <2>1, <3>6, <3>10, <3>11, <3>12 DEF Counted
    <2> QED BY <1>6, <2>2, <2>3 DEF AllocCPU
  <1>7. ASSUME NEW t \in Tasks, ReleaseCPU(t) PROVE Counted'
    <2>1. /\ UNCHANGED <<AllocSpace, allocDisk, avail, rqst>>
          /\ allocCPU' = [allocCPU EXCEPT ![t] = FALSE]
          /\ \A u \in Tasks : pc'[u] = "disk" => pc[u] = "disk"
      BY <1>7 DEF ReleaseCPU, TypeOK
    <2>2. CASE ~allocCPU[t]
      <3>1. UNCHANGED <<AllocCores, AllocMem, allocCPU>>
        BY <1>7, <2>1, <2>2 DEF ReleaseCPU, TypeOK
      <3> QED BY <1>1, <2>1, <3>1
    <2>3. CASE allocCPU[t]
      <3> DEFINE r == rqst[t]
      <3>1. AllocCores' = Uint(AllocCores - r.cpu) /\ AllocMem' = Uint(AllocMem - r.mem)
        BY <1>7, <2>3 DEF ReleaseCPU
      <3>2. r.cpu \in Nat /\ r.mem \in Nat
        BY RequestAmounts, ConstantsAssumption DEF TypeOK
      <3>3. /\ Cores' \in [Tasks -> Nat] /\ Cores[t] = r.cpu /\ Cores'[t] = 0
            /\ \A u \in Tasks \ {t} : Cores'[u] = Cores[u]
        BY <2>1, <2>3, <3>2, TermsTyped DEF Cores, TypeOK
      <3>4. /\ Mems' \in [Tasks -> Nat] /\ Mems[t] = r.mem /\ Mems'[t] = 0
            /\ \A u \in Tasks \ {t} : Mems'[u] = Mems[u]
        BY <2>1, <2>3, <3>2, TermsTyped DEF Mems, TypeOK
      <3>5. Space' = Space
        BY <2>1 DEF Space
      <3>6. Total(Cores') = Total(Cores) - r.cpu + 0 /\ Total(Cores) >= r.cpu
        BY <3>3, TermsTyped, SumChange
      <3>7. Total(Mems') = Total(Mems) - r.mem + 0 /\ Total(Mems) >= r.mem
        BY <3>4, TermsTyped, SumChange
      <3> HIDE DEF r
      <3>8. AllocCores - r.cpu \in 0..(UintRange - 1) /\ AllocMem - r.mem \in 0..(UintRange - 1)
        BY <3>2, <3>6, <3>7, ConstantsAssumption DEF Counted, TypeOK
      <3>9. AllocCores' = AllocCores - r.cpu /\ AllocMem' = AllocMem - r.mem
        BY <3>1, <3>8, UintSame
      <3>10. /\ AllocCores' = Total(Cores') /\ AllocCores' <= SoftMaxCores
             /\ AllocMem' = Total(Mems') /\ AllocMem' <= SoftMaxMem
        BY <3>2, <3>6, <3>7, <3>9, ConstantsAssumption DEF Counted, TypeOK
      <3> QED BY <2>1, <3>5, <3>10 DEF Counted
    <2> QED BY <2>2, <2>3 DEF TypeOK
  <1>8. ASSUME NEW t \in Tasks, AllocDisk(t) PROVE Counted'
    <2>1. /\ UNCHANGED <<AllocCores, AllocMem, allocCPU, avail, rqst>>
          /\ pc[t] = "disk" /\ pc'[t] # "disk" /\ \A u \in Tasks \ {t} : pc'[u] = pc[u]
      BY <1>8 DEF AllocDisk, Refused, TypeOK
    <2>2. CASE UNCHANGED <<AllocSpace, allocDisk>>
      BY <1>1, <2>1, <2>2
    <2>3. CASE /\ avail[t] >= rqst[t].disk
               /\ AllocSpace' = Uint(AllocSpace + rqst[t].disk)
               /\ allocDisk' = [allocDisk EXCEPT ![t] = TRUE]
      <3> DEFINE r == rqst[t]
      <3>1. ~allocDisk[t]
        BY <2>1 DEF HoldProgress
      <3>2. r.disk \in Nat
        BY RequestAmounts, ConstantsAssumption DEF TypeOK
      <3>3. /\ Space' \in [Tasks -> Nat] /\ Space[t] = 0 /\ Space'[t] = r.disk
            /\ \A u \in Tasks \ {t} : Space'[u] = Space[u]
        BY <2>1, <2>3, <3>1, <3>2, TermsTyped DEF Space, TypeOK
      <3>4. Cores' = Cores /\ Mems' = Mems
        BY <2>1 DEF Cores, Mems
      <3>5. Total(Space') = Total(Space) - 0 + r.disk /\ Total(Space) \in Nat
        BY <3>3, TermsTyped, SumChange
      <3>6. AllocSpace + r.disk \in 0..(UintRange - 1)
        BY <2>1, <2>3, <3>2, ConstantsAssumption DEF Counted, TypeOK
      <3> HIDE DEF r
      <3>7. AllocSpace' = Total(Space')
        BY <2>3, <3>2, <3>5, <3>6, UintSame DEF Counted, r
      <3>8. \A u \in Tasks : pc'[u] # "disk"
        BY <2>1 DEF Guarded
      <3> QED BY <2>1, <3>4, <3>7, <3>8 DEF Counted
    <2> QED BY <1>8, <2>2, <2>3 DEF AllocDisk
  <1>9. ASSUME NEW t \in Tasks, ReleaseDisk(t) PROVE Counted'
    <2>1. /\ UNCHANGED <<AllocCores, AllocMem, allocCPU, avail, rqst>>
          /\ allocDisk' = [allocDisk EXCEPT ![t] = FALSE] /\ pc[t] = "returnDisk"
          /\ \A u \in Tasks : pc'[u] = "disk" => pc[u] = "disk"
      BY <1>9 DEF ReleaseDisk, TypeOK
    <2>2. CASE ~allocDisk[t]
      <3>1. UNCHANGED <<AllocSpace, allocDisk>>
        BY <1>9, <2>1, <2>2 DEF ReleaseDisk, TypeOK
      <3> QED BY <1>1, <2>1, <3>1
    <2>3. CASE allocDisk[t]
      <3> DEFINE r == rqst[t]
      <3>1. AllocSpace' = Uint(AllocSpace - r.disk)
        BY <1>9, <2>3 DEF ReleaseDisk
      <3>2. r.disk \in Nat
        BY RequestAmounts, ConstantsAssumption DEF TypeOK
      <3>3. /\ Space' \in [Tasks -> Nat] /\ Space[t] = r.disk /\ Space'[t] = 0
            /\ \A u \in Tasks \ {t} : Space'[u] = Space[u]
        BY <2>1, <2>3, <3>2, TermsTyped DEF Space, TypeOK
      <3>4. Cores' = Cores /\ Mems' = Mems
        BY <2>1 DEF Cores, Mems
      <3>5. Total(Space') = Total(Space) - r.disk + 0 /\ Total(Space) >= r.disk
        BY <3>3, TermsTyped, SumChange
      <3> HIDE DEF r
      <3>6. AllocSpace - r.disk \in 0..(UintRange - 1)
        BY <3>2, <3>5, ConstantsAssumption DEF Counted, TypeOK
      <3>7. AllocSpace' = Total(Space')
        BY <3>1, <3>2, <3>5, <3>6, UintSame DEF Counted, TypeOK
      <3>8. \A u \in Tasks : pc'[u] # "disk"
        BY <2>1 DEF Guarded
      <3> QED BY <2>1, <3>4, <3>7, <3>8 DEF Counted
    <2> QED BY <2>2, <2>3 DEF TypeOK
  <1>10. ASSUME (\E c \in Cards : MarkFailure(c)) \/ FileSystem PROVE Counted'
    BY <1>1, <1>10 DEF MarkFailure, FileSystem
  <1> QED BY <1>2, <1>3, <1>4, <1>5, <1>6, <1>7, <1>8, <1>9, <1>10 DEF Next, Holding

(* An allocated card that has slots is in the allocation of some handler;   *)
(* Release skips a card that has none.                                      *)
CardsHeld ==
    \A c \in Cards : Allocated[c] /\ CardSlots[c] # 0 => \E t \in Tasks : c \in CardsOf(t)

LEMMA CardsHeldStep ==
  ASSUME TypeOK, HoldProgress, CardsExclusive, CardsHeld, [Next]_vars
  PROVE  CardsHeld'
  <1> USE DEF gpuVars, cpuVars, diskVars, holdVars, taskVars
  <1>1. CASE UNCHANGED <<Allocated, allocGPU>>
    BY <1>1 DEF CardsHeld, CardsOf
  <1>2. ASSUME NEW t \in Tasks, AllocGPU(t), ~UNCHANGED <<Allocated, allocGPU>>
        PROVE  CardsHeld'
    <2>1. PICK taken \in SUBSET Usable(rqst[t]) :
             /\ \E id \in Injection(taken, FreshIds) :
                   allocGPU' = [allocGPU EXCEPT ![t] = {<<c, id[c]>> : c \in taken}]
             /\ Allocated' = [c \in Cards |-> Allocated[c] \/ c \in taken]
      BY <1>2 DEF AllocGPU
    <2>2. PICK id \in Injection(taken, FreshIds) :
             allocGPU' = [allocGPU EXCEPT ![t] = {<<c, id[c]>> : c \in taken}]
      BY <2>1
    <2>3. CardsOf(t) = {}
      BY <1>2 DEF AllocGPU, HoldProgress, HoldsNothing, CardsOf
    <2>4. /\ allocGPU'[t] = {<<c, id[c]>> : c \in taken}
          /\ \A u \in Tasks \ {t} : CardsOf(u)' = CardsOf(u)
      BY <2>2 DEF TypeOK, CardsOf
    <2>5. ASSUME NEW c \in taken PROVE c \in CardsOf(t)'
      <3>1. <<c, id[c]>> \in allocGPU'[t] /\ c = <<c, id[c]>>[1]
        BY <2>4
      <3> QED BY <3>1 DEF CardsOf
    <2>6. \A c \in Cards : Allocated'[c] => Allocated[c] \/ c \in taken
      BY <2>1
    <2> QED BY <2>3, <2>4, <2>5, <2>6 DEF CardsHeld
  <1>3. ASSUME NEW t \in Tasks, ReturnGPU(t) PROVE CardsHeld'
    <2> SUFFICES ASSUME NEW c \in Cards, Allocated'[c], CardSlots[c] # 0
                 PROVE  \E u \in Tasks : c \in CardsOf(u)'
      BY DEF CardsHeld
    <2>1. Allocated[c] /\ c \notin Returned(allocGPU[t])
      BY <1>3 DEF ReturnGPU
    <2>2. PICK u \in Tasks : c \in CardsOf(u)
      BY <2>1 DEF CardsHeld
    <2>3. PICK a \in allocGPU[u] : c = a[1]
      BY <2>2 DEF CardsOf
    <2>4. a = <<c, a[2]>> /\ a[2] \in Tracking[c]
      BY <2>3 DEF TypeOK, CardsExclusive
    <2>5. u # t
      BY <2>1, <2>3, <2>4 DEF Returned
    <2>6. allocGPU'[u] = allocGPU[u]
      BY <1>3, <2>5 DEF ReturnGPU, TypeOK
    <2> QED BY <2>2, <2>6 DEF CardsOf
  <1>4. ASSUME ~(\E t \in Tasks : AllocGPU(t) \/ ReturnGPU(t))
        PROVE  UNCHANGED <<Allocated, allocGPU>>
    BY <1>4 DEF Next, Holding, vars, Receive, Abandon, Process, Finish, Lock,
                AllocCPU, GetDiskFree, AllocDisk, ReleaseCPU, ReleaseDisk,
                MarkFailure, FileSystem
  <1> QED BY <1>1, <1>2, <1>3, <1>4

(* Only a card of a model that is not recognised can get lost: any other    *)
(* that is allocated is in the allocation of a handler, and so comes back   *)
(* with it, whatever cards the machine has (cuda.go AllocGPU, ReturnGPU).   *)
THEOREM OnlySlotlessCardsLeak == Spec => []CardsHeld
  <1>1. Init => CardsHeld /\ HoldProgress
    BY DEF Init, CardsHeld, HoldProgress, HoldsNothing
  <1>2. TypeOK /\ HoldProgress /\ CardsExclusive /\ CardsHeld /\ [Next]_vars
          => HoldProgress' /\ CardsHeld'
    BY HoldProgressStep, CardsHeldStep
  <1> QED BY <1>1, <1>2, TypeCorrect, CardsAreExclusive, PTL DEF Spec

LEMMA CountedInit == ASSUME IsFiniteSet(Tasks), Init PROVE Counted /\ Guarded /\ HoldProgress
  <1>1. TypeOK
    BY ConstantsAssumption DEF Init, TypeOK, Steps
  <1>2. \A t \in Tasks : Cores[t] = 0 /\ Mems[t] = 0 /\ Space[t] = 0
    BY DEF Init, Cores, Mems, Space
  <1>3. Total(Cores) = 0 /\ Total(Mems) = 0 /\ Total(Space) = 0
    BY <1>2, SumZero DEF Cores, Mems, Space
  <1>4. Counted
    BY <1>3, ConstantsAssumption DEF Counted, Init
  <1> QED BY <1>4 DEF Init, Guarded, HoldProgress, HoldsNothing

(* The counters are what the handlers hold and within the soft limits, and  *)
(* an allocated card can still come back, for any number of handlers, cards *)
(* and requests, as long as no request overflows a counter and every card   *)
(* has slots (resources.go Alloc and Release, cpu.go, disk.go, cuda.go).    *)
THEOREM TrackersAreExact ==
  ASSUME IsFiniteSet(Tasks), NoOverflow, \A c \in Cards : CardSlots[c] # 0
  PROVE  Spec => []TrackersMatchHolders
  <1>1. TypeOK /\ HoldProgress /\ Guarded /\ Counted /\ [Next]_vars
          => HoldProgress' /\ Guarded' /\ Counted'
    BY HoldProgressStep, GuardedStep, CountedStep
  <1>2. Counted /\ CardsHeld => TrackersMatchHolders
    BY DEF Counted, CardsHeld, TrackersMatchHolders, Total, Cores, Mems, Space, SumOver
  <1> QED BY <1>1, <1>2, CountedInit, TypeCorrect, OnlySlotlessCardsLeak, PTL DEF Spec
-----------------------------------------------------------------------------
(* Where statfs counts no blocks as reserved, what a handler has read still *)
(* leaves the headroom when it reserves it.                                 *)
HeadroomKept ==
    /\ DiskWithinCapacity
    /\ \A t \in Tasks : pc[t] = "disk" =>
          avail[t] + AllocSpace + MinFree <= DiskSize \/ avail[t] = 0

LEMMA HeadroomStep ==
  ASSUME Reserved = 0, TypeOK, Guarded, Counted, HeadroomKept, [Next]_vars,
         IsFiniteSet(Tasks)
  PROVE  HeadroomKept'
  <1> USE DEF gpuVars, cpuVars, diskVars, holdVars, taskVars, Goto
  <1>1. DiskFree + AllocSpace + MinFree <= DiskSize \/ DiskFree = 0
    <2>1. CASE bavail < MinFree
      BY <2>1, ConstantsAssumption DEF DiskFree, TypeOK
    <2>2. CASE bavail >= MinFree
      <3>1. bavail - MinFree \in 0..(UintRange - 1)
        BY <2>2, ConstantsAssumption DEF TypeOK
      <3>2. Uint(bavail - MinFree) = bavail - MinFree
        BY <3>1, UintSame
      <3> QED BY <2>2, <3>1, <3>2, ConstantsAssumption DEF DiskFree, TypeOK
    <2> QED BY <2>1, <2>2, ConstantsAssumption DEF TypeOK
  <1>2. ASSUME UNCHANGED AllocSpace,
               \A t \in Tasks : pc'[t] = "disk" =>
                  \/ pc[t] = "disk" /\ avail'[t] = avail[t]
                  \/ avail'[t] = DiskFree
        PROVE  HeadroomKept'
    BY <1>1, <1>2 DEF HeadroomKept, DiskWithinCapacity
  <1>3. CASE UNCHANGED vars
    BY <1>2, <1>3 DEF vars
  <1>4. ASSUME NEW t \in Tasks,
               \/ Receive(t) \/ Abandon(t) \/ Process(t) \/ Finish(t) \/ Lock(t)
               \/ AllocGPU(t) \/ ReturnGPU(t) \/ AllocCPU(t) \/ ReleaseCPU(t)
        PROVE  HeadroomKept'
    <2>1. /\ UNCHANGED <<AllocSpace, avail>>
          /\ \A u \in Tasks : pc'[u] = "disk" => pc[u] = "disk"
      BY <1>4 DEF Receive, Abandon, Process, Finish, Lock, AllocGPU, ReturnGPU,
                  AllocCPU, ReleaseCPU, Refused, TypeOK
    <2> QED BY <1>2, <2>1
  <1>5. ASSUME NEW t \in Tasks, GetDiskFree(t) PROVE HeadroomKept'
    <2>1. /\ UNCHANGED AllocSpace /\ avail'[t] = DiskFree
          /\ \A u \in Tasks \ {t} : avail'[u] = avail[u] /\ pc'[u] = pc[u]
      BY <1>5 DEF GetDiskFree, TypeOK
    <2> QED BY <1>2, <2>1
  <1>6. ASSUME NEW t \in Tasks, AllocDisk(t) PROVE HeadroomKept'
    <2>1. /\ pc[t] = "disk" /\ pc'[t] # "disk" /\ UNCHANGED avail
          /\ \A u \in Tasks \ {t} : pc'[u] = pc[u]
      BY <1>6 DEF AllocDisk, Refused, TypeOK
    <2>2. CASE UNCHANGED AllocSpace
      BY <1>2, <2>1, <2>2
    <2>3. CASE avail[t] >= rqst[t].disk /\ AllocSpace' = Uint(AllocSpace + rqst[t].disk)
      <3> DEFINE d == rqst[t].disk
      <3>1. d \in Nat
        BY RequestAmounts, ConstantsAssumption DEF TypeOK
      <3> HIDE DEF d
      <3>2. AllocSpace + d \in 0..(UintRange - 1)
        BY <2>1, <2>3, <3>1, ConstantsAssumption DEF Counted, TypeOK, d
      <3>3. AllocSpace' = AllocSpace + d /\ d <= avail[t]
        BY <2>3, <3>2, UintSame DEF d
      <3>4. DiskWithinCapacity'
        BY <2>1, <3>1, <3>3, ConstantsAssumption DEF HeadroomKept, DiskWithinCapacity, TypeOK
      <3>5. \A u \in Tasks : pc'[u] # "disk"
        BY <2>1 DEF Guarded
      <3> QED BY <3>4, <3>5 DEF HeadroomKept
    <2> QED BY <1>6, <2>2, <2>3 DEF AllocDisk
  <1>7. ASSUME NEW t \in Tasks, ReleaseDisk(t) PROVE HeadroomKept'
    <2>1. /\ pc[t] = "returnDisk" /\ UNCHANGED avail
          /\ \A u \in Tasks : pc'[u] = "disk" => pc[u] = "disk"
      BY <1>7 DEF ReleaseDisk, TypeOK
    <2>2. CASE UNCHANGED AllocSpace
      BY <1>2, <2>1, <2>2
    <2>3. CASE allocDisk[t] /\ AllocSpace' = Uint(AllocSpace - rqst[t].disk)
      <3> DEFINE d == rqst[t].disk
      <3>1. d \in Nat
        BY RequestAmounts, ConstantsAssumption DEF TypeOK
      <3>2. AllocSpace >= d
        <4>1. Space[t] = d
          BY <2>3 DEF Space
        <4>2. Total(Space) >= Space[t]
          BY TermsTyped, SumChange
        <4> QED BY <4>1, <4>2 DEF Counted
      <3> HIDE DEF d
      <3>3. AllocSpace - d \in 0..(UintRange - 1)
        BY <3>1, <3>2, ConstantsAssumption DEF TypeOK
      <3>4. AllocSpace' = AllocSpace - d
        BY <2>3, <3>3, UintSame DEF d
      <3>5. DiskWithinCapacity'
        BY <3>1, <3>2, <3>4, ConstantsAssumption DEF HeadroomKept, DiskWithinCapacity, TypeOK
      <3>6. \A u \in Tasks : pc'[u] # "disk"
        BY <2>1 DEF Guarded
      <3> QED BY <3>5, <3>6 DEF HeadroomKept
    <2> QED BY <1>7, <2>2, <2>3 DEF ReleaseDisk
  <1>8. ASSUME (\E c \in Cards : MarkFailure(c)) \/ FileSystem PROVE HeadroomKept'
    BY <1>2, <1>8 DEF MarkFailure, FileSystem
  <1> QED BY <1>3, <1>4, <1>5, <1>6, <1>7, <1>8 DEF Next, Holding

(* Reservations leave the headroom of the device, although reading the free *)
(* space and reserving it are two critical sections, on a file system with  *)
(* no blocks reserved for the super user (disk.go GetDiskFree, AllocDisk).  *)
THEOREM ReservationsFit ==
  ASSUME IsFiniteSet(Tasks), NoOverflow, Reserved = 0
  PROVE  Spec => []DiskWithinCapacity
  <1>1. Init => HeadroomKept
    BY DEF Init, HeadroomKept, DiskWithinCapacity
  <1>2. TypeOK /\ HoldProgress /\ Guarded /\ Counted /\ HeadroomKept
          /\ [Next]_vars => HoldProgress' /\ Guarded' /\ Counted' /\ HeadroomKept'
    BY HoldProgressStep, GuardedStep, CountedStep, HeadroomStep
  <1>3. HeadroomKept => DiskWithinCapacity
    BY DEF HeadroomKept
  <1> QED BY <1>1, <1>2, <1>3, CountedInit, TypeCorrect, PTL DEF Spec
-----------------------------------------------------------------------------
(* The trackers and their mutexes are an atomic allocator.                  *)

(* A live allocation has the cards of its request once AllocGPU is through, *)
(* the cores once AllocCPU is, and all of it when it is granted.            *)
Suited ==
    \A t \in Tasks :
      /\ pc[t] \in {"cpu", "statfs", "disk"} /\ live[t]
            => Allocation!Suits(rqst[t], CardsOf(t))
      /\ pc[t] \in {"statfs", "disk"} /\ live[t] => allocCPU[t]
      /\ Granted(t) => allocCPU[t] /\ allocDisk[t]

(* Allocator counts as this module does.                                    *)
LEMMA SameCardinality == \A S : Allocation!Cardinality(S) = Cardinality(S)
  BY Zenon DEF Allocation!Cardinality, Cardinality

(* The cards of an allocation are the ones AllocGPU took for it.            *)
LEMMA TakenCards ==
  ASSUME TypeOK, NEW t \in Tasks, NEW taken, NEW id,
         allocGPU' = [allocGPU EXCEPT ![t] = {<<c, id[c]>> : c \in taken}]
  PROVE  CardsOf(t)' = taken
  <1>1. allocGPU'[t] = {<<c, id[c]>> : c \in taken}
    BY DEF TypeOK
  <1>2. ASSUME NEW x \in taken PROVE x \in CardsOf(t)'
    <2>1. <<x, id[x]>> \in allocGPU'[t] /\ x = <<x, id[x]>>[1]
      BY <1>1
    <2> QED BY <2>1 DEF CardsOf
  <1>3. ASSUME NEW x \in CardsOf(t)' PROVE x \in taken
    <2>1. PICK a \in allocGPU'[t] : x = a[1]
      BY DEF CardsOf
    <2> QED BY <1>1, <2>1
  <1> QED BY <1>2, <1>3

(* Suited is inductive: the cards are chosen by AllocGPU among the usable   *)
(* ones, and nobody else changes them before Release.                       *)
LEMMA SuitedStep ==
  ASSUME TypeOK, HoldProgress, Suited, [Next]_vars
  PROVE  Suited'
  <1> USE DEF gpuVars, cpuVars, diskVars, holdVars, taskVars, Goto
  <1> DEFINE Fit(t) == Allocation!Suits(rqst[t], CardsOf(t))
             One(t) ==
               /\ pc[t] \in {"cpu", "statfs", "disk"} /\ live[t] => Fit(t)
               /\ pc[t] \in {"statfs", "disk"} /\ live[t] => allocCPU[t]
               /\ Granted(t) => allocCPU[t] /\ allocDisk[t]
  <1>1. ASSUME NEW u \in Tasks, UNCHANGED <<pc[u], live[u], rqst[u], allocGPU[u],
                                            allocCPU[u], allocDisk[u]>>
        PROVE  One(u)'
    <2>1. CardsOf(u)' = CardsOf(u)
      BY <1>1 DEF CardsOf
    <2>2. Fit(u)' <=> Fit(u)
      BY <1>1, <2>1 DEF Allocation!Suits
    <2>3. Granted(u)' <=> Granted(u)
      BY <1>1 DEF Granted
    <2> HIDE DEF Fit
    <2> QED BY <1>1, <2>2, <2>3 DEF Suited, Fit
  <1>2. CASE UNCHANGED taskVars
    BY <1>1, <1>2 DEF Suited
  <1>3. ASSUME NEW t \in Tasks,
               \A u \in Tasks \ {t} : UNCHANGED <<pc[u], live[u], rqst[u], allocGPU[u],
                                                  allocCPU[u], allocDisk[u]>>,
               One(t)'
        PROVE  Suited'
    BY <1>1, <1>3 DEF Suited
  <1>4. ASSUME NEW t \in Tasks,
               Receive(t) \/ Abandon(t) \/ Process(t) \/ Finish(t) \/ Lock(t)
        PROVE  Suited'
    <2>1. \A u \in Tasks \ {t} : UNCHANGED <<pc[u], live[u], rqst[u], allocGPU[u],
                                             allocCPU[u], allocDisk[u]>>
      BY <1>4 DEF Receive, Abandon, Process, Finish, Lock, TypeOK
    <2>2. /\ pc'[t] \notin {"cpu", "statfs", "disk"}
          /\ Granted(t)' => Granted(t)
          /\ UNCHANGED <<allocCPU, allocDisk>>
      BY <1>4 DEF Receive, Abandon, Process, Finish, Lock, TypeOK, Granted,
                  HoldProgress, HoldsNothing
    <2>3. One(t)'
      BY <2>2 DEF Suited
    <2> QED BY <1>3, <2>1, <2>3
  <1>5. ASSUME NEW t \in Tasks, AllocGPU(t) PROVE Suited'
    <2>1. \A u \in Tasks \ {t} : UNCHANGED <<pc[u], live[u], rqst[u], allocGPU[u],
                                             allocCPU[u], allocDisk[u]>>
      BY <1>5 DEF AllocGPU, TypeOK
    <2>2. pc'[t] \in {"cpu", "idle"} /\ pc[t] = "gpu" /\ UNCHANGED <<live, rqst>>
      BY <1>5 DEF AllocGPU, TypeOK
    <2>3. ~Granted(t)'
      BY <2>2 DEF Granted
    <2>4. ASSUME pc'[t] = "cpu", live'[t] PROVE Fit(t)'
      <3> DEFINE r == rqst[t]
      <3>1. CASE r.gpu = 0 /\ r.gpuMem = 0
        <4>1. UNCHANGED allocGPU
          BY <1>5, <3>1 DEF AllocGPU
        <4>2. CardsOf(t)' = {}
          BY <2>2, <4>1 DEF HoldProgress, HoldsNothing, CardsOf
        <4> QED BY <2>2, <3>1, <4>2 DEF Allocation!Suits
      <3>2. CASE ~(r.gpu = 0 /\ r.gpuMem = 0)
        <4>1. PICK taken \in SUBSET Usable(r) :
                /\ Cardinality(taken) = r.gpuCount
                /\ \E id \in Injection(taken, FreshIds) :
                     allocGPU' = [allocGPU EXCEPT ![t] = {<<c, id[c]>> : c \in taken}]
          BY <1>5, <2>2, <2>4, <3>2 DEF AllocGPU, TypeOK
        <4>2. CardsOf(t)' = taken
          BY <4>1, TakenCards
        <4>3. \A c \in taken : CardSlots[c] = r.gpu /\ (r.gpuMem = 0 \/ CardMem[c] >= r.gpuMem)
          BY <4>1 DEF Usable
        <4>4. rqst'[t] = r
          BY <2>2
        <4> HIDE DEF r
        <4> QED BY <3>2, <4>1, <4>2, <4>3, <4>4, SameCardinality DEF Allocation!Suits
      <3> QED BY <3>1, <3>2
    <2>5. One(t)'
      BY <2>2, <2>3, <2>4
    <2> QED BY <1>3, <2>1, <2>5
  <1>6. ASSUME NEW t \in Tasks, AllocCPU(t) \/ GetDiskFree(t) \/ AllocDisk(t) PROVE Suited'
    <2>1. \A u \in Tasks \ {t} : UNCHANGED <<pc[u], live[u], rqst[u], allocGPU[u],
                                             allocCPU[u], allocDisk[u]>>
      BY <1>6 DEF AllocCPU, GetDiskFree, AllocDisk, Refused, TypeOK
    <2>2. /\ UNCHANGED <<live, rqst, allocGPU>>
          /\ pc[t] \in {"cpu", "statfs", "disk"} /\ pc'[t] # "cpu"
      BY <1>6 DEF AllocCPU, GetDiskFree, AllocDisk, Refused, TypeOK
    <2>3. Fit(t)' <=> Fit(t)
      BY <2>2 DEF Allocation!Suits, CardsOf
    <2>4. /\ pc'[t] \in {"statfs", "disk"} /\ live'[t] => allocCPU'[t]
          /\ Granted(t)' => allocCPU'[t] /\ allocDisk'[t]
      BY <1>6 DEF AllocCPU, GetDiskFree, AllocDisk, Refused, TypeOK, Granted,
                  HoldProgress, Suited
    <2>5. One(t)'
      <3> HIDE DEF Fit
      <3> QED BY <2>2, <2>3, <2>4 DEF Suited, Fit
    <2> QED BY <1>3, <2>1, <2>5
  <1>7. ASSUME NEW t \in Tasks, ReturnGPU(t) \/ ReleaseCPU(t) \/ ReleaseDisk(t)
        PROVE  Suited'
    <2>1. \A u \in Tasks \ {t} : UNCHANGED <<pc[u], live[u], rqst[u], allocGPU[u],
                                             allocCPU[u], allocDisk[u]>>
      BY <1>7 DEF ReturnGPU, ReleaseCPU, ReleaseDisk, TypeOK
    <2>2. pc'[t] \in {"returnCPU", "returnDisk", "idle"}
      BY <1>7 DEF ReturnGPU, ReleaseCPU, ReleaseDisk, TypeOK
    <2>3. One(t)'
      BY <2>2 DEF Granted
    <2> QED BY <1>3, <2>1, <2>3
  <1> HIDE DEF One, Fit
  <1> QED BY <1>2, <1>4, <1>5, <1>6, <1>7 DEF Next, Holding, MarkFailure, FileSystem, vars

(* When a handler commits, the mutex keeps everyone else out of Alloc and   *)
(* Release, so that the trackers count exactly what is granted.             *)
LEMMA CommitCounts ==
  ASSUME TypeOK, HoldProgress, Guarded, Suited, NEW t \in Tasks, AllocDisk(t),
         pc'[t] = "running"
  PROVE  \A u \in Tasks : /\ Granted(u)' <=> u = t \/ Granted(u)
                          /\ Granted(u)' <=> allocCPU'[u]
                          /\ Granted(u)' <=> allocDisk'[u]
  <1> USE DEF TypeOK, Goto
  <1>1. /\ pc[t] = "disk" /\ live[t] /\ allocDisk' = [allocDisk EXCEPT ![t] = TRUE]
        /\ pc' = [pc EXCEPT ![t] = "running"] /\ UNCHANGED allocCPU
    BY DEF AllocDisk, Refused
  <1>2. Granted(t)' /\ allocCPU'[t] /\ allocDisk'[t]
    BY <1>1 DEF Granted, Suited
  <1>3. ASSUME NEW u \in Tasks, u # t
        PROVE  /\ Granted(u)' <=> Granted(u)
               /\ Granted(u) <=> allocCPU'[u]
               /\ Granted(u) <=> allocDisk'[u]
    <2>1. pc[u] \in {"idle", "lock", "tested", "running", "relock"}
      BY <1>1, <1>3 DEF Guarded, Steps
    <2>2. CASE pc[u] \in {"running", "relock"}
      BY <1>1, <1>3, <2>2 DEF Granted, Suited
    <2>3. CASE pc[u] \in {"idle", "lock", "tested"}
      BY <1>1, <1>3, <2>3 DEF Granted, HoldProgress, HoldsNothing
    <2> QED BY <2>1, <2>2, <2>3
  <1> QED BY <1>2, <1>3

(* The machine has what is granted when it is granted: what the trackers    *)
(* count is within the limits.                                              *)
LEMMA CommitWithin ==
  ASSUME Counted', DiskWithinCapacity',
         \A u \in Tasks : /\ Granted(u)' <=> allocCPU'[u]
                          /\ Granted(u)' <=> allocDisk'[u]
  PROVE  Allocation!Within'
  <1>1. \A u \in Tasks : (u \in DOMAIN grant)' <=> Granted(u)'
    BY DEF grant
  <1>2. \A u \in Tasks : Granted(u)' => grant'[u].rqst = rqst'[u]
    BY DEF grant
  <1> DEFINE cores == [t \in Tasks |-> IF t \in DOMAIN grant THEN grant[t].rqst.cpu ELSE 0]
             mems  == [t \in Tasks |-> IF t \in DOMAIN grant THEN grant[t].rqst.mem ELSE 0]
             space == [t \in Tasks |-> IF t \in DOMAIN grant THEN grant[t].rqst.disk ELSE 0]
  <1>3. cores' = Cores' /\ mems' = Mems' /\ space' = Space'
    BY <1>1, <1>2 DEF Cores, Mems, Space
  <1>4. /\ Allocation!Granted(LAMBDA r : r.cpu)' = Total(cores')
        /\ Allocation!Granted(LAMBDA r : r.mem)' = Total(mems')
        /\ Allocation!Granted(LAMBDA r : r.disk)' = Total(space')
    BY Zenon DEF Allocation!Granted, Allocation!FoldFunction, Allocation!FoldFunctionOnSet,
       Allocation!MapThenFoldSet, Total, FoldFunction, FoldFunctionOnSet, MapThenFoldSet
  <1> HIDE DEF cores, mems, space
  <1>5. /\ Allocation!Granted(LAMBDA r : r.cpu)' = Total(Cores')
        /\ Allocation!Granted(LAMBDA r : r.mem)' = Total(Mems')
        /\ Allocation!Granted(LAMBDA r : r.disk)' = Total(Space')
    BY <1>3, <1>4, Zenon
  <1> QED BY <1>5, Zenon DEF Allocation!Within, Counted, DiskWithinCapacity

(* Every step is a step of Allocator or leaves what is granted alone.       *)
LEMMA AllocationStep ==
  ASSUME TypeOK, HoldProgress, Guarded, CardsExclusive, Suited, [Next]_vars,
         Counted', DiskWithinCapacity'
  PROVE  [Allocation!Next]_grant
  <1> USE DEF gpuVars, cpuVars, diskVars, holdVars, taskVars, Goto
  <1>1. ASSUME \A u \in Tasks : Granted(u)' <=> Granted(u),
               \A u \in Tasks : Granted(u) => rqst'[u] = rqst[u] /\ allocGPU'[u] = allocGPU[u]
        PROVE  UNCHANGED grant
    <2>1. {u \in Tasks : Granted(u)}' = {u \in Tasks : Granted(u)}
      BY <1>1
    <2>2. \A u \in Tasks : Granted(u) => rqst'[u] = rqst[u] /\ CardsOf(u)' = CardsOf(u)
      BY <1>1 DEF CardsOf
    <2> QED BY <2>1, <2>2 DEF grant
  <1>2. CASE UNCHANGED taskVars
    BY <1>1, <1>2 DEF Granted
  <1>3. ASSUME NEW t \in Tasks,
               Receive(t) \/ Abandon(t) \/ Process(t) \/ Finish(t) \/ Lock(t)
        PROVE  UNCHANGED grant
    <2>1. \A u \in Tasks \ {t} : UNCHANGED <<pc[u], rqst[u], allocGPU[u], allocDisk[u]>>
      BY <1>3 DEF Receive, Abandon, Process, Finish, Lock, TypeOK
    <2>2. /\ Granted(t)' <=> Granted(t)
          /\ Granted(t) => rqst'[t] = rqst[t] /\ allocGPU'[t] = allocGPU[t]
      BY <1>3 DEF Receive, Abandon, Process, Finish, Lock, TypeOK, Granted, Suited,
                  HoldProgress, HoldsNothing
    <2> QED BY <1>1, <2>1, <2>2 DEF Granted
  <1>4. ASSUME NEW t \in Tasks,
               \/ AllocGPU(t) \/ AllocCPU(t) \/ GetDiskFree(t)
               \/ ReleaseCPU(t) \/ ReleaseDisk(t)
        PROVE  UNCHANGED grant
    <2>1. /\ \A u \in Tasks \ {t} : UNCHANGED <<pc[u], rqst[u], allocGPU[u], allocDisk[u]>>
          /\ pc[t] \in {"gpu", "cpu", "statfs", "returnCPU", "returnDisk"}
          /\ pc'[t] \in {"idle", "cpu", "statfs", "disk", "returnCPU", "returnDisk"}
             \/ (pc'[t] = "returnGPU" /\ ~allocDisk'[t])
      BY <1>4 DEF AllocGPU, AllocCPU, GetDiskFree, ReleaseCPU, ReleaseDisk, Refused,
                  TypeOK, HoldProgress
    <2>2. ~Granted(t) /\ ~Granted(t)'
      BY <2>1 DEF Granted
    <2> QED BY <1>1, <2>1, <2>2 DEF Granted
  <1>5. ASSUME NEW t \in Tasks, AllocDisk(t) PROVE [Allocation!Next]_grant
    <2>1. /\ \A u \in Tasks \ {t} : UNCHANGED <<pc[u], allocDisk[u]>>
          /\ UNCHANGED <<rqst, allocGPU>> /\ pc[t] = "disk"
          /\ pc'[t] \in {"running", "tested", "idle", "returnGPU"}
          /\ pc'[t] # "running" => UNCHANGED allocDisk
      BY <1>5 DEF AllocDisk, Refused, TypeOK
    <2>2. CASE pc'[t] # "running"
      <3>1. ~Granted(t) /\ ~Granted(t)'
        BY <2>1, <2>2 DEF Granted, HoldProgress
      <3> QED BY <1>1, <2>1, <3>1 DEF Granted
    <2>3. CASE pc'[t] = "running"
      <3>1. \A u \in Tasks : /\ Granted(u)' <=> u = t \/ Granted(u)
                             /\ Granted(u)' <=> allocCPU'[u]
                             /\ Granted(u)' <=> allocDisk'[u]
        BY <1>5, <2>3, CommitCounts
      <3>2. Allocation!Within'
        BY <3>1, CommitWithin
      <3>3. t \notin DOMAIN grant
        BY <2>1 DEF grant, Granted
      <3>4. Allocation!Suits(rqst[t], CardsOf(t))
        <4>1. live[t]
          BY <1>5, <2>3 DEF AllocDisk, Refused, TypeOK
        <4> QED BY <2>1, <4>1 DEF Suited
      <3>5. \A u \in DOMAIN grant : grant[u].cards \cap CardsOf(t) = {}
        BY <3>3 DEF grant, CardsExclusive
      <3>6. grant' = [u \in DOMAIN grant \cup {t} |->
                        IF u = t THEN [rqst |-> rqst[t], cards |-> CardsOf(t)] ELSE grant[u]]
        <4>1. \A u \in Tasks : CardsOf(u)' = CardsOf(u) /\ rqst'[u] = rqst[u]
          BY <2>1 DEF CardsOf
        <4>2. {u \in Tasks : Granted(u)}' = {u \in Tasks : Granted(u)} \cup {t}
          BY <3>1
        <4> QED BY <4>1, <4>2 DEF grant
      <3>7. rqst[t] \in Requests /\ CardsOf(t) \in SUBSET Cards
        BY DEF TypeOK, CardsOf
      <3>8. Allocation!Grant(t, rqst[t], CardsOf(t))
        BY <3>2, <3>3, <3>4, <3>5, <3>6 DEF Allocation!Grant
      <3> QED BY <3>7, <3>8 DEF Allocation!Next
    <2> QED BY <2>2, <2>3
  <1>6. ASSUME NEW t \in Tasks, ReturnGPU(t) PROVE [Allocation!Next]_grant
    <2>1. /\ \A u \in Tasks \ {t} : UNCHANGED <<pc[u], allocGPU[u], allocDisk[u]>>
          /\ UNCHANGED rqst
          /\ pc[t] = "returnGPU" /\ pc'[t] = "returnCPU"
      BY <1>6 DEF ReturnGPU, TypeOK
    <2>2. CASE ~allocDisk[t]
      <3>1. ~Granted(t) /\ ~Granted(t)'
        BY <2>1, <2>2 DEF Granted
      <3> QED BY <1>1, <2>1, <3>1 DEF Granted
    <2>3. CASE allocDisk[t]
      <3>1. Granted(t) /\ \A u \in Tasks : Granted(u)' <=> u # t /\ Granted(u)
        BY <2>1, <2>3 DEF Granted
      <3>2. \A u \in Tasks \ {t} : CardsOf(u)' = CardsOf(u) /\ rqst'[u] = rqst[u]
        BY <2>1 DEF CardsOf
      <3>3. {u \in Tasks : Granted(u)}' = {u \in Tasks : Granted(u)} \ {t}
        BY <3>1
      <3>4. t \in DOMAIN grant /\ grant' = [u \in DOMAIN grant \ {t} |-> grant[u]]
        BY <3>1, <3>2, <3>3 DEF grant
      <3> QED BY <3>4 DEF Allocation!Next, Allocation!Give
    <2> QED BY <2>2, <2>3
  <1> QED BY <1>2, <1>3, <1>4, <1>5, <1>6 DEF Next, Holding, MarkFailure, FileSystem, vars

(* An allocation over the three trackers is atomic: to the handlers it is   *)
(* an allocator that grants a request as a whole when the machine has it,   *)
(* and else nothing, for any number of handlers and cards (resources.go     *)
(* Alloc and Release, cmd/runner/resource.go).                              *)
THEOREM AllocationIsAtomic ==
  ASSUME IsFiniteSet(Tasks), NoOverflow, Reserved = 0
  PROVE  Spec => AllocIsAtomic
  <1>1. Init => Allocation!Init
    <2> SUFFICES ASSUME Init PROVE grant = [t \in {} |-> {}]
      BY DEF Allocation!Init
    <2>1. {u \in Tasks : Granted(u)} = {}
      BY DEF Init, Granted
    <2> QED BY <2>1 DEF grant
  <1>2. Init => Suited /\ HeadroomKept
    BY DEF Init, Suited, Granted, HeadroomKept, DiskWithinCapacity
  <1>3. TypeOK /\ HoldProgress /\ Guarded /\ Counted /\ HeadroomKept /\ Suited
          /\ [Next]_vars => HoldProgress' /\ Guarded' /\ Counted' /\ HeadroomKept' /\ Suited'
    BY HoldProgressStep, GuardedStep, CountedStep, HeadroomStep, SuitedStep
  <1>4. TypeOK /\ HoldProgress /\ Guarded /\ CardsExclusive /\ Suited /\ Counted' /\ HeadroomKept'
          /\ [Next]_vars => [Allocation!Next]_grant
    BY AllocationStep DEF HeadroomKept
  <1> QED BY <1>1, <1>2, <1>3, <1>4, CountedInit, TypeCorrect, CardsAreExclusive, PTL
          DEF Spec, AllocIsAtomic, Allocation!Spec
=============================================================================
