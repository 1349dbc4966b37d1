--------------------------- MODULE ObjStoreProofs ---------------------------
(***************************************************************************)
(* The files of .partial as locks, for any number of handlers, artifacts   *)
(* and contents.  A handler that downloads owns the file of its hash; a    *)
(* runner that is down has no handler at work, so that InitObjStore takes  *)
(* no lock away from anybody.                                              *)
(***************************************************************************)
EXTENDS ObjStore, TLAPS

\* A handler that downloads has the file in .partial.
Owns == \A f \in Fetchers : pc[f] \in Downloading => partial[hash[f]] = f

\* Nobody is at work in a runner that is down.
DownIsIdle == ~up => \A f \in Fetchers : pc[f] \in {"idle", "done"}

\* A file in .partial keeps every other handler waiting, so while the runner is
\* up and the file system has refused nothing it is the file of a handler that
\* is downloading: failed downloads and earlier lives of the runner leave none.
PartialsOwned ==
    up /\ errors = 0 => \A h \in Contents : partial[h] # None =>
       /\ partial[h] \in Fetchers
       /\ pc[partial[h]] \in Downloading /\ hash[partial[h]] = h

Inv == TypeOK /\ Owns /\ DownIsIdle /\ PartialsOwned

LEMMA InitInv == Init => Inv
<1> SUFFICES ASSUME Init PROVE Inv
  OBVIOUS
<1>1. TypeOK
  BY ConstantsAssumption DEF Init, TypeOK, Steps
<1> QED BY <1>1 DEF Init, Inv, Owns, DownIsIdle, PartialsOwned, Downloading

\* A handler that has downloaded, and one that returned without an error or a
\* cancellation, has a content.
HasContent ==
    \A f \in Fetchers :
       \/ pc[f] \in {"track", "rename"}
       \/ pc[f] = "done" /\ ~err[f] /\ ~ctxDone[f]
       => got[f] # None

LEMMA DeliverType ==
    ASSUME TypeOK, NEW f \in Fetchers, NEW c \in Contents, NEW w \in BOOLEAN,
           NEW own \in BOOLEAN, Deliver(f, c, w, own)
    PROVE  got' \in [Fetchers -> Deliveries \cup {None}] /\ dropped' \in 0..MaxDropped
<1>1. [of |-> c, whole |-> w, own |-> own] \in Deliveries
  BY DEF Deliveries
<1>2. [of |-> c, whole |-> FALSE, own |-> own] \in Deliveries
  BY DEF Deliveries
<1>3. got \in [Fetchers -> Deliveries \cup {None}] /\ dropped \in 0..MaxDropped
  BY DEF TypeOK
<1>4. dropped' \in 0..MaxDropped
  BY <1>3, ConstantsAssumption DEF Deliver, Drop
<1>5. got' \in [Fetchers -> Deliveries \cup {None}]
  BY <1>1, <1>2, <1>3 DEF Deliver
<1> QED BY <1>4, <1>5

\* What one step of Deliver is: one delivery to f, of content c and with the flag
\* own, whole only when it was to be.
LEMMA Delivered ==
    ASSUME TypeOK, NEW f \in Fetchers, NEW c, NEW w, NEW own, Deliver(f, c, w, own)
    PROVE  /\ got'[f].of = c /\ got'[f].own = own
           /\ dropped' = 0 => dropped = 0 /\ got'[f].whole = w
           /\ \A g \in Fetchers \ {f} : got'[g] = got[g]
<1>1. got \in [Fetchers -> Deliveries \cup {None}] /\ dropped \in 0..MaxDropped
  BY DEF TypeOK
<1>2. CASE /\ got' = [got EXCEPT ![f] = [of |-> c, whole |-> w, own |-> own]]
           /\ dropped' = dropped
  BY <1>1, <1>2
<1>3. CASE /\ got' = [got EXCEPT ![f] = [of |-> c, whole |-> FALSE, own |-> own]]
           /\ Drop
  <2>1. dropped' # 0
    BY <1>1, <1>3, ConstantsAssumption DEF Drop
  <2> QED BY <1>1, <1>3, <2>1
<1> QED BY <1>2, <1>3 DEF Deliver

LEMMA TappedType ==
    ASSUME TypeOK, NEW f \in Fetchers, got[f] # None, Tapped(f)
    PROVE  files' \in [Contents -> Copies \cup {None}] /\ dropped' \in 0..MaxDropped
<1>1. /\ files \in [Contents -> Copies \cup {None}] /\ dropped \in 0..MaxDropped
      /\ got[f] \in Deliveries
  BY DEF TypeOK
<1>2. \A w \in BOOLEAN : [of |-> got[f].of, whole |-> w] \in Copies
  BY <1>1 DEF Deliveries, Copies
<1>3. dropped' \in 0..MaxDropped
  BY <1>1, ConstantsAssumption DEF Tapped, Drop
<1>4. files' \in [Contents -> Copies \cup {None}]
  BY <1>1, <1>2 DEF Tapped
<1> QED BY <1>3, <1>4

LEMMA NextType == TypeOK /\ HasContent /\ [Next]_vars => TypeOK'
<1> SUFFICES ASSUME TypeOK, HasContent, [Next]_vars PROVE TypeOK'
  OBVIOUS
<1> USE ConstantsAssumption
    DEF TypeOK, Steps, store, limits, groomer, fetcher, Goto, Return
<1>1. CASE \E n \in Names : Overwrite(n)
  BY <1>1 DEF Overwrite
<1>2. CASE \E h \in Contents : Evict(h) \/ ClearObjStore(h)
  BY <1>2 DEF Evict, ClearObjStore
<1>3. CASE Crash
  <2>1. pc' \in [Fetchers -> Steps] /\ got' \in [Fetchers -> Deliveries \cup {None}]
    BY <1>3 DEF Crash
  <2>2. partial' \in [Contents -> Fetchers \cup {None, Lost}]
    BY <1>3 DEF Crash
  <2>3. crashes' \in 0..MaxCrashes
    <3>1. crashes \in 0..MaxCrashes /\ crashes < MaxCrashes /\ crashes' = crashes + 1
      BY <1>3 DEF Crash
    <3> QED BY <3>1
  <2> QED BY <1>3, <2>1, <2>2, <2>3 DEF Crash
<1>4. CASE InitObjStore
  BY <1>4 DEF InitObjStore
<1>5. ASSUME NEW f \in Fetchers, Hash(f) \/ CancelFetch(f) PROVE TypeOK'
  <2>1. CASE Hash(f)
    <3>1. object[name[f]] \in Contents
      OBVIOUS
    <3>2. hash' \in [Fetchers -> Contents] /\ pc' \in [Fetchers -> Steps]
      BY <2>1, <3>1 DEF Hash
    <3>3. err' \in [Fetchers -> BOOLEAN]
      BY <2>1 DEF Hash
    <3> QED BY <2>1, <3>2, <3>3 DEF Hash
  <2>2. CASE CancelFetch(f)
    BY <2>2 DEF CancelFetch
  <2> QED BY <1>5, <2>1, <2>2
<1>6. ASSUME NEW f \in Fetchers, Fetch(f) PROVE TypeOK'
  <2>1. CASE Look(f)
    BY <2>1 DEF Look
  <2>2. CASE Open(f)
    <3>1. ASSUME files[hash[f]] # None
          PROVE  files[hash[f]].of \in Contents /\ files[hash[f]].whole \in BOOLEAN
      <4>1. files[hash[f]] \in Copies
        BY <3>1
      <4> QED BY <4>1 DEF Copies
    <3>2. got' \in [Fetchers -> Deliveries \cup {None}] /\ dropped' \in 0..MaxDropped
      <4>1. CASE files[hash[f]] # None /\ Return(f, FALSE) /\
                 \E w \in {files[hash[f]].whole, files[hash[f]].whole \/ f \in Unpacking} :
                    Deliver(f, files[hash[f]].of, w /\ f \notin Tight, f \in Unpacking)
        <5> HIDE DEF TypeOK
        <5>1. PICK w \in {files[hash[f]].whole, files[hash[f]].whole \/ f \in Unpacking} :
                 Deliver(f, files[hash[f]].of, w /\ f \notin Tight, f \in Unpacking)
          BY <4>1
        <5> DEFINE x == w /\ f \notin Tight
                   own == f \in Unpacking
        <5>2. x \in BOOLEAN /\ own \in BOOLEAN /\ Deliver(f, files[hash[f]].of, x, own)
          BY <5>1
        <5> HIDE DEF x, own
        <5> QED BY <3>1, <4>1, <5>2, DeliverType
      <4>2. CASE UNCHANGED <<got, dropped>>
        BY <4>2
      <4> QED BY <2>2, <4>1, <4>2 DEF Open
    <3>3. pc' \in [Fetchers -> Steps] /\ err' \in [Fetchers -> BOOLEAN]
      BY <2>2 DEF Open
    <3> QED BY <2>2, <3>2, <3>3 DEF Open
  <2>3. CASE Miss(f)
    BY <2>3 DEF Miss
  <2>4. CASE Create(f)
    BY <2>4 DEF Create
  <2>5. CASE Wait(f)
    BY <2>5 DEF Wait
  <2>6. CASE Download(f)
    <3>1. object[name[f]] \in Contents
      OBVIOUS
    <3>2. got' \in [Fetchers -> Deliveries \cup {None}] /\ dropped' \in 0..MaxDropped
      <4>1. CASE Deliver(f, object[name[f]], f \notin Tight, TRUE)
        <5> HIDE DEF TypeOK
        <5> DEFINE x == f \notin Tight
        <5>1. x \in BOOLEAN /\ Deliver(f, object[name[f]], x, TRUE)
          BY <4>1
        <5> HIDE DEF x
        <5> QED BY <3>1, <5>1, DeliverType
      <4>2. CASE UNCHANGED <<got, dropped>>
        BY <4>2
      <4>3. \/ Deliver(f, object[name[f]], f \notin Tight, TRUE)
            \/ UNCHANGED <<got, dropped>>
        BY <2>6, Zenon DEF Download
      <4> QED BY <4>1, <4>2, <4>3
    <3>3. pc' \in [Fetchers -> Steps]
      <4>1. \/ pc' = [pc EXCEPT ![f] = "track"]
            \/ pc' = [pc EXCEPT ![f] = "remove"]
        BY <2>6, Zenon DEF Download
      <4> QED BY <4>1
    <3> QED BY <2>6, <3>2, <3>3 DEF Download
  <2>7. CASE Track(f)
    BY <2>7 DEF Track
  <2>8. CASE Rename(f)
    <3>1. got[f] # None
      BY <2>8 DEF Rename, HasContent
    <3>2. files' \in [Contents -> Copies \cup {None}] /\ dropped' \in 0..MaxDropped
      <4>1. CASE Tapped(f)
        <5> HIDE DEF TypeOK
        <5> QED BY <3>1, <4>1, TappedType
      <4>2. CASE UNCHANGED <<files, dropped>>
        BY <4>2
      <4> QED BY <2>8, <4>1, <4>2 DEF Rename
    <3>3. partial' \in [Contents -> Fetchers \cup {None, Lost}] /\ errors' \in 0..MaxErrors
      BY <2>8 DEF Rename, Refused
    <3>4. pc' \in [Fetchers -> Steps] /\ err' \in [Fetchers -> BOOLEAN]
      BY <2>8 DEF Rename
    <3> QED BY <2>8, <3>2, <3>3, <3>4 DEF Rename
  <2>9. CASE RemovePartial(f)
    BY <2>9 DEF RemovePartial, Refused
  <2>10. CASE Retry(f)
    BY <2>10 DEF Retry
  <2> QED BY <1>6, <2>1, <2>2, <2>3, <2>4, <2>5, <2>6, <2>7, <2>8, <2>9, <2>10 DEF Fetch
<1>7. CASE groom
  <2>1. CASE ReadDir
    BY <2>1 DEF ReadDir
  <2>2. CASE Reap
    BY <2>2 DEF Reap
  <2>3. ASSUME NEW h \in Contents, Sample(h) PROVE TypeOK'
    BY <2>3 DEF Sample
  <2> QED BY <1>7, <2>1, <2>2, <2>3 DEF groom
<1>8. CASE UNCHANGED vars
  BY <1>8 DEF vars
<1> QED BY <1>1, <1>2, <1>3, <1>4, <1>5, <1>6, <1>7, <1>8 DEF Next

\* A step that leaves the locks and the handlers' downloads alone.
LEMMA LocksUntouched ==
    ASSUME Inv, TypeOK', UNCHANGED <<partial, hash, pc, up, errors>>
    PROVE  Inv'
BY DEF Inv, Owns, DownIsIdle, PartialsOwned

\* A step of one handler that neither takes nor gives back a lock.
LEMMA LockKept ==
    ASSUME Inv, TypeOK', NEW f \in Fetchers,
           UNCHANGED <<partial, up, errors>>, up,
           \A g \in Fetchers \ {f} : pc'[g] = pc[g] /\ hash'[g] = hash[g],
           \/ /\ pc[f] \in Downloading /\ pc'[f] \in Downloading
              /\ hash'[f] = hash[f]
           \/ pc[f] \notin Downloading /\ pc'[f] \notin Downloading
    PROVE  Inv'
<1>1. Owns'
  BY DEF Inv, Owns
<1>2. DownIsIdle'
  BY DEF DownIsIdle
<1>3. PartialsOwned'
  BY DEF Inv, PartialsOwned
<1> QED BY <1>1, <1>2, <1>3 DEF Inv

LEMMA NextInv == Inv /\ HasContent /\ [Next]_vars => Inv'
<1> SUFFICES ASSUME Inv, HasContent, [Next]_vars PROVE Inv'
  OBVIOUS
<1>1. TypeOK'
  BY NextType DEF Inv
<1>2. CASE \E n \in Names : Overwrite(n)
  BY <1>1, <1>2, LocksUntouched DEF Overwrite, limits, fetcher
<1>3. CASE \E h \in Contents : Evict(h) \/ ClearObjStore(h)
  BY <1>1, <1>3, LocksUntouched DEF Evict, ClearObjStore, limits, fetcher
<1>4. CASE Crash
  BY <1>1, <1>4 DEF Crash, Inv, TypeOK, Owns, DownIsIdle, PartialsOwned, Downloading
<1>5. CASE InitObjStore
  BY <1>1, <1>5 DEF InitObjStore, limits, fetcher, Inv, TypeOK, Owns, DownIsIdle,
     PartialsOwned, Downloading
<1>6. CASE groom
  BY <1>1, <1>6, LocksUntouched DEF groom, ReadDir, Reap, Sample, limits, fetcher
<1>7. CASE UNCHANGED vars
  BY <1>1, <1>7, LocksUntouched DEF vars, limits, fetcher
<1>8. ASSUME NEW f \in Fetchers, CancelFetch(f) PROVE Inv'
  BY <1>1, <1>8, LocksUntouched DEF CancelFetch, limits
<1>9. ASSUME NEW f \in Fetchers, Hash(f) PROVE Inv'
  <2>1. pc[f] = "idle" /\ pc'[f] \in {"look", "done"}
    BY <1>9 DEF Hash, Goto, Return, Inv, TypeOK
  <2>2. \A g \in Fetchers \ {f} : pc'[g] = pc[g] /\ hash'[g] = hash[g]
    BY <1>9 DEF Hash, Goto, Return, Inv, TypeOK
  <2>3. up /\ UNCHANGED <<partial, up, errors>>
    BY <1>9 DEF Hash, limits
  <2> QED BY <1>1, <2>1, <2>2, <2>3, LockKept DEF Downloading
<1>10. ASSUME NEW f \in Fetchers, Fetch(f) PROVE Inv'
  <2>1. up
    BY <1>10 DEF Inv, DownIsIdle, Fetch, Look, Open, Miss, Create, Wait, Download,
       Track, Rename, RemovePartial, Retry
  <2>2. CASE Look(f) \/ Open(f) \/ Miss(f) \/ Wait(f) \/ Retry(f)
    <3>1. pc[f] \in {"look", "open", "miss", "wait", "retry"}
      BY <2>2 DEF Look, Open, Miss, Wait, Retry
    <3>2. pc'[f] \in {"look", "open", "miss", "create", "wait", "done"}
      BY <2>2 DEF Look, Open, Miss, Wait, Retry, Goto, Return, Inv, TypeOK
    <3>3. \A g \in Fetchers \ {f} : pc'[g] = pc[g] /\ hash'[g] = hash[g]
      BY <2>2 DEF Look, Open, Miss, Wait, Retry, Goto, Return, Inv, TypeOK
    <3>4. UNCHANGED <<partial, up, errors>>
      BY <2>2 DEF Look, Open, Miss, Wait, Retry, limits
    <3> QED BY <1>1, <2>1, <3>1, <3>2, <3>3, <3>4, LockKept DEF Downloading
  <2>3. CASE Download(f) \/ Track(f)
    <3>1. pc[f] \in Downloading /\ pc'[f] \in Downloading /\ hash' = hash
      BY <2>3 DEF Download, Track, Goto, Inv, TypeOK, Downloading
    <3>2. \A g \in Fetchers \ {f} : pc'[g] = pc[g]
      BY <2>3 DEF Download, Track, Goto, Inv, TypeOK
    <3>3. UNCHANGED <<partial, up, errors>>
      BY <2>3 DEF Download, Track, limits
    <3> QED BY <1>1, <2>1, <3>1, <3>2, <3>3, LockKept
  <2>4. CASE Create(f)
    <3>1. CASE partial[hash[f]] = None /\ pc' = [pc EXCEPT ![f] = "download"]
               /\ partial' = [partial EXCEPT ![hash[f]] = f]
      <4>1. UNCHANGED <<hash, up, errors>>
        BY <2>4 DEF Create, limits
      <4> QED BY <1>1, <2>1, <3>1, <4>1, ConstantsAssumption
          DEF Inv, TypeOK, Owns, DownIsIdle, PartialsOwned, Downloading
    <3>2. CASE pc' = [pc EXCEPT ![f] = "wait"] /\ UNCHANGED partial
      <4>1. pc[f] = "create" /\ UNCHANGED <<hash, up, errors>>
        BY <2>4 DEF Create, limits
      <4> QED BY <1>1, <2>1, <3>2, <4>1, LockKept DEF Inv, TypeOK, Downloading
    <3> QED BY <2>4, <3>1, <3>2 DEF Create, Goto
  <2>5. CASE Rename(f) \/ RemovePartial(f)
    <3>1. pc[f] \in Downloading
      BY <2>5 DEF Rename, RemovePartial, Downloading
    <3>2. \/ partial' = [partial EXCEPT ![hash[f]] = None] /\ errors' = errors
          \/ partial' = [partial EXCEPT ![hash[f]] = Lost] /\ errors' = errors + 1
      BY <2>5 DEF Rename, RemovePartial, Refused
    <3>3. /\ \E step \in {"done", "retry"} : pc' = [pc EXCEPT ![f] = step]
          /\ UNCHANGED <<hash, up>>
      BY <2>5 DEF Rename, RemovePartial, Goto, Return
    <3>4. \A g \in Fetchers \ {f} : pc[g] \in Downloading => hash[g] # hash[f]
      BY <3>1 DEF Inv, Owns
    <3>5. Owns'
      BY <3>2, <3>3, <3>4 DEF Inv, TypeOK, Owns, Downloading
    <3>6. PartialsOwned'
      <4> SUFFICES ASSUME errors' = 0, NEW h \in Contents, partial'[h] # None
                   PROVE  /\ partial'[h] \in Fetchers
                          /\ pc'[partial'[h]] \in Downloading /\ hash'[partial'[h]] = h
        BY DEF PartialsOwned
      <4>1. errors = 0 /\ partial' = [partial EXCEPT ![hash[f]] = None]
        BY <3>2, ConstantsAssumption DEF Inv, TypeOK
      <4>2. h # hash[f] /\ partial'[h] = partial[h]
        BY <4>1 DEF Inv, TypeOK
      <4>3. partial[h] \in Fetchers /\ pc[partial[h]] \in Downloading /\ hash[partial[h]] = h
        BY <2>1, <4>1, <4>2 DEF Inv, PartialsOwned
      <4>4. partial[h] # f
        BY <4>2, <4>3
      <4> QED BY <3>3, <4>2, <4>3, <4>4 DEF Inv, TypeOK
    <3> QED BY <1>1, <2>1, <3>3, <3>5, <3>6 DEF Inv, DownIsIdle
  <2> QED BY <1>10, <2>2, <2>3, <2>4, <2>5 DEF Fetch
<1> QED BY <1>2, <1>3, <1>4, <1>5, <1>6, <1>7, <1>8, <1>9, <1>10 DEF Next
-----------------------------------------------------------------------------
(* What a Fetch delivers.                                                  *)

\* Until an artifact is overwritten the hash of a handler is the artifact's, and
\* so the name of a cached file is the hash of its content: what was downloaded
\* under a hash is what the hash was taken of.
CacheFaithful ==
    changes = 0 =>
       /\ \A f \in Fetchers : hash[f] = object[name[f]]
       /\ \A h \in Contents : files[h] # None => files[h].of = h
       /\ \A f \in Fetchers : got[f] # None => got[f].of = object[name[f]]

\* Until a write is lost what is cached is whole, whoever downloaded it, and what
\* is cut is cut by the budget of the handler that gets it.
CutByBudget ==
    dropped = 0 =>
       /\ \A h \in Contents : files[h] # None => files[h].whole
       /\ \A f \in Fetchers \ Tight : got[f] # None => got[f].whole

\* A handler that unpacks gets its files where it looks for them.
Unpacked == \A f \in Unpacking : got[f] # None => got[f].own

Faithful == TypeOK /\ HasContent /\ CacheFaithful /\ CutByBudget /\ Unpacked

LEMMA InitFaithful == Init => Faithful
<1> SUFFICES ASSUME Init PROVE Faithful
  OBVIOUS
<1>1. TypeOK
  BY InitInv DEF Inv
<1>2. HasContent
  BY DEF Init, HasContent
<1>3. CacheFaithful
  BY DEF Init, CacheFaithful
<1>4. CutByBudget /\ Unpacked
  BY ConstantsAssumption DEF Init, CutByBudget, Unpacked
<1> QED BY <1>1, <1>2, <1>3, <1>4 DEF Faithful

\* A step that delivers nothing: files may go, contexts may end.
LEMMA NothingDelivered ==
    ASSUME Faithful, TypeOK', UNCHANGED <<store, name, hash, got, err, dropped>>,
           \A h \in Contents : files'[h] \in {files[h], None},
           \A f \in Fetchers : ctxDone[f] => ctxDone'[f],
           \A f \in Fetchers :
              \/ pc'[f] = pc[f]
              \/ pc[f] = "track" /\ pc'[f] = "rename"
              \/ pc'[f] \notin {"track", "rename", "done"}
    PROVE  Faithful'
<1>1. HasContent'
  BY DEF Faithful, HasContent
<1>2. CacheFaithful'
  BY DEF Faithful, CacheFaithful, store
<1>3. CutByBudget' /\ Unpacked'
  BY DEF Faithful, CutByBudget, Unpacked
<1> QED BY <1>1, <1>2, <1>3 DEF Faithful

\* A step of f that ends its Fetch with an error or a cancellation.
LEMMA ReturnsEmpty ==
    ASSUME Faithful, TypeOK', NEW f \in Fetchers,
           UNCHANGED <<store, name, hash, got, files, ctxDone, dropped>>,
           \E e \in BOOLEAN : Return(f, e) /\ (e \/ ctxDone[f])
    PROVE  Faithful'
<1>1. HasContent'
  BY DEF Faithful, TypeOK, HasContent, Return, Goto
<1>2. CacheFaithful'
  BY DEF Faithful, CacheFaithful, store
<1>3. CutByBudget' /\ Unpacked'
  BY DEF Faithful, CutByBudget, Unpacked
<1> QED BY <1>1, <1>2, <1>3 DEF Faithful

\* A step of f that delivers content c and ends the Fetch or goes on with it.
LEMMA Delivers ==
    ASSUME Faithful, TypeOK', NEW f \in Fetchers, NEW c \in Contents,
           NEW w \in BOOLEAN, NEW own \in BOOLEAN, Deliver(f, c, w, own),
           UNCHANGED <<store, name, hash, files, ctxDone>>,
           \A g \in Fetchers \ {f} : pc'[g] = pc[g] /\ err'[g] = err[g],
           changes = 0 => c = object[name[f]],
           dropped = 0 /\ f \notin Tight => w,
           f \in Unpacking => own
    PROVE  Faithful'
<1>1. /\ got'[f].of = c /\ got'[f].own = own
      /\ dropped' = 0 => dropped = 0 /\ got'[f].whole = w
      /\ \A g \in Fetchers \ {f} : got'[g] = got[g]
  BY Delivered DEF Faithful
<1>2. got'[f] # None
  <2>1. got \in [Fetchers -> Deliveries \cup {None}]
    BY DEF Faithful, TypeOK
  <2>2. \E x \in BOOLEAN : got'[f] = [of |-> c, whole |-> x, own |-> own]
    BY <2>1 DEF Deliver
  <2>3. \A x \in BOOLEAN : [of |-> c, whole |-> x, own |-> own] \in Deliveries
    BY DEF Deliveries
  <2> QED BY <2>2, <2>3, ConstantsAssumption
<1>3. HasContent'
  BY <1>1, <1>2 DEF Faithful, HasContent
<1>4. CacheFaithful'
  BY <1>1 DEF Faithful, CacheFaithful, store
<1>5. CutByBudget'
  BY <1>1 DEF Faithful, CutByBudget
<1>6. Unpacked'
  BY <1>1, ConstantsAssumption DEF Faithful, Unpacked
<1> QED BY <1>3, <1>4, <1>5, <1>6 DEF Faithful

LEMMA NextFaithful == Faithful /\ [Next]_vars => Faithful'
<1> SUFFICES ASSUME Faithful, [Next]_vars PROVE Faithful'
  OBVIOUS
<1>1. TypeOK'
  BY NextType DEF Faithful
<1>2. CASE \E n \in Names : Overwrite(n)
  <2>1. CacheFaithful'
    <3>1. changes' # 0
      BY <1>2 DEF Overwrite, Faithful, TypeOK
    <3> QED BY <3>1 DEF CacheFaithful
  <2>2. HasContent'
    BY <1>2 DEF Overwrite, fetcher, Faithful, HasContent
  <2>3. CutByBudget' /\ Unpacked'
    BY <1>2 DEF Overwrite, limits, fetcher, Faithful, CutByBudget, Unpacked
  <2> QED BY <1>1, <2>1, <2>2, <2>3 DEF Faithful
<1>3. CASE \E h \in Contents : Evict(h) \/ ClearObjStore(h)
  BY <1>1, <1>3, NothingDelivered DEF Evict, ClearObjStore, limits, fetcher, Faithful, TypeOK
<1>4. CASE Crash
  <2>1. HasContent'
    BY <1>4 DEF Crash, Faithful, TypeOK, HasContent
  <2>2. CacheFaithful'
    BY <1>4 DEF Crash, Faithful, TypeOK, CacheFaithful, store
  <2>3. /\ \A f \in Fetchers : got'[f] = got[f] \/ got'[f] = None
        /\ UNCHANGED <<files, dropped>>
    BY <1>4 DEF Crash
  <2>4. CutByBudget' /\ Unpacked'
    BY <2>3, ConstantsAssumption DEF Faithful, CutByBudget, Unpacked
  <2> QED BY <1>1, <2>1, <2>2, <2>4 DEF Faithful
<1>5. CASE InitObjStore
  BY <1>1, <1>5, NothingDelivered DEF InitObjStore, limits, fetcher
<1>6. CASE groom
  BY <1>1, <1>6, NothingDelivered DEF groom, ReadDir, Reap, Sample, limits, fetcher, Faithful, TypeOK
<1>7. CASE UNCHANGED vars
  BY <1>1, <1>7, NothingDelivered DEF vars, limits, fetcher
<1>8. ASSUME NEW f \in Fetchers, CancelFetch(f) PROVE Faithful'
  BY <1>1, <1>8, NothingDelivered DEF CancelFetch, limits, Faithful, TypeOK
<1>9. ASSUME NEW f \in Fetchers, Hash(f) PROVE Faithful'
  <2>1. HasContent'
    BY <1>9 DEF Hash, Goto, Return, Faithful, TypeOK, HasContent
  <2>2. CacheFaithful'
    BY <1>9 DEF Hash, Faithful, TypeOK, CacheFaithful, store
  <2>3. CutByBudget' /\ Unpacked'
    BY <1>9 DEF Hash, limits, Faithful, CutByBudget, Unpacked
  <2> QED BY <1>1, <2>1, <2>2, <2>3 DEF Faithful
<1>10. ASSUME NEW f \in Fetchers, Fetch(f) PROVE Faithful'
  <2>1. CASE Look(f) \/ Create(f) \/ Track(f) \/ RemovePartial(f)
    <3>1. \A g \in Fetchers :
             \/ pc'[g] = pc[g]
             \/ pc[g] = "track" /\ pc'[g] = "rename"
             \/ pc'[g] \notin {"track", "rename", "done"}
      BY <2>1 DEF Look, Create, Track, RemovePartial, Goto, Faithful, TypeOK
    <3>2. UNCHANGED <<store, name, hash, got, err, files, ctxDone, dropped>>
      BY <2>1 DEF Look, Create, Track, RemovePartial, limits
    <3> QED BY <1>1, <3>1, <3>2, NothingDelivered
  <2>2. CASE Miss(f) \/ Wait(f) \/ Retry(f)
    <3>1. UNCHANGED <<store, name, hash, got, files, ctxDone, dropped>>
      BY <2>2 DEF Miss, Wait, Retry, limits
    <3>2. CASE \E e \in BOOLEAN : Return(f, e) /\ (e \/ ctxDone[f])
      BY <1>1, <3>1, <3>2, ReturnsEmpty
    <3>3. CASE \E step \in {"look", "wait", "create"} : Goto(f, step) /\ UNCHANGED err
      <4>1. \A g \in Fetchers : \/ pc'[g] = pc[g]
                                \/ pc'[g] \notin {"track", "rename", "done"}
        BY <3>3 DEF Goto, Faithful, TypeOK
      <4> QED BY <1>1, <3>1, <3>3, <4>1, NothingDelivered
    <3> QED BY <2>2, <3>2, <3>3 DEF Miss, Wait, Retry
  <2>3. CASE Open(f)
    <3>1. CASE Goto(f, "miss") /\ UNCHANGED <<got, err, dropped>>
      BY <1>1, <2>3, <3>1, NothingDelivered DEF Open, Goto, Faithful, TypeOK
    <3>2. CASE Return(f, TRUE) /\ UNCHANGED <<got, dropped>>
      BY <1>1, <2>3, <3>2, ReturnsEmpty DEF Open
    <3>3. CASE /\ files[hash[f]] # None
               /\ \E w \in {files[hash[f]].whole, files[hash[f]].whole \/ f \in Unpacking} :
                     Deliver(f, files[hash[f]].of, w /\ f \notin Tight, f \in Unpacking)
               /\ Return(f, FALSE)
      <4>1. PICK w \in {files[hash[f]].whole, files[hash[f]].whole \/ f \in Unpacking} :
               Deliver(f, files[hash[f]].of, w /\ f \notin Tight, f \in Unpacking)
        BY <3>3
      <4>2. files[hash[f]] \in Copies /\ hash[f] \in Contents
        BY <3>3 DEF Faithful, TypeOK
      <4>3. files[hash[f]].of \in Contents /\ files[hash[f]].whole \in BOOLEAN
        BY <4>2 DEF Copies
      <4>4. changes = 0 => files[hash[f]].of = object[name[f]]
        BY <3>3, <4>2 DEF Faithful, CacheFaithful
      <4>5. dropped = 0 => w
        BY <3>3, <4>2 DEF Faithful, CutByBudget
      <4>6. \A g \in Fetchers \ {f} : pc'[g] = pc[g] /\ err'[g] = err[g]
        BY <3>3 DEF Return, Goto, Faithful, TypeOK
      <4>7. UNCHANGED <<store, name, hash, files, ctxDone>>
        BY <2>3 DEF Open
      <4> DEFINE x == w /\ f \notin Tight
                 own == f \in Unpacking
      <4>8. /\ x \in BOOLEAN /\ own \in BOOLEAN /\ Deliver(f, files[hash[f]].of, x, own)
            /\ dropped = 0 /\ f \notin Tight => x
            /\ f \in Unpacking => own
        BY <4>1, <4>5
      <4> HIDE DEF x, own
      <4> QED BY <1>1, <4>3, <4>4, <4>6, <4>7, <4>8, Delivers
    <3> QED BY <2>3, <3>1, <3>2, <3>3 DEF Open
  <2>4. CASE Download(f)
    <3>1. CASE Goto(f, "remove") /\ UNCHANGED <<got, dropped>>
      BY <1>1, <2>4, <3>1, NothingDelivered DEF Download, Goto, Faithful, TypeOK
    <3>2. CASE /\ Deliver(f, object[name[f]], f \notin Tight, TRUE)
               /\ Goto(f, "track")
      <4>1. object[name[f]] \in Contents
        BY DEF Faithful, TypeOK
      <4>2. \A g \in Fetchers \ {f} : pc'[g] = pc[g] /\ err'[g] = err[g]
        BY <2>4, <3>2 DEF Download, Goto, Faithful, TypeOK
      <4>3. UNCHANGED <<store, name, hash, files, ctxDone>>
        BY <2>4 DEF Download
      <4> QED BY <1>1, <3>2, <4>1, <4>2, <4>3, Delivers
    <3> QED BY <2>4, <3>1, <3>2 DEF Download
  <2>5. CASE Rename(f)
    <3>1. got[f] # None /\ got' = got /\ UNCHANGED <<store, name, hash>>
      BY <2>5 DEF Rename, Faithful, HasContent
    <3>2. HasContent'
      BY <2>5, <3>1 DEF Rename, Return, Goto, Faithful, TypeOK, HasContent
    <3>3. \/ UNCHANGED <<files, dropped>>
          \/ \E w \in BOOLEAN :
                /\ files' = [files EXCEPT ![hash[f]] = [of |-> got[f].of, whole |-> w]]
                /\ dropped' = 0 => w /\ dropped = 0
      <4>1. dropped \in Nat
        BY ConstantsAssumption DEF Faithful, TypeOK
      <4>2. CASE Tapped(f)
        <5>1. CASE /\ files' = [files EXCEPT ![hash[f]] = [of |-> got[f].of, whole |-> TRUE]]
                   /\ dropped' = dropped
          BY <5>1
        <5>2. CASE /\ files' = [files EXCEPT ![hash[f]] = [of |-> got[f].of, whole |-> FALSE]]
                   /\ Drop
          <6>1. dropped' # 0
            BY <4>1, <5>2 DEF Drop
          <6> QED BY <5>2, <6>1
        <5> QED BY <4>2, <5>1, <5>2 DEF Tapped
      <4> QED BY <2>5, <4>2 DEF Rename
    <3>4. CacheFaithful'
      <4>1. CASE UNCHANGED <<files, dropped>>
        BY <3>1, <4>1 DEF Faithful, CacheFaithful, store
      <4>2. ASSUME NEW w \in BOOLEAN,
                   files' = [files EXCEPT ![hash[f]] = [of |-> got[f].of, whole |-> w]]
            PROVE  CacheFaithful'
        <5>1. files \in [Contents -> Copies \cup {None}] /\ hash[f] \in Contents
          BY DEF Faithful, TypeOK
        <5>2. changes = 0 => got[f].of = hash[f]
          BY <3>1 DEF Faithful, CacheFaithful
        <5> QED BY <3>1, <4>2, <5>1, <5>2 DEF Faithful, CacheFaithful, store
      <4> QED BY <3>3, <4>1, <4>2
    <3>5. CutByBudget' /\ Unpacked'
      <4>1. files \in [Contents -> Copies \cup {None}] /\ hash[f] \in Contents
        BY DEF Faithful, TypeOK
      <4>2. Unpacked'
        BY <3>1 DEF Faithful, Unpacked
      <4>3. CASE UNCHANGED <<files, dropped>>
        BY <3>1, <4>2, <4>3 DEF Faithful, CutByBudget
      <4>4. ASSUME NEW w \in BOOLEAN, dropped' = 0 => w /\ dropped = 0,
                   files' = [files EXCEPT ![hash[f]] = [of |-> got[f].of, whole |-> w]]
            PROVE  CutByBudget'
        <5>1. \A h \in Contents : h # hash[f] => files'[h] = files[h]
          BY <4>1, <4>4
        <5>2. files'[hash[f]].whole = w
          BY <4>1, <4>4
        <5> QED BY <3>1, <4>1, <4>4, <5>1, <5>2 DEF Faithful, CutByBudget
      <4> QED BY <3>3, <4>2, <4>3, <4>4
    <3> QED BY <1>1, <3>2, <3>4, <3>5 DEF Faithful
  <2> QED BY <1>10, <2>1, <2>2, <2>3, <2>4, <2>5 DEF Fetch
<1> QED BY <1>2, <1>3, <1>4, <1>5, <1>6, <1>7, <1>8, <1>9, <1>10 DEF Next

\* A Fetch that returns without an error and was not cancelled has delivered an
\* artifact, the one that was asked for as long as none was overwritten, and all
\* of it unless its own budget is too small or a write was lost, whatever was
\* cached, cut for others, evicted, reaped, refused or lost in a crash meanwhile
\* (objectstore.go Fetch, s3.go and localstorage.go Fetch).
THEOREM FetchesDeliver == Spec => []FetchDelivers
<1>1. Faithful => FetchDelivers
  BY DEF Faithful, HasContent, CacheFaithful, CutByBudget, Unpacked, FetchDelivers
<1> QED BY <1>1, InitFaithful, NextFaithful, PTL DEF Spec

\* One handler at a time downloads a content, and no file in .partial outlives
\* its download unless the file system refused to take it away
\* (objectstore.go Fetch, InitObjStore).
THEOREM DownloadsExclusive == Spec => [](OneDownloader /\ PartialsOwned)
<1>1. Inv => OneDownloader /\ PartialsOwned
  BY DEF Inv, Owns, OneDownloader
<1>2. Faithful => HasContent
  BY DEF Faithful
<1> QED BY <1>1, <1>2, InitInv, NextInv, InitFaithful, NextFaithful, PTL DEF Spec
=============================================================================
