------------------------- MODULE ServingBridgeProofs -------------------------
(***************************************************************************)
(* EtagVouches for any number of index files, contents and changes.  The   *)
(* ETag of an entry comes from a listing and its base directory from a     *)
(* later read.  What connects the two is that an index which does not get  *)
(* a former content back, and has the content now that it had when it was  *)
(* listed, had it all the time in between.                                 *)
(***************************************************************************)
EXTENDS ServingBridge, SequenceTheorems, TLAPS

Types ==
    /\ bucket = None \/ bucket \in [Indexes -> Contents \cup {None}]
    /\ past \in [Indexes -> SUBSET Contents]
    /\ models \in [Indexes -> Models \cup {None}]
    /\ idx \in {"idle", "next", "load", "stat"}
    /\ listing \in SUBSET Objects
    /\ todo \in Seq([base : Bases, key : Blobs])

\* An index is listed once, and is no longer in the listing when it is loaded.
Listing ==
    /\ \A o, p \in listing : o.key = p.key => o = p
    /\ idx \in {"load", "stat"} =>
          /\ object \in Objects /\ models[object.key] \in Models
          /\ models[object.key].etag # object.etag
          /\ \A o \in listing : o.key # object.key

\* Every content anybody remembers is one the index has had.
Remembered ==
    /\ \A k \in Present : bucket[k] \in past[k]
    /\ \A k \in Indexes : models[k] \in Models /\ models[k].etag # None =>
                             models[k].etag \in past[k]
    /\ \A o \in listing : o.etag \in past[o.key]
    /\ idx \in {"load", "stat"} => object.etag \in past[object.key]

\* An index that was listed with another ETag than its entry has got that other
\* content, or a newer one: what its entry has is not in the bucket.
Outdated(o) == models[o.key] \in Models /\ models[o.key].etag # o.etag => ~Current(o.key)

\* The base directory of an index of which n entries have been looked at.
Seen(c, n) == IF n = 0 THEN NoBase ELSE BaseOf(c)

\* A load of what was listed has come as far as the base directory says.
Loaded ==
    idx = "stat" /\ object.key \in Present /\ bucket[object.key] = object.etag =>
       \E n \in 0..Len(object.etag) :
          /\ todo = SubSeq(object.etag, n + 1, Len(object.etag))
          /\ models[object.key].base = Seen(object.etag, n)

Vouched ==
    ~reverted =>
       /\ \A o \in listing : Outdated(o)
       /\ idx \in {"load", "stat"} => Outdated(object)
       /\ Loaded /\ EtagVouches

Inv == Types /\ Listing /\ Remembered /\ Vouched

LEMMA InitInv == Init => Inv
<1> SUFFICES ASSUME Init PROVE Inv
  OBVIOUS
<1>1. Present = {}
  BY DEF Init, Present
<1>2. Types
  BY DEF Init, Types
<1>3. Listing
  BY DEF Init, Listing
<1>4. Remembered
  BY <1>1, ConstantsAssumption DEF Init, Remembered, Models
<1>5. Vouched
  BY <1>1 DEF Init, Vouched, Loaded, EtagVouches, Current
<1> QED BY <1>2, <1>3, <1>4, <1>5 DEF Inv

\* Steps of the TFX scan, and blobs that come and go.
LEMMA FrameInv ==
    Inv /\ UNCHANGED <<bucket, past, reverted, models, ixer>> => Inv'
BY DEF Inv, Types, Listing, Remembered, Vouched, Outdated, Loaded, Seen, EtagVouches,
       Current, Present, BaseOf, ixer

\* A scan that ends, with entries of knownIndexes kept or dropped.
LEMMA EndInv ==
    ASSUME Inv, EndScan, UNCHANGED <<bucket, past, reverted>>,
           models' \in [Indexes -> Models \cup {None}],
           \A k \in Indexes : models'[k] \in {models[k], None}
    PROVE  Inv'
<1>1. Types'
  BY DEF Inv, Types, EndScan
<1>2. Listing'
  BY DEF EndScan, Listing
<1>3. Remembered'
  <2>1. Present' = Present
    BY DEF Present
  <2>2. ASSUME NEW k \in Indexes, models'[k] \in Models, models'[k].etag # None
        PROVE  models'[k].etag \in past[k]
    BY <2>2, ConstantsAssumption DEF Inv, Remembered
  <2> QED BY <2>1, <2>2 DEF Inv, Remembered, EndScan
<1>4. Vouched'
  BY DEF Inv, Vouched, EndScan, Loaded, EtagVouches, Current, Present
<1> QED BY <1>1, <1>2, <1>3, <1>4 DEF Inv

\* The bucket changes, and no index gets a former content back: what an entry
\* or a listing remembers is in the bucket only if it was there before.
LEMMA BucketInv ==
    ASSUME Inv, UNCHANGED <<models, ixer>>, reverted => reverted',
           bucket' = None \/ bucket' \in [Indexes -> Contents \cup {None}],
           past' \in [Indexes -> SUBSET Contents],
           \A k \in Indexes : past[k] \subseteq past'[k],
           \A k \in Present' :
              /\ bucket'[k] \in past'[k]
              /\ \/ k \in Present /\ bucket'[k] = bucket[k]
                 \/ bucket'[k] \notin past[k] \/ reverted'
    PROVE  Inv'
<1> USE DEF ixer
<1>1. Types'
  BY DEF Inv, Types
<1>2. Listing'
  BY DEF Inv, Listing
<1>3. Remembered'
  <2>1. \A k \in Indexes : models'[k] \in Models /\ models'[k].etag # None =>
                              models'[k].etag \in past'[k]
    BY DEF Inv, Remembered
  <2>2. \A o \in listing' : o.etag \in past'[o.key]
    BY DEF Inv, Types, Objects, Remembered
  <2>3. idx' \in {"load", "stat"} => object'.etag \in past'[object'.key]
    BY DEF Inv, Listing, Objects, Remembered
  <2> QED BY <2>1, <2>2, <2>3 DEF Remembered
<1>4. ASSUME ~reverted' PROVE Vouched'
  <2>1. ASSUME NEW k \in Indexes, Current(k)' PROVE Current(k)
    <3>1. k \in Present' /\ models[k] # None /\ models[k].etag = bucket'[k]
      BY <2>1 DEF Current
    <3>2. models[k] \in Models /\ bucket'[k] # None
      BY <3>1 DEF Inv, Types, Present
    <3>3. models[k].etag \in past[k]
      BY <3>1, <3>2 DEF Inv, Remembered
    <3> QED BY <1>4, <3>1, <3>3 DEF Current
  <2>2. \A o \in listing' : Outdated(o)'
    BY <1>4, <2>1 DEF Inv, Types, Objects, Vouched, Outdated
  <2>3. idx' \in {"load", "stat"} => Outdated(object)'
    BY <1>4, <2>1 DEF Inv, Listing, Objects, Vouched, Outdated
  <2>4. Loaded'
    <3> SUFFICES ASSUME idx = "stat", object.key \in Present',
                        bucket'[object.key] = object.etag
                 PROVE  object.key \in Present /\ bucket[object.key] = object.etag
      BY <1>4 DEF Inv, Vouched, Loaded, Seen, BaseOf
    <3>1. object.etag \in past[object.key]
      BY DEF Inv, Remembered
    <3> QED BY <1>4, <3>1
  <2>5. EtagVouches'
    <3> SUFFICES ASSUME NEW k \in Indexes, Current(k)'
                 PROVE  models'[k].base = BaseOf(bucket[k]) /\ bucket'[k] = bucket[k]
      BY DEF EtagVouches, BaseOf
    <3>1. Current(k) /\ bucket'[k] = bucket[k]
      BY <2>1 DEF Current
    <3> QED BY <1>4, <3>1 DEF Inv, Vouched, EtagVouches
  <2> QED BY <2>2, <2>3, <2>4, <2>5 DEF Vouched
<1> QED BY <1>1, <1>2, <1>3, <1>4 DEF Inv, Vouched

LEMMA ChangeInv ==
    ASSUME Inv,
           \/ \E k \in Indexes : RemoveIndex(k) \/ (\E c \in Contents : PutIndex(k, c))
           \/ RemoveBucket
    PROVE  Inv'
<1>1. ASSUME NEW k \in Indexes, NEW c \in Contents, PutIndex(k, c) PROVE Inv'
  <2>1. /\ bucket \in [Indexes -> Contents \cup {None}]
        /\ past \in [Indexes -> SUBSET Contents]
    BY <1>1 DEF PutIndex, Inv, Types
  <2>2. bucket' \in [Indexes -> Contents \cup {None}] /\ past' \in [Indexes -> SUBSET Contents]
    BY <1>1, <2>1 DEF PutIndex
  <2>3. \A j \in Indexes : past[j] \subseteq past'[j]
    BY <1>1, <2>1 DEF PutIndex
  <2>4. ASSUME NEW j \in Present'
        PROVE  /\ bucket'[j] \in past'[j]
               /\ \/ j \in Present /\ bucket'[j] = bucket[j]
                  \/ bucket'[j] \notin past[j] \/ reverted'
    <3>1. CASE j = k
      BY <1>1, <2>1, <3>1 DEF PutIndex
    <3>2. CASE j # k
      BY <1>1, <2>1, <2>3, <2>4, <3>2 DEF PutIndex, Present, Inv, Remembered
    <3> QED BY <3>1, <3>2
  <2>5. UNCHANGED <<models, ixer>> /\ (reverted => reverted')
    BY <1>1 DEF PutIndex
  <2> QED BY <2>2, <2>3, <2>4, <2>5, BucketInv
<1>2. ASSUME NEW k \in Indexes, RemoveIndex(k) PROVE Inv'
  <2>1. /\ bucket \in [Indexes -> Contents \cup {None}]
        /\ past \in [Indexes -> SUBSET Contents] /\ past' = past /\ reverted' = reverted
    BY <1>2 DEF RemoveIndex, Present, Inv, Types
  <2>2. \A j \in Present' : j \in Present /\ bucket'[j] = bucket[j]
    BY <1>2, <2>1 DEF RemoveIndex, Present
  <2>3. \A j \in Present' : bucket'[j] \in past'[j]
    BY <2>1, <2>2 DEF Inv, Remembered
  <2>4. bucket' \in [Indexes -> Contents \cup {None}] /\ UNCHANGED <<models, ixer>>
    BY <1>2, <2>1 DEF RemoveIndex
  <2> QED BY <2>1, <2>2, <2>3, <2>4, BucketInv
<1>3. ASSUME RemoveBucket PROVE Inv'
  <2>1. Present' = {}
    BY <1>3 DEF RemoveBucket, Present
  <2>2. bucket' = None \/ bucket' \in [Indexes -> Contents \cup {None}]
    BY <1>3 DEF RemoveBucket
  <2>3. UNCHANGED <<models, ixer, past, reverted>> /\ past \in [Indexes -> SUBSET Contents]
    BY <1>3 DEF RemoveBucket, Inv, Types
  <2> QED BY <2>1, <2>2, <2>3, BucketInv
<1> QED BY <1>1, <1>2, <1>3

LEMMA ListInv == Inv /\ List => Inv'
<1> SUFFICES ASSUME Inv, List PROVE Inv'
  OBVIOUS
<1>1. /\ UNCHANGED <<bucket, past, reverted, models, object, todo>> /\ idx' = "next"
      /\ listing' = {[key |-> k, etag |-> bucket[k]] : k \in Present}
  BY DEF List, env
<1>2. listing' \in SUBSET Objects /\ \A o \in listing' : o.key \in Present /\ o.etag = bucket[o.key]
  BY <1>1 DEF Inv, Types, Present, Objects
<1>3. Types'
  BY <1>1, <1>2 DEF Inv, Types
<1>4. Listing'
  BY <1>1 DEF Listing
<1>5. Remembered'
  BY <1>1, <1>2 DEF Inv, Remembered, Present
<1>6. Vouched'
  BY <1>1, <1>2 DEF Inv, Vouched, Outdated, Current, Present, Loaded, EtagVouches, BaseOf
<1> QED BY <1>3, <1>4, <1>5, <1>6 DEF Inv

LEMMA GetIndexInv == ASSUME Inv, NEW o \in listing, GetIndex(o) PROVE Inv'
<1>1. /\ UNCHANGED <<bucket, past, reverted, todo>> /\ listing' = listing \ {o}
      /\ o \in Objects /\ models \in [Indexes -> Models \cup {None}]
      /\ Present' = Present
  BY DEF GetIndex, env, Inv, Types, Present
<1>2. CASE models[o.key] # None /\ models[o.key].etag = o.etag
  <2>1. UNCHANGED <<models, idx, object>> /\ idx = "next"
    BY <1>2 DEF GetIndex
  <2> QED BY <1>1, <2>1 DEF Inv, Types, Listing, Remembered, Vouched, Outdated, Loaded,
                            EtagVouches, Current, BaseOf
<1>3. CASE models[o.key] = None
  <2>1. /\ models' = [models EXCEPT ![o.key] = [etag |-> None, base |-> NoBase]]
        /\ object' = o /\ idx' = "load"
    BY <1>3 DEF GetIndex
  <2>2. /\ models' \in [Indexes -> Models \cup {None}] /\ models'[o.key] \in Models
        /\ models'[o.key].etag = None
        /\ \A k \in Indexes : k # o.key => models'[k] = models[k]
    BY <1>1, <2>1 DEF Objects, Models
  <2>3. o.key \in Indexes /\ o.etag \in Contents /\ o.etag # None
    BY <1>1, ConstantsAssumption DEF Objects
  <2>4. ~Current(o.key)'
    BY <2>2 DEF Current, Present
  <2>5. \A p \in listing' : p \in Objects /\ p.key \in Indexes /\ p.key # o.key
    BY <1>1 DEF Inv, Types, Objects, Listing
  <2>6. Types' /\ Listing'
    BY <1>1, <2>1, <2>2, <2>3, <2>5 DEF Inv, Types, Listing
  <2>7. Remembered'
    BY <1>1, <2>1, <2>2, <2>3 DEF Inv, Remembered
  <2>8. Vouched'
    BY <1>1, <2>1, <2>2, <2>3, <2>4, <2>5
    DEF Inv, Vouched, Outdated, Loaded, EtagVouches, Current, BaseOf
  <2> QED BY <2>6, <2>7, <2>8 DEF Inv
<1>4. CASE models[o.key] # None /\ models[o.key].etag # o.etag
  <2>1. models' = models /\ object' = o /\ idx' = "load"
    BY <1>4 DEF GetIndex
  <2>2. models[o.key] \in Models
    BY <1>1, <1>4 DEF Objects
  <2>3. \A p \in listing' : p.key # o.key
    BY <1>1 DEF Inv, Listing
  <2>4. Types' /\ Listing'
    BY <1>1, <1>4, <2>1, <2>2, <2>3 DEF Inv, Types, Listing
  <2>5. Remembered'
    BY <1>1, <2>1 DEF Inv, Remembered
  <2>6. Vouched'
    BY <1>1, <2>1 DEF Inv, Vouched, Outdated, Loaded, EtagVouches, Current, BaseOf
  <2> QED BY <2>4, <2>5, <2>6 DEF Inv
<1> QED BY <1>2, <1>3, <1>4

\* While an index is loaded only its base directory changes, and that is the
\* base directory of an entry that does not have the ETag in the bucket.
LEMMA BaseInv ==
    ASSUME Inv, UNCHANGED <<bucket, past, reverted, listing, object>>,
           idx \in {"load", "stat"}, idx' = "stat",
           NEW b \in Bases \cup {NoBase},
           models' = [models EXCEPT ![object.key].base = b],
           todo' \in Seq([base : Bases, key : Blobs]),
           ~reverted => Loaded'
    PROVE  Inv'
<1>1. /\ object \in Objects /\ models[object.key] \in Models
      /\ models[object.key].etag # object.etag
      /\ models \in [Indexes -> Models \cup {None}]
  BY DEF Inv, Types, Listing
<1>2. object.key \in Indexes /\ object.etag \in Contents
  BY <1>1 DEF Objects
<1>3. models' = [models EXCEPT ![object.key] = [models[object.key] EXCEPT !.base = b]]
  BY <1>1, <1>2
<1>4. [models[object.key] EXCEPT !.base = b] \in Models
  BY <1>1 DEF Models
<1>5. [models[object.key] EXCEPT !.base = b].etag = models[object.key].etag
  BY <1>1 DEF Models
<1>6. /\ models' \in [Indexes -> Models \cup {None}] /\ models'[object.key] \in Models
      /\ models'[object.key].etag = models[object.key].etag
      /\ \A k \in Indexes : k # object.key => models'[k] = models[k]
  BY <1>1, <1>2, <1>3, <1>4, <1>5
<1>7. Present' = Present /\ \A k \in Indexes : Current(k)' => Current(k)
  BY <1>1, <1>6, ConstantsAssumption DEF Present, Current
<1>8. Types' /\ Listing'
  BY <1>1, <1>6 DEF Inv, Types, Listing
<1>9. Remembered'
  BY <1>1, <1>6, <1>7 DEF Inv, Remembered
<1>10. ASSUME ~reverted PROVE Vouched'
  <2>1. \A o \in listing' : Outdated(o)'
    BY <1>6, <1>7, <1>10 DEF Inv, Types, Objects, Listing, Vouched, Outdated
  <2>2. ~Current(object.key)
    BY <1>1, <1>10 DEF Inv, Vouched, Outdated
  <2>3. Outdated(object)'
    BY <1>2, <1>7, <2>2 DEF Outdated
  <2>4. EtagVouches'
    BY <1>2, <1>6, <1>7, <1>10, <2>2 DEF Inv, Vouched, EtagVouches, BaseOf
  <2> QED BY <1>10, <2>1, <2>3, <2>4 DEF Vouched
<1> QED BY <1>8, <1>9, <1>10 DEF Inv, Vouched

LEMMA AbortInv == Inv /\ Abort => Inv'
<1> SUFFICES ASSUME Inv, Abort PROVE Inv'
  OBVIOUS
<1>1. EndScan /\ UNCHANGED <<bucket, past, reverted, models>>
  BY DEF Abort, env
<1>2. models' \in [Indexes -> Models \cup {None}]
  BY <1>1 DEF Inv, Types
<1> QED BY <1>1, <1>2, EndInv

LEMMA LoadInv == Inv /\ Load => Inv'
<1> SUFFICES ASSUME Inv, Load PROVE Inv'
  OBVIOUS
<1>1. CASE object.key \notin Present
  BY <1>1, AbortInv DEF Load
<1>2. CASE object.key \in Present
  <2>1. /\ idx = "load" /\ idx' = "stat" /\ todo' = bucket[object.key]
        /\ models' = [models EXCEPT ![object.key].base = NoBase]
        /\ UNCHANGED <<bucket, past, reverted, listing, object>>
    BY <1>2 DEF Load, env
  <2>2. object \in Objects /\ models[object.key] \in Models /\ object.key \in Indexes
    BY <2>1 DEF Inv, Listing, Objects
  <2>3. bucket[object.key] \in Contents
    BY <1>2 DEF Inv, Types, Present
  <2>4. bucket[object.key] \in Seq([base : Bases, key : Blobs])
    BY <2>3, ConstantsAssumption
  <2>5. ASSUME bucket[object.key] = object.etag PROVE Loaded'
    <3>1. todo' = SubSeq(object.etag, 0 + 1, Len(object.etag)) /\ 0 \in 0..Len(object.etag)
      BY <2>1, <2>4, <2>5
    <3>2. models'[object.key].base = NoBase
      BY <2>1, <2>2 DEF Inv, Types, Models
    <3> QED BY <2>1, <3>1, <3>2 DEF Loaded, Seen
  <2>6. Loaded'
    BY <2>1, <2>5 DEF Loaded
  <2> QED BY <2>1, <2>4, <2>6, BaseInv
<1> QED BY <1>1, <1>2

\* What remains of a content after n entries is empty only at its end, begins
\* with the next entry, and continues with what remains after that.
LEMMA Remainder ==
    ASSUME NEW S, NEW c \in Seq(S), NEW n \in 0..Len(c)
    PROVE  LET rest == SubSeq(c, n + 1, Len(c))
           IN  /\ rest = <<>> => n = Len(c)
               /\ n = Len(c) => rest = <<>>
               /\ rest # <<>> => /\ n < Len(c) /\ n + 1 \in 0..Len(c)
                                 /\ Head(rest) = c[n + 1] /\ c[1] \in S /\ c # <<>>
                                 /\ Tail(rest) = SubSeq(c, (n + 1) + 1, Len(c))
<1> DEFINE rest == SubSeq(c, n + 1, Len(c))
<1>1. Len(c) \in Nat /\ \A i \in 1..Len(c) : c[i] \in S
  OBVIOUS
<1>2. CASE n = Len(c)
  BY <1>1, <1>2, SubSeqEmpty
<1>3. CASE n < Len(c)
  <2>1. n + 1 \in 1..Len(c) /\ Len(c) \in (n + 1)..Len(c)
    BY <1>1, <1>3
  <2>2. Head(rest) = c[n + 1] /\ Tail(rest) = SubSeq(c, (n + 1) + 1, Len(c))
    BY <2>1, HeadTailOfSubSeq
  <2>3. Len(rest) = Len(c) - (n + 1) + 1
    BY <1>1, <2>1, SubSeqProperties
  <2>4. rest # <<>>
    <3>1. Len(rest) # 0
      BY <1>1, <1>3, <2>3
    <3> HIDE DEF rest
    <3> QED BY <3>1
  <2>5. c # <<>> /\ c[1] \in S
    BY <1>1, <1>3
  <2> QED BY <1>1, <1>3, <2>1, <2>2, <2>4, <2>5
<1> QED BY <1>1, <1>2, <1>3

LEMMA StatInv == Inv /\ Stat => Inv'
<1> SUFFICES ASSUME Inv, Stat PROVE Inv'
  OBVIOUS
<1> DEFINE entry == Head(todo)
           base  == models[object.key].base
<1>1. CASE Abort
  BY <1>1, AbortInv
<1>2. CASE /\ base \in {NoBase, entry.base}
           /\ models' = [models EXCEPT ![object.key].base = entry.base]
           /\ todo' = Tail(todo)
           /\ UNCHANGED <<env, tfx, idx, listing, entries, object, tfxs, served, broken>>
  <2>1. /\ idx = "stat" /\ idx' = "stat" /\ todo # <<>>
        /\ UNCHANGED <<bucket, past, reverted, listing, object>>
    BY <1>2 DEF Stat, env
  <2>2. object \in Objects /\ models[object.key] \in Models /\ object.key \in Indexes
    BY <2>1 DEF Inv, Listing, Objects
  <2>3. todo \in Seq([base : Bases, key : Blobs])
    BY DEF Inv, Types
  <2>4. entry \in [base : Bases, key : Blobs] /\ todo' \in Seq([base : Bases, key : Blobs])
    BY <1>2, <2>1, <2>3, HeadTailProperties
  <2>5. models'[object.key].base = entry.base
    BY <1>2, <2>2 DEF Inv, Types, Models
  <2>6. ASSUME ~reverted PROVE Loaded'
    <3> SUFFICES ASSUME object.key \in Present, bucket[object.key] = object.etag
                 PROVE  \E n \in 0..Len(object.etag) :
                           /\ todo' = SubSeq(object.etag, n + 1, Len(object.etag))
                           /\ models'[object.key].base = Seen(object.etag, n)
      BY <2>1 DEF Loaded, Present, Seen, BaseOf
    <3> DEFINE c == object.etag
    <3>1. c \in Seq([base : Bases, key : Blobs])
      BY <2>2, ConstantsAssumption DEF Objects
    <3>2. PICK n \in 0..Len(c) : todo = SubSeq(c, n + 1, Len(c)) /\ base = Seen(c, n)
      BY <2>1, <2>6 DEF Inv, Vouched, Loaded
    <3> HIDE DEF c
    <3>3. /\ n + 1 \in 0..Len(c) /\ entry = c[n + 1] /\ c # <<>>
          /\ c[1] \in [base : Bases, key : Blobs]
          /\ todo' = SubSeq(c, (n + 1) + 1, Len(c))
      <4>1. todo = SubSeq(c, n + 1, Len(c)) /\ todo # <<>> /\ todo' = Tail(todo)
        BY <1>2, <2>1, <3>2
      <4> QED BY <3>1, <4>1, Remainder
    <3>4. BaseOf(c) = c[1].base /\ BaseOf(c) # NoBase
      BY <3>3, ConstantsAssumption DEF BaseOf
    <3>5. n \in Nat /\ Seen(c, n + 1) = BaseOf(c)
      BY <3>1 DEF Seen
    <3>6. entry.base = BaseOf(c)
      <4>1. CASE n = 0
        BY <3>3, <3>4, <4>1
      <4>2. CASE n # 0
        BY <1>2, <3>2, <3>4, <4>2 DEF Seen
      <4> QED BY <4>1, <4>2
    <3> QED BY <2>5, <3>3, <3>5, <3>6 DEF c
  <2>7. entry.base \in Bases \cup {NoBase}
    BY <2>4
  <2> QED BY <1>2, <2>1, <2>4, <2>6, <2>7, BaseInv
<1> QED BY <1>1, <1>2 DEF Stat

LEMMA SetTagInv == Inv /\ SetTag => Inv'
<1> SUFFICES ASSUME Inv, SetTag PROVE Inv'
  OBVIOUS
<1>1. /\ idx = "stat" /\ todo = <<>> /\ idx' = "next"
      /\ UNCHANGED <<bucket, past, reverted, listing, todo>>
      /\ models' = [models EXCEPT ![object.key].etag = object.etag]
  BY DEF SetTag, env
<1>2. /\ object \in Objects /\ models[object.key] \in Models /\ object.key \in Indexes
      /\ models \in [Indexes -> Models \cup {None}] /\ object.etag \in Contents
  BY <1>1 DEF Inv, Types, Listing, Objects
<1>3. [models[object.key] EXCEPT !.etag = object.etag] \in Models
  BY <1>2 DEF Models
<1>4. /\ models' \in [Indexes -> Models \cup {None}] /\ models'[object.key] \in Models
      /\ models'[object.key].etag = object.etag
      /\ models'[object.key].base = models[object.key].base
      /\ \A k \in Indexes : k # object.key => models'[k] = models[k]
  <2>1. models' = [models EXCEPT ![object.key] = [models[object.key] EXCEPT !.etag = object.etag]]
    BY <1>1, <1>2
  <2>2. /\ [models[object.key] EXCEPT !.etag = object.etag].etag = object.etag
        /\ [models[object.key] EXCEPT !.etag = object.etag].base = models[object.key].base
    BY <1>2 DEF Models
  <2> QED BY <1>2, <1>3, <2>1, <2>2
<1>5. Present' = Present
  BY <1>1 DEF Present
<1>6. Types' /\ Listing'
  BY <1>1, <1>4 DEF Inv, Types, Listing
<1>7. Remembered'
  BY <1>1, <1>2, <1>4, <1>5 DEF Inv, Remembered
<1>8. ASSUME ~reverted PROVE Vouched'
  <2>1. \A o \in listing' : Outdated(o)'
    BY <1>1, <1>4, <1>5, <1>8 DEF Inv, Types, Objects, Listing, Vouched, Outdated, Current
  <2>2. ASSUME NEW k \in Indexes, k = object.key, Current(k)'
        PROVE  models'[k].base = BaseOf(bucket[k])
    <3> DEFINE c == object.etag
    <3>1. object.key \in Present /\ bucket[object.key] = c
      BY <1>1, <1>4, <1>5, <2>2 DEF Current
    <3>2. c \in Seq([base : Bases, key : Blobs])
      BY <1>2, ConstantsAssumption
    <3>3. PICK n \in 0..Len(c) :
             todo = SubSeq(c, n + 1, Len(c)) /\ models[object.key].base = Seen(c, n)
      BY <1>1, <1>8, <3>1 DEF Inv, Vouched, Loaded
    <3>4. n = Len(c)
      <4> HIDE DEF c
      <4> QED BY <1>1, <3>2, <3>3, Remainder
    <3>5. Seen(c, n) = BaseOf(c)
      BY <3>2, <3>4 DEF Seen, BaseOf
    <3> QED BY <1>4, <2>2, <3>1, <3>3, <3>5
  <2>3. ASSUME NEW k \in Indexes, Current(k)' PROVE models'[k].base = BaseOf(bucket[k])
    <3>1. CASE k = object.key
      BY <2>2, <2>3, <3>1
    <3>2. CASE k # object.key
      BY <1>1, <1>4, <1>5, <1>8, <2>3, <3>2 DEF Inv, Vouched, EtagVouches, Current
    <3> QED BY <3>1, <3>2
  <2>4. EtagVouches'
    BY <1>1, <2>3 DEF EtagVouches, BaseOf
  <2> QED BY <1>1, <2>1, <2>4 DEF Vouched, Loaded
<1> QED BY <1>1, <1>6, <1>7, <1>8 DEF Inv, Vouched

LEMMA NextInv == Inv /\ [Next]_vars => Inv'
<1> SUFFICES ASSUME Inv, [Next]_vars PROVE Inv'
  OBVIOUS
<1>1. CASE \/ \E k \in Indexes : RemoveIndex(k) \/ (\E c \in Contents : PutIndex(k, c))
           \/ RemoveBucket
  BY <1>1, ChangeInv
<1>2. CASE \E b \in Blobs : ChangeBlob(b)
  BY <1>2, FrameInv DEF ChangeBlob
<1>3. CASE Crash
  BY <1>3, EndInv DEF Crash
<1>4. CASE Groom
  <2>1. /\ EndScan /\ UNCHANGED <<bucket, past, reverted>>
        /\ models' = [k \in Indexes |-> IF k \in entries THEN models[k] ELSE None]
    BY <1>4 DEF Groom, env
  <2>2. models' \in [Indexes -> Models \cup {None}]
    BY <2>1 DEF Inv, Types
  <2> QED BY <2>1, <2>2, EndInv
<1>5. CASE List \/ Load \/ Stat \/ SetTag \/ (\E o \in listing : GetIndex(o))
  BY <1>5, ListInv, LoadInv, StatInv, SetTagInv, GetIndexInv
<1>6. CASE ScanFails
  BY <1>6, AbortInv DEF ScanFails
<1>7. CASE TFXScan \/ ReadFails \/ WriteFails
  BY <1>7, FrameInv DEF TFXScan, ReadTFXCfg, GetBases, WriteTFXCfg, ReadFails, WriteFails, env
<1>8. CASE UNCHANGED vars
  BY <1>8, FrameInv DEF vars, env
<1> QED BY <1>1, <1>2, <1>3, <1>4, <1>5, <1>6, <1>7, <1>8 DEF Next, Indexer

\* An ETag vouches for the base directory (indexer.go getIndex, model.go Load),
\* for any number of index files, contents, failures and restarts.
THEOREM EtagsVouch == Spec => []EtagVouches
<1>1. Inv => EtagVouches
  BY DEF Inv, Vouched, EtagVouches
<1> QED BY <1>1, InitInv, NextInv, PTL DEF Spec
-----------------------------------------------------------------------------
(* StaysServed.  A model that is in the configuration keeps its entry in   *)
(* knownIndexes through every scan, because an entry with the ETag in the  *)
(* bucket was listed, or is new; and with its entry it keeps its place.    *)

ConfigTypes ==
    /\ tfx = Garbled \/ tfx \in [Dirs -> Nat]
    /\ scan \in {"idle", "bases", "write"}
    /\ scan # "idle" => cfg \in [Dirs -> Nat]
    /\ served \subseteq Indexes

\* Groom will not drop an entry with the ETag in the bucket.
Spared ==
    idx # "idle" => \A k \in Indexes : Current(k) =>
                       k \in entries \/ \E o \in listing : o.key = k

InPlace(k) ==
    /\ Current(k)
    /\ broken \/ (tfx # Garbled /\ tfx[Loc(models[k].base)] > 0)
    /\ scan = "write" => cfg[Loc(models[k].base)] > 0

Kept == ~reverted => Spared /\ \A k \in served : InPlace(k)

ServedInv == Inv /\ ConfigTypes /\ Kept

LEMMA EmptyType == Empty \in [Dirs -> Nat]
BY DEF Empty

LEMMA LocType == \A b \in Bases \cup {NoBase} : Loc(b) \in Dirs
BY DEF Dirs

LEMMA ConfigTypesNext == Inv /\ ConfigTypes /\ [Next]_vars => ConfigTypes'
<1> SUFFICES ASSUME Inv, ConfigTypes, [Next]_vars PROVE ConfigTypes'
  OBVIOUS
<1> USE EmptyType DEF ConfigTypes, tfxs, Abort
<1>1. CASE UNCHANGED vars
  BY <1>1 DEF vars
<1>2. CASE \/ \E k \in Indexes : RemoveIndex(k) \/ (\E c \in Contents : PutIndex(k, c))
           \/ RemoveBucket \/ (\E b \in Blobs : ChangeBlob(b))
  BY <1>2 DEF RemoveIndex, PutIndex, RemoveBucket, ChangeBlob
<1>3. CASE Indexer \/ ScanFails
  BY <1>3 DEF Indexer, ScanFails, List, Load, Stat, SetTag, Groom, GetIndex
<1>4. CASE Crash
  BY <1>4 DEF Crash, HalfWritten
<1>5. CASE ReadTFXCfg \/ ReadFails
  BY <1>5 DEF ReadTFXCfg, ReadFails
<1>6. CASE GetBases
  <2>1. cfg \in [Dirs -> Nat] /\ \A d \in Listed(cfg) : cfg[d] - 1 \in Nat
    BY <1>6 DEF GetBases, Listed
  <2>2. scan' # "idle" => cfg' \in [Dirs -> Nat]
    BY <1>6, <2>1 DEF GetBases
  <2> QED BY <1>6, <2>2 DEF GetBases
<1>7. CASE WriteTFXCfg \/ WriteFails
  BY <1>7 DEF WriteTFXCfg, WriteFails, HalfWritten
<1> QED BY <1>1, <1>2, <1>3, <1>4, <1>5, <1>6, <1>7 DEF Next, TFXScan

\* A change of the bucket makes no entry of knownIndexes current.
LEMMA ChangeCurrent ==
    ASSUME Inv, ~reverted',
           \/ \E k \in Indexes : RemoveIndex(k) \/ (\E c \in Contents : PutIndex(k, c))
           \/ RemoveBucket
    PROVE  \A k \in Indexes : Current(k)' => Current(k)
<1> SUFFICES ASSUME NEW k \in Indexes, Current(k)' PROVE Current(k)
  OBVIOUS
<1>1. ASSUME NEW j \in Indexes, NEW c \in Contents, PutIndex(j, c) PROVE Current(k)
  <2>1. bucket \in [Indexes -> Contents \cup {None}] /\ models' = models /\ c # None
    BY <1>1, ConstantsAssumption DEF PutIndex, Inv, Types
  <2>2. CASE k = j
    <3>1. models[k] # None /\ models[k].etag = c
      BY <1>1, <2>1, <2>2 DEF PutIndex, Current
    <3>2. c \in past[k]
      BY <2>1, <3>1 DEF Inv, Types, Remembered
    <3> QED BY <1>1, <2>2, <3>2 DEF PutIndex
  <2>3. CASE k # j
    BY <1>1, <2>1, <2>3 DEF PutIndex, Current, Present
  <2> QED BY <2>2, <2>3
<1>2. ASSUME NEW j \in Indexes, RemoveIndex(j) PROVE Current(k)
  BY <1>2 DEF RemoveIndex, Current, Present, Inv, Types
<1>3. CASE RemoveBucket
  BY <1>3 DEF RemoveBucket, Current, Present
<1> QED BY <1>1, <1>2, <1>3

LEMMA ChangeKept ==
    ASSUME Inv, ConfigTypes, Kept,
           \/ \E k \in Indexes : RemoveIndex(k) \/ (\E c \in Contents : PutIndex(k, c))
           \/ RemoveBucket
    PROVE  Kept'
<1> SUFFICES ASSUME ~reverted' PROVE Spared' /\ \A k \in served' : InPlace(k)'
  BY DEF Kept
<1>1. ~reverted /\ UNCHANGED <<tfx, models, ixer, tfxs, broken>>
  <2>1. ASSUME NEW j \in Indexes, RemoveIndex(j) PROVE  ~reverted /\ UNCHANGED <<tfx, models, ixer, tfxs, broken>>
    BY <2>1 DEF RemoveIndex
  <2>2. ASSUME NEW j \in Indexes, NEW c \in Contents, PutIndex(j, c) PROVE  ~reverted /\ UNCHANGED <<tfx, models, ixer, tfxs, broken>>
    BY <2>2 DEF PutIndex
  <2>3. CASE RemoveBucket
    BY <2>3 DEF RemoveBucket
  <2> QED BY <2>1, <2>2, <2>3
<1>2. Spared'
  BY <1>1, ChangeCurrent DEF Kept, Spared, ixer
<1>3. ASSUME NEW k \in served' PROVE k \in served /\ Current(k)'
  <2>1. k \in served /\ k \in Indexes /\ Current(k)
    BY <1>1, <1>3 DEF Kept, InPlace, ConfigTypes, RemoveIndex, PutIndex, RemoveBucket
  <2>2. ASSUME NEW j \in Indexes, RemoveIndex(j) \/ (\E c \in Contents : PutIndex(j, c))
        PROVE  bucket' # None /\ bucket'[k] = bucket[k]
    <3>1. bucket \in [Indexes -> Contents \cup {None}] /\ k # j
      BY <1>3, <2>2 DEF RemoveIndex, PutIndex, Present, Inv, Types
    <3>2. bucket' \in [Indexes -> Contents \cup {None}]
      BY <2>2, <3>1 DEF RemoveIndex, PutIndex
    <3>3. bucket'[k] = bucket[k]
      BY <2>1, <2>2, <3>1 DEF RemoveIndex, PutIndex
    <3> QED BY <3>2, <3>3, ConstantsAssumption
  <2>3. ~RemoveBucket
    BY <1>3 DEF RemoveBucket
  <2> QED BY <1>1, <2>1, <2>2, <2>3 DEF Current, Present
<1> QED BY <1>1, <1>2, <1>3 DEF Kept, InPlace, tfxs

\* The indexer: what is current was listed, is passed by, or is left alone.
LEMMA IndexerKept ==
    ASSUME Inv, ConfigTypes, Kept, Indexer \/ ScanFails
    PROVE  Kept'
<1> SUFFICES ASSUME ~reverted' PROVE Spared' /\ \A k \in served' : InPlace(k)'
  BY DEF Kept
<1>1. /\ UNCHANGED <<bucket, reverted, tfx, scan, cfg, served, broken>> /\ ~reverted
      /\ Present' = Present
  BY DEF Indexer, ScanFails, List, Load, Stat, SetTag, Groom, GetIndex, Abort, env, tfxs, Present
<1>2. Spared /\ \A k \in served : k \in Indexes /\ InPlace(k)
  BY <1>1 DEF Kept, ConfigTypes
<1> DEFINE Same == \A k \in Indexes : Current(k) => models'[k] = models[k]
<1>3. CASE Abort
  <2>1. Same /\ Spared'
    BY <1>3 DEF Abort, EndScan, Spared
  <2> QED BY <1>1, <1>2, <2>1 DEF InPlace, Current
<1>4. CASE List
  <2>1. models' = models /\ listing' = {[key |-> k, etag |-> bucket[k]] : k \in Present}
    BY <1>4 DEF List
  <2>2. ASSUME NEW k \in Present PROVE \E o \in listing' : o.key = k
    <3>1. [key |-> k, etag |-> bucket[k]] \in listing'
      BY <2>1
    <3> QED BY <3>1
  <2>3. Spared'
    BY <1>1, <2>2 DEF Spared, Current
  <2> QED BY <1>1, <1>2, <2>1, <2>3 DEF InPlace, Current
<1>5. ASSUME NEW o \in listing, GetIndex(o) PROVE Spared' /\ Same
  <2>1. /\ o \in Objects /\ o.key \in Indexes /\ listing' = listing \ {o} /\ idx = "next"
        /\ models \in [Indexes -> Models \cup {None}]
    BY <1>5 DEF GetIndex, Inv, Types, Objects
  <2>2. CASE models[o.key] # None /\ models[o.key].etag = o.etag
    BY <1>1, <1>2, <1>5, <2>1, <2>2 DEF GetIndex, Spared, Current
  <2>3. CASE ~(models[o.key] # None /\ models[o.key].etag = o.etag)
    <3>1. entries' = entries /\ (models[o.key] # None => models' = models)
      BY <1>5, <2>3 DEF GetIndex
    <3>2. CASE models[o.key] # None
      <4>1. ~Current(o.key)
        BY <1>1, <2>1, <2>3, <3>2 DEF Inv, Vouched, Outdated
      <4> QED BY <1>1, <1>2, <2>1, <3>1, <3>2, <4>1 DEF Spared, Current
    <3>3. CASE models[o.key] = None
      <4>1. models' = [models EXCEPT ![o.key] = [etag |-> None, base |-> NoBase]]
        BY <1>5, <3>3 DEF GetIndex
      <4>2. /\ models'[o.key].etag = None
            /\ \A k \in Indexes : k # o.key => models'[k] = models[k]
        BY <2>1, <4>1
      <4>3. ~Current(o.key)' /\ ~Current(o.key)
        BY <1>1, <3>3, <4>2 DEF Current, Present
      <4> QED BY <1>1, <1>2, <2>1, <3>1, <4>2, <4>3 DEF Spared, Current
    <3> QED BY <3>2, <3>3
  <2> QED BY <2>2, <2>3
<1>6. ASSUME NEW b, models' = [models EXCEPT ![object.key].base = b],
             idx \in {"load", "stat"}, idx' # "idle", UNCHANGED <<listing, entries>>
      PROVE  Spared' /\ Same
  <2>1. object.key \in Indexes /\ models[object.key] \in Models /\ ~Current(object.key)
    BY <1>1, <1>6 DEF Inv, Listing, Objects, Vouched, Outdated
  <2>2. models' = [models EXCEPT ![object.key] = [models[object.key] EXCEPT !.base = b]]
    BY <1>6, <2>1
  <2>3. /\ models'[object.key] = [models[object.key] EXCEPT !.base = b]
        /\ \A k \in Indexes : k # object.key => models'[k] = models[k]
    BY <2>1, <2>2 DEF Inv, Types
  <2>4. models'[object.key].etag = models[object.key].etag
    BY <2>1, <2>3 DEF Models
  <2>5. models[object.key] # None
    BY <2>1, ConstantsAssumption
  <2>6. \A k \in Indexes : k = object.key => ~Current(k)'
    BY <1>1, <1>6, <2>1, <2>4, <2>5 DEF Current
  <2> QED BY <1>1, <1>2, <1>6, <2>1, <2>3, <2>6 DEF Spared, Current
<1>7. CASE SetTag
  <2>1. /\ models' = [models EXCEPT ![object.key].etag = object.etag]
        /\ entries' = entries \cup {object.key} /\ listing' = listing /\ idx = "stat"
    BY <1>7 DEF SetTag
  <2>2. object.key \in Indexes /\ ~Current(object.key)
    BY <1>1, <2>1 DEF Inv, Listing, Objects, Vouched, Outdated
  <2>3. \A k \in Indexes : k # object.key => models'[k] = models[k]
    BY <2>1, <2>2 DEF Inv, Types
  <2> QED BY <1>1, <1>2, <2>1, <2>2, <2>3 DEF Spared, Current, InPlace
<1>8. CASE Groom
  <2>1. /\ idx = "next" /\ listing = {} /\ idx' = "idle"
        /\ models' = [k \in Indexes |-> IF k \in entries THEN models[k] ELSE None]
    BY <1>8 DEF Groom, EndScan
  <2>2. Spared' /\ Same
    BY <1>2, <2>1 DEF Spared
  <2> QED BY <1>1, <1>2, <2>2 DEF InPlace, Current
<1>9. CASE (Load \/ Stat) /\ ~Abort
  <2>1. \E b : models' = [models EXCEPT ![object.key].base = b]
    BY <1>9 DEF Load, Stat
  <2>2. idx \in {"load", "stat"} /\ idx' # "idle" /\ UNCHANGED <<listing, entries>>
    BY <1>9 DEF Load, Stat
  <2>3. Spared' /\ Same
    BY <1>6, <2>1, <2>2
  <2> QED BY <1>1, <1>2, <2>3 DEF InPlace, Current
<1>10. CASE \E o \in listing : GetIndex(o)
  <2>1. Spared' /\ Same
    BY <1>5, <1>10
  <2> QED BY <1>1, <1>2, <2>1 DEF InPlace, Current
<1> QED BY <1>3, <1>4, <1>7, <1>8, <1>9, <1>10 DEF Indexer, ScanFails

\* The TFX scan: what is current is in knownIndexes, and so in what is written.
LEMMA ScanKept ==
    ASSUME Inv, ConfigTypes, Kept, TFXScan \/ ReadFails \/ WriteFails
    PROVE  Kept'
<1> SUFFICES ASSUME ~reverted' PROVE Spared' /\ \A k \in served' : InPlace(k)'
  BY DEF Kept
<1>1. UNCHANGED <<env, models, ixer>>
  BY DEF TFXScan, ReadTFXCfg, GetBases, WriteTFXCfg, ReadFails, WriteFails
<1>2. UNCHANGED <<bucket, idx, listing, entries>> /\ ~reverted
  BY <1>1 DEF env, ixer
<1>3. Spared' /\ \A k \in Indexes : Current(k)' = Current(k)
  BY <1>1, <1>2 DEF Kept, Spared, Current, Present
<1>4. \A k \in served : k \in Indexes /\ InPlace(k)
  BY <1>2 DEF Kept, ConfigTypes
<1>5. CASE ReadTFXCfg \/ ReadFails
  BY <1>1, <1>3, <1>4, <1>5 DEF InPlace, ReadTFXCfg, ReadFails
<1>6. CASE GetBases
  <2>1. UNCHANGED <<tfx, served, broken>>
    BY <1>6 DEF GetBases
  <2>2. ASSUME NEW k \in served, scan' = "write" PROVE cfg'[Loc(models[k].base)] > 0
    <3> DEFINE mdlDirs(torn) == {DirOf(j, torn) : j \in {i \in Indexes : models[i] # None}}
               d == Loc(models[k].base)
    <3>1. models[k] # None /\ k \in Indexes /\ Current(k)
      BY <1>4 DEF InPlace, Current
    <3>2. models[k] \in Models
      BY <3>1 DEF Inv, Types
    <3>3. models[k].base \in Bases \cup {NoBase}
      BY <3>2 DEF Models
    <3>4. d \in Dirs /\ cfg \in [Dirs -> Nat]
      BY <1>6, <3>3, LocType DEF ConfigTypes, GetBases
    <3>5. PICK torn \in Torn \cup {None} : cfg' =
             [e \in Dirs |-> IF e \in Listed(cfg) \ mdlDirs(torn) THEN cfg[e] - 1
                             ELSE IF e \in mdlDirs(torn) \ Listed(cfg) THEN 1 ELSE cfg[e]]
      BY <1>6, <2>2 DEF GetBases
    <3>6. ~(idx \in {"load", "stat"} /\ object.key = k)
      BY <1>2, <3>1 DEF Inv, Listing, Vouched, Outdated
    <3>7. DirOf(k, torn) = d
      BY <3>6 DEF DirOf
    <3>8. d \in mdlDirs(torn)
      BY <3>1, <3>7
    <3> HIDE DEF d, mdlDirs
    <3>9. cfg'[d] = IF d \in mdlDirs(torn) \ Listed(cfg) THEN 1 ELSE cfg[d]
      BY <3>4, <3>5, <3>8
    <3>10. cfg'[d] > 0
      BY <3>4, <3>9, <3>8 DEF Listed
    <3> QED BY <3>10 DEF d
  <2> QED BY <1>1, <1>3, <1>4, <2>1, <2>2 DEF InPlace
<1>7. CASE WriteTFXCfg
  <2>1. /\ scan = "write" /\ tfx' = cfg /\ scan' = "idle" /\ broken' = FALSE
        /\ served' = served \cup
              {k \in Indexes : Current(k) /\ cfg[Loc(BaseOf(bucket[k]))] > 0}
    BY <1>7 DEF WriteTFXCfg
  <2>2. cfg # Garbled
    BY <2>1, ConstantsAssumption DEF ConfigTypes
  <2>3. ASSUME NEW k \in served' PROVE k \in Indexes /\ Current(k) /\ cfg[Loc(models[k].base)] > 0
    <3>1. CASE k \in served
      BY <1>4, <2>1, <3>1 DEF InPlace
    <3>2. CASE k \notin served
      <4>1. k \in Indexes /\ Current(k) /\ cfg[Loc(BaseOf(bucket[k]))] > 0
        BY <2>1, <2>3, <3>2
      <4>2. models[k].base = BaseOf(bucket[k])
        BY <1>2, <4>1 DEF Inv, Vouched, EtagVouches
      <4> QED BY <4>1, <4>2
    <3> QED BY <3>1, <3>2
  <2> QED BY <1>1, <1>3, <2>1, <2>2, <2>3 DEF InPlace
<1>8. CASE WriteFails
  BY <1>1, <1>3, <1>4, <1>8 DEF WriteFails, InPlace
<1> QED BY <1>5, <1>6, <1>7, <1>8 DEF TFXScan

LEMMA NextServed == ServedInv /\ [Next]_vars => ServedInv'
<1> SUFFICES ASSUME Inv, ConfigTypes, Kept, [Next]_vars PROVE Kept'
  BY NextInv, ConfigTypesNext DEF ServedInv
<1>1. CASE \/ \E k \in Indexes : RemoveIndex(k) \/ (\E c \in Contents : PutIndex(k, c))
           \/ RemoveBucket
  BY <1>1, ChangeKept
<1>2. CASE UNCHANGED vars \/ \E b \in Blobs : ChangeBlob(b)
  <2>1. UNCHANGED <<bucket, reverted, tfx, models, ixer, tfxs, served, broken>>
    BY <1>2 DEF vars, env, ChangeBlob
  <2> QED BY <2>1 DEF Kept, Spared, InPlace, Current, Present, ixer, tfxs
<1>3. CASE Crash
  BY <1>3 DEF Crash, EndScan, Kept, Spared
<1>4. CASE Indexer \/ ScanFails
  BY <1>4, IndexerKept
<1>5. CASE TFXScan \/ ReadFails \/ WriteFails
  BY <1>5, ScanKept
<1> QED BY <1>1, <1>2, <1>3, <1>4, <1>5 DEF Next

\* A model once in the configuration (tfx_serving.go TFXScanner) is not taken
\* out by what happens to other models, by failed scans or by failed reads of
\* the configuration, and a write that failed (tfx_config.go WriteTFXCfg) takes it
\* out only until the next one that does not, for any number of index files and
\* directories.
THEOREM ModelsStayServed == Spec => []StaysServed
<1>1. Init => ServedInv
  BY InitInv, EmptyType DEF Init, ServedInv, ConfigTypes, Kept, Spared
<1>2. ServedInv => StaysServed
  BY DEF ServedInv, Inv, ConfigTypes, Kept, InPlace, Vouched, EtagVouches, StaysServed
<1> QED BY <1>1, <1>2, NextServed, PTL DEF Spec
=============================================================================
