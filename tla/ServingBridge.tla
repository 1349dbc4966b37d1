---------------------------- MODULE ServingBridge ----------------------------
(***************************************************************************)
(* The serving bridge (tools/serving-bridge): one goroutine scans a bucket *)
(* for index files and keeps knownIndexes in step with them (indexer.go,   *)
(* model.go), another one writes the base directories of knownIndexes to   *)
(* the configuration of a TensorFlow server (tfx_serving.go,               *)
(* tfx_config.go).  They share knownIndexes and nothing else, and neither  *)
(* waits for the other.                                                    *)
(*                                                                         *)
(* The content of an index file is its sequence of CSV entries, each with  *)
(* a base directory and the key of a blob.  An ETag is a checksum of the   *)
(* content, so the content stands for it.  The configuration is the number *)
(* of times each directory is in it.                                       *)
(***************************************************************************)
EXTENDS Naturals, Sequences

CONSTANTS
    Indexes,       \* keys of index files
    Contents,      \* what may be in them, sequences of [base, key] records
    Bases, Blobs,  \* base directories of models, keys of blobs
    Strangers,     \* directories in the configuration that are not of the bucket
    Torn,          \* what a string may be read as while it is assigned
    None,          \* no index file, no entry of knownIndexes, no ETag
    NoBase,        \* the empty base directory
    Garbled,       \* a configuration file that does not parse
    MaxChanges     \* bound: changes of the bucket, and crashes

\* "s3://" + bucket + "/" + base + "/": also of an empty base.
Loc(base) == <<"s3", base>>

Dirs == {Loc(base) : base \in Bases \cup {NoBase}} \cup Strangers

\* Entries of a listing, and of knownIndexes.
Objects == [key : Indexes, etag : Contents]
Models  == [etag : Contents \cup {None}, base : Bases \cup {NoBase}]

ASSUME ConstantsAssumption ==
    /\ \A c \in Contents : c \in Seq([base : Bases, key : Blobs])
    /\ None \notin Contents \cup Models \cup [Indexes -> Contents \cup {None}]
    /\ NoBase \notin Bases /\ Torn \subseteq Dirs /\ None \notin Dirs
    /\ Garbled \notin [Dirs -> Nat]
    /\ MaxChanges \in Nat

VARIABLES
    bucket,        \* the index files, or None instead of the bucket
    blobs,         \* the blobs in it
    tfx,           \* the configuration of the TensorFlow server
    store,         \* where that is: a file, or S3 or a config map
    models,        \* knownIndexes: per index its ETag and base directory
    idx,           \* the indexer: idle, next, load, stat
    listing,       \* what ListObjects said and is still to be looked at
    entries,       \* the index files that were looked at
    object,        \* the index that is being loaded, with the ETag listed
    todo,          \* entries of its content still to be looked at
    scan,          \* the TFX scan: idle, bases, write
    cfg,           \* the configuration it has read, then the one it writes
    changes, past, reverted, served, broken   \* history, see below

env  == <<bucket, blobs, store, changes, past, reverted>>
ixer == <<idx, listing, entries, object, todo>>
tfxs == <<scan, cfg>>
vars == <<env, tfx, models, ixer, tfxs, served, broken>>

Empty == [d \in Dirs |-> 0]

Init ==
    /\ bucket = [k \in Indexes |-> None] /\ blobs = Blobs
    /\ store \in {"file", "remote"}
    /\ tfx = [d \in Dirs |-> IF d \in Strangers THEN 2 ELSE 0]
    /\ models = [k \in Indexes |-> None]
    /\ idx = "idle" /\ listing = {} /\ entries = {} /\ object = None /\ todo = <<>>
    /\ scan = "idle" /\ cfg = Empty
    /\ changes = 0
    /\ past = [k \in Indexes |-> {}] /\ reverted = FALSE /\ served = {}
    /\ broken = FALSE

Present == {k \in Indexes : bucket # None /\ bucket[k] # None}

\* The base directory that the first entry of a content names.
BaseOf(c) == IF c = <<>> THEN NoBase ELSE c[1].base

\* The entry of an index has the ETag of what is in the bucket.
Current(k) == k \in Present /\ models[k] # None /\ models[k].etag = bucket[k]
-----------------------------------------------------------------------------
(* The bucket.  past has what each index has contained, reverted says that *)
(* one of them was given back a former content.                            *)

Change ==
    /\ changes < MaxChanges
    /\ changes' = changes + 1

PutIndex(k, c) ==
    /\ Change
    /\ bucket # None /\ bucket[k] # c
    /\ bucket' = [bucket EXCEPT ![k] = c]
    /\ past' = [past EXCEPT ![k] = @ \cup {c}]
    /\ reverted' = (reverted \/ c \in past[k])
    /\ served' = served \ {k}
    /\ UNCHANGED <<blobs, store, tfx, models, ixer, tfxs, broken>>

RemoveIndex(k) ==
    /\ Change
    /\ k \in Present
    /\ bucket' = [bucket EXCEPT ![k] = None]
    /\ served' = served \ {k}
    /\ UNCHANGED <<blobs, store, past, reverted, tfx, models, ixer, tfxs, broken>>

RemoveBucket ==
    /\ Change
    /\ bucket' = IF bucket = None THEN [k \in Indexes |-> None] ELSE None
    /\ served' = {}
    /\ UNCHANGED <<blobs, store, past, reverted, tfx, models, ixer, tfxs, broken>>

\* A blob goes, or arrives.
ChangeBlob(b) ==
    /\ Change
    /\ blobs' = IF b \in blobs THEN blobs \ {b} ELSE blobs \cup {b}
    /\ UNCHANGED <<bucket, store, past, reverted, tfx, models, ixer, tfxs, served, broken>>
-----------------------------------------------------------------------------
(* The indexer.                                                            *)

\* ListObjects: every index that is there, with its ETag.  They come in the
\* order of their keys; here in any.  No bucket is no index, and no error; after
\* any other error the scan begins again, with nothing changed.
List ==
    /\ idx = "idle"
    /\ listing' = {[key |-> k, etag |-> bucket[k]] : k \in Present}
    /\ idx' = "next"
    /\ UNCHANGED <<env, tfx, models, entries, object, todo, tfxs, served, broken>>

\* The locals of a scan go with it.
EndScan ==
    idx' = "idle" /\ listing' = {} /\ entries' = {} /\ object' = None /\ todo' = <<>>

\* Mutation: a scan that failed is groomed like one that did not.
AbortGrooming ==
    /\ EndScan
    /\ models' = [k \in Indexes |-> IF k \in entries THEN models[k] ELSE None]
    /\ UNCHANGED <<env, tfx, tfxs, served, broken>>

\* An error of the store, an index that is too large or does not parse, a blob
\* that is missing, or base directories that differ: the scan is over, without
\* Groom, and begins again.
Abort == EndScan /\ UNCHANGED <<env, tfx, models, tfxs, served, broken>>

ScanFails ==
    /\ \/ idx = "next" /\ listing # {}
       \/ idx = "load"
       \/ idx = "stat" /\ todo # <<>>
    /\ Abort

\* Mutation: addModel does not clear the ETag.
GetIndexTagged(o) ==
    /\ idx = "next" /\ o \in listing
    /\ listing' = listing \ {o}
    /\ IF models[o.key] # None /\ models[o.key].etag = o.etag
       THEN /\ entries' = entries \cup {o.key}
            /\ UNCHANGED <<models, idx, object>>
       ELSE /\ models' = IF models[o.key] # None THEN models
                         ELSE [models EXCEPT ![o.key] = [etag |-> o.etag, base |-> NoBase]]
            /\ object' = o /\ idx' = "load"
            /\ UNCHANGED entries
    /\ UNCHANGED <<env, tfx, todo, tfxs, served, broken>>

\* getIndex: an index with the ETag it had is not loaded again; addModel enters
\* a new one without an ETag.
GetIndex(o) ==
    /\ idx = "next" /\ o \in listing
    /\ listing' = listing \ {o}
    /\ IF models[o.key] # None /\ models[o.key].etag = o.etag
       THEN /\ entries' = entries \cup {o.key}
            /\ UNCHANGED <<models, idx, object>>
       ELSE /\ models' = IF models[o.key] # None THEN models
                         ELSE [models EXCEPT ![o.key] = [etag |-> None, base |-> NoBase]]
            /\ object' = o /\ idx' = "load"
            /\ UNCHANGED entries
    /\ UNCHANGED <<env, tfx, todo, tfxs, served, broken>>

\* Load reads what the index contains by now, and resets its base directory.
Load ==
    /\ idx = "load"
    /\ \/ /\ object.key \in Present
          /\ todo' = bucket[object.key]
          /\ models' = [models EXCEPT ![object.key].base = NoBase]
          /\ idx' = "stat"
          /\ UNCHANGED <<env, tfx, listing, entries, object, tfxs, served, broken>>
       \/ object.key \notin Present /\ Abort

\* Each blob has to be there, the first entry gives the base directory and the
\* others have to agree with it.
Stat ==
    /\ idx = "stat" /\ todo # <<>>
    /\ LET entry == Head(todo)
           base  == models[object.key].base
       IN  \/ /\ bucket # None /\ entry.key \in blobs
              /\ base \in {NoBase, entry.base}
              /\ models' = [models EXCEPT ![object.key].base = entry.base]
              /\ todo' = Tail(todo)
              /\ UNCHANGED <<env, tfx, idx, listing, entries, object, tfxs, served, broken>>
           \/ /\ \/ bucket = None \/ entry.key \notin blobs
                 \/ base \notin {NoBase, entry.base}
              /\ Abort

\* The index has the ETag that was listed, not the one of what was loaded.
SetTag ==
    /\ idx = "stat" /\ todo = <<>>
    /\ models' = [models EXCEPT ![object.key].etag = object.etag]
    /\ entries' = entries \cup {object.key}
    /\ idx' = "next" /\ object' = None
    /\ UNCHANGED <<env, tfx, listing, todo, tfxs, served, broken>>

\* Mutation: nothing is groomed.
GroomNothing ==
    /\ idx = "next" /\ listing = {}
    /\ Abort

\* Entries are keyed by endpoint, bucket and index, and there is one endpoint here:
\* a host and port that Groom and getIndex spell alike, as they do unless the host
\* is an IPv6 address.
Groom ==
    /\ idx = "next" /\ listing = {}
    /\ models' = [k \in Indexes |-> IF k \in entries THEN models[k] ELSE None]
    /\ EndScan
    /\ UNCHANGED <<env, tfx, tfxs, served, broken>>

Indexer ==
    \/ List \/ Load \/ Stat \/ SetTag \/ Groom
    \/ \E o \in listing : GetIndex(o)
-----------------------------------------------------------------------------
(* The TFX scan.                                                           *)

\* ReadTFXCfg; a file that does not parse is an error, in every scan.
ReadTFXCfg ==
    /\ scan = "idle"
    /\ tfx # Garbled
    /\ cfg' = tfx /\ scan' = "bases"
    /\ UNCHANGED <<env, tfx, models, ixer, served, broken>>

\* S3 and the config map fail and are taken for an empty configuration.
ReadFails ==
    /\ scan = "idle" /\ store = "remote" /\ tfx # Empty
    /\ cfg' = Empty /\ scan' = "bases"
    /\ UNCHANGED <<env, tfx, models, ixer, served, broken>>

Listed(config) == {d \in Dirs : config[d] > 0}

\* Load assigns the base directory without the lock that GetBases takes, and a
\* string is assigned in two steps: in between it can be read as another one.
DirOf(k, torn) ==
    IF /\ torn # None
       /\ idx = "load" \/ (idx = "stat" /\ models[k].base = NoBase)
       /\ object.key = k
    THEN torn ELSE Loc(models[k].base)

\* GetBases, and what follows from it: of each directory that is in the
\* configuration and not in knownIndexes the first mention is deleted, each one
\* that is in knownIndexes and not in the configuration is added.
GetBases ==
    /\ scan = "bases"
    /\ \E torn \in Torn \cup {None} :
       LET mdlDirs   == {DirOf(k, torn) : k \in {i \in Indexes : models[i] # None}}
           deletions == Listed(cfg) \ mdlDirs
           additions == mdlDirs \ Listed(cfg)
       IN  IF deletions = {} /\ additions = {}
           THEN scan' = "idle" /\ cfg' = Empty
           ELSE /\ cfg' = [d \in Dirs |-> IF d \in deletions THEN cfg[d] - 1
                                          ELSE IF d \in additions THEN 1 ELSE cfg[d]]
                /\ scan' = "write"
    /\ UNCHANGED <<env, tfx, models, ixer, served, broken>>

\* What is written is served from then on, as long as it is in the bucket.  broken
\* says that the file is what a write that was not completed has left.
WriteTFXCfg ==
    /\ scan = "write"
    /\ tfx' = cfg /\ scan' = "idle" /\ cfg' = Empty
    /\ served' = served \cup
          {k \in Indexes : Current(k) /\ cfg[Loc(BaseOf(bucket[k]))] > 0}
    /\ broken' = FALSE
    /\ UNCHANGED <<env, models, ixer>>

\* What a write that was not completed leaves: ioutil.WriteFile begins with
\* truncating the file.
HalfWritten == IF store = "file" THEN {tfx, Empty, Garbled} ELSE {tfx}

WriteFails ==
    /\ scan = "write"
    /\ tfx' \in HalfWritten /\ scan' = "idle" /\ cfg' = Empty
    /\ broken' = (broken \/ tfx' # tfx)
    /\ UNCHANGED <<env, models, ixer, served>>

TFXScan == ReadTFXCfg \/ GetBases \/ WriteTFXCfg
-----------------------------------------------------------------------------
\* The bridge ends, also by a string read in between the two steps, and is
\* started again; knownIndexes is not kept anywhere.
Crash ==
    /\ Change
    /\ tfx' \in IF scan = "write" THEN HalfWritten ELSE {tfx}
    /\ models' = [k \in Indexes |-> None]
    /\ EndScan
    /\ scan' = "idle" /\ cfg' = Empty
    /\ served' = {} /\ broken' = (broken \/ tfx' # tfx)
    /\ UNCHANGED <<bucket, blobs, store, past, reverted>>

Next ==
    \/ \E k \in Indexes : RemoveIndex(k) \/ (\E c \in Contents : PutIndex(k, c))
    \/ \E b \in Blobs : ChangeBlob(b)
    \/ RemoveBucket \/ Crash
    \/ Indexer \/ ScanFails
    \/ TFXScan \/ ReadFails \/ WriteFails

Spec == Init /\ [][Next]_vars

\* Both goroutines scan again and again, on timers.
Fairness == WF_vars(Indexer) /\ WF_vars(TFXScan)

FairSpec == Spec /\ Fairness
-----------------------------------------------------------------------------
(* Properties.                                                             *)

\* An ETag is compared and never checked again: an entry that has the ETag of
\* the index in the bucket has its base directory, although the two are read
\* from the store at different times and a Load may fail half way.  (Unless an
\* index gets a former content back: what was loaded in between then stays.)
EtagVouches ==
    reverted \/ \A k \in Indexes : Current(k) => models[k].base = BaseOf(bucket[k])

\* A model that was put in the configuration stays there, whatever is done to
\* others and whichever scan, read or write fails, until its own index is written
\* again (even with the same directory in it) or goes, the bucket goes, or the
\* bridge is started again.  A file that a failed write has emptied or garbled is
\* the exception, for as long as it is that: the next write that is completed has
\* all the models in it again.  (Nor is it asked when an index gets a former
\* content back: its ETag may then vouch for the wrong directory.)
StaysServed ==
    reverted \/ broken \/ \A k \in served : tfx # Garbled /\ tfx[Loc(BaseOf(bucket[k]))] > 0

\* Load accepts the index.
Loadable(k) ==
    /\ bucket[k] # <<>>
    /\ \A i \in DOMAIN bucket[k] :
          bucket[k][i].key \in blobs /\ bucket[k][i].base = BaseOf(bucket[k])

InStep == tfx # Garbled /\ Listed(tfx) = {Loc(BaseOf(bucket[k])) : k \in Present}

\* When the bucket no longer changes and the store no longer fails the server
\* is given the models of the bucket, and no others, whatever happened before:
\* provided that every index can be loaded, one that cannot keeps the others
\* back; and that the file parses, the bridge does not repair it.
BridgeConverges ==
    /\ <>[][~ScanFails /\ ~ReadFails /\ ~WriteFails]_vars
    /\ <>[](~reverted /\ tfx # Garbled /\ \A k \in Present : Loadable(k))
    => <>[]InStep
=============================================================================
