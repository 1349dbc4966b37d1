------------------------------ MODULE ObjStore ------------------------------
(***************************************************************************)
(* The cache of artifacts on the disk of a runner                          *)
(* (internal/runner/objectstore.go).  A cached artifact is a file of the   *)
(* cache directory named by the hash of its content; a download goes to    *)
(* .partial first, whose file keeps other handlers from downloading the    *)
(* same content, and is renamed when it is complete.  The size of the      *)
(* cache is limited by an in-memory LRU cache of the names (ccache), and a *)
(* groomer removes the files that are no longer in it.                     *)
(*                                                                         *)
(* A content stands for its own hash.  What is kept and what is delivered  *)
(* may be cut short: writers are limited by a budget, and the errors of    *)
(* the last, buffered writes are not looked at.  Only the runner's own     *)
(* processes use the directory; a runner that dies leaves its files and    *)
(* starts again with InitObjStore.                                         *)
(***************************************************************************)
EXTENDS Naturals, FiniteSets

CONSTANTS
    Fetchers,      \* Fetch invocations
    Tight,         \* those whose maxBytes is too small for what they fetch
    Unpacking,     \* those that unpack an archive
    Names,         \* artifacts in the object store
    Contents,      \* contents, and their hashes
    None,          \* no file, content or fetcher
    Lost,          \* a file of .partial that nobody will take away
    MaxChanges,    \* bound: artifacts that are overwritten
    MaxErrors,     \* bound: renames and removals the file system refuses
    MaxCrashes,    \* bound: runners that die
    MaxDropped     \* bound: writes that are lost without an error

\* A cached file: the content it was made of, and whether all of it is there.
Copies == [of : Contents, whole : BOOLEAN]

\* What the experiment finds in its directory, and whether it finds it where it
\* looks: the file has the artifact's own name, or the archive is unpacked.
Deliveries == [of : Contents, whole : BOOLEAN, own : BOOLEAN]

ASSUME ConstantsAssumption ==
    /\ Tight \subseteq Fetchers /\ Unpacking \subseteq Fetchers
    /\ None \notin Contents \cup Fetchers /\ Lost \notin Fetchers /\ Lost # None
    /\ None \notin Copies /\ None \notin Deliveries
    /\ MaxChanges \in Nat /\ MaxErrors \in Nat /\ MaxCrashes \in Nat
    /\ MaxDropped \in Nat

VARIABLES
    object,        \* object store: the content of an artifact
    changes,       \* artifacts overwritten so far
    up,            \* InitObjStore is done and the runner is alive
    items,         \* ccache: hashes with an item that has not expired
    files,         \* cache directory: the file of a hash
    partial,       \* .partial: who created the file of a hash
    errors, crashes, dropped,  \* refusals, deaths and lost writes so far
    todo, reaping, \* groomer: names still to look at, name it will remove
    pc, name, hash,  \* per fetcher: step, artifact, its hash
    got, err,      \* per fetcher: what was delivered, the error returned
    ctxDone        \* per fetcher: its context is done

store   == <<object, changes>>
limits  == <<errors, crashes, dropped>>
groomer == <<todo, reaping>>
fetcher == <<pc, name, hash, got, err, ctxDone>>
vars    == <<store, up, items, files, partial, limits, groomer, fetcher>>

Steps == {"idle", "look", "open", "miss", "create", "wait", "download", "track",
          "rename", "remove", "retry", "done"}

Downloading == {"download", "track", "rename", "remove"}

TypeOK ==
    /\ object \in [Names -> Contents] /\ changes \in 0..MaxChanges
    /\ up \in BOOLEAN /\ items \subseteq Contents
    /\ files \in [Contents -> Copies \cup {None}]
    /\ partial \in [Contents -> Fetchers \cup {None, Lost}]
    /\ errors \in 0..MaxErrors /\ crashes \in 0..MaxCrashes /\ dropped \in 0..MaxDropped
    /\ todo \subseteq Contents /\ reaping \in Contents \cup {None}
    /\ pc \in [Fetchers -> Steps] /\ name \in [Fetchers -> Names]
    /\ hash \in [Fetchers -> Contents]
    /\ got \in [Fetchers -> Deliveries \cup {None}]
    /\ err \in [Fetchers -> BOOLEAN] /\ ctxDone \in [Fetchers -> BOOLEAN]

Init ==
    /\ object \in [Names -> Contents] /\ changes = 0
    /\ up = TRUE /\ items = {}
    /\ files = [h \in Contents |-> None]
    /\ partial = [h \in Contents |-> None]
    /\ errors = 0 /\ crashes = 0 /\ dropped = 0
    /\ todo = {} /\ reaping = None
    /\ pc = [f \in Fetchers |-> "idle"] /\ name \in [Fetchers -> Names]
    /\ hash = [f \in Fetchers |-> object[name[f]]]
    /\ got = [f \in Fetchers |-> None]
    /\ err = [f \in Fetchers |-> FALSE] /\ ctxDone = [f \in Fetchers |-> FALSE]

Goto(f, step) == pc' = [pc EXCEPT ![f] = step]

\* Fetch returns, with an error or not.
Return(f, e) == Goto(f, "done") /\ err' = [err EXCEPT ![f] = e]
-----------------------------------------------------------------------------
(* The environment.                                                        *)

\* Another experiment, or another runner, overwrites an artifact.
Overwrite(n) ==
    /\ changes < MaxChanges
    /\ \E c \in Contents \ {object[n]} : object' = [object EXCEPT ![n] = c]
    /\ changes' = changes + 1
    /\ UNCHANGED <<up, items, files, partial, limits, groomer, fetcher>>

CancelFetch(f) ==
    /\ pc[f] # "idle" /\ ~ctxDone[f]
    /\ ctxDone' = [ctxDone EXCEPT ![f] = TRUE]
    /\ UNCHANGED <<store, up, items, files, partial, limits, groomer, pc, name, hash,
                   got, err>>

\* ccache makes room, least recently used first, or an item expires.
Evict(h) ==
    /\ h \in items
    /\ items' = items \ {h}
    /\ UNCHANGED <<store, up, files, partial, limits, groomer, fetcher>>

\* The runner dies; its files stay.
Crash ==
    /\ up /\ crashes < MaxCrashes
    /\ up' = FALSE /\ crashes' = crashes + 1
    /\ items' = {} /\ todo' = {} /\ reaping' = None
    /\ pc' = [f \in Fetchers |-> IF pc[f] = "done" THEN "done" ELSE "idle"]
    /\ got' = [f \in Fetchers |-> IF pc[f] = "done" THEN got[f] ELSE None]
    /\ partial' = [h \in Contents |-> IF partial[h] = None THEN None ELSE Lost]
    /\ UNCHANGED <<store, files, errors, dropped, name, hash, err, ctxDone>>

\* InitObjStore empties .partial, puts the files it found in the LRU cache and
\* starts the groomer.
InitObjStore ==
    /\ ~up
    /\ up' = TRUE
    /\ partial' = [h \in Contents |-> None]
    /\ items' = {h \in Contents : files[h] # None}
    /\ UNCHANGED <<store, files, limits, groomer, fetcher>>

\* ClearObjStore removes file after file; the LRU cache is not told.
ClearObjStore(h) ==
    /\ up /\ files[h] # None
    /\ files' = [files EXCEPT ![h] = None]
    /\ UNCHANGED <<store, up, items, partial, limits, groomer, fetcher>>
-----------------------------------------------------------------------------
(* Fetch.                                                                  *)

\* The hash of the artifact as it is now, or an error.
Hash(f) ==
    /\ up /\ pc[f] = "idle"
    /\ hash' = [hash EXCEPT ![f] = object[name[f]]]
    /\ \/ Goto(f, "look") /\ UNCHANGED err
       \/ Return(f, TRUE)
    /\ UNCHANGED <<store, up, items, files, partial, limits, groomer, name, got, ctxDone>>

\* os.Stat of the cached file.
Look(f) ==
    /\ pc[f] = "look"
    /\ Goto(f, IF files[hash[f]] # None THEN "open" ELSE "miss")
    /\ UNCHANGED <<store, up, items, files, partial, limits, groomer, name, hash,
                   got, err, ctxDone>>

\* Flush and Close find out that a write failed, and nobody looks at it.
Drop == dropped < MaxDropped /\ dropped' = dropped + 1

\* Content c is written to the directory of the experiment.
Deliver(f, c, whole, own) ==
    \/ /\ got' = [got EXCEPT ![f] = [of |-> c, whole |-> whole, own |-> own]]
       /\ UNCHANGED dropped
    \/ /\ got' = [got EXCEPT ![f] = [of |-> c, whole |-> FALSE, own |-> own]]
       /\ Drop

\* The file is opened and copied or unpacked; what is open can be removed or
\* replaced.  Unlike a download this one stops at maxBytes without an error, and
\* a file that is not unpacked gets the hash for its name.  An archive may unpack
\* although the end of its file is missing.  The file may be gone by now,
\* unpacking may fail, and NewStorage may fail, which ends the Fetch.
Open(f) ==
    /\ pc[f] = "open"
    /\ \/ /\ files[hash[f]] # None
          /\ \E w \in {files[hash[f]].whole, files[hash[f]].whole \/ f \in Unpacking} :
                Deliver(f, files[hash[f]].of, w /\ f \notin Tight, f \in Unpacking)
          /\ Return(f, FALSE)
       \/ Goto(f, "miss") /\ UNCHANGED <<got, err, dropped>>
       \/ Return(f, TRUE) /\ UNCHANGED <<got, dropped>>
    /\ UNCHANGED <<store, up, items, files, partial, errors, crashes, groomer, name, hash,
                   ctxDone>>

\* No cached file: a context that is done ends the loop, a file in .partial
\* means that somebody is downloading.
Miss(f) ==
    /\ pc[f] = "miss"
    /\ \/ ctxDone[f] /\ Return(f, TRUE)
       \/ /\ ~ctxDone[f]
          /\ Goto(f, IF partial[hash[f]] # None THEN "wait" ELSE "create")
          /\ UNCHANGED err
    /\ UNCHANGED <<store, up, items, files, partial, limits, groomer, name, hash, got, ctxDone>>

\* Mutation: the file is created without O_EXCL.
CreateShared(f) ==
    /\ pc[f] = "create"
    /\ partial' = [partial EXCEPT ![hash[f]] = f]
    /\ Goto(f, "download")
    /\ UNCHANGED <<store, up, items, files, limits, groomer, name, hash,
                   got, err, ctxDone>>

\* O_CREATE|O_EXCL: one handler gets to download, the others wait, and so does
\* one whose file cannot be created for any other reason.
Create(f) ==
    /\ pc[f] = "create"
    /\ \/ /\ partial[hash[f]] = None
          /\ partial' = [partial EXCEPT ![hash[f]] = f]
          /\ Goto(f, "download")
       \/ Goto(f, "wait") /\ UNCHANGED partial
    /\ UNCHANGED <<store, up, items, files, limits, groomer, name, hash,
                   got, err, ctxDone>>

\* After 33 seconds the loop starts again.  When the context is done first,
\* Fetch returns the err of Hash, which is nil.
Wait(f) ==
    /\ pc[f] = "wait"
    /\ \/ ~ctxDone[f] /\ Goto(f, "look") /\ UNCHANGED err
       \/ ctxDone[f] /\ Return(f, FALSE)
    /\ UNCHANGED <<store, up, items, files, partial, limits, groomer, name, hash, got, ctxDone>>

\* The object store delivers the artifact as it is now, to the experiment and
\* through the tap to .partial, or fails.  It refuses an artifact larger than
\* maxBytes, but the files of an archive that is not larger are cut there.
Download(f) ==
    /\ pc[f] = "download"
    /\ \/ /\ f \in Tight => f \in Unpacking
          /\ Deliver(f, object[name[f]], f \notin Tight, TRUE)
          /\ Goto(f, "track")
       \/ Goto(f, "remove") /\ UNCHANGED <<got, dropped>>
    /\ UNCHANGED <<store, up, items, files, partial, errors, crashes, groomer, name, hash,
                   err, ctxDone>>

\* cache.Fetch gives the file an item before the groomer can see it.
Track(f) ==
    /\ pc[f] = "track"
    /\ items' = items \cup {hash[f]}
    /\ Goto(f, "rename")
    /\ UNCHANGED <<store, up, files, partial, limits, groomer, name, hash,
                   got, err, ctxDone>>

\* The file system refuses to take a file out of .partial.
Refused(f) ==
    /\ errors < MaxErrors
    /\ errors' = errors + 1
    /\ partial' = [partial EXCEPT ![hash[f]] = Lost]

\* Mutation: the tap is behind the limit of the experiment's own files.
TappedLimited(f) ==
    files' = [files EXCEPT ![hash[f]] = [of |-> got[f].of, whole |-> got[f].whole]]
    /\ UNCHANGED dropped

\* What the tap wrote, whatever became of the experiment's own files.  Its Flush
\* and Close may fail, and an unpacker need not read the end of an archive.
Tapped(f) ==
    \/ files' = [files EXCEPT ![hash[f]] = [of |-> got[f].of, whole |-> TRUE]]
       /\ UNCHANGED dropped
    \/ files' = [files EXCEPT ![hash[f]] = [of |-> got[f].of, whole |-> FALSE]]
       /\ Drop

\* os.Rename: a failure is reported, and the experiment has its data anyway.
Rename(f) ==
    /\ pc[f] = "rename"
    /\ \/ /\ Tapped(f)
          /\ partial' = [partial EXCEPT ![hash[f]] = None]
          /\ UNCHANGED errors
       \/ Refused(f) /\ UNCHANGED <<files, dropped>>
    /\ Return(f, FALSE)
    /\ UNCHANGED <<store, up, items, crashes, groomer, name, hash, got, ctxDone>>

\* Mutation: a failed download is left in .partial.
RemoveForgotten(f) ==
    /\ pc[f] = "remove"
    /\ partial' = [partial EXCEPT ![hash[f]] = Lost]
    /\ Goto(f, "retry")
    /\ UNCHANGED <<store, up, items, files, limits, groomer, name, hash,
                   got, err, ctxDone>>

\* The download failed: "leaving it in place will block further download
\* attempts".
RemovePartial(f) ==
    /\ pc[f] = "remove"
    /\ \/ partial' = [partial EXCEPT ![hash[f]] = None] /\ UNCHANGED errors
       \/ Refused(f)
    /\ Goto(f, "retry")
    /\ UNCHANGED <<store, up, items, files, crashes, dropped, groomer, name, hash,
                   got, err, ctxDone>>

\* Another attempt in 33 seconds, with the same hash, or the error.
Retry(f) ==
    /\ pc[f] = "retry"
    /\ \/ ~ctxDone[f] /\ Goto(f, "look") /\ UNCHANGED err
       \/ ctxDone[f] /\ Return(f, TRUE)
    /\ UNCHANGED <<store, up, items, files, partial, limits, groomer, name, hash, got, ctxDone>>

Fetch(f) ==
    \/ Look(f) \/ Open(f) \/ Miss(f) \/ Create(f) \/ Wait(f) \/ Download(f)
    \/ Track(f) \/ Rename(f) \/ RemovePartial(f) \/ Retry(f)
-----------------------------------------------------------------------------
(* The groomer.                                                            *)

\* ioutil.ReadDir of the cache directory.
ReadDir ==
    /\ up /\ todo = {} /\ reaping = None
    /\ todo' = {h \in Contents : files[h] # None}
    /\ UNCHANGED <<store, up, items, files, partial, limits, reaping, fetcher>>

\* Mutation: a file without an item is left alone.
SampleTracked(h) ==
    /\ h \in todo /\ reaping = None
    /\ todo' = todo \ {h}
    /\ UNCHANGED <<store, up, items, files, partial, limits, reaping, fetcher>>

\* cache.Sample: a file without an item will go ...
Sample(h) ==
    /\ h \in todo /\ reaping = None
    /\ todo' = todo \ {h}
    /\ reaping' = IF h \in items THEN None ELSE h
    /\ UNCHANGED <<store, up, items, files, partial, limits, fetcher>>

\* ... up to a second later, when its removal was announced.  A removal that
\* fails is announced too and tried again in a later cycle, as if it came later.
Reap ==
    /\ reaping # None
    /\ files' = [files EXCEPT ![reaping] = None]
    /\ reaping' = None
    /\ UNCHANGED <<store, up, items, partial, limits, todo, fetcher>>

groom == ReadDir \/ Reap \/ \E h \in Contents : Sample(h)
-----------------------------------------------------------------------------
Next ==
    \/ \E n \in Names : Overwrite(n)
    \/ \E h \in Contents : Evict(h) \/ ClearObjStore(h)
    \/ Crash \/ InitObjStore
    \/ \E f \in Fetchers : Hash(f) \/ CancelFetch(f) \/ Fetch(f)
    \/ groom

Spec == Init /\ [][Next]_vars

\* Goroutines go on, timers fire, the object store answers or fails, a runner
\* is started again and the groomer's ticker keeps firing.
FairSpec ==
    /\ Spec
    /\ WF_vars(InitObjStore) /\ WF_vars(groom)
    /\ \A f \in Fetchers : WF_vars(Fetch(f))
-----------------------------------------------------------------------------
(* Properties.                                                             *)

\* "only one of the waiters should be downloading actively"
\* (objectstore.go:356): no two handlers download, track or rename the same
\* content, whatever failed and whoever died before.
OneDownloader ==
    \A f, g \in Fetchers :
       pc[f] \in Downloading /\ pc[g] \in Downloading /\ hash[f] = hash[g] => f = g

\* A Fetch that returns without an error, and was not cancelled, has delivered an
\* artifact; as long as none was overwritten it is the one that was asked for,
\* whether it came from the cache or not, and an archive is unpacked.  It is all
\* there unless a write was lost or the fetcher's own budget is too small: what a
\* small budget cuts is never what another one gets from the cache.  Not promised:
\* a file that is not unpacked comes from the cache under another name than from
\* the object store.
FetchDelivers ==
    \A f \in Fetchers : pc[f] = "done" /\ ~err[f] /\ ~ctxDone[f] =>
       /\ got[f] # None
       /\ changes = 0 => got[f].of = object[name[f]]
       /\ dropped = 0 /\ f \notin Tight => got[f].whole
       /\ f \in Unpacking => got[f].own

\* groomDir: "if there are files that are on disk but not in the cache they will
\* be reaped" (objectstore.go:129), so that the limit of the in-memory cache is
\* in the end one on the disk.
UntrackedFilesGo ==
    \A h \in Contents :
       files[h] # None /\ h \notin items ~> files[h] = None \/ h \in items

\* Waiters are not kept waiting by a download that is over, well or not, or by
\* one that died with its runner.
DownloadsUnblock ==
    \A h \in Contents : partial[h] # None ~> partial[h] = None \/ errors > 0
=============================================================================
