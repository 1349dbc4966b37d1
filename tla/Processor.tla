------------------------------ MODULE Processor ------------------------------
(***************************************************************************)
(* Handling a message: HandleMsg (cmd/runner/handle.go) and the processor  *)
(* it makes (cmd/runner/processor.go), with the artifact cache it returns  *)
(* results through (internal/runner/artifacts.go).                         *)
(*                                                                         *)
(* A handler tests the request, makes a working directory, reserves the    *)
(* machine, fetches the artifacts and runs the experiment beside a         *)
(* checkpointer goroutine, which uploads the output while it is written.   *)
(* When the experiment ends the handler waits for the checkpointer, five   *)
(* minutes at most, uploads the results, removes the directory, gives the  *)
(* machine back and says whether the message is consumed.                  *)
(*                                                                         *)
(* One mutable artifact, output, stands for all.  A content of it is the   *)
(* handler that wrote it, a version and the number of its files; version 0 *)
(* is what fetchAll left when it did not get the output of the attempt     *)
(* before as a whole.  A directory is identified by the experiment's key   *)
(* and the instance mkUniqDir appended to it.                              *)
(***************************************************************************)
EXTENDS Naturals, FiniteSets, FiniteSetsExt

CONSTANTS
    Tasks,         \* handlers, numbered in the order they start
    Keys,          \* experiments
    MaxInst,       \* bound: instances of a directory name
    MaxVer,        \* bound: versions of its output an experiment writes
    MaxFiles,      \* bound: files of an output
    None,          \* no directory, content, hash or task
    Redelivered    \* BOOLEAN: may a message come again while it is handled?

Insts    == 0..MaxInst
Dirs     == Keys \X Insts
Files    == 0..MaxFiles
Contents == [by : Tasks, ver : 0..(MaxVer + 1), files : Files]

ASSUME ConstantsAssumption ==
    /\ Tasks \subseteq Nat /\ None \notin Tasks \cup Contents
    /\ MaxInst \in Nat /\ MaxVer \in Nat \ {0} /\ MaxFiles \in Nat \ {0}
    /\ Redelivered \in BOOLEAN

VARIABLES
    pc, key, dir,  \* per handler: step, experiment, ExprDir
    alloc,         \* per handler: it holds a live allocation
    content,       \* per handler: what its directory has as output, if it has one
    runDone,       \* per handler: runCtx of runScript is done
    failed,        \* per handler: deployAndRun has an error
    ckpt,          \* per handler: off, wait, tick or final
    upload, sent,  \* per handler: what checkpointer and returnAll are sending
    ack,           \* per handler: what HandleMsg returned
    excused,       \* per handler: why its results may not be stored
    owner,         \* file system: who made the directory that exists
    remnant,       \* file system: the directories that hold _metadata and no more
    upHashes,      \* artifact cache: hash of the output of a directory
    store          \* object store: the output of an experiment

run   == <<content, runDone, failed>>
saves == <<ckpt, upload>>
disk  == <<owner, remnant, upHashes, store>>
vars  == <<pc, key, dir, alloc, run, saves, sent, ack, excused, disk>>

Steps == {"idle", "new", "made", "fetch", "start", "run", "wait", "return", "upload",
          "remove", "deallocate", "close", "done"}

TypeOK ==
    /\ pc \in [Tasks -> Steps] /\ key \in [Tasks -> Keys]
    /\ dir \in [Tasks -> Dirs \cup {None}] /\ alloc \in [Tasks -> BOOLEAN]
    /\ content \in [Tasks -> Contents \cup {None}]
    /\ runDone \in [Tasks -> BOOLEAN] /\ failed \in [Tasks -> BOOLEAN]
    /\ ckpt \in [Tasks -> {"off", "wait", "tick", "final"}]
    /\ upload \in [Tasks -> Contents \cup {None}] /\ sent \in [Tasks -> Contents \cup {None}]
    /\ ack \in [Tasks -> BOOLEAN]
    /\ excused \in [Tasks -> SUBSET {"executor", "late", "unchanged", "upload"}]
    /\ owner \in [Dirs -> Tasks \cup {None}] /\ remnant \subseteq Dirs
    /\ upHashes \in [Dirs -> Files \cup {None}]
    /\ store \in [Keys -> Contents \cup {None}]

Init ==
    /\ pc = [t \in Tasks |-> "idle"] /\ key \in [Tasks -> Keys]
    /\ dir = [t \in Tasks |-> None] /\ alloc = [t \in Tasks |-> FALSE]
    /\ content = [t \in Tasks |-> None]
    /\ runDone = [t \in Tasks |-> FALSE] /\ failed = [t \in Tasks |-> FALSE]
    /\ ckpt = [t \in Tasks |-> "off"]
    /\ upload = [t \in Tasks |-> None] /\ sent = [t \in Tasks |-> None]
    /\ ack = [t \in Tasks |-> FALSE] /\ excused = [t \in Tasks |-> {}]
    /\ owner = [d \in Dirs |-> None] /\ remnant = {} /\ upHashes = [d \in Dirs |-> None]
    /\ store = [k \in Keys |-> None]

Goto(t, step) == pc' = [pc EXCEPT ![t] = step]
Active(t)     == pc[t] \notin {"idle", "done"}
Excuse(t, why) == excused' = [excused EXCEPT ![t] = @ \cup {why}]

\* The next version of t's output, of n files; an experiment whose directory is
\* gone writes nothing that can be read again.
Written(t, n) ==
    [by |-> t, files |-> n,
     ver |-> IF content[t] # None /\ content[t].by = t THEN content[t].ver + 1 ELSE 1]

\* How many files there are once output/output was written, which needs the
\* output directory to be there.
Appended(t) == {n \in Files \ {0} : content[t] # None /\ n - content[t].files \in {0, 1}}
-----------------------------------------------------------------------------
(* HandleMsg and newProcessor.                                             *)

\* A message is on the queue until it is consumed, and is handed out again
\* once its handler returned; or before, when the broker lost the runner.
Receive(t) ==
    /\ pc[t] = "idle" /\ \A u \in Tasks : u < t => pc[u] # "idle"
    /\ \A u \in Tasks : pc[u] # "idle" /\ key[u] = key[t] =>
          ~ack[u] /\ (Redelivered \/ pc[u] = "done")
    /\ Goto(t, "new")
    /\ UNCHANGED <<key, dir, alloc, run, saves, sent, ack, excused, disk>>

\* The message cannot be unpacked (reading the missing request panics, and
\* the recovered HandleMsg does not consume, hardError or not), its resources
\* are refused, or no directory can be made.
Reject(t) ==
    /\ pc[t] = "new"
    /\ Goto(t, "done")
    /\ UNCHANGED <<key, dir, alloc, run, saves, sent, ack, excused, disk>>

\* mkUniqDir: the first instance that os.Mkdir accepts, none that exists.
MkUniqDir(t) ==
    /\ pc[t] = "new"
    /\ LET free == {i \in Insts : owner[<<key[t], i>>] = None /\ <<key[t], i>> \notin remnant}
           d == <<key[t], Min(free)>>
       IN  /\ free # {}
           /\ dir' = [dir EXCEPT ![t] = d]
           /\ owner' = [owner EXCEPT ![d] = t]
    /\ Goto(t, "made")
    /\ UNCHANGED <<key, alloc, run, saves, sent, ack, excused, remnant, upHashes, store>>

\* No executor for these artifacts: a hard error, the message is consumed.
\* The processor is dropped without Close, and its directory stays.
NoExecutor(t) ==
    /\ pc[t] = "made"
    /\ ack' = [ack EXCEPT ![t] = TRUE]
    /\ Excuse(t, "executor")
    /\ Goto(t, "done")
    /\ UNCHANGED <<key, dir, alloc, run, saves, sent, disk>>
-----------------------------------------------------------------------------
(* Process and deployAndRun.                                               *)

\* The live allocation succeeds, or the message goes back.
Allocate(t) ==
    /\ pc[t] = "made"
    /\ \/ alloc' = [alloc EXCEPT ![t] = TRUE] /\ Goto(t, "fetch")
       \/ UNCHANGED alloc /\ Goto(t, "close")
    /\ UNCHANGED <<key, dir, run, saves, sent, ack, excused, disk>>

\* Number of entries: readAllHash hashes a list of FileInfo values, none of
\* whose fields, the name included, the hasher can see.
Hash(c) == c.files

\* fetchAll makes the directory output, unpacks the output of an earlier attempt
\* and keeps its hash.  The artifact is mutable, so that there is none, or that
\* only a part of it comes, is no error; a part may even pass for the whole.
\* Then the steps before the script: time limits and Executor.Make.
Fetch(t) ==
    /\ pc[t] = "fetch"
    /\ LET old == store[key[t]] IN
       \/ /\ old # None
          /\ content' = [content EXCEPT ![t] = old]
          /\ upHashes' = [upHashes EXCEPT ![dir[t]] = Hash(old)]
       \/ \E n \in Files :
             /\ n =< IF old = None THEN 0 ELSE Hash(old)
             /\ content' = [content EXCEPT ![t] = [by |-> t, ver |-> 0, files |-> n]]
             /\ \/ UNCHANGED upHashes
                \/ old # None /\ upHashes' = [upHashes EXCEPT ![dir[t]] = n]
    /\ Goto(t, "start")
    /\ UNCHANGED <<key, dir, alloc, runDone, failed, saves, sent, ack, excused, owner, remnant,
                   store>>

\* The error is added to the output before the results are returned.  The file
\* is opened in a directory that nobody may have made; a failure is a warning.
OutputErr(t) ==
    \/ UNCHANGED content
    \/ \E n \in Appended(t) : content' = [content EXCEPT ![t] = Written(t, n)]

\* An immutable artifact is missing, before or after the output was fetched, the
\* disk budget is exhausted, the time limit has expired, or Make fails.
DeployFails(t) ==
    /\ pc[t] \in {"fetch", "start"}
    /\ failed' = [failed EXCEPT ![t] = TRUE]
    /\ OutputErr(t)
    /\ Goto(t, "return")
    /\ UNCHANGED <<key, dir, alloc, runDone, saves, sent, ack, excused, disk>>

\* runScript: the checkpointer starts, and the executor.
RunScript(t) ==
    /\ pc[t] = "start"
    /\ ckpt' = [ckpt EXCEPT ![t] = "wait"]
    /\ Goto(t, "run")
    /\ UNCHANGED <<key, dir, alloc, run, upload, sent, ack, excused, disk>>

\* The executor creates or truncates output/output, the experiment writes to it
\* and adds files or removes some.
Output(t) ==
    /\ pc[t] = "run"
    /\ content[t].by = t => content[t].ver < MaxVer
    /\ \E n \in Files \ {0} : content' = [content EXCEPT ![t] = Written(t, n)]
    /\ UNCHANGED <<pc, key, dir, alloc, runDone, failed, saves, sent, ack, excused, disk>>

\* Mutation: the caller's context is not passed on to the run.
CancelIgnored(t) ==
    /\ pc[t] = "run" /\ ~runDone[t]
    /\ UNCHANGED vars

\* The caller's context is done: cancelled, or the time limit has come.
Cancel(t) ==
    /\ pc[t] = "run" /\ ~runDone[t]
    /\ runDone' = [runDone EXCEPT ![t] = TRUE]
    /\ UNCHANGED <<pc, key, dir, alloc, content, failed, saves, sent, ack, excused, disk>>

\* Executor.Run returns, with an error if the context was done; runCancel.
ExecutorRun(t) ==
    /\ pc[t] = "run"
    /\ \E err \in BOOLEAN : /\ runDone[t] => err
                            /\ failed' = [failed EXCEPT ![t] = err]
    /\ runDone' = [runDone EXCEPT ![t] = TRUE]
    /\ Goto(t, "wait")
    /\ UNCHANGED <<key, dir, alloc, content, saves, sent, ack, excused, disk>>

\* runScript has waited, and an error goes to the output.
Waited(t) ==
    /\ IF failed[t] THEN OutputErr(t) ELSE UNCHANGED content
    /\ Goto(t, "return")
    /\ UNCHANGED <<key, dir, alloc, runDone, failed, saves, sent, ack, disk>>

\* Mutation: the checkpointer is not waited for.
CheckpointDoneAnyway(t) ==
    /\ pc[t] = "wait"
    /\ Waited(t)
    /\ UNCHANGED excused

\* The checkpointer closed doneC ...
CheckpointDone(t) ==
    /\ pc[t] = "wait" /\ ckpt[t] = "off"
    /\ Waited(t)
    /\ UNCHANGED excused

\* ... or did not within five minutes: PutObject has no deadline.
CheckpointUnresponsive(t) ==
    /\ pc[t] = "wait" /\ ckpt[t] # "off"
    /\ Waited(t)
    /\ Excuse(t, "late")
-----------------------------------------------------------------------------
(* Uploads: returnOne and ArtifactCache.Restore.                           *)

\* What an upload from d would read: nothing when the directory is gone, and
\* the files of its present owner otherwise.
Found(d) == IF owner[d] = None THEN None ELSE content[owner[d]]

\* checkHash: the output has the hash it had when it was fetched.
Unchanged(d) == Found(d) # None /\ upHashes[d] = Hash(Found(d))

\* updateMetaData makes ExprDir/_metadata, and ExprDir too when it is gone.
UpdateMetaData(t) ==
    remnant' = IF owner[dir[t]] = None THEN remnant \cup {dir[t]} ELSE remnant

\* A ticker interval is over, or the run is: the checkpointer reads the
\* output.  With nothing to upload it is back, or done, at once.
Checkpoint(t) ==
    /\ ckpt[t] = "wait"
    /\ \E step \in {"tick", "final"} :
          /\ step = "final" => runDone[t]
          /\ LET c == IF Unchanged(dir[t]) THEN None ELSE Found(dir[t])
                 idle == IF step = "tick" THEN "wait" ELSE "off"
             IN  /\ upload' = [upload EXCEPT ![t] = c]
                 /\ ckpt' = [ckpt EXCEPT ![t] = IF c = None THEN idle ELSE step]
    /\ UpdateMetaData(t)
    /\ UNCHANGED <<pc, key, dir, alloc, run, sent, ack, excused, owner, upHashes, store>>

\* The upload of the checkpointer ends, well or not.
CheckpointEnds(t) ==
    /\ ckpt[t] \in {"tick", "final"}
    /\ \/ store' = [store EXCEPT ![key[t]] = upload[t]]
       \/ UNCHANGED store
    /\ upload' = [upload EXCEPT ![t] = None]
    /\ ckpt' = [ckpt EXCEPT ![t] = IF @ = "tick" THEN "wait" ELSE "off"]
    /\ UNCHANGED <<pc, key, dir, alloc, run, sent, ack, excused, owner, remnant, upHashes>>

\* returnAll reads the output; an unchanged one is skipped with a warning.
ReturnAll(t) ==
    /\ pc[t] = "return"
    /\ LET c == Found(dir[t]) IN
       \/ /\ Unchanged(dir[t])
          /\ Excuse(t, "unchanged") /\ UNCHANGED sent
          /\ Goto(t, "remove")
       \/ /\ ~Unchanged(dir[t])
          /\ sent' = [sent EXCEPT ![t] = c] /\ UNCHANGED excused
          /\ Goto(t, IF c = None THEN "remove" ELSE "upload")
    /\ UpdateMetaData(t)
    /\ UNCHANGED <<key, dir, alloc, run, saves, ack, owner, upHashes, store>>

\* Its upload ends; a failure is only logged.
ReturnEnds(t) ==
    /\ pc[t] = "upload"
    /\ \/ store' = [store EXCEPT ![key[t]] = sent[t]] /\ UNCHANGED excused
       \/ UNCHANGED store /\ Excuse(t, "upload")
    /\ sent' = [sent EXCEPT ![t] = None]
    /\ Goto(t, "remove")
    /\ UNCHANGED <<key, dir, alloc, run, saves, ack, owner, remnant, upHashes>>
-----------------------------------------------------------------------------
(* The way out.                                                            *)

\* os.RemoveAll(p.ExprDir) removes what is there, whoever made it.
RemoveAll(t) == owner' = [owner EXCEPT ![dir[t]] = None] /\ remnant' = remnant \ {dir[t]}

\* The end of deployAndRun's deferred function.
Remove(t) ==
    /\ pc[t] = "remove"
    /\ RemoveAll(t)
    /\ Goto(t, "deallocate")
    /\ UNCHANGED <<key, dir, alloc, run, saves, sent, ack, excused, upHashes, store>>

\* Process gives the machine back, waits a second for a listener there never
\* is, and returns.
Deallocate(t) ==
    /\ pc[t] = "deallocate"
    /\ alloc' = [alloc EXCEPT ![t] = FALSE]
    /\ ack' = [ack EXCEPT ![t] = ~failed[t]]
    /\ Goto(t, "close")
    /\ UNCHANGED <<key, dir, run, saves, sent, excused, disk>>

\* Mutation: Close leaves the directory to deployAndRun.
CloseOnly(t) ==
    /\ pc[t] = "close"
    /\ Goto(t, "done")
    /\ UNCHANGED <<key, dir, alloc, run, saves, sent, ack, excused, disk>>

\* The deferred proc.Close of HandleMsg removes the directory once more.
Close(t) ==
    /\ pc[t] = "close"
    /\ RemoveAll(t)
    /\ Goto(t, "done")
    /\ UNCHANGED <<key, dir, alloc, run, saves, sent, ack, excused, upHashes, store>>
-----------------------------------------------------------------------------
HandleMsg(t) ==
    \/ Reject(t) \/ MkUniqDir(t) \/ NoExecutor(t)
    \/ Allocate(t) \/ Fetch(t) \/ DeployFails(t) \/ RunScript(t) \/ ExecutorRun(t)
    \/ CheckpointDone(t) \/ CheckpointUnresponsive(t)
    \/ ReturnAll(t) \/ ReturnEnds(t) \/ Remove(t) \/ Deallocate(t) \/ Close(t)

Next ==
    \E t \in Tasks : \/ Receive(t) \/ HandleMsg(t) \/ Output(t) \/ Cancel(t)
                     \/ Checkpoint(t) \/ CheckpointEnds(t)

Spec == Init /\ [][Next]_vars

\* t waits for somebody else: for the object store to answer a fetch or an
\* upload, neither of which has a deadline, or for the processes of a run that
\* was told to stop.
Waiting(t) == pc[t] \in {"fetch", "upload"} \/ (pc[t] = "run" /\ runDone[t])

\* Goroutines go on, and calcTimeLimit bounds the time until a run is told to
\* stop.  Nothing is assumed of what a handler waits for.
FairSpec ==
    /\ Spec
    /\ \A t \in Tasks : /\ WF_vars(HandleMsg(t) /\ pc[t] \notin {"fetch", "run", "upload"})
                        /\ WF_vars(Cancel(t))
-----------------------------------------------------------------------------
(* Properties.                                                             *)

Reasons(k) == UNION {excused[t] : t \in {u \in Tasks : key[u] = k}}

\* t is past returnAll, or its message was consumed.
Returned(t) == pc[t] \in {"remove", "deallocate"} \/ ack[t]

\* "We should always upload results even in the event of an error"
\* (processor.go:1248): after returnAll, and for good once the message is
\* consumed, the object store has what the output directory had last, with the
\* error that ended the experiment if outputErr could write it.  A handler that
\* failed before it had an output directory returns nothing.  Excused are an
\* upload that failed, a checkpointer that was given up on, an experiment that
\* was never run, and an output with as many files as the one that was fetched,
\* which the artifact cache takes for unchanged.
ResultsReturned ==
    \A t \in Tasks : Returned(t) /\ Reasons(key[t]) = {} /\ content[t] # None =>
       store[key[t]] = content[t]

\* Checkpoints and results of a run reach the object store in the order they
\* were written, unless the checkpointer was given up on: no upload replaces
\* a later output of the same run.
StoreMovesForward ==
    [][\A k \in Keys :
          store[k] # None /\ store'[k] # None /\ store'[k].by = store[k].by =>
             store'[k].ver >= store[k].ver \/ "late" \in Reasons(k)]_vars

\* Whatever failed on the way, a handler that returned holds nothing of the
\* machine and has removed its working directory ("Close will release all
\* resources and clean up the work directory", processor.go:333).  There are two
\* exceptions: no executor for the experiment, and a checkpointer that was given
\* up on, which makes the directory once more for its metadata and leaves it.
NothingLeftBehind ==
    /\ \A t \in Tasks : pc[t] = "done" =>
          /\ ~alloc[t]
          /\ \A d \in Dirs : owner[d] = t => "executor" \in excused[t]
    /\ \A d \in remnant :
          \E t \in Tasks : dir[t] = d /\ (Active(t) \/ "late" \in excused[t])

\* mkUniqDir makes "sure no other instance of the same experiment is using it.
\* It is only being used by the caller" (processor.go:797): a directory that is
\* in use is there, and is the one its handler made.
DirectoryIsOwn ==
    \A t \in Tasks :
       pc[t] \in {"fetch", "start", "run", "wait", "return", "upload"} => owner[dir[t]] = t

\* Every message that is taken is settled and the machine then free again, except
\* while its handler waits for the object store or for the processes of a run
\* that was told to stop, however often that happens on the way: an experiment is
\* told to stop in the end, and neither the checkpointer nor the metrics listener
\* that never comes holds a handler up.
EveryMessageSettled ==
    \A t \in Tasks : pc[t] # "idle" ~> (pc[t] = "done" /\ ~alloc[t]) \/ Waiting(t)
=============================================================================
