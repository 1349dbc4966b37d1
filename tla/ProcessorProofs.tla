-------------------------- MODULE ProcessorProofs --------------------------
(***************************************************************************)
(* Handlers, their directories and the outputs they upload, for any number *)
(* of handlers, experiments and versions.  The first part holds however    *)
(* messages are delivered; the second is about a message that has one      *)
(* handler at a time, which is what the directory of an experiment and the *)
(* order of its uploads depend on.                                         *)
(***************************************************************************)
EXTENDS Processor, WellFoundedInduction, TLAPS

\* The steps of a handler before there is an output, before returnAll, with the
\* machine, with its directory, and from the run on.
Early   == {"idle", "new", "made", "fetch"}
Open    == Early \cup {"start", "run", "wait"}
Holding == {"fetch", "start", "run", "wait", "return", "upload", "remove", "deallocate"}
Using   == {"made", "fetch", "start", "run", "wait", "return", "upload", "remove"}
Ran     == {"run", "wait", "return", "upload", "remove", "deallocate", "close"}

\* c is an output of t.
By(c, t) == c # None /\ c.by = t

\* The directory a handler made is named after its experiment.
Placed ==
    \A t \in Tasks : pc[t] \notin {"idle", "new", "done"} \/ ckpt[t] # "off" =>
       \E i \in Insts : dir[t] = <<key[t], i>>

\* There is no output before fetchAll, and the versions of an experiment's output
\* are bounded until the error that ends it is added.
Versions ==
    \A t \in Tasks : /\ pc[t] \in Early => content[t] = None
                     /\ pc[t] \in Open /\ By(content[t], t) => content[t].ver =< MaxVer

Typed == TypeOK /\ Placed /\ Versions

\* A directory that exists is the one its maker knows, and outlives it only if
\* there was no executor.
MadeBy(t) ==
    \A d \in Dirs : owner[d] = t => /\ dir[t] = d /\ pc[t] \notin {"idle", "new"}
                                    /\ pc[t] = "done" => "executor" \in excused[t]

\* The machine is held from Allocate to Deallocate.
Machine(t) == alloc[t] => pc[t] \in Holding

Owners == \A t \in Tasks : MadeBy(t) /\ Machine(t)

\* No copy of an output is later than the output itself.
Copy(c) == c # None => By(content[c.by], c.by) /\ c.ver =< content[c.by].ver

Copies ==
    /\ \A t \in Tasks : Copy(content[t]) /\ Copy(upload[t]) /\ Copy(sent[t])
    /\ \A k \in Keys : Copy(store[k])

\* A checkpointer outlives the run only when it was given up on.
Awaited ==
    \A t \in Tasks : ckpt[t] # "off" =>
       pc[t] \in {"run", "wait"} \/ ("late" \in excused[t] /\ pc[t] \notin {"idle", "new"})

\* A directory that was made again is that of a handler that will remove it, or
\* whose checkpointer was given up on.
Remade ==
    \A d \in remnant : \E t \in Tasks :
       /\ dir[t] = d
       /\ pc[t] \in Ran \/ ("late" \in excused[t] /\ pc[t] \notin {"idle", "new"})

\* A message has one handler at a time, and none after it was consumed.
Alone ==
    /\ \A t \in Tasks : ack[t] => pc[t] \in {"close", "done"}
    /\ \A t, u \in Tasks : key[t] = key[u] /\ (Active(t) \/ ack[t]) /\ Active(u) => t = u

\* A handler's directory is there and its own.
Owned == \A t \in Tasks : pc[t] \in Using => owner[dir[t]] = t

\* What a checkpointer uploads is not older than what it uploaded before, or is
\* what the object store has.
InOrder ==
    \A t \in Tasks : ckpt[t] \in {"tick", "final"} /\ "late" \notin Reasons(key[t]) =>
       \/ upload[t] = store[key[t]]
       \/ /\ By(upload[t], t)
          /\ By(store[key[t]], t) => store[key[t]].ver =< upload[t].ver

\* An output that is not a handler's own is the one the object store has.
Fetched ==
    \A t \in Tasks :
       /\ Active(t) /\ content[t] # None /\ ~By(content[t], t)
       /\ "late" \notin Reasons(key[t])
       => store[key[t]] = content[t]

\* returnAll uploads the last output.
LastSent == \A t \in Tasks : pc[t] = "upload" => sent[t] = content[t]
-----------------------------------------------------------------------------
(* Types, versions and the places of directories.                          *)

\* mkUniqDir finds a free instance when there is one.
LEMMA MinIsMember == ASSUME NEW S \in SUBSET Nat, S # {} PROVE Min(S) \in S
<1> DEFINE below == {p \in Nat \X Nat : p[1] < p[2]}
<1>1. IsWellFoundedOn(below, Nat)
  BY NatLessThanWellFounded DEF OpToRel
<1>2. PICK x \in S : \A y \in S : ~(<<y, x>> \in below)
  <2> HIDE DEF below
  <2> QED BY <1>1, WFMin
<1>3. \A y \in S : x =< y
  <2> SUFFICES ASSUME NEW y \in S, ~(x =< y) PROVE FALSE
    OBVIOUS
  <2>1. x \in Nat /\ y \in Nat /\ y < x
    OBVIOUS
  <2>2. <<y, x>> \in below
    BY <2>1, Zenon
  <2> QED BY <1>2, <2>2
<1> QED BY <1>3 DEF Min

LEMMA InitTyped == Init => Typed
<1> SUFFICES ASSUME Init PROVE Typed
  OBVIOUS
<1>1. TypeOK
  BY DEF Init, TypeOK, Steps
<1>2. Placed /\ Versions
  BY DEF Init, Placed, Versions, By
<1> QED BY <1>1, <1>2 DEF Typed

\* What the output of t is after the next write.
LEMMA WrittenIs ==
    ASSUME TypeOK, NEW t \in Tasks, NEW n \in Files,
           By(content[t], t) => content[t].ver =< MaxVer
    PROVE  /\ Written(t, n) \in Contents /\ By(Written(t, n), t)
           /\ By(content[t], t) => content[t].ver =< Written(t, n).ver
           /\ (By(content[t], t) => content[t].ver < MaxVer) => Written(t, n).ver =< MaxVer
<1> USE ConstantsAssumption
<1>1. CASE By(content[t], t)
  <2>1. content[t] \in Contents
    BY <1>1 DEF TypeOK, By
  <2>2. content[t].ver \in Nat
    BY <2>1 DEF Contents
  <2>3. Written(t, n) = [by |-> t, files |-> n, ver |-> content[t].ver + 1]
    BY <1>1 DEF Written, By
  <2>4. Written(t, n) \in Contents /\ Written(t, n).ver = content[t].ver + 1
    BY <1>1, <2>2, <2>3 DEF Contents
  <2> QED BY <1>1, <2>2, <2>3, <2>4 DEF By
<1>2. CASE ~By(content[t], t)
  <2>1. Written(t, n) = [by |-> t, files |-> n, ver |-> 1]
    BY <1>2 DEF Written, By
  <2>2. Written(t, n) \in Contents
    BY <2>1 DEF Contents
  <2> QED BY <1>2, <2>1, <2>2 DEF By
<1> QED BY <1>1, <1>2

\* A step of t that may write its output.
LEMMA Writes ==
    ASSUME Typed, NEW t \in Tasks,
           DeployFails(t) \/ Output(t) \/ CheckpointDone(t) \/ CheckpointUnresponsive(t)
    PROVE  /\ pc[t] \in Open
           /\ \/ content' = content
              \/ \E c \in Contents :
                    /\ content' = [content EXCEPT ![t] = c] /\ By(c, t)
                    /\ By(content[t], t) => content[t].ver =< c.ver
                    /\ Output(t) => c.ver =< MaxVer
<1>1. pc[t] \in Open
  BY DEF DeployFails, Output, CheckpointDone, CheckpointUnresponsive, Open, Early
<1>2. By(content[t], t) => content[t].ver =< MaxVer
  BY <1>1 DEF Typed, Versions
<1>3. \/ content' = content
      \/ \E n \in Files : content' = [content EXCEPT ![t] = Written(t, n)]
  BY DEF DeployFails, Output, CheckpointDone, CheckpointUnresponsive, Waited, OutputErr, Appended
<1>4. Output(t) => (By(content[t], t) => content[t].ver < MaxVer)
  BY DEF Output, By
<1> QED BY <1>1, <1>2, <1>3, <1>4, WrittenIs DEF Typed

\* A step of t that leaves outputs and directories alone.
LEMMA TypedKept ==
    ASSUME Typed, NEW t \in Tasks, TypeOK', UNCHANGED <<key, dir, content>>,
           ckpt' = ckpt \/ (ckpt' = [ckpt EXCEPT ![t] = "wait"] /\ pc[t] = "start"),
           NEW s \in Steps, Goto(t, s),
           s \in Early => pc[t] \in Early,
           s \in Open => pc[t] \in Open,
           s \notin {"idle", "new", "done"} => pc[t] \notin {"idle", "new", "done"}
    PROVE  Typed'
<1>1. Placed'
  BY DEF Typed, TypeOK, Placed, Goto
<1>2. Versions'
  BY DEF Typed, TypeOK, Versions, Goto, By
<1> QED BY <1>1, <1>2 DEF Typed

\* A handler at work, and a checkpointer, have a directory to read.
LEMMA HasDir ==
    ASSUME Typed, NEW t \in Tasks,
           pc[t] \notin {"idle", "new", "done"} \/ ckpt[t] # "off"
    PROVE  dir[t] \in Dirs /\ Found(dir[t]) \in Contents \cup {None}
<1>1. PICK i \in Insts : dir[t] = <<key[t], i>>
  BY DEF Typed, Placed
<1>2. dir[t] \in Dirs
  <2>1. key[t] \in Keys
    BY DEF Typed, TypeOK
  <2> QED BY <1>1, <2>1 DEF Dirs
<1> QED BY <1>2 DEF Found, Typed, TypeOK

LEMMA NextTyped == Typed /\ Copies /\ [Next]_vars => Typed'
<1> SUFFICES ASSUME Typed, Copies, [Next]_vars PROVE Typed'
  OBVIOUS
<1> USE ConstantsAssumption
<1>1. CASE UNCHANGED vars
  BY <1>1 DEF vars, run, saves, disk, Typed, TypeOK, Placed, Versions, By
<1>2. ASSUME NEW t \in Tasks,
             \/ Receive(t) \/ Reject(t) \/ NoExecutor(t) \/ Allocate(t) \/ RunScript(t)
             \/ ExecutorRun(t) \/ ReturnAll(t) \/ ReturnEnds(t) \/ Remove(t)
             \/ Deallocate(t) \/ Close(t)
      PROVE  Typed'
  <2> DEFINE Place == \E s \in Steps :
                /\ Goto(t, s)
                /\ s \in Early => pc[t] \in Early
                /\ s \in Open => pc[t] \in Open
                /\ s \notin {"idle", "new", "done"} => pc[t] \notin {"idle", "new", "done"}
  <2>1. /\ Place /\ UNCHANGED <<key, dir, content>>
        /\ ckpt' = ckpt \/ (ckpt' = [ckpt EXCEPT ![t] = "wait"] /\ pc[t] = "start")
    <3>1. CASE Receive(t) \/ Reject(t) \/ NoExecutor(t) \/ Allocate(t)
      BY <3>1 DEF Receive, Reject, NoExecutor, Allocate, run, saves, Steps, Early, Open
    <3>2. CASE RunScript(t) \/ ExecutorRun(t)
      BY <3>2 DEF RunScript, ExecutorRun, run, saves, Steps, Early, Open
    <3>3. CASE ReturnAll(t) \/ ReturnEnds(t)
      BY <3>3 DEF ReturnAll, ReturnEnds, run, saves, Steps, Early, Open
    <3>4. CASE Remove(t) \/ Deallocate(t) \/ Close(t)
      BY <3>4 DEF Remove, Deallocate, Close, run, saves, Steps, Early, Open
    <3> QED BY <1>2, <3>1, <3>2, <3>3, <3>4
  <2>2. pc' \in [Tasks -> Steps]
    BY <2>1 DEF Goto, Typed, TypeOK
  <2>3. /\ alloc' \in [Tasks -> BOOLEAN] /\ ack' \in [Tasks -> BOOLEAN]
        /\ runDone' \in [Tasks -> BOOLEAN] /\ failed' \in [Tasks -> BOOLEAN]
    <3>1. CASE NoExecutor(t) \/ Allocate(t) \/ Deallocate(t)
      BY <3>1 DEF NoExecutor, Allocate, Deallocate, run, Typed, TypeOK
    <3>2. CASE ExecutorRun(t)
      BY <3>2 DEF ExecutorRun, Typed, TypeOK
    <3>3. CASE UNCHANGED <<alloc, ack, runDone, failed>>
      BY <3>3 DEF Typed, TypeOK
    <3> QED BY <1>2, <3>1, <3>2, <3>3 DEF Receive, Reject, RunScript, ReturnAll,
            ReturnEnds, Remove, Close, run
  <2>4. excused' \in [Tasks -> SUBSET {"executor", "late", "unchanged", "upload"}]
    BY <1>2 DEF Receive, Reject, NoExecutor, Allocate, RunScript, ExecutorRun, ReturnAll,
       ReturnEnds, Remove, Deallocate, Close, run, saves, disk, Excuse, Typed, TypeOK
  <2>5. owner' \in [Dirs -> Tasks \cup {None}]
    BY <1>2 DEF Receive, Reject, NoExecutor, Allocate, RunScript, ExecutorRun, ReturnAll,
       ReturnEnds, Remove, RemoveAll, Deallocate, Close, run, saves, disk, Typed, TypeOK
  <2>6. pc[t] = "return" => dir[t] \in Dirs /\ Found(dir[t]) \in Contents \cup {None}
    BY HasDir
  <2>7. /\ sent' \in [Tasks -> Contents \cup {None}]
        /\ store' \in [Keys -> Contents \cup {None}]
        /\ UNCHANGED <<upload, upHashes>>
    BY <1>2, <2>6 DEF Receive, Reject, NoExecutor, Allocate, RunScript, ExecutorRun, ReturnAll,
       ReturnEnds, Remove, Deallocate, Close, run, saves, disk, Typed, TypeOK
  <2>9. remnant' \subseteq Dirs
    BY <1>2, <2>6 DEF Receive, Reject, NoExecutor, Allocate, RunScript, ExecutorRun, ReturnAll,
       UpdateMetaData, ReturnEnds, Remove, RemoveAll, Deallocate, Close, disk, Typed, TypeOK
  <2>10. ckpt' \in [Tasks -> {"off", "wait", "tick", "final"}]
    BY <2>1 DEF Typed, TypeOK
  <2>8. TypeOK'
    BY <2>1, <2>2, <2>3, <2>4, <2>5, <2>7, <2>9, <2>10 DEF Typed, TypeOK
  <2> QED BY <2>1, <2>8, TypedKept
<1>3. ASSUME NEW t \in Tasks, MkUniqDir(t) PROVE Typed'
  <2> DEFINE free == {i \in Insts : owner[<<key[t], i>>] = None /\ <<key[t], i>> \notin remnant}
  <2>1. free \in SUBSET Nat /\ free # {}
    BY <1>3 DEF MkUniqDir, Insts
  <2>2. Min(free) \in Insts
    <3> HIDE DEF free
    <3>1. Min(free) \in free
      BY <2>1, MinIsMember
    <3> QED BY <3>1 DEF free
  <2>3. /\ pc[t] = "new" /\ pc' = [pc EXCEPT ![t] = "made"]
        /\ dir' = [dir EXCEPT ![t] = <<key[t], Min(free)>>]
        /\ owner' = [owner EXCEPT ![<<key[t], Min(free)>>] = t]
        /\ UNCHANGED <<key, alloc, run, saves, sent, ack, excused, remnant, upHashes, store>>
    BY <1>3 DEF MkUniqDir, Goto
  <2> HIDE DEF free
  <2>4. TypeOK'
    BY <2>2, <2>3 DEF Typed, TypeOK, Steps, Dirs, run, saves
  <2>5. Placed'
    BY <2>2, <2>3 DEF Typed, TypeOK, Placed, saves
  <2>6. Versions'
    BY <2>3 DEF Typed, TypeOK, Versions, Early, Open, By, run
  <2> QED BY <2>4, <2>5, <2>6 DEF Typed
<1>4. ASSUME NEW t \in Tasks, Fetch(t) PROVE Typed'
  <2>1. dir[t] \in Dirs /\ store[key[t]] \in Contents \cup {None} /\ pc[t] = "fetch"
    BY <1>4, HasDir DEF Fetch, Typed, TypeOK
  <2>2. PICK c \in Contents :
           /\ content' = [content EXCEPT ![t] = c]
           /\ By(c, t) => c.ver = 0
           /\ \/ upHashes' = upHashes
              \/ \E n \in Files : upHashes' = [upHashes EXCEPT ![dir[t]] = n]
    <3>1. CASE \E n \in Files :
                  /\ content' = [content EXCEPT ![t] = [by |-> t, ver |-> 0, files |-> n]]
                  /\ \/ UNCHANGED upHashes
                     \/ upHashes' = [upHashes EXCEPT ![dir[t]] = n]
      <4>1. PICK n \in Files :
               /\ content' = [content EXCEPT ![t] = [by |-> t, ver |-> 0, files |-> n]]
               /\ \/ UNCHANGED upHashes
                  \/ upHashes' = [upHashes EXCEPT ![dir[t]] = n]
        BY <3>1
      <4>2. [by |-> t, ver |-> 0, files |-> n] \in Contents
        BY DEF Contents
      <4> QED BY <4>1, <4>2 DEF By
    <3>2. CASE /\ store[key[t]] # None /\ content' = [content EXCEPT ![t] = store[key[t]]]
               /\ upHashes' = [upHashes EXCEPT ![dir[t]] = Hash(store[key[t]])]
      <4>1. store[key[t]] \in Contents
        BY <2>1, <3>2
      <4>2. Hash(store[key[t]]) \in Files
        BY <4>1 DEF Hash, Contents
      <4>3. ~By(store[key[t]], t)
        <5>1. content[t] = None
          BY <2>1 DEF Typed, Versions, Early
        <5> QED BY <5>1 DEF Copies, Copy, By, Typed, TypeOK
      <4> QED BY <3>2, <4>1, <4>2, <4>3
    <3> QED BY <1>4, <3>1, <3>2 DEF Fetch
  <2>3. /\ pc' = [pc EXCEPT ![t] = "start"]
        /\ UNCHANGED <<key, dir, alloc, runDone, failed, saves, sent, ack, excused, owner,
                       remnant, store>>
    BY <1>4 DEF Fetch, Goto
  <2>4. TypeOK'
    <3>1. pc' \in [Tasks -> Steps] /\ content' \in [Tasks -> Contents \cup {None}]
      BY <2>2, <2>3 DEF Typed, TypeOK, Steps
    <3>2. upHashes' \in [Dirs -> Files \cup {None}]
      BY <2>1, <2>2 DEF Typed, TypeOK
    <3> QED BY <2>3, <3>1, <3>2 DEF Typed, TypeOK, saves
  <2>5. Placed'
    BY <2>1, <2>3 DEF Typed, TypeOK, Placed, saves
  <2>6. Versions'
    BY <2>2, <2>3 DEF Typed, TypeOK, Versions, Early, Open, By
  <2> QED BY <2>4, <2>5, <2>6 DEF Typed
<1>5. ASSUME NEW t \in Tasks, Cancel(t) PROVE Typed'
  <2>1. TypeOK'
    BY <1>5 DEF Cancel, Typed, TypeOK, saves, disk
  <2>2. Placed' /\ Versions'
    BY <1>5 DEF Cancel, Typed, Placed, Versions, By, saves
  <2> QED BY <2>1, <2>2 DEF Typed
<1>6. ASSUME NEW t \in Tasks,
             DeployFails(t) \/ Output(t) \/ CheckpointDone(t) \/ CheckpointUnresponsive(t)
      PROVE  Typed'
  <2>1. /\ pc[t] \notin {"idle", "new", "done"}
        /\ UNCHANGED <<key, dir, alloc, runDone, saves, sent, ack, disk>>
        /\ \/ Output(t) /\ pc' = pc /\ pc[t] = "run"
           \/ pc' = [pc EXCEPT ![t] = "return"]
    BY <1>6 DEF DeployFails, Output, CheckpointDone, CheckpointUnresponsive, Waited, Goto
  <2>2. /\ failed' \in [Tasks -> BOOLEAN]
        /\ excused' \in [Tasks -> SUBSET {"executor", "late", "unchanged", "upload"}]
    <3>1. failed' = failed \/ failed' = [failed EXCEPT ![t] = TRUE]
      BY <1>6 DEF DeployFails, Output, CheckpointDone, CheckpointUnresponsive, Waited
    <3>2. excused' = excused \/ Excuse(t, "late")
      BY <1>6 DEF DeployFails, Output, CheckpointDone, CheckpointUnresponsive
    <3>3. failed' \in [Tasks -> BOOLEAN]
      BY <3>1 DEF Typed, TypeOK
    <3>4. excused \in [Tasks -> SUBSET {"executor", "late", "unchanged", "upload"}]
      BY DEF Typed, TypeOK
    <3> QED BY <3>2, <3>3, <3>4 DEF Excuse
  <2>3. pc' \in [Tasks -> Steps] /\ content' \in [Tasks -> Contents \cup {None}]
    BY <1>6, <2>1, Writes DEF Typed, TypeOK, Steps
  <2>4. TypeOK'
    BY <2>1, <2>2, <2>3 DEF Typed, TypeOK, saves, disk
  <2>5. Placed'
    BY <2>1 DEF Typed, TypeOK, Placed, saves
  <2>6. Versions'
    <3>1. CASE Output(t)
      <4>1. CASE content' = content
        BY <2>1, <3>1, <4>1 DEF Typed, Versions, Output, By
      <4>2. ASSUME NEW c \in Contents, content' = [content EXCEPT ![t] = c], c.ver =< MaxVer
            PROVE  Versions'
        <5>1. pc' = pc /\ pc[t] = "run"
          BY <3>1 DEF Output
        <5>2. content'[t] = c /\ \A u \in Tasks \ {t} : content'[u] = content[u]
          BY <4>2 DEF Typed, TypeOK
        <5> QED BY <4>2, <5>1, <5>2 DEF Typed, Versions, Early, By
      <4> QED BY <3>1, <4>1, <4>2, Writes
    <3>2. CASE pc' = [pc EXCEPT ![t] = "return"]
      <4>1. \A u \in Tasks \ {t} : content'[u] = content[u] /\ pc'[u] = pc[u]
        BY <1>6, <3>2, Writes DEF Typed, TypeOK
      <4> QED BY <3>2, <4>1 DEF Typed, TypeOK, Versions, Early, Open, By
    <3> QED BY <2>1, <3>1, <3>2
  <2> QED BY <2>4, <2>5, <2>6 DEF Typed
<1>8. ASSUME NEW t \in Tasks, Checkpoint(t) PROVE Typed'
  <2>1. dir[t] \in Dirs /\ Found(dir[t]) \in Contents \cup {None}
    BY <1>8, HasDir DEF Checkpoint
  <2>2. upload' \in [Tasks -> Contents \cup {None}]
    BY <1>8, <2>1 DEF Checkpoint, Typed, TypeOK
  <2>3. ckpt' \in [Tasks -> {"off", "wait", "tick", "final"}]
    BY <1>8 DEF Checkpoint, Typed, TypeOK
  <2>7. remnant' \subseteq Dirs
    BY <1>8, <2>1 DEF Checkpoint, UpdateMetaData, Typed, TypeOK
  <2>4. TypeOK'
    BY <1>8, <2>2, <2>3, <2>7 DEF Checkpoint, Typed, TypeOK, run
  <2>5. Placed'
    BY <1>8 DEF Checkpoint, Typed, TypeOK, Placed
  <2>6. Versions'
    BY <1>8 DEF Checkpoint, Typed, Versions, By, run
  <2> QED BY <2>4, <2>5, <2>6 DEF Typed
<1>9. ASSUME NEW t \in Tasks, CheckpointEnds(t) PROVE Typed'
  <2>1. TypeOK'
    BY <1>9 DEF CheckpointEnds, Typed, TypeOK, run
  <2>2. Placed'
    BY <1>9 DEF CheckpointEnds, Typed, TypeOK, Placed
  <2>3. Versions'
    BY <1>9 DEF CheckpointEnds, Typed, Versions, By, run
  <2> QED BY <2>1, <2>2, <2>3 DEF Typed
<1> QED BY <1>1, <1>2, <1>3, <1>4, <1>5, <1>6, <1>8, <1>9 DEF Next, HandleMsg

-----------------------------------------------------------------------------
(* Copies of outputs.                                                      *)

\* Outputs of a run only ever get later.
Grows ==
    \A u \in Tasks : By(content[u], u) =>
       By(content'[u], u) /\ content[u].ver =< content'[u].ver

LEMMA CopyKept ==
    ASSUME TypeOK, TypeOK', Grows, NEW c \in Contents \cup {None}, Copy(c)
    PROVE  Copy(c)'
<1>1. CASE c = None
  BY <1>1 DEF Copy
<1>2. CASE c # None
  <2>1. c.by \in Tasks /\ c.ver \in Nat
    BY <1>2 DEF Contents
  <2>2. By(content[c.by], c.by) /\ c.ver =< content[c.by].ver
    BY <1>2 DEF Copy
  <2>3. By(content'[c.by], c.by) /\ content[c.by].ver =< content'[c.by].ver
    BY <2>1, <2>2 DEF Grows
  <2>4. content[c.by].ver \in Nat /\ content'[c.by].ver \in Nat
    <3>1. content[c.by] \in Contents /\ content'[c.by] \in Contents
      BY <2>1, <2>2, <2>3 DEF TypeOK, By
    <3> QED BY <3>1 DEF Contents
  <2> QED BY <2>1, <2>2, <2>3, <2>4 DEF Copy
<1> QED BY <1>1, <1>2

\* Where the copies of a step come from.
LEMMA CopiesMove ==
    ASSUME TypeOK, TypeOK', Grows, Copies,
           \A u \in Tasks : \/ content'[u] = content[u]
                            \/ \E k \in Keys : content'[u] = store[k]
                            \/ By(content'[u], u),
           \A u \in Tasks : \/ upload'[u] \in {upload[u], None}
                            \/ \E v \in Tasks : upload'[u] = content[v],
           \A u \in Tasks : \/ sent'[u] \in {sent[u], None}
                            \/ \E v \in Tasks : sent'[u] = content[v],
           \A k \in Keys : \/ store'[k] = store[k]
                           \/ \E v \in Tasks : store'[k] \in {upload[v], sent[v]}
    PROVE  Copies'
<1>1. /\ \A u \in Tasks : Copy(content[u]) /\ Copy(upload[u]) /\ Copy(sent[u])
      /\ \A k \in Keys : Copy(store[k])
  BY DEF Copies
<1>2. /\ \A u \in Tasks : content[u] \in Contents \cup {None}
      /\ \A u \in Tasks : upload[u] \in Contents \cup {None}
      /\ \A u \in Tasks : sent[u] \in Contents \cup {None}
      /\ \A k \in Keys : store[k] \in Contents \cup {None}
  BY DEF TypeOK
<1> DEFINE Good(c) ==
       c # None => By(content'[c.by], c.by) /\ c.ver =< content'[c.by].ver
<1>3. \A c \in Contents \cup {None} : Copy(c) => Good(c)
  BY CopyKept DEF Copy
<1>4. Good(None)
  OBVIOUS
<1>5. ASSUME NEW u \in Tasks, By(content'[u], u) PROVE Good(content'[u])
  <2>1. content'[u] \in Contents
    BY <1>5 DEF By, TypeOK
  <2>2. content'[u].by = u /\ content'[u].ver \in Nat
    BY <1>5, <2>1 DEF By, Contents
  <2> QED BY <1>5, <2>2 DEF By
<1> HIDE DEF Good
<1>6. ASSUME NEW u \in Tasks PROVE Good(content'[u]) /\ Good(upload'[u]) /\ Good(sent'[u])
  BY <1>1, <1>2, <1>3, <1>4, <1>5
<1>7. ASSUME NEW k \in Keys PROVE Good(store'[k])
  BY <1>1, <1>2, <1>3
<1> QED BY <1>6, <1>7 DEF Copies, Copy, Good

LEMMA NextCopies == Typed /\ Copies /\ [Next]_vars => Copies'
<1> SUFFICES ASSUME Typed, Copies, [Next]_vars PROVE Copies'
  OBVIOUS
<1>1. TypeOK /\ TypeOK'
  BY NextTyped DEF Typed
<1>2. CASE UNCHANGED <<content, upload, sent, store>>
  BY <1>2 DEF Copies, Copy, By
\* The output of t alone changes.
<1>3. ASSUME NEW t \in Tasks, NEW c \in Contents \cup {None},
             content' = [content EXCEPT ![t] = c], UNCHANGED <<upload, sent, store>>,
             By(content[t], t) => By(c, t) /\ content[t].ver =< c.ver,
             By(c, t) \/ c = store[key[t]]
      PROVE  Copies'
  <2>1. Grows
    <3> SUFFICES ASSUME NEW u \in Tasks, By(content[u], u)
                 PROVE  By(content'[u], u) /\ content[u].ver =< content'[u].ver
      BY DEF Grows
    <3>1. CASE u = t
      BY <1>1, <1>3, <3>1 DEF TypeOK
    <3>2. CASE u # t
      <4>1. content'[u] = content[u] /\ content[u] \in Contents
        BY <1>1, <1>3, <3>2 DEF TypeOK, By
      <4> QED BY <4>1 DEF Contents
    <3> QED BY <3>1, <3>2
  <2>2. \A u \in Tasks : \/ content'[u] = content[u]
                         \/ \E k \in Keys : content'[u] = store[k]
                         \/ By(content'[u], u)
    BY <1>1, <1>3 DEF TypeOK
  <2> QED BY <1>1, <1>3, <2>1, <2>2, CopiesMove
<1>4. ASSUME NEW t \in Tasks, Fetch(t) PROVE Copies'
  <2>1. pc[t] = "fetch" /\ ~By(content[t], t)
    BY <1>4 DEF Fetch, Typed, Versions, Early, By
  <2>2. UNCHANGED <<upload, sent, store>> /\ store[key[t]] \in Contents \cup {None}
    BY <1>1, <1>4 DEF Fetch, saves, TypeOK
  <2>3. CASE content' = [content EXCEPT ![t] = store[key[t]]]
    BY <1>3, <2>1, <2>2, <2>3
  <2>4. ASSUME NEW n \in Files,
               content' = [content EXCEPT ![t] = [by |-> t, ver |-> 0, files |-> n]]
        PROVE  Copies'
    <3> DEFINE c == [by |-> t, ver |-> 0, files |-> n]
    <3>1. c \in Contents
      BY ConstantsAssumption DEF Contents
    <3>2. By(c, t)
      BY <3>1, ConstantsAssumption DEF By
    <3>3. content' = [content EXCEPT ![t] = c]
      BY <2>4
    <3> HIDE DEF c
    <3> QED BY <1>3, <2>1, <2>2, <3>1, <3>2, <3>3
  <2> QED BY <1>4, <2>3, <2>4 DEF Fetch
<1>5. ASSUME NEW t \in Tasks,
             DeployFails(t) \/ Output(t) \/ CheckpointDone(t) \/ CheckpointUnresponsive(t)
      PROVE  Copies'
  <2>1. UNCHANGED <<upload, sent, store>>
    BY <1>5 DEF DeployFails, Output, CheckpointDone, CheckpointUnresponsive, Waited, saves, disk
  <2> QED BY <1>2, <1>3, <1>5, <2>1, Writes
\* The output of no handler changes.
<1>7. ASSUME content' = content,
             \A u \in Tasks : \/ upload'[u] \in {upload[u], None}
                              \/ \E v \in Tasks : upload'[u] = content[v],
             \A u \in Tasks : \/ sent'[u] \in {sent[u], None}
                              \/ \E v \in Tasks : sent'[u] = content[v],
             \A k \in Keys : \/ store'[k] = store[k]
                             \/ \E v \in Tasks : store'[k] \in {upload[v], sent[v]}
      PROVE  Copies'
  <2>1. Grows
    <3> SUFFICES ASSUME NEW u \in Tasks, By(content[u], u)
                 PROVE  content[u].ver =< content[u].ver
      BY <1>7 DEF Grows
    <3>1. content[u] \in Contents
      BY <1>1 DEF TypeOK, By
    <3> QED BY <3>1 DEF Contents
  <2> QED BY <1>1, <1>7, <2>1, CopiesMove
<1>8. ASSUME NEW t \in Tasks, Checkpoint(t) PROVE Copies'
  <2>1. Found(dir[t]) = None \/ \E v \in Tasks : Found(dir[t]) = content[v]
    BY <1>1, <1>8, HasDir DEF Checkpoint, Found, TypeOK
  <2>2. /\ upload' = [upload EXCEPT ![t] = None] \/ upload' = [upload EXCEPT ![t] = Found(dir[t])]
        /\ UNCHANGED <<content, sent, store>>
    BY <1>8 DEF Checkpoint, run
  <2>3. \A u \in Tasks : \/ upload'[u] \in {upload[u], None}
                         \/ \E v \in Tasks : upload'[u] = content[v]
    BY <1>1, <2>1, <2>2 DEF TypeOK
  <2> QED BY <1>7, <2>2, <2>3
<1>9. ASSUME NEW t \in Tasks, CheckpointEnds(t) PROVE Copies'
  <2>1. /\ store' = store \/ store' = [store EXCEPT ![key[t]] = upload[t]]
        /\ upload' = [upload EXCEPT ![t] = None]
        /\ UNCHANGED <<content, sent>>
    BY <1>9 DEF CheckpointEnds, run
  <2>2. \A u \in Tasks : upload'[u] \in {upload[u], None}
    BY <1>1, <2>1 DEF TypeOK
  <2>3. \A k \in Keys : store'[k] \in {store[k], upload[t]}
    BY <1>1, <2>1 DEF TypeOK
  <2> QED BY <1>7, <2>1, <2>2, <2>3
<1>10. ASSUME NEW t \in Tasks, ReturnAll(t) PROVE Copies'
  <2>1. Found(dir[t]) = None \/ \E v \in Tasks : Found(dir[t]) = content[v]
    BY <1>1, <1>10, HasDir DEF ReturnAll, Found, TypeOK
  <2>2. /\ sent' = sent \/ sent' = [sent EXCEPT ![t] = Found(dir[t])]
        /\ UNCHANGED <<content, upload, store>>
    BY <1>10 DEF ReturnAll, run, saves, disk
  <2>3. \A u \in Tasks : \/ sent'[u] \in {sent[u], None}
                         \/ \E v \in Tasks : sent'[u] = content[v]
    BY <1>1, <2>1, <2>2 DEF TypeOK
  <2> QED BY <1>7, <2>2, <2>3
<1>11. ASSUME NEW t \in Tasks, ReturnEnds(t) PROVE Copies'
  <2>1. /\ store' = store \/ store' = [store EXCEPT ![key[t]] = sent[t]]
        /\ sent' = [sent EXCEPT ![t] = None]
        /\ UNCHANGED <<content, upload>>
    BY <1>11 DEF ReturnEnds, run, saves
  <2>2. \A u \in Tasks : sent'[u] \in {sent[u], None}
    BY <1>1, <2>1 DEF TypeOK
  <2>3. \A k \in Keys : store'[k] \in {store[k], sent[t]}
    BY <1>1, <2>1 DEF TypeOK
  <2> QED BY <1>7, <2>1, <2>2, <2>3
<1>12. ASSUME NEW t \in Tasks,
              \/ Receive(t) \/ Reject(t) \/ MkUniqDir(t) \/ NoExecutor(t) \/ Allocate(t)
              \/ RunScript(t) \/ Cancel(t) \/ ExecutorRun(t) \/ Remove(t) \/ Deallocate(t)
              \/ Close(t)
       PROVE  UNCHANGED <<content, upload, sent, store>>
  BY <1>12 DEF Receive, Reject, MkUniqDir, NoExecutor, Allocate, RunScript, Cancel, ExecutorRun,
     Remove, Deallocate, Close, run, saves, disk
<1>13. CASE UNCHANGED vars
  BY <1>2, <1>13 DEF vars, run, saves, disk
<1> QED BY <1>2, <1>4, <1>5, <1>8, <1>9, <1>10, <1>11, <1>12, <1>13 DEF Next, HandleMsg
-----------------------------------------------------------------------------
(* What a handler holds.                                                   *)

LEMMA OwnersKept ==
    ASSUME Typed, Owners, NEW t \in Tasks, dir' = dir,
           \A d \in Dirs : owner'[d] \in {owner[d], None},
           \A u \in Tasks \ {t} : pc'[u] = pc[u] /\ alloc'[u] = alloc[u],
           \A u \in Tasks : excused[u] \subseteq excused'[u],
           alloc'[t] => pc'[t] \in Holding,
           pc'[t] \in {"idle", "new"} => pc[t] \in {"idle", "new"},
           pc'[t] = "done" =>
              "executor" \in excused'[t] \/ \A d \in Dirs : owner'[d] # t
    PROVE  Owners'
<1>1. \A u \in Tasks : \A d \in Dirs : owner'[d] = u => owner[d] = u
  BY ConstantsAssumption
<1>2. \A u \in Tasks : MadeBy(u)
  BY DEF Owners
<1>3. MadeBy(t)'
  BY <1>1, <1>2 DEF MadeBy
<1>4. ASSUME NEW u \in Tasks \ {t} PROVE MadeBy(u)'
  BY <1>1, <1>2 DEF MadeBy
<1>5. ASSUME NEW u \in Tasks PROVE Machine(u)'
  BY DEF Owners, Machine
<1> QED BY <1>3, <1>4, <1>5 DEF Owners

LEMMA NextOwners == Typed /\ Owners /\ [Next]_vars => Owners'
<1> SUFFICES ASSUME Typed, Owners, [Next]_vars PROVE Owners'
  OBVIOUS
<1>1. /\ pc \in [Tasks -> Steps] /\ dir \in [Tasks -> Dirs \cup {None}]
      /\ alloc \in [Tasks -> BOOLEAN] /\ owner \in [Dirs -> Tasks \cup {None}]
      /\ excused \in [Tasks -> SUBSET {"executor", "late", "unchanged", "upload"}]
  BY DEF Typed, TypeOK
<1>2. CASE UNCHANGED vars
  BY <1>2 DEF vars, disk, Owners, MadeBy, Machine
<1>3. ASSUME NEW t \in Tasks, MkUniqDir(t) PROVE Owners'
  <2> DEFINE free == {i \in Insts : owner[<<key[t], i>>] = None /\ <<key[t], i>> \notin remnant}
             d == <<key[t], Min(free)>>
  <2>1. /\ pc[t] = "new" /\ pc' = [pc EXCEPT ![t] = "made"]
        /\ dir' = [dir EXCEPT ![t] = d] /\ owner' = [owner EXCEPT ![d] = t]
        /\ UNCHANGED <<alloc, excused>>
    BY <1>3 DEF MkUniqDir, Goto
  <2> HIDE DEF d
  <2>2. MadeBy(t)'
    <3>1. \A e \in Dirs : owner[e] # t
      BY <2>1 DEF Owners, MadeBy
    <3> QED BY <1>1, <2>1, <3>1 DEF MadeBy
  <2>3. ASSUME NEW u \in Tasks \ {t} PROVE MadeBy(u)'
    BY <1>1, <2>1 DEF Owners, MadeBy
  <2>4. ASSUME NEW u \in Tasks PROVE Machine(u)'
    BY <1>1, <2>1 DEF Owners, Machine, Holding
  <2> QED BY <2>2, <2>3, <2>4 DEF Owners
<1>4. ASSUME NEW t \in Tasks, Reject(t) PROVE Owners'
  <2>1. (\A d \in Dirs : owner[d] # t) /\ ~alloc[t]
    BY <1>4 DEF Reject, Owners, MadeBy, Machine, Holding
  <2> QED BY <1>1, <1>4, <2>1, OwnersKept DEF Reject, Goto, disk
<1>5. ASSUME NEW t \in Tasks, NoExecutor(t) PROVE Owners'
  <2>1. ~alloc[t]
    BY <1>5 DEF NoExecutor, Owners, Machine, Holding
  <2> QED BY <1>1, <1>5, <2>1, OwnersKept DEF NoExecutor, Excuse, Goto, disk
<1>6. ASSUME NEW t \in Tasks, Remove(t) PROVE Owners'
  <2>1. /\ pc[t] = "remove" /\ pc' = [pc EXCEPT ![t] = "deallocate"]
        /\ owner' = [owner EXCEPT ![dir[t]] = None] /\ UNCHANGED <<dir, alloc, excused>>
    BY <1>6 DEF Remove, RemoveAll, Goto
  <2>2. pc'[t] = "deallocate" /\ \A u \in Tasks \ {t} : pc'[u] = pc[u]
    BY <1>1, <2>1
  <2>3. \A d \in Dirs : owner'[d] \in {owner[d], None}
    BY <1>1, <2>1
  <2> QED BY <2>1, <2>2, <2>3, OwnersKept DEF Holding
<1>7. ASSUME NEW t \in Tasks, Close(t) PROVE Owners'
  <2>1. /\ pc[t] = "close" /\ pc' = [pc EXCEPT ![t] = "done"]
        /\ owner' = [owner EXCEPT ![dir[t]] = None] /\ UNCHANGED <<dir, alloc, excused>>
    BY <1>7 DEF Close, RemoveAll, Goto
  <2>2. ~alloc[t] /\ \A d \in Dirs : owner[d] = t => d = dir[t]
    BY <2>1 DEF Owners, MadeBy, Machine, Holding
  <2>3. \A d \in Dirs : owner'[d] # t
    BY <1>1, <2>1, <2>2, ConstantsAssumption
  <2>4. pc'[t] = "done" /\ \A u \in Tasks \ {t} : pc'[u] = pc[u]
    BY <1>1, <2>1
  <2>5. \A d \in Dirs : owner'[d] \in {owner[d], None}
    BY <1>1, <2>1
  <2> QED BY <2>1, <2>2, <2>3, <2>4, <2>5, OwnersKept
\* The steps that neither make nor remove a directory.
<1>8. ASSUME NEW t \in Tasks,
             \/ Receive(t) \/ Allocate(t) \/ Fetch(t) \/ DeployFails(t) \/ RunScript(t)
             \/ ExecutorRun(t) \/ CheckpointDone(t) \/ CheckpointUnresponsive(t)
             \/ ReturnAll(t) \/ ReturnEnds(t) \/ Deallocate(t)
      PROVE  Owners'
  <2>1. owner' = owner /\ dir' = dir
    BY <1>8 DEF Receive, Allocate, Fetch, DeployFails, RunScript, ExecutorRun, CheckpointDone,
       CheckpointUnresponsive, Waited, ReturnAll, ReturnEnds, Deallocate, disk
  <2>2. /\ \A u \in Tasks \ {t} : pc'[u] = pc[u] /\ alloc'[u] = alloc[u]
        /\ pc'[t] # "done"
        /\ pc'[t] \in {"idle", "new"} => pc[t] = "idle"
        /\ alloc'[t] => pc'[t] \in Holding
    <3>1. alloc[t] => pc[t] \in Holding
      BY DEF Owners, Machine
    <3>2. CASE Receive(t) \/ Allocate(t) \/ Deallocate(t)
      BY <1>1, <3>1, <3>2 DEF Receive, Allocate, Deallocate, Goto, Holding
    <3>3. CASE ReturnAll(t) \/ ReturnEnds(t)
      BY <1>1, <3>1, <3>3 DEF ReturnAll, ReturnEnds, Goto, Holding
    <3>4. CASE \/ Fetch(t) \/ DeployFails(t) \/ RunScript(t) \/ ExecutorRun(t)
               \/ CheckpointDone(t) \/ CheckpointUnresponsive(t)
      <4>1. (\E s \in Holding : pc' = [pc EXCEPT ![t] = s]) /\ alloc' = alloc
        BY <3>4 DEF Fetch, DeployFails, RunScript, ExecutorRun, CheckpointDone,
           CheckpointUnresponsive, Waited, Goto, Holding
      <4>2. "done" \notin Holding /\ "idle" \notin Holding /\ "new" \notin Holding
        BY DEF Holding
      <4> QED BY <1>1, <4>1, <4>2
    <3> QED BY <1>8, <3>2, <3>3, <3>4
  <2>3. \A u \in Tasks : excused[u] \subseteq excused'[u]
    BY <1>1, <1>8 DEF Receive, Allocate, Fetch, DeployFails, RunScript, ExecutorRun,
       CheckpointDone, CheckpointUnresponsive, Excuse, ReturnAll, ReturnEnds, Deallocate
  <2> QED BY <2>1, <2>2, <2>3, OwnersKept
<1>9. ASSUME NEW t \in Tasks, Output(t) \/ Cancel(t) \/ Checkpoint(t) \/ CheckpointEnds(t)
      PROVE  UNCHANGED <<pc, dir, alloc, excused, owner>>
  BY <1>9 DEF Output, Cancel, Checkpoint, CheckpointEnds, disk
<1>10. CASE UNCHANGED <<pc, dir, alloc, excused, owner>>
  BY <1>10 DEF Owners, MadeBy, Machine
<1> QED BY <1>2, <1>3, <1>4, <1>5, <1>6, <1>7, <1>8, <1>9, <1>10 DEF Next, HandleMsg

\* The invariant that holds however messages are delivered.
Inv == Typed /\ Copies /\ Owners

LEMMA InitInv == Init => Inv
<1> SUFFICES ASSUME Init PROVE Inv
  OBVIOUS
<1>1. Copies
  BY DEF Init, Copies, Copy
<1>2. Owners
  BY ConstantsAssumption DEF Init, Owners, MadeBy, Machine
<1> QED BY <1>1, <1>2, InitTyped DEF Inv

LEMMA NextInv == Inv /\ [Next]_vars => Inv'
BY NextTyped, NextCopies, NextOwners DEF Inv

-----------------------------------------------------------------------------
(* What a step changes, and whose step it is.                              *)

LEMMA ExcusesGrow ==
    ASSUME TypeOK, [Next]_vars
    PROVE  key' = key /\ \A u \in Tasks : excused[u] \subseteq excused'[u]
<1>1. CASE UNCHANGED vars
  BY <1>1 DEF vars
<1>2. ASSUME NEW t \in Tasks,
             NoExecutor(t) \/ CheckpointUnresponsive(t) \/ ReturnAll(t) \/ ReturnEnds(t)
      PROVE  key' = key /\ \A u \in Tasks : excused[u] \subseteq excused'[u]
  BY <1>2 DEF NoExecutor, CheckpointUnresponsive, Waited, ReturnAll, ReturnEnds, Excuse, TypeOK
<1>3. ASSUME NEW t \in Tasks,
             \/ Receive(t) \/ Reject(t) \/ MkUniqDir(t) \/ Allocate(t) \/ Fetch(t)
             \/ DeployFails(t) \/ RunScript(t) \/ Output(t) \/ Cancel(t) \/ ExecutorRun(t)
             \/ CheckpointDone(t) \/ Checkpoint(t) \/ CheckpointEnds(t) \/ Remove(t)
             \/ Deallocate(t) \/ Close(t)
      PROVE  key' = key /\ excused' = excused
  BY <1>3 DEF Receive, Reject, MkUniqDir, Allocate, Fetch, DeployFails, RunScript, Output,
     Cancel, ExecutorRun, CheckpointDone, Waited, Checkpoint, CheckpointEnds, Remove,
     Deallocate, Close
<1> QED BY <1>1, <1>2, <1>3 DEF Next, HandleMsg

LEMMA ReasonsGrow ==
    ASSUME TypeOK, [Next]_vars, NEW k PROVE Reasons(k) \subseteq Reasons(k)'
BY ExcusesGrow DEF Reasons

\* An output changes in a step of its handler, before returnAll, and is then its
\* own or the one the object store has.
LEMMA OutputStep ==
    ASSUME Typed, [Next]_vars, NEW t \in Tasks, content'[t] # content[t]
    PROVE  /\ pc[t] \in {"fetch", "start", "run", "wait"}
           /\ By(content'[t], t) \/ (content'[t] = store[key[t]] /\ store' = store)
<1>1. TypeOK
  BY DEF Typed
<1>2. ASSUME NEW u \in Tasks, NEW c, content' = [content EXCEPT ![u] = c]
      PROVE  u = t /\ content'[t] = c
  BY <1>1, <1>2 DEF TypeOK
<1>3. ASSUME NEW u \in Tasks,
             \/ DeployFails(u) \/ Output(u) \/ CheckpointDone(u) \/ CheckpointUnresponsive(u)
      PROVE  By(content'[t], t) /\ pc[t] \in {"fetch", "start", "run", "wait"}
  <2>1. pc[u] \in {"fetch", "start", "run", "wait"}
    BY <1>3 DEF DeployFails, Output, CheckpointDone, CheckpointUnresponsive
  <2>2. PICK c \in Contents : content' = [content EXCEPT ![u] = c] /\ By(c, u)
    BY <1>3, Writes
  <2> QED BY <1>2, <2>1, <2>2
<1>4. ASSUME NEW u \in Tasks, Fetch(u)
      PROVE  /\ pc[t] = "fetch"
             /\ By(content'[t], t) \/ (content'[t] = store[key[t]] /\ store' = store)
  <2>1. pc[u] = "fetch" /\ store' = store
    BY <1>4 DEF Fetch
  <2>2. ASSUME NEW n \in Files,
               content' = [content EXCEPT ![u] = [by |-> u, ver |-> 0, files |-> n]]
        PROVE  u = t /\ By(content'[t], t)
    <3>1. u = t /\ content'[t] = [by |-> u, ver |-> 0, files |-> n]
      BY <1>2, <2>2
    <3>2. [by |-> u, ver |-> 0, files |-> n] \in Contents
      BY ConstantsAssumption DEF Contents
    <3> QED BY <3>1, <3>2, ConstantsAssumption DEF By
  <2>3. ASSUME content' = [content EXCEPT ![u] = store[key[u]]]
        PROVE  u = t /\ content'[t] = store[key[t]]
    BY <1>2, <2>3
  <2> QED BY <1>4, <2>1, <2>2, <2>3 DEF Fetch
<1>5. ASSUME NEW u \in Tasks,
             \/ Receive(u) \/ Reject(u) \/ MkUniqDir(u) \/ NoExecutor(u) \/ Allocate(u)
             \/ RunScript(u) \/ Cancel(u) \/ ExecutorRun(u) \/ Checkpoint(u)
             \/ CheckpointEnds(u) \/ ReturnAll(u) \/ ReturnEnds(u) \/ Remove(u)
             \/ Deallocate(u) \/ Close(u)
      PROVE  content' = content
  BY <1>5 DEF Receive, Reject, MkUniqDir, NoExecutor, Allocate, RunScript, Cancel, ExecutorRun,
     Checkpoint, CheckpointEnds, ReturnAll, ReturnEnds, Remove, Deallocate, Close, run
<1>6. CASE UNCHANGED vars
  BY <1>6 DEF vars, run
<1> QED BY <1>3, <1>4, <1>5, <1>6 DEF Next, HandleMsg

\* The checkpointer of t changes in a step of its own, or starts.
LEMMA CheckpointerStep ==
    ASSUME TypeOK, [Next]_vars, NEW t \in Tasks,
           ckpt'[t] # ckpt[t] \/ upload'[t] # upload[t]
    PROVE  RunScript(t) \/ Checkpoint(t) \/ CheckpointEnds(t)
<1>1. ASSUME NEW u \in Tasks, RunScript(u) \/ Checkpoint(u) \/ CheckpointEnds(u) PROVE u = t
  BY <1>1 DEF RunScript, Checkpoint, CheckpointEnds, TypeOK
<1>2. ASSUME NEW u \in Tasks,
             \/ Receive(u) \/ Reject(u) \/ MkUniqDir(u) \/ NoExecutor(u) \/ Allocate(u)
             \/ Fetch(u) \/ DeployFails(u) \/ Output(u) \/ Cancel(u) \/ ExecutorRun(u)
             \/ CheckpointDone(u) \/ CheckpointUnresponsive(u) \/ ReturnAll(u)
             \/ ReturnEnds(u) \/ Remove(u) \/ Deallocate(u) \/ Close(u)
      PROVE  FALSE
  BY <1>2 DEF Receive, Reject, MkUniqDir, NoExecutor, Allocate, Fetch, DeployFails, Output,
     Cancel, ExecutorRun, CheckpointDone, CheckpointUnresponsive, Waited, ReturnAll,
     ReturnEnds, Remove, Deallocate, Close, saves
<1>3. CASE UNCHANGED vars
  BY <1>3 DEF vars, saves
<1> QED BY <1>1, <1>2, <1>3 DEF Next, HandleMsg

\* Uploads to an experiment are by its handlers' checkpointers and returnAll.
LEMMA StoreStep ==
    ASSUME TypeOK, [Next]_vars, NEW k \in Keys, store'[k] # store[k]
    PROVE  \E t \in Tasks : /\ key[t] = k
                            /\ \/ CheckpointEnds(t) /\ store'[k] = upload[t]
                               \/ ReturnEnds(t) /\ store'[k] = sent[t]
<1>1. ASSUME NEW t \in Tasks, CheckpointEnds(t)
      PROVE  key[t] = k /\ store'[k] = upload[t]
  BY <1>1 DEF CheckpointEnds, TypeOK
<1>2. ASSUME NEW t \in Tasks, ReturnEnds(t)
      PROVE  key[t] = k /\ store'[k] = sent[t]
  BY <1>2 DEF ReturnEnds, TypeOK
<1>3. ASSUME NEW t \in Tasks,
             \/ Receive(t) \/ Reject(t) \/ MkUniqDir(t) \/ NoExecutor(t) \/ Allocate(t)
             \/ Fetch(t) \/ DeployFails(t) \/ RunScript(t) \/ Output(t) \/ Cancel(t)
             \/ ExecutorRun(t) \/ CheckpointDone(t) \/ CheckpointUnresponsive(t)
             \/ Checkpoint(t) \/ ReturnAll(t) \/ Remove(t) \/ Deallocate(t) \/ Close(t)
      PROVE  FALSE
  BY <1>3 DEF Receive, Reject, MkUniqDir, NoExecutor, Allocate, Fetch, DeployFails, RunScript,
     Output, Cancel, ExecutorRun, CheckpointDone, CheckpointUnresponsive, Waited, Checkpoint,
     ReturnAll, Remove, Deallocate, Close, disk
<1>4. CASE UNCHANGED vars
  BY <1>4 DEF vars, disk
<1> QED BY <1>1, <1>2, <1>3, <1>4 DEF Next, HandleMsg

\* A handler moves, and consumes, in a step of its own.
LEMMA HandlerStep ==
    ASSUME TypeOK, [Next]_vars, NEW t \in Tasks, pc'[t] # pc[t] \/ ack'[t] # ack[t]
    PROVE  Receive(t) \/ HandleMsg(t)
<1>1. ASSUME NEW u \in Tasks, u # t, Receive(u) \/ HandleMsg(u)
      PROVE  /\ \E s : pc' = [pc EXCEPT ![u] = s]
             /\ ack' = ack \/ \E b : ack' = [ack EXCEPT ![u] = b]
  BY <1>1 DEF HandleMsg, Receive, Reject, MkUniqDir, NoExecutor, Allocate, Fetch, DeployFails,
     RunScript, ExecutorRun, CheckpointDone, CheckpointUnresponsive, Waited, ReturnAll,
     ReturnEnds, Remove, Deallocate, Close, Goto
<1>2. ASSUME NEW u \in Tasks, u # t, Receive(u) \/ HandleMsg(u) PROVE FALSE
  BY <1>1, <1>2 DEF TypeOK
<1>3. ASSUME NEW u \in Tasks, Output(u) \/ Cancel(u) \/ Checkpoint(u) \/ CheckpointEnds(u)
      PROVE  FALSE
  BY <1>3 DEF Output, Cancel, Checkpoint, CheckpointEnds
<1>4. CASE UNCHANGED vars
  BY <1>4 DEF vars
<1> QED BY <1>2, <1>3, <1>4 DEF Next

\* Where the steps of a handler lead.
LEMMA HandlerMoves ==
    ASSUME TypeOK, NEW t \in Tasks, HandleMsg(t)
    PROVE  /\ Active(t) /\ pc'[t] \notin {"idle", "new"}
           /\ pc[t] = "close" => pc'[t] = "done"
           /\ pc'[t] \in Using => pc[t] \in Using \/ MkUniqDir(t)
           /\ pc[t] = "wait" => CheckpointDone(t) \/ CheckpointUnresponsive(t)
           /\ pc[t] = "run" => pc'[t] = "wait"
           /\ ack'[t] => ack[t] \/ NoExecutor(t) \/ Deallocate(t)
           /\ pc'[t] = "upload" => ReturnAll(t)
           /\ pc'[t] = "remove" => ReturnAll(t) \/ ReturnEnds(t)
           /\ pc'[t] = "deallocate" => pc[t] = "remove"
           /\ pc[t] \in Ran => pc'[t] \in Ran \/ Close(t)
<1> USE DEF TypeOK, Goto, Active, Using, Ran
<1>1. CASE Reject(t) \/ NoExecutor(t)
  BY <1>1 DEF Reject, NoExecutor
<1>2. CASE MkUniqDir(t)
  BY <1>2 DEF MkUniqDir
<1>3. CASE Allocate(t)
  BY <1>3 DEF Allocate
<1>4. CASE Fetch(t) \/ DeployFails(t) \/ RunScript(t)
  BY <1>4 DEF Fetch, DeployFails, RunScript
<1>5. CASE ExecutorRun(t)
  BY <1>5 DEF ExecutorRun
<1>6. CASE CheckpointDone(t) \/ CheckpointUnresponsive(t)
  <2>1. pc[t] = "wait" /\ pc'[t] = "return" /\ ack' = ack
    BY <1>6 DEF CheckpointDone, CheckpointUnresponsive, Waited
  <2> QED BY <1>6, <2>1
<1>7. CASE ReturnAll(t)
  <2>1. pc[t] = "return" /\ pc'[t] \in {"upload", "remove"} /\ ack' = ack
    BY <1>7 DEF ReturnAll
  <2> QED BY <1>7, <2>1
<1>8. CASE ReturnEnds(t)
  <2>1. pc[t] = "upload" /\ pc'[t] = "remove" /\ ack' = ack
    BY <1>8 DEF ReturnEnds
  <2> QED BY <1>8, <2>1
<1>9. CASE Remove(t)
  BY <1>9 DEF Remove
<1>10. CASE Deallocate(t) \/ Close(t)
  BY <1>10 DEF Deallocate, Close
<1> QED BY <1>1, <1>2, <1>3, <1>4, <1>5, <1>6, <1>7, <1>8, <1>9, <1>10 DEF HandleMsg

LEMMA NextAwaited == TypeOK /\ Awaited /\ [Next]_vars => Awaited'
<1> SUFFICES ASSUME TypeOK, Awaited, [Next]_vars, NEW t \in Tasks, ckpt'[t] # "off"
             PROVE  \/ pc'[t] \in {"run", "wait"}
                    \/ "late" \in excused'[t] /\ pc'[t] \notin {"idle", "new"}
  BY DEF Awaited
<1>1. CASE RunScript(t)
  BY <1>1 DEF RunScript, Goto, TypeOK
<1>2. CASE ckpt[t] # "off"
  <2>1. pc'[t] \notin {"idle", "new"} /\ (pc'[t] # pc[t] => HandleMsg(t))
    BY <1>2, HandlerStep, HandlerMoves DEF Awaited, Receive
  <2>2. CASE "late" \in excused[t]
    BY <2>1, <2>2, ExcusesGrow
  <2>3. CASE pc[t] \in {"run", "wait"} /\ pc'[t] # pc[t]
    <3>1. CASE pc[t] = "run"
      BY <2>1, <2>3, <3>1, HandlerMoves
    <3>2. CASE CheckpointUnresponsive(t)
      BY <2>1, <3>2 DEF CheckpointUnresponsive, Excuse, TypeOK
    <3>3. ~CheckpointDone(t)
      BY <1>2 DEF CheckpointDone
    <3> QED BY <2>1, <2>3, <3>1, <3>2, <3>3, HandlerMoves
  <2> QED BY <1>2, <2>2, <2>3 DEF Awaited
<1>3. ASSUME Checkpoint(t) \/ CheckpointEnds(t) PROVE ckpt[t] # "off"
  BY <1>3 DEF Checkpoint, CheckpointEnds
<1> QED BY <1>1, <1>2, <1>3, CheckpointerStep

\* A directory is made again by a checkpointer or by returnAll.
LEMMA RemnantStep ==
    ASSUME TypeOK, [Next]_vars, NEW d \in remnant', d \notin remnant
    PROVE  \E t \in Tasks : d = dir[t] /\ dir' = dir /\ (Checkpoint(t) \/ ReturnAll(t))
<1>1. ASSUME NEW t \in Tasks, Checkpoint(t) \/ ReturnAll(t) PROVE d = dir[t] /\ dir' = dir
  BY <1>1 DEF Checkpoint, ReturnAll, UpdateMetaData
<1>2. ASSUME NEW t \in Tasks,
             \/ Receive(t) \/ Reject(t) \/ MkUniqDir(t) \/ NoExecutor(t) \/ Allocate(t)
             \/ Fetch(t) \/ DeployFails(t) \/ RunScript(t) \/ Output(t) \/ Cancel(t)
             \/ ExecutorRun(t) \/ CheckpointDone(t) \/ CheckpointUnresponsive(t)
             \/ CheckpointEnds(t) \/ ReturnEnds(t) \/ Remove(t) \/ Deallocate(t) \/ Close(t)
      PROVE  FALSE
  BY <1>2 DEF Receive, Reject, MkUniqDir, NoExecutor, Allocate, Fetch, DeployFails, RunScript,
     Output, Cancel, ExecutorRun, CheckpointDone, CheckpointUnresponsive, Waited,
     CheckpointEnds, ReturnEnds, Remove, RemoveAll, Deallocate, Close, disk
<1>3. CASE UNCHANGED vars
  BY <1>3 DEF vars, disk
<1> QED BY <1>1, <1>2, <1>3 DEF Next, HandleMsg

\* The directory of a handler is the one it was given.
LEMMA DirStep ==
    ASSUME TypeOK, [Next]_vars, NEW t \in Tasks, pc[t] # "new" PROVE dir'[t] = dir[t]
<1>1. ASSUME NEW u \in Tasks, MkUniqDir(u) PROVE dir'[t] = dir[t]
  BY <1>1 DEF MkUniqDir, TypeOK
<1>2. ASSUME NEW u \in Tasks,
             \/ Receive(u) \/ Reject(u) \/ NoExecutor(u) \/ Allocate(u) \/ Fetch(u)
             \/ DeployFails(u) \/ RunScript(u) \/ Output(u) \/ Cancel(u) \/ ExecutorRun(u)
             \/ CheckpointDone(u) \/ CheckpointUnresponsive(u) \/ Checkpoint(u)
             \/ CheckpointEnds(u) \/ ReturnAll(u) \/ ReturnEnds(u) \/ Remove(u)
             \/ Deallocate(u) \/ Close(u)
      PROVE  dir' = dir
  BY <1>2 DEF Receive, Reject, NoExecutor, Allocate, Fetch, DeployFails, RunScript, Output,
     Cancel, ExecutorRun, CheckpointDone, CheckpointUnresponsive, Waited, Checkpoint,
     CheckpointEnds, ReturnAll, ReturnEnds, Remove, Deallocate, Close
<1>3. CASE UNCHANGED vars
  BY <1>3 DEF vars
<1> QED BY <1>1, <1>2, <1>3 DEF Next, HandleMsg

LEMMA NextRemade == TypeOK /\ Awaited /\ Remade /\ [Next]_vars => Remade'
<1> SUFFICES ASSUME TypeOK, Awaited, Remade, [Next]_vars, NEW d \in remnant'
             PROVE  \E t \in Tasks :
                       /\ dir'[t] = d
                       /\ \/ pc'[t] \in Ran
                          \/ "late" \in excused'[t] /\ pc'[t] \notin {"idle", "new"}
  BY DEF Remade
<1>1. CASE d \in remnant
  <2>1. PICK t \in Tasks :
           /\ dir[t] = d
           /\ pc[t] \in Ran \/ ("late" \in excused[t] /\ pc[t] \notin {"idle", "new"})
    BY <1>1 DEF Remade
  <2>2. pc[t] \notin {"idle", "new"}
    BY <2>1 DEF Ran
  <2>3. dir'[t] = d
    BY <2>1, <2>2, DirStep
  <2>4. pc'[t] = pc[t] \/ HandleMsg(t)
    BY <2>2, HandlerStep DEF Receive
  <2>5. pc'[t] \notin {"idle", "new"}
    BY <2>2, <2>4, HandlerMoves
  <2>6. CASE "late" \in excused[t]
    BY <2>3, <2>5, <2>6, ExcusesGrow
  <2>7. CASE pc[t] \in Ran
    <3>1. ~Close(t)
      BY <2>1 DEF Close, RemoveAll
    <3>2. pc'[t] \in Ran
      BY <2>4, <2>7, <3>1, HandlerMoves
    <3> QED BY <2>3, <3>2
  <2> QED BY <2>1, <2>6, <2>7
<1>2. CASE d \notin remnant
  <2>1. PICK t \in Tasks : d = dir[t] /\ dir' = dir /\ (Checkpoint(t) \/ ReturnAll(t))
    BY <1>2, RemnantStep
  <2>2. CASE Checkpoint(t)
    <3>1. ckpt[t] # "off" /\ pc' = pc /\ excused' = excused
      BY <2>2 DEF Checkpoint
    <3> QED BY <2>1, <3>1 DEF Awaited, Ran
  <2>3. CASE ReturnAll(t)
    <3>1. pc'[t] \in {"upload", "remove"}
      BY <2>3 DEF ReturnAll, Goto, TypeOK
    <3> QED BY <2>1, <3>1 DEF Ran
  <2> QED BY <2>1, <2>2, <2>3
<1> QED BY <1>1, <1>2

\* A handler that returned holds nothing of the machine and has removed its
\* directory, unless there was no executor or its checkpointer was given up on, on
\* every path through HandleMsg and however messages are delivered again
\* (processor.go deployAndRun, Process, Close and updateMetaData).
THEOREM HandlersCleanUp == Spec => [](TypeOK /\ NothingLeftBehind)
<1> DEFINE Kept == Inv /\ Awaited /\ Remade
<1>1. Init => Kept
  <2>1. Init => Awaited /\ Remade
    BY DEF Init, Awaited, Remade
  <2> QED BY <2>1, InitInv
<1>2. Kept /\ [Next]_vars => Kept'
  BY NextInv, NextAwaited, NextRemade DEF Inv, Typed
<1>3. Kept => TypeOK /\ NothingLeftBehind
  <2> SUFFICES ASSUME Kept PROVE TypeOK /\ NothingLeftBehind
    OBVIOUS
  <2>1. TypeOK
    BY DEF Inv, Typed
  <2>2. ASSUME NEW t \in Tasks, pc[t] = "done"
        PROVE  ~alloc[t] /\ \A d \in Dirs : owner[d] = t => "executor" \in excused[t]
    BY <2>2 DEF Inv, Owners, MadeBy, Machine, Holding
  <2>3. ASSUME NEW d \in remnant
        PROVE  \E t \in Tasks : dir[t] = d /\ (Active(t) \/ "late" \in excused[t])
    BY <2>3 DEF Remade, Ran, Active
  <2> QED BY <2>1, <2>2, <2>3 DEF NothingLeftBehind
<1> HIDE DEF Kept
<1> QED BY <1>1, <1>2, <1>3, PTL DEF Spec
-----------------------------------------------------------------------------
(* One handler at a time.                                                  *)

LEMMA NextAlone ==
    ASSUME ~Redelivered PROVE TypeOK /\ Alone /\ [Next]_vars => Alone'
<1> SUFFICES ASSUME TypeOK, Alone, [Next]_vars PROVE Alone'
  OBVIOUS
<1>1. key' = key
  BY ExcusesGrow
<1>2. ASSUME NEW t \in Tasks, ack'[t] PROVE pc'[t] \in {"close", "done"}
  <2>1. CASE NoExecutor(t) \/ Deallocate(t)
    BY <2>1 DEF NoExecutor, Deallocate, Goto, TypeOK
  <2>2. CASE pc'[t] = pc[t] /\ ack'[t] = ack[t]
    BY <1>2, <2>2 DEF Alone
  <2>3. CASE ack[t] /\ HandleMsg(t)
    BY <2>3, HandlerMoves DEF Alone, Active
  <2>4. CASE Receive(t)
    BY <1>2, <2>4 DEF Receive, Alone
  <2> QED BY <1>2, <2>1, <2>2, <2>3, <2>4, HandlerStep, HandlerMoves
<1>3. ASSUME NEW t \in Tasks, ~Receive(t) PROVE Active(t)' => Active(t)
  BY <1>3, HandlerStep, HandlerMoves DEF Active
<1>4. ASSUME NEW t \in Tasks, Active(t)' \/ ack'[t] PROVE Active(t) \/ ack[t] \/ Receive(t)
  BY <1>3, <1>4, HandlerStep, HandlerMoves
<1>5. ASSUME NEW t \in Tasks, Receive(t), NEW u \in Tasks, u # t, key[u] = key[t]
      PROVE  ~Active(u) /\ ~ack[u] /\ ~Receive(u)
  <2>1. pc[u] \in {"idle", "done"} /\ ~ack[u]
    BY <1>5, ConstantsAssumption DEF Receive, Alone
  <2>2. pc'[u] = pc[u]
    BY <1>5 DEF Receive, Goto, TypeOK
  <2>3. ~Receive(u)
    BY <2>2 DEF Receive, Goto, TypeOK
  <2> QED BY <2>1, <2>3 DEF Active
<1>6. ASSUME NEW t \in Tasks, NEW u \in Tasks, key[t] = key[u], t # u,
             Active(t)' \/ ack'[t], Active(u)'
      PROVE  FALSE
  <2>1. (Active(t) \/ ack[t] \/ Receive(t)) /\ (Active(u) \/ Receive(u))
    BY <1>3, <1>4, <1>6
  <2>2. ~((Active(t) \/ ack[t]) /\ Active(u))
    BY <1>6 DEF Alone
  <2>3. CASE Receive(t)
    BY <1>5, <1>6, <2>1, <2>3
  <2>4. CASE Receive(u)
    BY <1>5, <1>6, <2>1, <2>4
  <2> QED BY <2>1, <2>2, <2>3, <2>4
<1> QED BY <1>1, <1>2, <1>6 DEF Alone

\* mkUniqDir makes a directory that was not there.
LEMMA NewDir ==
    ASSUME TypeOK, NEW t \in Tasks, MkUniqDir(t)
    PROVE  \E d \in Dirs : /\ owner[d] = None
                           /\ dir' = [dir EXCEPT ![t] = d]
                           /\ owner' = [owner EXCEPT ![d] = t]
<1> DEFINE free == {i \in Insts : owner[<<key[t], i>>] = None /\ <<key[t], i>> \notin remnant}
           d == <<key[t], Min(free)>>
<1>1. free \in SUBSET Nat /\ free # {}
  BY DEF MkUniqDir, Insts
<1>2. Min(free) \in free
  <2> HIDE DEF free
  <2> QED BY <1>1, MinIsMember
<1>3. d \in Dirs /\ owner[d] = None
  <2>1. key[t] \in Keys
    BY DEF TypeOK
  <2> QED BY <1>2, <2>1 DEF Dirs
<1>4. dir' = [dir EXCEPT ![t] = d] /\ owner' = [owner EXCEPT ![d] = t]
  BY DEF MkUniqDir
<1> HIDE DEF d
<1> QED BY <1>3, <1>4

\* The directory a handler works in is not the one another handler removes.
LEMMA DirsDiffer ==
    ASSUME Typed, Alone, NEW t \in Tasks, NEW u \in Tasks, t # u, Active(t), Active(u),
           {pc[t], pc[u]} \cap {"new"} = {}
    PROVE  dir[t] # dir[u]
<1>1. PICK i \in Insts : dir[t] = <<key[t], i>>
  BY DEF Typed, Placed, Active
<1>2. PICK j \in Insts : dir[u] = <<key[u], j>>
  BY DEF Typed, Placed, Active
<1>3. key[t] # key[u]
  BY DEF Alone
<1> QED BY <1>1, <1>2, <1>3

LEMMA NextOwned == Typed /\ Alone /\ Owned /\ [Next]_vars => Owned'
<1> SUFFICES ASSUME Typed, Alone, Owned, [Next]_vars, NEW t \in Tasks, pc'[t] \in Using
             PROVE  owner'[dir'[t]] = t
  BY DEF Owned
<1>1. /\ pc \in [Tasks -> Steps] /\ dir \in [Tasks -> Dirs \cup {None}]
      /\ owner \in [Dirs -> Tasks \cup {None}] /\ TypeOK
  BY DEF Typed, TypeOK
<1>2. CASE MkUniqDir(t)
  BY <1>1, <1>2, NewDir
<1>3. CASE ~MkUniqDir(t)
  <2>1. pc[t] \in Using
    <3>1. CASE pc'[t] = pc[t]
      BY <3>1
    <3>2. ASSUME Receive(t) PROVE pc'[t] \notin Using
      BY <1>1, <3>2 DEF Receive, Goto, Using
    <3> QED BY <1>1, <1>3, <3>1, <3>2, HandlerStep, HandlerMoves
  <2>2. /\ owner[dir[t]] = t /\ Active(t) /\ pc[t] # "new" /\ dir[t] \in Dirs
    BY <2>1, HasDir DEF Owned, Using, Active
  <2>3. CASE \E u \in Tasks : MkUniqDir(u)
    <3>1. PICK u \in Tasks, d \in Dirs : /\ owner[d] = None /\ u # t
                                         /\ dir' = [dir EXCEPT ![u] = d]
                                         /\ owner' = [owner EXCEPT ![d] = u]
      BY <1>1, <1>3, <2>3, NewDir
    <3> QED BY <1>1, <2>2, <3>1, ConstantsAssumption
  <2>4. CASE \E u \in Tasks : Remove(u) \/ Close(u)
    <3>1. PICK u \in Tasks : /\ pc[u] \in {"remove", "close"} /\ dir' = dir
                             /\ owner' = [owner EXCEPT ![dir[u]] = None]
                             /\ \E s \in {"deallocate", "done"} : pc' = [pc EXCEPT ![u] = s]
      BY <2>4 DEF Remove, Close, RemoveAll, Goto
    <3>2. u # t
      BY <1>1, <3>1 DEF Using
    <3>3. dir[u] # dir[t]
      BY <2>2, <3>1, <3>2, DirsDiffer DEF Active
    <3> QED BY <1>1, <2>2, <3>1, <3>3
  <2>5. ASSUME NEW u \in Tasks,
               \/ Receive(u) \/ Reject(u) \/ NoExecutor(u) \/ Allocate(u) \/ Fetch(u)
               \/ DeployFails(u) \/ RunScript(u) \/ Output(u) \/ Cancel(u) \/ ExecutorRun(u)
               \/ CheckpointDone(u) \/ CheckpointUnresponsive(u) \/ Checkpoint(u)
               \/ CheckpointEnds(u) \/ ReturnAll(u) \/ ReturnEnds(u) \/ Deallocate(u)
        PROVE  UNCHANGED <<dir, owner>>
    BY <2>5 DEF Receive, Reject, NoExecutor, Allocate, Fetch, DeployFails, RunScript, Output,
       Cancel, ExecutorRun, CheckpointDone, CheckpointUnresponsive, Waited, Checkpoint,
       CheckpointEnds, ReturnAll, ReturnEnds, Deallocate, disk
  <2>6. CASE UNCHANGED <<dir, owner>>
    BY <2>2, <2>6
  <2>7. CASE UNCHANGED vars
    BY <2>6, <2>7 DEF vars, disk
  <2> QED BY <2>3, <2>4, <2>5, <2>6, <2>7 DEF Next, HandleMsg
<1> QED BY <1>2, <1>3

\* An upload of a handler at work reads the handler's own output.
LEMMA ReadsOwn ==
    ASSUME TypeOK, Owned, NEW t \in Tasks, pc[t] \in Using PROVE Found(dir[t]) = content[t]
BY ConstantsAssumption DEF Owned, Found
-----------------------------------------------------------------------------
(* Results.                                                                *)

\* The invariant for messages that have one handler at a time.
Exclusive ==
    Inv /\ Awaited /\ Alone /\ Owned /\ InOrder /\ Fetched /\ LastSent /\ ResultsReturned

\* Nobody else uploads to the experiment of a handler that is at work or has
\* consumed its message.
LEMMA Sole ==
    ASSUME Inv, Awaited, Alone, NEW t \in Tasks, NEW u \in Tasks, u # t, key[u] = key[t],
           Active(t) \/ ack[t], "late" \notin Reasons(key[t])
    PROVE  ~Active(u) /\ ckpt[u] = "off"
<1>1. ~Active(u)
  BY DEF Alone
<1>2. "late" \notin excused[u]
  BY DEF Reasons
<1> QED BY <1>1, <1>2 DEF Awaited, Active

\* So the object store is changed by the handler itself, while its checkpointer
\* runs or in the last upload.
LEMMA SoleUpload ==
    ASSUME Inv, Awaited, Alone, [Next]_vars, NEW t \in Tasks, Active(t) \/ ack[t],
           "late" \notin Reasons(key[t]), store'[key[t]] # store[key[t]]
    PROVE  \/ /\ CheckpointEnds(t) /\ pc[t] \in {"run", "wait"}
              /\ store'[key[t]] = upload[t]
           \/ ReturnEnds(t) /\ store'[key[t]] = sent[t]
<1>1. TypeOK /\ key[t] \in Keys
  BY DEF Inv, Typed, TypeOK
<1>2. PICK u \in Tasks : /\ key[u] = key[t]
                         /\ \/ CheckpointEnds(u) /\ store'[key[t]] = upload[u]
                            \/ ReturnEnds(u) /\ store'[key[t]] = sent[u]
  BY <1>1, StoreStep
<1>3. u = t
  BY <1>2, Sole DEF CheckpointEnds, ReturnEnds, Active
<1>4. "late" \notin excused[t]
  BY DEF Reasons
<1> QED BY <1>2, <1>3, <1>4 DEF Awaited, CheckpointEnds

LEMMA NextInOrder == Exclusive /\ [Next]_vars => InOrder'
<1> SUFFICES ASSUME Exclusive, [Next]_vars, NEW t \in Tasks,
                    ckpt'[t] \in {"tick", "final"}, "late" \notin Reasons(key[t])'
             PROVE  \/ upload'[t] = store'[key'[t]]
                    \/ /\ By(upload'[t], t)
                       /\ By(store'[key'[t]], t) => store'[key'[t]].ver =< upload'[t].ver
  BY DEF InOrder
<1>1. TypeOK /\ key' = key /\ key[t] \in Keys
  BY ExcusesGrow DEF Exclusive, Inv, Typed, TypeOK
<1>2. "late" \notin Reasons(key[t]) /\ "late" \notin excused[t]
  BY <1>1, ReasonsGrow DEF Reasons
<1>3. CASE Checkpoint(t)
  <2>1. pc[t] \in {"run", "wait"}
    BY <1>2, <1>3 DEF Exclusive, Awaited, Checkpoint
  <2>2. Found(dir[t]) = content[t]
    BY <1>1, <2>1, ReadsOwn DEF Exclusive, Using
  <2>3. upload'[t] = content[t] /\ content[t] # None /\ store' = store
    BY <1>1, <1>3, <2>2 DEF Checkpoint, TypeOK
  <2>4. CASE By(content[t], t)
    <3>1. Copy(store[key[t]])
      BY <1>1 DEF Exclusive, Inv, Copies
    <3> QED BY <1>1, <2>3, <2>4, <3>1 DEF Copy, By
  <2>5. CASE ~By(content[t], t)
    BY <1>1, <1>2, <2>1, <2>3, <2>5 DEF Exclusive, Fetched, Active
  <2> QED BY <2>4, <2>5
<1>4. CASE ckpt'[t] = ckpt[t] /\ upload'[t] = upload[t]
  <2>1. pc[t] \in {"run", "wait"}
    BY <1>2, <1>4 DEF Exclusive, Awaited
  <2>2. ~CheckpointEnds(t) /\ ~ReturnEnds(t)
    BY <1>1, <1>4, <2>1 DEF CheckpointEnds, ReturnEnds, TypeOK
  <2>3. store'[key[t]] = store[key[t]]
    BY <1>2, <2>1, <2>2, SoleUpload DEF Exclusive, Active
  <2> QED BY <1>1, <1>2, <1>4, <2>3 DEF Exclusive, InOrder
<1>5. ~CheckpointEnds(t) /\ ~RunScript(t)
  BY <1>1 DEF CheckpointEnds, RunScript, TypeOK
<1> QED BY <1>1, <1>3, <1>4, <1>5, CheckpointerStep

LEMMA NextLastSent == Exclusive /\ [Next]_vars => LastSent'
<1> SUFFICES ASSUME Exclusive, [Next]_vars, NEW t \in Tasks, pc'[t] = "upload"
             PROVE  sent'[t] = content'[t]
  BY DEF LastSent
<1>1. TypeOK
  BY DEF Exclusive, Inv, Typed
<1>2. CASE ReturnAll(t)
  <2>1. pc[t] = "return" /\ sent' = [sent EXCEPT ![t] = Found(dir[t])] /\ content' = content
    BY <1>1, <1>2 DEF ReturnAll, Goto, TypeOK, run
  <2> QED BY <1>1, <2>1, ReadsOwn DEF Exclusive, Using, TypeOK
<1>3. CASE ~ReturnAll(t)
  <2>1. pc[t] = "upload"
    BY <1>1, <1>3, HandlerStep, HandlerMoves DEF Receive, Goto, TypeOK
  <2>2. content'[t] = content[t]
    BY <2>1, OutputStep DEF Exclusive, Inv
  <2>3. sent'[t] = sent[t]
    <3>1. ~ReturnEnds(t)
      BY <1>1 DEF ReturnEnds, Goto, TypeOK
    <3>2. ASSUME NEW u \in Tasks, ReturnAll(u) \/ ReturnEnds(u) PROVE sent'[t] = sent[t]
      BY <1>1, <1>3, <3>1, <3>2 DEF ReturnAll, ReturnEnds, TypeOK
    <3>3. ASSUME NEW u \in Tasks,
                 \/ Receive(u) \/ Reject(u) \/ MkUniqDir(u) \/ NoExecutor(u) \/ Allocate(u)
                 \/ Fetch(u) \/ DeployFails(u) \/ RunScript(u) \/ Output(u) \/ Cancel(u)
                 \/ ExecutorRun(u) \/ CheckpointDone(u) \/ CheckpointUnresponsive(u)
                 \/ Checkpoint(u) \/ CheckpointEnds(u) \/ Remove(u) \/ Deallocate(u) \/ Close(u)
          PROVE  sent' = sent
      BY <3>3 DEF Receive, Reject, MkUniqDir, NoExecutor, Allocate, Fetch, DeployFails,
         RunScript, Output, Cancel, ExecutorRun, CheckpointDone, CheckpointUnresponsive, Waited,
         Checkpoint, CheckpointEnds, Remove, Deallocate, Close
    <3>4. CASE UNCHANGED vars
      BY <3>4 DEF vars
    <3> QED BY <3>2, <3>3, <3>4 DEF Next, HandleMsg
  <2> QED BY <2>1, <2>2, <2>3 DEF Exclusive, LastSent
<1> QED BY <1>2, <1>3

LEMMA NextFetched == Exclusive /\ [Next]_vars => Fetched'
<1> SUFFICES ASSUME Exclusive, [Next]_vars, NEW t \in Tasks, Active(t)', content'[t] # None,
                    ~By(content'[t], t), "late" \notin Reasons(key[t])'
             PROVE  store'[key'[t]] = content'[t]
  BY DEF Fetched
<1>1. TypeOK /\ key' = key /\ key[t] \in Keys
  BY ExcusesGrow DEF Exclusive, Inv, Typed, TypeOK
<1>2. "late" \notin Reasons(key[t])
  BY <1>1, ReasonsGrow
<1>3. CASE content'[t] # content[t]
  BY <1>1, <1>3, OutputStep DEF Exclusive, Inv
<1>4. CASE content'[t] = content[t]
  <2>1. pc[t] \notin Early
    BY <1>4 DEF Exclusive, Inv, Typed, Versions
  <2>2. Active(t)
    <3>1. pc[t] # "idle" /\ ~Receive(t)
      BY <2>1 DEF Early, Receive
    <3> QED BY <1>1, <3>1, HandlerStep, HandlerMoves DEF Active
  <2>3. store[key[t]] = content[t]
    BY <1>2, <1>4, <2>2 DEF Exclusive, Fetched
  <2>4. CASE CheckpointEnds(t) /\ store'[key[t]] = upload[t]
    <3>1. ~By(upload[t], t)
      <4>1. Copy(upload[t])
        BY DEF Exclusive, Inv, Copies
      <4> QED BY <1>4, <4>1 DEF Copy, By
    <3>2. upload[t] = store[key[t]]
      BY <1>2, <2>4, <3>1 DEF Exclusive, InOrder, CheckpointEnds
    <3> QED BY <1>1, <1>4, <2>3, <2>4, <3>2
  <2>5. CASE ReturnEnds(t) /\ store'[key[t]] = sent[t]
    BY <1>1, <1>4, <2>5 DEF Exclusive, LastSent, ReturnEnds
  <2>6. CASE store'[key[t]] = store[key[t]]
    BY <1>1, <1>4, <2>3, <2>6
  <2> QED BY <1>2, <2>2, <2>4, <2>5, <2>6, SoleUpload DEF Exclusive
<1> QED BY <1>3, <1>4

LEMMA NextResults == Exclusive /\ [Next]_vars => ResultsReturned'
<1> SUFFICES ASSUME Exclusive, [Next]_vars, NEW t \in Tasks, Returned(t)', Reasons(key[t])' = {},
                    content'[t] # None
             PROVE  store'[key'[t]] = content'[t]
  BY DEF ResultsReturned
<1>1. TypeOK /\ key' = key /\ key[t] \in Keys
  BY ExcusesGrow DEF Exclusive, Inv, Typed, TypeOK
<1>2. Reasons(key[t]) = {}
  BY <1>1, ReasonsGrow
<1>3. excused[t] = {} /\ excused'[t] = {}
  BY <1>1, <1>2 DEF Reasons
<1>4. CASE Returned(t)
  <2>1. pc[t] \in {"remove", "deallocate", "close", "done"} /\ (Active(t) \/ ack[t])
    BY <1>4 DEF Returned, Exclusive, Alone, Active
  <2>2. content'[t] = content[t]
    BY <2>1, OutputStep DEF Exclusive, Inv
  <2>3. store'[key[t]] = store[key[t]]
    BY <1>2, <2>1, SoleUpload DEF Exclusive, ReturnEnds
  <2> QED BY <1>1, <1>2, <1>4, <2>2, <2>3 DEF Exclusive, ResultsReturned
<1>5. CASE ReturnAll(t)
  <2>1. pc[t] = "return" /\ ~ack[t] /\ ack' = ack
    BY <1>5 DEF ReturnAll, Exclusive, Alone
  <2>2. Found(dir[t]) = None
    <3>1. ASSUME Excuse(t, "unchanged") PROVE FALSE
      <4>1. "unchanged" \in excused'[t]
        BY <1>1, <3>1 DEF Excuse, TypeOK
      <4> QED BY <1>3, <4>1
    <3>2. pc'[t] \in {"remove", "deallocate"}
      BY <2>1 DEF Returned
    <3> QED BY <1>1, <1>5, <3>1, <3>2 DEF ReturnAll, Goto, TypeOK
  <2>3. Found(dir[t]) = content[t] /\ content' = content
    BY <1>1, <1>5, <2>1, ReadsOwn DEF Exclusive, Using, ReturnAll, run
  <2> QED BY <2>2, <2>3
<1>6. CASE ReturnEnds(t)
  <2>1. sent[t] = content[t] /\ content' = content
    BY <1>6 DEF ReturnEnds, Exclusive, LastSent, run
  <2>2. store' = [store EXCEPT ![key[t]] = sent[t]]
    <3>1. ASSUME Excuse(t, "upload") PROVE FALSE
      <4>1. "upload" \in excused'[t]
        BY <1>1, <3>1 DEF Excuse, TypeOK
      <4> QED BY <1>3, <4>1
    <3> QED BY <1>6, <3>1 DEF ReturnEnds
  <2> QED BY <1>1, <2>1, <2>2 DEF TypeOK
<1>7. CASE NoExecutor(t)
  BY <1>1, <1>3, <1>7 DEF NoExecutor, Excuse, TypeOK
<1>8. CASE ~Returned(t) /\ ~ReturnAll(t) /\ ~ReturnEnds(t) /\ ~NoExecutor(t)
  <2>1. pc'[t] # pc[t] \/ ack'[t] # ack[t]
    BY <1>8 DEF Returned
  <2>2. ~Receive(t)
    BY <1>1, <1>8 DEF Receive, Goto, Returned, TypeOK
  <2>3. HandleMsg(t)
    BY <1>1, <2>1, <2>2, HandlerStep
  <2>4. pc'[t] \notin {"remove", "deallocate"}
    BY <1>1, <1>8, <2>3, HandlerMoves DEF Returned
  <2>5. ~ack'[t]
    BY <1>1, <1>8, <2>3, HandlerMoves DEF Returned, Deallocate
  <2> QED BY <2>4, <2>5 DEF Returned
<1> QED BY <1>4, <1>5, <1>6, <1>7, <1>8

LEMMA InitExclusive == Init => Exclusive
<1> SUFFICES ASSUME Init PROVE Exclusive
  OBVIOUS
<1>1. Awaited /\ Alone /\ Owned
  BY DEF Init, Awaited, Alone, Active, Owned, Using
<1>2. InOrder /\ Fetched /\ LastSent /\ ResultsReturned
  BY DEF Init, InOrder, Fetched, LastSent, ResultsReturned, Returned
<1> QED BY <1>1, <1>2, InitInv DEF Exclusive

LEMMA NextExclusive ==
    ASSUME ~Redelivered PROVE Exclusive /\ [Next]_vars => Exclusive'
<1> SUFFICES ASSUME Exclusive, [Next]_vars PROVE Exclusive'
  OBVIOUS
<1>1. Inv'
  BY NextInv DEF Exclusive
<1>2. Awaited' /\ Alone' /\ Owned'
  BY NextAwaited, NextAlone, NextOwned DEF Exclusive, Inv, Typed
<1>3. InOrder' /\ Fetched' /\ LastSent' /\ ResultsReturned'
  BY NextInOrder, NextFetched, NextLastSent, NextResults
<1> QED BY <1>1, <1>2, <1>3 DEF Exclusive

\* A message that has one handler at a time: after returnAll, and for good once
\* the message is consumed, the object store has what the output directory had
\* last, whatever came of the fetches and of outputErr, unless one of the excuses
\* applies (processor.go fetchAll, returnAll, runScript, checkpointer; artifacts.go
\* Fetch, Restore).
THEOREM ResultsAreReturned == ASSUME ~Redelivered PROVE Spec => []ResultsReturned
<1>1. Exclusive => ResultsReturned
  BY DEF Exclusive
<1> QED BY <1>1, InitExclusive, NextExclusive, PTL DEF Spec

\* A working directory is its handler's own as long as no message is delivered
\* again while it is handled: mkUniqDir keeps its promise then, and redelivery is
\* the only way to break it (processor.go mkUniqDir, Close).
THEOREM DirectoriesAreOwn == ASSUME ~Redelivered PROVE Spec => []DirectoryIsOwn
<1>1. Exclusive => DirectoryIsOwn
  BY DEF Exclusive, Owned, Using, DirectoryIsOwn
<1> QED BY <1>1, InitExclusive, NextExclusive, PTL DEF Spec

\* No upload replaces a later output of the same run, unless the checkpointer
\* was given up on (processor.go checkpointer, runScript; artifacts.go Restore).
THEOREM StoreGoesForward == ASSUME ~Redelivered PROVE Spec => StoreMovesForward
<1> DEFINE Forward ==
       \A k \in Keys : store[k] # None /\ store'[k] # None /\ store'[k].by = store[k].by =>
          store'[k].ver >= store[k].ver \/ "late" \in Reasons(k)
<1>1. ASSUME Exclusive, [Next]_vars PROVE Forward
  <2> SUFFICES ASSUME NEW k \in Keys, store[k] # None, store'[k] # None,
                      store'[k].by = store[k].by, "late" \notin Reasons(k)
               PROVE  store'[k].ver >= store[k].ver
    OBVIOUS
  <2>1. TypeOK /\ TypeOK'
    BY <1>1, NextTyped DEF Exclusive, Inv, Typed
  <2>2. store[k].ver \in Nat /\ store'[k].ver \in Nat
    <3>1. store[k] \in Contents /\ store'[k] \in Contents
      BY <2>1 DEF TypeOK
    <3> QED BY <3>1 DEF Contents
  <2>3. CASE store'[k] = store[k]
    BY <2>2, <2>3
  <2>4. CASE store'[k] # store[k]
    <3>1. PICK t \in Tasks : /\ key[t] = k
                             /\ \/ CheckpointEnds(t) /\ store'[k] = upload[t]
                                \/ ReturnEnds(t) /\ store'[k] = sent[t]
      BY <1>1, <2>1, <2>4, StoreStep
    <3>2. CASE CheckpointEnds(t) /\ store'[k] = upload[t]
      <4>1. /\ By(upload[t], t)
            /\ By(store[k], t) => store[k].ver =< upload[t].ver
        BY <1>1, <2>4, <3>1, <3>2 DEF Exclusive, InOrder, CheckpointEnds
      <4> QED BY <2>2, <3>2, <4>1 DEF By
    <3>3. CASE ReturnEnds(t) /\ store'[k] = sent[t]
      <4>1. sent[t] = content[t] /\ Active(t)
        BY <1>1, <3>3 DEF Exclusive, LastSent, ReturnEnds, Active
      <4>2. By(content[t], t)
        BY <1>1, <2>4, <3>1, <3>3, <4>1 DEF Exclusive, Fetched
      <4>3. Copy(store[k])
        BY <1>1 DEF Exclusive, Inv, Copies
      <4> QED BY <2>2, <3>3, <4>1, <4>2, <4>3 DEF Copy, By
    <3> QED BY <3>1, <3>2, <3>3
  <2> QED BY <2>3, <2>4
<1>2. StoreMovesForward <=> [][Forward]_vars
  BY PTL DEF StoreMovesForward
<1> HIDE DEF Forward
<1> QED BY <1>1, <1>2, InitExclusive, NextExclusive, PTL DEF Spec
=============================================================================
