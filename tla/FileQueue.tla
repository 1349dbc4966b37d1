------------------------------ MODULE FileQueue ------------------------------
(***************************************************************************)
(* LocalQueue.Work (internal/runner/localfilequeue.go) on a shared         *)
(* directory.  A queue is a directory of message files, oldest first.  Get *)
(* lists the directory, reads the oldest file and removes it; these are    *)
(* separate file system calls and other workers come in between.  A        *)
(* message that is not acked is published again, under a new name.         *)
(***************************************************************************)
EXTENDS Naturals, FiniteSets, Sequences, SequencesExt

CONSTANTS
    Msgs,          \* messages
    Names,         \* file names (xid values)
    Workers,       \* Work invocations, of any number of runners
    None,          \* no file
    MaxCrashes,    \* bound: workers that die with their runner
    MaxRefused     \* bound: second publishes that fail

ASSUME ConstantsAssumption ==
    /\ MaxCrashes \in Nat /\ MaxRefused \in Nat
    /\ None \notin [name : Names, msg : Msgs]

VARIABLES
    sent, consumed,
    files,         \* the directory: message files by modification time
    pc,            \* per worker: idle, read, remove, handle or settle
    file,          \* per worker: the file it listed
    ack,           \* per worker: what its handler returned
    crashes,       \* workers that died so far
    refused        \* second publishes that failed so far

worker == <<pc, file, ack>>
loss   == <<crashes, refused>>
vars   == <<sent, consumed, files, worker, loss>>

File(n, m) == [name |-> n, msg |-> m]

Init ==
    /\ sent = {} /\ consumed = {} /\ files = <<>>
    /\ pc = [w \in Workers |-> "idle"]
    /\ file = [w \in Workers |-> None]
    /\ ack = [w \in Workers |-> FALSE]
    /\ crashes = 0 /\ refused = 0

Present(f) == f \in ToSet(files)

\* xid.New() never gives a name that was used: here, one nobody knows.
FreshNames ==
    Names \ ({f.name : f \in ToSet(files)}
             \cup {file[w].name : w \in {v \in Workers : file[v] # None}})

\* The message appears in the directory by a rename, complete or not at all.
Published(m) == \E n \in FreshNames : files' = Append(files, File(n, m))

Publish(m) ==
    /\ m \notin sent
    /\ sent' = sent \cup {m}
    /\ Published(m)
    /\ UNCHANGED <<consumed, worker, loss>>

Goto(w, step) == pc' = [pc EXCEPT ![w] = step]

Return(w) ==
    /\ Goto(w, "idle")
    /\ file' = [file EXCEPT ![w] = None]
    /\ ack' = [ack EXCEPT ![w] = FALSE]

\* Mutation: the newest file is taken.
GetNewest(w) ==
    /\ pc[w] = "idle" /\ files # <<>>
    /\ file' = [file EXCEPT ![w] = Last(files)]
    /\ Goto(w, "read")
    /\ UNCHANGED <<sent, consumed, files, ack, loss>>

\* getOldestItem.
GetOldest(w) ==
    /\ pc[w] = "idle" /\ files # <<>>
    /\ file' = [file EXCEPT ![w] = Head(files)]
    /\ Goto(w, "read")
    /\ UNCHANGED <<sent, consumed, files, ack, loss>>

\* The directory is empty.
GetNothing(w) == pc[w] = "idle" /\ files = <<>> /\ UNCHANGED vars

\* readBytes of the file, which may be gone.
Read(w) ==
    /\ pc[w] = "read"
    /\ \/ Present(file[w]) /\ Goto(w, "remove") /\ UNCHANGED <<file, ack>>
       \/ ~Present(file[w]) /\ Return(w)
    /\ UNCHANGED <<sent, consumed, files, loss>>

\* os.Remove takes a file out of the directory ...
Removed(f) == \E i \in DOMAIN files : files[i] = f /\ files' = RemoveAt(files, i)

\* Mutation: the error of os.Remove is ignored.
RemoveFileIgnored(w) ==
    /\ pc[w] = "remove"
    /\ \/ Removed(file[w])
       \/ ~Present(file[w]) /\ UNCHANGED files
    /\ Goto(w, "handle")
    /\ UNCHANGED <<sent, consumed, file, ack, loss>>

\* ... and the worker that removes it has the message, another one gets an
\* error and gives up.
RemoveFile(w) ==
    /\ pc[w] = "remove"
    /\ \/ Removed(file[w]) /\ Goto(w, "handle") /\ UNCHANGED <<file, ack>>
       \/ ~Present(file[w]) /\ Return(w) /\ UNCHANGED files
    /\ UNCHANGED <<sent, consumed, loss>>

\* Reading or removing a file that is there fails: Get returns the error and
\* the file stays, the oldest of the directory.
FileFails(w) ==
    /\ pc[w] \in {"read", "remove"} /\ Present(file[w])
    /\ Return(w)
    /\ UNCHANGED <<sent, consumed, files, loss>>

\* The handler returns.
Handle(w) ==
    /\ pc[w] = "handle"
    /\ \/ /\ ack' = [ack EXCEPT ![w] = TRUE]
          /\ consumed' = consumed \cup {file[w].msg}
       \/ UNCHANGED <<ack, consumed>>
    /\ Goto(w, "settle")
    /\ UNCHANGED <<sent, files, file, loss>>

\* Mutation: nothing is published again.
SettledAway(w) == UNCHANGED <<files, refused>>

\* "Resubmit task again for another chance to execute"; the error of Publish
\* (a full or read-only disk) is ignored.
Settled(w) ==
    \/ ack[w] /\ UNCHANGED <<files, refused>>
    \/ ~ack[w] /\ Published(file[w].msg) /\ UNCHANGED refused
    \/ ~ack[w] /\ refused < MaxRefused /\ refused' = refused + 1 /\ UNCHANGED files

Settle(w) ==
    /\ pc[w] = "settle"
    /\ Settled(w)
    /\ Return(w)
    /\ UNCHANGED <<sent, consumed, crashes>>

Holding(w) == pc[w] \in {"handle", "settle"}

\* The runner dies, and with it a message it has removed from the directory.
Crash(w) ==
    /\ crashes < MaxCrashes
    /\ pc[w] # "idle"
    /\ crashes' = crashes + 1
    /\ Return(w)
    /\ UNCHANGED <<sent, consumed, files, refused>>

Work(w) == GetOldest(w) \/ Read(w) \/ RemoveFile(w) \/ Handle(w) \/ Settle(w)

Next ==
    \/ \E m \in Msgs : Publish(m)
    \/ \E w \in Workers : Work(w) \/ FileFails(w) \/ GetNothing(w) \/ Crash(w)

Spec == Init /\ [][Next]_vars

\* Workers of a queue that has messages keep coming, and go on.
FairSpec == Spec /\ \A w \in Workers : WF_vars(Work(w))
-----------------------------------------------------------------------------
(* Properties.                                                             *)

\* The messages that are, or can be again, available: those in a file and those
\* in the memory of the worker that removed their file.
kept == {f.msg : f \in ToSet(files)}
        \cup {file[w].msg : w \in {v \in Workers : Holding(v)}}

\* "If the worker disappears" its work is requeued, says docs/interface.md:127
\* of the queues the runner uses.  A directory does not do that: a message whose
\* worker dies, or whose second publish fails, is gone.  Nothing else loses one:
\* however workers race for the files, and whatever file system call fails
\* before the file is removed, no more messages are gone than workers died or
\* publishes failed.
LossBounded == Cardinality(sent \ (consumed \cup kept)) <= crashes + refused

\* Listing, reading and removing a file are separate, and still no message is
\* handled by two workers, nor handled by one while it is in the directory.
OneHandler ==
    \A w \in Workers : Holding(w) =>
       /\ \A v \in Workers : Holding(v) /\ file[v].msg = file[w].msg => v = w
       /\ \A f \in ToSet(files) : f.msg # file[w].msg

\* Oldest first, with requeued messages last, starves nobody even when others
\* are never acked: every message is handled, or gone as LossBounded says.  A
\* file that can be listed and, time and again, not be read or removed is the
\* exception: it stays the oldest, every worker takes it first and the messages
\* behind it are never reached.
EveryMessageHandled ==
    \/ []<><<\E w \in Workers : FileFails(w)>>_vars
    \/ \A m \in Msgs : m \in sent \ consumed ~>
          m \notin kept \/ \E w \in Workers : pc[w] = "handle" /\ file[w].msg = m
=============================================================================
