------------------------------ MODULE Executor ------------------------------
(***************************************************************************)
(* Running the script of an experiment: VirtualEnv.Run and procOutput      *)
(* (internal/runner/pythonenv.go), runWait of the Singularity executor     *)
(* (internal/runner/singularity.go), and the response channel that         *)
(* fetchWork opens before Work and closes after it (cmd/runner/queues.go,  *)
(* Responder of internal/runner/rmq.go).                                   *)
(*                                                                         *)
(* Two scanners read the pipes of the script and hand what they read, one  *)
(* item at a time, to procOutput over unbuffered channels; procOutput      *)
(* collects the runes of a line and writes to the output file.  In a       *)
(* VirtualEnv the scanners also put reports on the response channel, which *)
(* a responder goroutine publishes.  Run closes the unbuffered channels    *)
(* when it returns.                                                        *)
(*                                                                         *)
(* An item is a rune of stdout or a line of stderr.  What a report says is *)
(* left out, so the response channel is the number of reports in it.       *)
(***************************************************************************)
EXTENDS Naturals, Sequences, FiniteSets, Functions

CONSTANTS
    MaxOut,        \* bound: runes a script writes to stdout
    MaxErr,        \* bound: lines it writes to stderr
    Newlines,      \* the runes of stdout that are newlines
    QueueCap,      \* capacity of the response channel, 64 in the code
    None           \* nothing in hand

Streams == {"out", "err"}
Items   == Streams \X Nat

ASSUME ConstantsAssumption ==
    /\ MaxOut \in Nat /\ MaxErr \in Nat
    /\ QueueCap \in Nat \ {0} /\ None \notin Items

VARIABLES
    kind,          \* which executor: venv or singularity
    run,           \* where Run is: init, start, io, wait, returned, closed
    started,       \* cmd.Start succeeded
    runDone,       \* the context of Run is done
    sesDone,       \* the context of the session, and so of the responder, is
    leader,        \* the process of the script: none, alive, dead
    kids,          \* processes it started hold the pipes
    piped,         \* per stream: items that went into the pipe
    read,          \* per stream: items its scanner has read
    cut,           \* streams whose scanner gave up, or lost its pipe, before the
                   \* end of the stream
    scan,          \* per stream: scanner, off, scan, send, report, done
    responseLine,  \* the stdout scanner has something to report
    stopOutput,    \* the channel of that name is closed
    writer,        \* procOutput: off, select, write, test, done
    hand,          \* what the slice that procOutput has received refers to
    raced,         \* runes overwritten while procOutput was using them
    outLine, file, \* its buffer; the output file
    responder,     \* off, recv, publish, done
    responseQ      \* reports in the response channel

procVars == <<leader, kids, piped>>
ctxVars  == <<runDone, sesDone>>
outVars  == <<writer, hand, raced, outLine, file>>
rspVars  == <<responder, responseQ>>
vars     == <<kind, run, started, ctxVars, procVars, read, cut, scan, responseLine,
              stopOutput, outVars, rspVars>>

Init ==
    /\ kind \in {"venv", "singularity"}
    /\ run = "init" /\ started = FALSE
    /\ runDone = FALSE /\ sesDone = FALSE
    /\ leader = "none" /\ kids = FALSE
    /\ piped = [s \in Streams |-> 0] /\ read = [s \in Streams |-> 0]
    /\ cut = {}
    /\ scan = [s \in Streams |-> "off"]
    /\ responseLine = FALSE /\ stopOutput = FALSE
    /\ writer = "off" /\ hand = None /\ raced = {}
    /\ outLine = <<>> /\ file = <<>>
    /\ responder \in {"off", "recv"} /\ responseQ = 0

\* Run has returned: outC and errC are closed.
Returned == run \in {"returned", "closed"}

\* cmd.Wait has closed the pipes.
PipesShut == Returned \/ (kind = "singularity" /\ run = "io")

\* fetchWork has closed the response channel.
ResponseClosed == run = "closed"
-----------------------------------------------------------------------------
(* Contexts and the processes of the experiment.                           *)

\* The time limit of the experiment, or the end of the session.
ContextDone ==
    /\ ~runDone \/ ~sesDone
    /\ runDone' = TRUE
    /\ sesDone' \in {sesDone, TRUE}
    /\ UNCHANGED <<kind, run, started, procVars, read, cut, scan, responseLine,
                   stopOutput, outVars, rspVars>>

\* The script, or what it started, writes to a pipe that is open at the other end,
\* whether or not somebody still reads it.
Write(s) ==
    /\ leader = "alive" \/ kids
    /\ ~PipesShut
    /\ piped[s] < (IF s = "out" THEN MaxOut ELSE MaxErr)
    /\ piped' = [piped EXCEPT ![s] = @ + 1]
    /\ UNCHANGED <<kind, run, started, ctxVars, leader, kids, read, cut, scan, responseLine,
                   stopOutput, outVars, rspVars>>

\* The shell starts a process that inherits its pipes.
Fork ==
    /\ leader = "alive" /\ ~kids
    /\ kids' = TRUE
    /\ UNCHANGED <<kind, run, started, ctxVars, leader, piped, read, cut, scan, responseLine,
                   stopOutput, outVars, rspVars>>

KidsEnd ==
    /\ kids
    /\ kids' = FALSE
    /\ UNCHANGED <<kind, run, started, ctxVars, leader, piped, read, cut, scan, responseLine,
                   stopOutput, outVars, rspVars>>

LeaderEnds ==
    /\ leader = "alive"
    /\ leader' = "dead"
    /\ UNCHANGED <<kind, run, started, ctxVars, kids, piped, read, cut, scan, responseLine,
                   stopOutput, outVars, rspVars>>

\* The end of the context kills the shell, and only the shell.
Kill == runDone /\ LeaderEnds
-----------------------------------------------------------------------------
(* Run and runWait.                                                        *)

\* Pipes, output directory and file: made, and procOutput is started ...
Create ==
    /\ run = "init"
    /\ run' = "start" /\ writer' = "select"
    /\ UNCHANGED <<kind, started, ctxVars, procVars, read, cut, scan, responseLine,
                   stopOutput, hand, raced, outLine, file, rspVars>>

\* ... or one of them fails.
CreateFails ==
    /\ run = "init"
    /\ run' = "returned"
    /\ UNCHANGED <<kind, started, ctxVars, procVars, read, cut, scan, responseLine,
                   stopOutput, outVars, rspVars>>

\* A VirtualEnv first waits for its scanners, Singularity for its process.
Start ==
    /\ run = "start"
    /\ started' = TRUE /\ leader' = "alive"
    /\ scan' = [s \in Streams |-> "scan"]
    /\ run' = IF kind = "venv" THEN "io" ELSE "wait"
    /\ UNCHANGED <<kind, ctxVars, kids, piped, read, cut, responseLine, stopOutput,
                   outVars, rspVars>>

\* cmd.Start fails.  A VirtualEnv returns and leaves procOutput behind;
\* runWait tests the wrong variable and goes on, with closed pipes.
StartFails ==
    /\ run = "start"
    /\ \/ /\ kind = "venv" /\ run' = "returned"
          /\ UNCHANGED <<leader, scan>>
       \/ /\ kind = "singularity" /\ run' = "wait"
          /\ leader' = "dead"
          /\ scan' = [s \in Streams |-> "scan"]
    /\ UNCHANGED <<kind, started, ctxVars, kids, piped, read, cut, responseLine,
                   stopOutput, outVars, rspVars>>

\* Mutation: Run goes on without waiting for the scanners.
WaitOnIOSkipped ==
    /\ run = "io"
    /\ stopOutput' = TRUE
    /\ run' = IF kind = "venv" THEN "wait" ELSE "returned"
    /\ UNCHANGED <<kind, started, ctxVars, procVars, read, cut, scan, responseLine,
                   outVars, rspVars>>

\* Mutation: procOutput is not told to stop.
WaitOnIOQuiet ==
    /\ run = "io" /\ \A s \in Streams : scan[s] = "done"
    /\ run' = IF kind = "venv" THEN "wait" ELSE "returned"
    /\ UNCHANGED <<kind, started, ctxVars, procVars, read, cut, scan, responseLine,
                   stopOutput, outVars, rspVars>>

\* waitOnIO.Wait, then close(stopOutput).
WaitOnIO ==
    /\ run = "io" /\ \A s \in Streams : scan[s] = "done"
    /\ stopOutput' = TRUE
    /\ run' = IF kind = "venv" THEN "wait" ELSE "returned"
    /\ UNCHANGED <<kind, started, ctxVars, procVars, read, cut, scan, responseLine,
                   outVars, rspVars>>

\* cmd.Wait returns after the shell has ended, and closes the pipes, whatever is
\* still in them and whoever has the other end.
CmdWait ==
    /\ run = "wait" /\ leader = "dead"
    /\ run' = IF kind = "venv" THEN "returned" ELSE "io"
    /\ UNCHANGED <<kind, started, ctxVars, procVars, read, cut, scan, responseLine,
                   stopOutput, outVars, rspVars>>

\* Work returns, and fetchWork closes the response channel.
CloseResponse ==
    /\ run = "returned"
    /\ run' = "closed"
    /\ UNCHANGED <<kind, started, ctxVars, procVars, read, cut, scan, responseLine,
                   stopOutput, outVars, rspVars>>
-----------------------------------------------------------------------------
(* The scanners.                                                           *)

\* s.Bytes() is a slice of the scanner's own buffer, which Scan may fill again,
\* and procOutput reads the slice without a lock: what it has in hand may turn
\* into a later rune.  A line of stderr is a copy.
Refill(s) ==
    \/ UNCHANGED <<hand, raced>>
    \/ /\ s = "out" /\ writer \in {"write", "test"} /\ hand[1] = "out"
       /\ \E n \in read[s] + 1 .. piped[s] : hand' = <<s, n>>
       /\ raced' = raced \cup {hand}

Scan(s) ==
    /\ scan[s] = "scan" /\ read[s] < piped[s]
    /\ read' = [read EXCEPT ![s] = @ + 1]
    /\ scan' = [scan EXCEPT ![s] = "send"]
    /\ Refill(s)
    /\ UNCHANGED <<kind, run, started, ctxVars, procVars, cut, responseLine, stopOutput,
                   writer, outLine, file, rspVars>>

\* The scanner ends: nobody can write to the pipe any more and all was read, or
\* cmd.Wait of runWait has closed it, and what is left in it is gone.
EndOfFile(s) ==
    /\ scan[s] = "scan"
    /\ \/ leader # "alive" /\ ~kids /\ read[s] = piped[s]
       \/ PipesShut
    /\ scan' = [scan EXCEPT ![s] = "done"]
    /\ cut' = IF read[s] = piped[s] THEN cut ELSE cut \cup {s}
    /\ UNCHANGED <<kind, run, started, ctxVars, procVars, read, responseLine, stopOutput,
                   outVars, rspVars>>

\* The scanner ends with an error, which is dropped: a read fails, or a line of
\* stderr is longer than the 64 KiB of its buffer.  Nobody reads this pipe now.
ScanFails(s) ==
    /\ scan[s] = "scan"
    /\ scan' = [scan EXCEPT ![s] = "done"]
    /\ cut' = cut \cup {s}
    /\ UNCHANGED <<kind, run, started, ctxVars, procVars, read, responseLine, stopOutput,
                   outVars, rspVars>>

\* outC <- out, errC <- out: both sides have to be there.
Send(s) ==
    /\ scan[s] = "send" /\ writer = "select"
    /\ scan' = [scan EXCEPT ![s] = "report"]
    /\ writer' = "write" /\ hand' = <<s, read[s]>>
    /\ UNCHANGED <<kind, run, started, ctxVars, procVars, read, cut, responseLine, stopOutput,
                   raced, outLine, file, rspVars>>

\* A report is put on the response channel unless it is full; the scanner
\* never waits.  The scanner of stdout remembers newlines, and reports when
\* the next line begins.
Report(s) ==
    /\ scan[s] = "report"
    /\ scan' = [scan EXCEPT ![s] = "scan"]
    /\ LET newline == s = "out" /\ read[s] \in Newlines
           wanted  == /\ kind = "venv" /\ responder # "off"
                      /\ s = "err" \/ (~newline /\ responseLine)
           put     == wanted /\ responseQ < QueueCap
       IN  /\ responseQ' = IF put THEN responseQ + 1 ELSE responseQ
           /\ responseLine' = IF newline THEN TRUE
                              ELSE IF s = "out" /\ put THEN FALSE ELSE responseLine
    /\ UNCHANGED <<kind, run, started, ctxVars, procVars, read, cut, stopOutput, outVars,
                   responder>>
-----------------------------------------------------------------------------
(* procOutput.                                                             *)

\* What was received is copied to the buffer; a line of stderr goes to the file.
Collect ==
    /\ writer = "write"
    /\ \/ /\ hand[1] = "err"
          /\ file' = Append(file, hand) /\ UNCHANGED outLine
          /\ writer' = "select" /\ hand' = None
       \/ /\ hand[1] = "out"
          /\ outLine' = Append(outLine, hand) /\ UNCHANGED file
          /\ writer' = "test" /\ UNCHANGED hand
    /\ UNCHANGED <<kind, run, started, ctxVars, procVars, read, cut, scan, responseLine,
                   stopOutput, raced, rspVars>>

\* Mutation: stdout is written only when the ticker says so.
NewlineBuffering ==
    /\ writer = "test"
    /\ UNCHANGED <<file, outLine>>
    /\ writer' = "select" /\ hand' = None
    /\ UNCHANGED <<kind, run, started, ctxVars, procVars, read, cut, scan, responseLine,
                   stopOutput, raced, rspVars>>

\* If it was a newline the buffer is written to the file.
Newline ==
    /\ writer = "test"
    /\ IF hand[2] \in Newlines
       THEN file' = file \o outLine /\ outLine' = <<>>
       ELSE UNCHANGED <<file, outLine>>
    /\ writer' = "select" /\ hand' = None
    /\ UNCHANGED <<kind, run, started, ctxVars, procVars, read, cut, scan, responseLine,
                   stopOutput, raced, rspVars>>

\* The ticker, or a receive from outC once that is closed.
Flush ==
    /\ writer = "select" /\ outLine # <<>>
    /\ file' = file \o outLine /\ outLine' = <<>>
    /\ UNCHANGED <<kind, run, started, ctxVars, procVars, read, cut, scan, responseLine,
                   stopOutput, writer, hand, raced, rspVars>>

\* stopWriter is closed: the deferred function writes the rest.
StopWriter ==
    /\ writer = "select" /\ stopOutput
    /\ file' = file \o outLine /\ outLine' = <<>>
    /\ writer' = "done"
    /\ UNCHANGED <<kind, run, started, ctxVars, procVars, read, cut, scan, responseLine,
                   stopOutput, hand, raced, rspVars>>
-----------------------------------------------------------------------------
(* The responder.                                                          *)

\* fetchWork, HandleMsg and the processor report before and after Run, from the
\* goroutine that will close the channel, and never wait either.
HandlerReport ==
    /\ run \in {"init", "returned"}
    /\ responder # "off" /\ responseQ < QueueCap
    /\ responseQ' = responseQ + 1
    /\ UNCHANGED <<kind, run, started, ctxVars, procVars, read, cut, scan, responseLine,
                   stopOutput, outVars, responder>>

Receive ==
    /\ responder = "recv" /\ responseQ > 0
    /\ responseQ' = responseQ - 1
    /\ responder' = "publish"
    /\ UNCHANGED <<kind, run, started, ctxVars, procVars, read, cut, scan, responseLine,
                   stopOutput, outVars>>

\* Whether the broker takes it is only printed.
Publish ==
    /\ responder = "publish"
    /\ responder' = "recv"
    /\ UNCHANGED <<kind, run, started, ctxVars, procVars, read, cut, scan, responseLine,
                   stopOutput, outVars, responseQ>>

\* Mutation: a closed channel ends the responder whatever is in it.
RespondedAtClose ==
    /\ responder = "recv" /\ (sesDone \/ ResponseClosed)
    /\ responder' = "done"
    /\ UNCHANGED <<kind, run, started, ctxVars, procVars, read, cut, scan, responseLine,
                   stopOutput, outVars, responseQ>>

\* The nil of a channel that is closed and empty, or the end of the session.
Responded ==
    /\ responder = "recv"
    /\ sesDone \/ (ResponseClosed /\ responseQ = 0)
    /\ responder' = "done"
    /\ UNCHANGED <<kind, run, started, ctxVars, procVars, read, cut, scan, responseLine,
                   stopOutput, outVars, responseQ>>
-----------------------------------------------------------------------------
Run == Create \/ CreateFails \/ Start \/ StartFails \/ WaitOnIO \/ CmdWait \/ CloseResponse

Scanner(s) == Scan(s) \/ EndOfFile(s) \/ Send(s) \/ Report(s)

Next ==
    \/ ContextDone \/ Fork \/ KidsEnd \/ LeaderEnds
    \/ Run \/ Collect \/ Newline \/ Flush \/ StopWriter
    \/ HandlerReport \/ Receive \/ Publish \/ Responded
    \/ \E s \in Streams : Write(s) \/ Scanner(s) \/ ScanFails(s)

Spec == Init /\ [][Next]_vars

\* Goroutines go on, a killed process ends, and the broker answers the
\* responder.  A script need not end by itself, nor need what a killed shell
\* leaves behind.
Fairness ==
    /\ WF_vars(Run) /\ WF_vars(Kill)
    /\ \A s \in Streams : WF_vars(Scanner(s))
    /\ WF_vars(Collect \/ Newline) /\ WF_vars(StopWriter)
    /\ WF_vars(Receive \/ Publish \/ Responded)

FairSpec == Spec /\ Fairness
-----------------------------------------------------------------------------
(* Properties.                                                             *)

\* "This means the IO for the process will be able to send on the channels
\* until they have stopped" (pythonenv.go): a send on a closed channel panics
\* in a goroutine that nobody recovers, and ends the runner with all its
\* experiments.  No scanner is left that could send when Run has returned and
\* closed its channels, nor when fetchWork closes the response channel, nor
\* when procOutput, the only receiver, has gone.
NoSendOnClosed ==
    Returned \/ writer = "done" =>
       \A s \in Streams : scan[s] \in {"off", "done"}

\* What the output file owes to a stream: all that was written to the pipe, or, if
\* the stream was cut, what was read until then.
Owed(s) == IF s \in cut THEN read[s] ELSE piped[s]
All(s)  == {<<s, n>> : n \in 1..Owed(s)}

\* What the results may lack when Run returns, although procOutput is not
\* waited for: the item it has just received, the line of stdout it is working
\* on, and what the scanner overwrote under its hands.  Of a stream whose scanner
\* failed, or whose pipe runWait closed before it was read, only what was read is
\* counted: the rest is lost in any case, and no error says so.
AtMostLastLineMissing ==
    Returned /\ started =>
       \A item \in UNION {All(s) : s \in Streams} :
          \/ item \in Range(file) \/ item = hand \/ item \in raced
          \/ /\ item \in Range(outLine)
             /\ \A buffered \in Range(outLine) :
                   buffered[2] \in Newlines => buffered = hand \/ buffered \in raced

\* The items of stream s among the first i of q.
Count(q, s, i) == Cardinality({j \in 1..i : q[j][1] = s})

\* The item came through the pipe of its stream as the n-th, or the n-th was
\* overwritten and this is the later rune that is there instead.
InPlace(item, n) == item = <<item[1], n>> \/ <<item[1], n>> \in raced

\* Every item that is owed to the streams is in the output file, in its place among
\* the items of its stream.
Complete ==
    /\ \A i \in 1..Len(file) : InPlace(file[i], Count(file, file[i][1], i))
    /\ \A s \in Streams : Count(file, s, Len(file)) = Owed(s)

\* A run whose context is done returns.  A VirtualEnv does so on the condition that
\* what the shell started ends and lets go of the pipes: the end of the context
\* kills the shell only.  Once a run that got to start its script has returned,
\* procOutput ends and the output file has all it owes.  (When cmd.Start of a
\* VirtualEnv fails procOutput never ends: its channels are closed and its
\* stopWriter is not.)
RunSettles ==
    /\ (kind = "singularity" \/ <>[]~kids) => (runDone ~> Returned)
    /\ (Returned /\ started) ~> (writer = "done" /\ Complete)

\* Reports that were accepted are published, all of them, before the responder
\* ends, unless the session ends first; and it does end.
ReportsDrained ==
    ResponseClosed ~> (responder = "off" \/ (responder = "done" /\ (sesDone \/ responseQ = 0)))
=============================================================================
