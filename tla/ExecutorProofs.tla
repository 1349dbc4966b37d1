--------------------------- MODULE ExecutorProofs ---------------------------
(***************************************************************************)
(* NoSendOnClosed and AtMostLastLineMissing for scripts that write any     *)
(* number of lines, of any length.  The first rests on the order in which  *)
(* Run starts, waits for and stops its goroutines.  The second follows     *)
(* each item from the pipe, by way of a scanner and procOutput, to the     *)
(* output file, and shows that there is no place in which it is lost.      *)
(***************************************************************************)
EXTENDS Executor, SequenceTheorems, FiniteSetTheorems, TLAPS

Types ==
    /\ kind \in {"venv", "singularity"}
    /\ run \in {"init", "start", "io", "wait", "returned", "closed"}
    /\ scan \in [Streams -> {"off", "scan", "send", "report", "done"}]
    /\ leader \in {"none", "alive", "dead"} /\ kids \in BOOLEAN
    /\ started \in BOOLEAN /\ stopOutput \in BOOLEAN

\* The scanners are off until Run has started the script, and it goes on from
\* waitOnIO only when they are done.
Stopped ==
    /\ run \in {"init", "start"} =>
          /\ \A s \in Streams : scan[s] = "off"
          /\ ~started /\ leader = "none" /\ ~kids
    /\ run \in {"init", "start", "io"} => ~stopOutput
    /\ run = "wait" /\ kind = "singularity" => ~stopOutput
    /\ run = "wait" /\ kind = "venv" => stopOutput
    /\ Returned => \A s \in Streams : scan[s] \in {"off", "done"}
    /\ started => \A s \in Streams : scan[s] # "off"
    /\ stopOutput => \A s \in Streams : scan[s] = "done"
    /\ writer = "done" => stopOutput

\* A scanner that is done and was not cut short has left nobody who could write.
Ended ==
    \A s \in Streams : scan[s] = "done" =>
       (leader # "alive" /\ ~kids) \/ PipesShut \/ s \in cut

Order == Types /\ Stopped /\ Ended

LEMMA InitOrder == Init => Order
BY DEF Init, Order, Types, Stopped, Ended, Streams, Returned

LEMMA NextOrder == Order /\ [Next]_vars => Order'
<1> SUFFICES ASSUME Order, [Next]_vars PROVE Order'
  OBVIOUS
<1> USE DEF Order, Types, Stopped, Ended, PipesShut, Returned, procVars, ctxVars, outVars
<1>1. CASE ContextDone \/ HandlerReport \/ Receive \/ Publish \/ Responded
  <2>1. UNCHANGED <<kind, run, started, leader, kids, cut, scan, stopOutput, writer>>
    BY <1>1 DEF ContextDone, HandlerReport, Receive, Publish, Responded
  <2> QED BY <2>1
<1>2. CASE Fork
  BY <1>2 DEF Fork
<1>3. CASE KidsEnd
  BY <1>3 DEF KidsEnd
<1>4. CASE LeaderEnds
  BY <1>4 DEF LeaderEnds
<1>5. ASSUME NEW s \in Streams, Write(s) PROVE Order'
  BY <1>5 DEF Write
<1>6. CASE Create \/ CreateFails \/ CloseResponse
  BY <1>6 DEF Create, CreateFails, CloseResponse
<1>7. CASE Start
  BY <1>7 DEF Start
<1>8. CASE StartFails
  BY <1>8 DEF StartFails
<1>9. CASE WaitOnIO
  BY <1>9 DEF WaitOnIO
<1>10. CASE CmdWait
  BY <1>10 DEF CmdWait
<1>11. ASSUME NEW s \in Streams, Scan(s) \/ Send(s) \/ Report(s) PROVE Order'
  <2>1. /\ UNCHANGED <<kind, run, started, leader, kids, cut, stopOutput>>
        /\ scan[s] \in {"scan", "send", "report"}
    BY <1>11 DEF Scan, Send, Report
  <2>2. \E p \in {"scan", "send", "report"} : scan' = [scan EXCEPT ![s] = p]
    BY <1>11 DEF Scan, Send, Report
  <2>3. writer' # "done" \/ writer' = writer
    BY <1>11 DEF Scan, Send, Report
  <2> QED BY <2>1, <2>2, <2>3
<1>12. ASSUME NEW s \in Streams, EndOfFile(s) \/ ScanFails(s) PROVE Order'
  <2>1. /\ UNCHANGED <<kind, run, started, leader, kids, stopOutput, writer>>
        /\ scan[s] = "scan" /\ scan' = [scan EXCEPT ![s] = "done"]
        /\ cut \subseteq cut'
        /\ (leader # "alive" /\ ~kids) \/ PipesShut \/ s \in cut'
    BY <1>12 DEF EndOfFile, ScanFails
  <2> QED BY <2>1
<1>13. CASE Collect \/ Newline \/ Flush \/ StopWriter
  BY <1>13 DEF Collect, Newline, Flush, StopWriter
<1>14. CASE UNCHANGED vars
  BY <1>14 DEF vars
<1> QED BY <1>1, <1>2, <1>3, <1>4, <1>5, <1>6, <1>7,
           <1>8, <1>9, <1>10, <1>11, <1>12, <1>13, <1>14
        DEF Next, Run, Scanner

\* No send on a channel that Run or fetchWork has closed (pythonenv.go Run,
\* singularity.go runWait, queues.go fetchWork), for any output of the script.
THEOREM NeverSendsOnClosed == Spec => []NoSendOnClosed
<1>1. Order => NoSendOnClosed
  BY DEF Order, Stopped, NoSendOnClosed
<1> QED BY <1>1, InitOrder, NextOrder, PTL DEF Spec
-----------------------------------------------------------------------------
(* AtMostLastLineMissing.                                                  *)

OutTypes ==
    /\ piped \in [Streams -> Nat] /\ read \in [Streams -> Nat]
    /\ \A s \in Streams : read[s] <= piped[s]
    /\ writer \in {"off", "select", "write", "test", "done"}
    /\ hand \in Items \cup {None} /\ raced \in SUBSET Items
    /\ outLine \in Seq(Items) /\ file \in Seq(Items)
    /\ writer \in {"write", "test"} <=> hand # None
    /\ writer = "test" => hand[1] = "out"
    /\ run = "init" => writer = "off"

\* Where an item is once procOutput has received it.
Held(item) ==
    item \in Range(file) \/ item = hand \/ item \in raced \/ item \in Range(outLine)

\* Every item that was read is held, or still with its scanner.
Followed ==
    \A s \in Streams : \A n \in 1..read[s] :
       Held(<<s, n>>) \/ (n = read[s] /\ scan[s] = "send")

\* The buffer has no newline but the one that procOutput is working on.
OneLine ==
    \A item \in Range(outLine) :
       item[2] \in Newlines => (writer = "test" /\ item = hand) \/ item \in raced

\* What procOutput is about to forget is in its buffer, or was put under its
\* hands by the scanner, which has yet to send it.
Buffered ==
    writer = "test" => \/ hand \in Range(outLine) \/ hand[2] > read["out"]
                       \/ hand[2] = read["out"] /\ scan["out"] = "send"

\* A scanner that is not cut short ends at the end of what is in its pipe.
ReadAll == \A s \in Streams : scan[s] = "done" /\ s \notin cut => read[s] = piped[s]

OutInv == Order /\ OutTypes /\ Followed /\ OneLine /\ Buffered /\ ReadAll

LEMMA RangeAppend ==
    ASSUME NEW S, NEW q \in Seq(S), NEW x \in S
    PROVE  Range(Append(q, x)) = Range(q) \cup {x} /\ Append(q, x) \in Seq(S)
<1>1. /\ Len(Append(q, x)) = Len(q) + 1 /\ Len(q) \in Nat
      /\ DOMAIN q = 1..Len(q) /\ DOMAIN Append(q, x) = 1..Len(q) + 1
      /\ \A i \in 1..Len(q) : Append(q, x)[i] = q[i]
      /\ Append(q, x)[Len(q) + 1] = x
  BY AppendProperties
<1>2. Range(Append(q, x)) \subseteq Range(q) \cup {x}
  BY <1>1 DEF Range
<1>3. Range(q) \cup {x} \subseteq Range(Append(q, x))
  BY <1>1 DEF Range
<1> QED BY <1>2, <1>3, AppendProperties

LEMMA RangeConcat ==
    ASSUME NEW S, NEW q \in Seq(S), NEW r \in Seq(S)
    PROVE  Range(q \o r) = Range(q) \cup Range(r) /\ q \o r \in Seq(S)
<1>1. /\ Len(q \o r) = Len(q) + Len(r) /\ Len(q) \in Nat /\ Len(r) \in Nat
      /\ DOMAIN q = 1..Len(q) /\ DOMAIN r = 1..Len(r)
      /\ DOMAIN (q \o r) = 1..Len(q) + Len(r)
      /\ \A i \in 1..Len(q) + Len(r) :
            (q \o r)[i] = IF i <= Len(q) THEN q[i] ELSE r[i - Len(q)]
      /\ q \o r \in Seq(S)
  BY ConcatProperties
<1>2. ASSUME NEW y \in Range(q \o r) PROVE y \in Range(q) \cup Range(r)
  <2>1. PICK i \in 1..Len(q) + Len(r) : y = (q \o r)[i]
    BY <1>1, <1>2 DEF Range
  <2>2. CASE i <= Len(q)
    BY <1>1, <2>1, <2>2 DEF Range
  <2>3. CASE ~(i <= Len(q))
    <3>1. i - Len(q) \in 1..Len(r) /\ y = r[i - Len(q)]
      BY <1>1, <2>1, <2>3
    <3> QED BY <1>1, <3>1 DEF Range
  <2> QED BY <2>2, <2>3
<1>3. ASSUME NEW y \in Range(q) PROVE y \in Range(q \o r)
  <2>1. PICK i \in 1..Len(q) : y = q[i]
    BY <1>1, <1>3 DEF Range
  <2>2. i \in 1..Len(q) + Len(r) /\ (q \o r)[i] = y
    BY <1>1, <2>1
  <2> QED BY <1>1, <2>2 DEF Range
<1>4. ASSUME NEW y \in Range(r) PROVE y \in Range(q \o r)
  <2>1. PICK i \in 1..Len(r) : y = r[i]
    BY <1>1, <1>4 DEF Range
  <2>2. i + Len(q) \in 1..Len(q) + Len(r) /\ (q \o r)[i + Len(q)] = y
    BY <1>1, <2>1
  <2> QED BY <1>1, <2>2 DEF Range
<1> QED BY <1>1, <1>2, <1>3, <1>4

\* Steps that move no item.
LEMMA FrameOut ==
    ASSUME OutInv, Order', OutTypes', ReadAll',
           UNCHANGED <<read, hand, raced, outLine, file>>,
           \A s \in Streams : scan[s] = "send" => scan'[s] = "send",
           writer' = "test" <=> writer = "test"
    PROVE  OutInv'
<1>1. Followed'
  BY DEF OutInv, Followed, Held
<1>2. OneLine' /\ Buffered'
  BY DEF OutInv, OneLine, Buffered, Streams
<1> QED BY <1>1, <1>2 DEF OutInv

LEMMA InitOut == Init => OutInv
<1> SUFFICES ASSUME Init PROVE OutInv
  OBVIOUS
<1>1. Order /\ OutTypes
  BY InitOrder DEF Init, OutTypes, Streams
<1>2. Followed
  BY DEF Init, Followed
<1>3. OneLine /\ Buffered /\ ReadAll
  BY DEF Init, OneLine, Buffered, ReadAll, Range
<1> QED BY <1>1, <1>2, <1>3 DEF OutInv

\* The steps of Run, of the processes, and of the responder.
LEMMA RunOut ==
    ASSUME OutInv, Order',
           \/ ContextDone \/ Fork \/ KidsEnd \/ LeaderEnds \/ Run
           \/ HandlerReport \/ Receive \/ Publish \/ Responded
           \/ \E s \in Streams : Write(s) \/ EndOfFile(s) \/ ScanFails(s) \/ Report(s)
    PROVE  OutInv'
<1> USE DEF OutInv, outVars, procVars, ctxVars
<1>1. CASE \/ ContextDone \/ Fork \/ KidsEnd \/ LeaderEnds
           \/ HandlerReport \/ Receive \/ Publish \/ Responded
           \/ CreateFails \/ WaitOnIO \/ CmdWait \/ CloseResponse
  <2>1. /\ UNCHANGED <<piped, read, cut, writer, hand, raced, outLine, file, scan>>
        /\ run' = "init" => run = "init"
    BY <1>1 DEF ContextDone, Fork, KidsEnd, LeaderEnds, HandlerReport, Receive, Publish,
                Responded, CreateFails, WaitOnIO, CmdWait, CloseResponse
  <2>2. OutTypes' /\ ReadAll'
    BY <2>1 DEF OutTypes, ReadAll
  <2> QED BY <2>1, <2>2, FrameOut
<1>2. CASE Create
  <2>1. /\ UNCHANGED <<piped, read, cut, hand, raced, outLine, file, scan>>
        /\ run' = "start" /\ writer = "off" /\ writer' = "select"
    BY <1>2 DEF Create, OutTypes
  <2>2. OutTypes' /\ ReadAll'
    BY <2>1 DEF OutTypes, ReadAll
  <2> QED BY <2>1, <2>2, FrameOut
<1>3. CASE Start \/ StartFails
  <2>1. /\ UNCHANGED <<piped, read, cut, writer, hand, raced, outLine, file>>
        /\ run = "start" /\ run' # "init"
        /\ scan' = scan \/ scan' = [s \in Streams |-> "scan"]
    BY <1>3 DEF Start, StartFails
  <2>2. \A s \in Streams : scan[s] = "off"
    BY <2>1 DEF Order, Stopped
  <2>3. OutTypes' /\ ReadAll'
    BY <2>1, <2>2 DEF OutTypes, ReadAll
  <2> QED BY <2>1, <2>2, <2>3, FrameOut
<1>4. ASSUME NEW s \in Streams, Write(s) PROVE OutInv'
  <2>1. /\ UNCHANGED <<read, cut, writer, hand, raced, outLine, file, scan, run>>
        /\ piped' = [piped EXCEPT ![s] = @ + 1]
        /\ scan[s] # "done" \/ s \in cut
    BY <1>4 DEF Write, Order, Ended
  <2>2. OutTypes' /\ ReadAll'
    BY <2>1 DEF OutTypes, ReadAll
  <2> QED BY <2>1, <2>2, FrameOut
<1>5. ASSUME NEW s \in Streams, EndOfFile(s) \/ ScanFails(s) \/ Report(s) PROVE OutInv'
  <2>1. /\ UNCHANGED <<piped, read, writer, hand, raced, outLine, file, run>>
        /\ scan[s] # "send" /\ cut \subseteq cut'
        /\ \/ /\ scan' = [scan EXCEPT ![s] = "done"]
              /\ read[s] = piped[s] \/ s \in cut'
           \/ scan' = [scan EXCEPT ![s] = "scan"]
    BY <1>5 DEF EndOfFile, ScanFails, Report
  <2>2. \A t \in Streams : t # s => scan'[t] = scan[t]
    BY <2>1 DEF Order, Types
  <2>3. OutTypes' /\ ReadAll'
    BY <2>1 DEF OutTypes, ReadAll, Order, Types
  <2> QED BY <2>1, <2>2, <2>3, FrameOut
<1> QED BY <1>1, <1>2, <1>3, <1>4, <1>5 DEF Run

LEMMA ScanOut == ASSUME OutInv, Order', NEW s \in Streams, Scan(s) PROVE OutInv'
<1>1. /\ UNCHANGED <<piped, cut, writer, outLine, file, run>>
      /\ scan[s] = "scan" /\ read[s] < piped[s] /\ Refill(s)
      /\ read' = [read EXCEPT ![s] = @ + 1] /\ scan' = [scan EXCEPT ![s] = "send"]
  BY DEF Scan, procVars
<1>2. /\ piped \in [Streams -> Nat] /\ read \in [Streams -> Nat] /\ raced \in SUBSET Items
      /\ \A t \in Streams : read[t] <= piped[t]
  BY DEF OutInv, OutTypes
<1>3. /\ read' \in [Streams -> Nat] /\ read'[s] = read[s] + 1 /\ scan'[s] = "send"
      /\ \A t \in Streams : t # s => read'[t] = read[t] /\ scan'[t] = scan[t]
  BY <1>1, <1>2 DEF OutInv, Order, Types
<1>4. \/ UNCHANGED <<hand, raced>>
      \/ /\ s = "out" /\ writer \in {"write", "test"} /\ raced' = raced \cup {hand}
         /\ \E n \in read[s] + 1 .. piped[s] : hand' = <<"out", n>>
  BY <1>1 DEF Refill
<1>5. \/ hand' = hand
      \/ /\ s = "out" /\ writer \in {"write", "test"} /\ hand' \in Items
         /\ hand'[1] = "out" /\ hand'[2] >= read'["out"]
  BY <1>2, <1>3, <1>4 DEF Items, Streams
<1>6. raced' \in SUBSET Items
  BY <1>2, <1>4 DEF OutInv, OutTypes
<1>7. OutTypes'
  BY <1>1, <1>2, <1>3, <1>5, <1>6, ConstantsAssumption DEF OutInv, OutTypes
<1>8. ASSUME NEW item, Held(item) PROVE Held(item)'
  BY <1>1, <1>4, <1>8 DEF Held
<1>9. Followed'
  <2> SUFFICES ASSUME NEW t \in Streams, NEW n \in 1..read'[t]
               PROVE  Held(<<t, n>>)' \/ (n = read'[t] /\ scan'[t] = "send")
    BY DEF Followed
  <2>1. CASE t = s
    <3>1. CASE n = read'[s]
      BY <1>3, <2>1, <3>1
    <3>2. CASE n # read'[s]
      <4>1. n \in 1..read[s]
        BY <1>2, <1>3, <2>1, <3>2
      <4>2. Held(<<t, n>>)
        BY <1>1, <2>1, <4>1 DEF OutInv, Followed
      <4> QED BY <1>8, <4>2
    <3> QED BY <3>1, <3>2
  <2>2. CASE t # s
    BY <1>3, <1>8, <2>2 DEF OutInv, Followed
  <2> QED BY <2>1, <2>2
<1>10. OneLine'
  BY <1>1, <1>4 DEF OutInv, OneLine
<1>11. Buffered'
  <2> SUFFICES ASSUME writer = "test"
               PROVE  \/ hand' \in Range(outLine) \/ hand'[2] > read'["out"]
                      \/ hand'[2] = read'["out"] /\ scan'["out"] = "send"
    BY <1>1 DEF Buffered
  <2>1. CASE hand' = hand
    <3>1. hand \in Items
      BY DEF OutInv, OutTypes
    <3>2. hand[2] \in Nat
      BY <3>1 DEF Items
    <3>3. \/ hand \in Range(outLine) \/ hand[2] > read["out"]
          \/ hand[2] = read["out"] /\ scan["out"] = "send"
      BY DEF OutInv, Buffered
    <3> QED BY <1>1, <1>2, <1>3, <2>1, <3>2, <3>3 DEF Streams
  <2>2. CASE hand' # hand
    <3>1. hand' \in Items /\ hand'[2] >= read'["out"] /\ s = "out"
      BY <1>5, <2>2
    <3>2. hand'[2] \in Nat /\ read'["out"] \in Nat
      BY <1>3, <3>1 DEF Items, Streams
    <3> QED BY <1>3, <3>1, <3>2
  <2> QED BY <2>1, <2>2
<1>12. ReadAll'
  BY <1>1, <1>3 DEF OutInv, ReadAll
<1> QED BY <1>7, <1>9, <1>10, <1>11, <1>12 DEF OutInv

LEMMA SendOut == ASSUME OutInv, Order', NEW s \in Streams, Send(s) PROVE OutInv'
<1>1. /\ UNCHANGED <<piped, read, cut, raced, outLine, file, run>>
      /\ scan[s] = "send" /\ scan' = [scan EXCEPT ![s] = "report"]
      /\ writer = "select" /\ writer' = "write" /\ hand' = <<s, read[s]>>
  BY DEF Send, procVars
<1>2. hand = None /\ hand' \in Items
  BY <1>1 DEF OutInv, OutTypes, Items
<1>3. OutTypes'
  BY <1>1, <1>2, ConstantsAssumption DEF OutInv, OutTypes
<1>4. scan'[s] = "report" /\ \A t \in Streams : t # s => scan'[t] = scan[t]
  BY <1>1 DEF OutInv, Order, Types
<1>5. Followed'
  <2> SUFFICES ASSUME NEW t \in Streams, NEW n \in 1..read[t]
               PROVE  Held(<<t, n>>)' \/ (n = read[t] /\ scan'[t] = "send")
    BY <1>1 DEF Followed
  <2>1. CASE t = s /\ n = read[s]
    BY <1>1, <2>1 DEF Held
  <2>2. CASE ~(t = s /\ n = read[s])
    <3>1. <<t, n>> \in Items /\ read[t] \in Nat
      BY DEF OutInv, OutTypes, Items
    <3>2. <<t, n>> # hand
      BY <1>2, <3>1, ConstantsAssumption
    <3>3. Held(<<t, n>>) \/ (n = read[t] /\ scan[t] = "send")
      BY DEF OutInv, Followed
    <3> QED BY <1>1, <1>4, <2>2, <3>2, <3>3 DEF Held
  <2> QED BY <2>1, <2>2
<1>6. OneLine'
  <2> SUFFICES ASSUME NEW item \in Range(outLine), item[2] \in Newlines PROVE item \in raced
    BY <1>1 DEF OneLine
  <2> QED BY <1>1 DEF OutInv, OneLine
<1>7. Buffered' /\ ReadAll'
  BY <1>1, <1>4 DEF OutInv, Buffered, ReadAll
<1> QED BY <1>3, <1>5, <1>6, <1>7 DEF OutInv

LEMMA CollectOut == ASSUME OutInv, Order', Collect PROVE OutInv'
<1>1. /\ UNCHANGED <<piped, read, cut, raced, scan, run>> /\ writer = "write"
      /\ hand \in Items /\ file \in Seq(Items) /\ outLine \in Seq(Items)
  BY DEF Collect, procVars, OutInv, OutTypes
<1>2. CASE hand[1] = "err"
  <2>1. file' = Append(file, hand) /\ outLine' = outLine /\ writer' = "select" /\ hand' = None
    BY <1>2 DEF Collect
  <2>2. Range(file') = Range(file) \cup {hand} /\ file' \in Seq(Items)
    BY <1>1, <2>1, RangeAppend
  <2>3. OutTypes' /\ ReadAll' /\ Buffered'
    BY <1>1, <2>1, <2>2, ConstantsAssumption DEF OutInv, OutTypes, ReadAll, Buffered
  <2>4. Followed'
    BY <1>1, <2>1, <2>2 DEF OutInv, Followed, Held
  <2>5. OneLine'
    BY <1>1, <2>1 DEF OutInv, OneLine
  <2> QED BY <2>3, <2>4, <2>5 DEF OutInv
<1>3. CASE hand[1] = "out"
  <2>1. outLine' = Append(outLine, hand) /\ file' = file /\ writer' = "test" /\ hand' = hand
    BY <1>3 DEF Collect
  <2>2. Range(outLine') = Range(outLine) \cup {hand} /\ outLine' \in Seq(Items)
    BY <1>1, <2>1, RangeAppend
  <2>3. OutTypes' /\ ReadAll' /\ Buffered'
    BY <1>1, <1>3, <2>1, <2>2 DEF OutInv, OutTypes, ReadAll, Buffered
  <2>4. Followed' /\ OneLine'
    BY <1>1, <2>1, <2>2 DEF OutInv, Followed, Held, OneLine
  <2> QED BY <2>3, <2>4 DEF OutInv
<1> QED BY <1>2, <1>3 DEF Collect

LEMMA NewlineOut == ASSUME OutInv, Order', Newline PROVE OutInv'
<1>1. /\ UNCHANGED <<piped, read, cut, raced, scan, run>> /\ writer = "test"
      /\ writer' = "select" /\ hand' = None
      /\ hand \in Items /\ file \in Seq(Items) /\ outLine \in Seq(Items)
  BY DEF Newline, procVars, OutInv, OutTypes
<1>2. /\ Range(file') \cup Range(outLine') = Range(file) \cup Range(outLine)
      /\ file' \in Seq(Items) /\ outLine' \in Seq(Items)
      /\ Range(outLine') \subseteq Range(outLine)
      /\ hand[2] \in Newlines => Range(outLine') = {}
  <2>1. CASE hand[2] \in Newlines
    <3>1. file' = file \o outLine /\ outLine' = <<>> /\ Range(<<>>) = {}
      BY <2>1 DEF Newline, Range
    <3> QED BY <1>1, <3>1, RangeConcat
  <2>2. CASE hand[2] \notin Newlines
    BY <1>1, <2>2 DEF Newline
  <2> QED BY <2>1, <2>2
<1>3. OutTypes' /\ ReadAll' /\ Buffered'
  BY <1>1, <1>2, ConstantsAssumption DEF OutInv, OutTypes, ReadAll, Buffered
<1>4. OneLine'
  BY <1>1, <1>2 DEF OutInv, OneLine
<1>5. Followed'
  <2> SUFFICES ASSUME NEW t \in Streams, NEW n \in 1..read[t]
               PROVE  Held(<<t, n>>)' \/ (n = read[t] /\ scan[t] = "send")
    BY <1>1 DEF Followed
  <2>1. Held(<<t, n>>) \/ (n = read[t] /\ scan[t] = "send")
    BY DEF OutInv, Followed
  <2>2. CASE hand = <<t, n>> /\ hand \notin Range(outLine)
    <3>1. t = "out" /\ hand[2] = n /\ read[t] \in Nat
      BY <1>1, <2>2 DEF OutInv, OutTypes
    <3> QED BY <1>1, <2>2, <3>1 DEF OutInv, Buffered
  <2>3. CASE ~(hand = <<t, n>> /\ hand \notin Range(outLine))
    BY <1>1, <1>2, <2>1, <2>3 DEF Held
  <2> QED BY <2>2, <2>3
<1> QED BY <1>3, <1>4, <1>5 DEF OutInv

LEMMA FlushOut == ASSUME OutInv, Order', Flush \/ StopWriter PROVE OutInv'
<1>1. /\ UNCHANGED <<piped, read, cut, raced, scan, run, hand>> /\ writer = "select"
      /\ writer' \in {"select", "done"} /\ file' = file \o outLine /\ outLine' = <<>>
  BY DEF Flush, StopWriter, procVars
<1>2. /\ Range(file') = Range(file) \cup Range(outLine) /\ Range(outLine') = {}
      /\ file' \in Seq(Items) /\ outLine' \in Seq(Items)
  <2>1. file \in Seq(Items) /\ outLine \in Seq(Items) /\ Range(<<>>) = {}
    BY DEF OutInv, OutTypes, Range
  <2> QED BY <1>1, <2>1, RangeConcat
<1>3. OutTypes' /\ ReadAll' /\ Buffered'
  BY <1>1, <1>2 DEF OutInv, OutTypes, ReadAll, Buffered
<1>4. Followed' /\ OneLine'
  BY <1>1, <1>2 DEF OutInv, Followed, Held, OneLine
<1> QED BY <1>3, <1>4 DEF OutInv

LEMMA NextOut == OutInv /\ [Next]_vars => OutInv'
<1> SUFFICES ASSUME OutInv, [Next]_vars PROVE OutInv'
  OBVIOUS
<1>1. Order'
  BY NextOrder DEF OutInv
<1>2. CASE UNCHANGED vars
  BY <1>2 DEF vars, procVars, outVars, OutInv, Order, Types, Stopped, Ended, Returned, PipesShut,
              OutTypes, Followed, Held, OneLine, Buffered, ReadAll
<1>3. CASE Collect \/ Newline \/ Flush \/ StopWriter
  BY <1>1, <1>3, CollectOut, NewlineOut, FlushOut
<1>4. CASE \E s \in Streams : Scan(s) \/ Send(s)
  BY <1>1, <1>4, ScanOut, SendOut
<1> QED BY <1>1, <1>2, <1>3, <1>4, RunOut DEF Next, Scanner

\* Of what is owed to the streams, everything that was written unless a scanner
\* failed or lost its pipe, at most the last line of stdout is missing from the
\* output file when Run returns (pythonenv.go procOutput and Run, singularity.go
\* runWait), whatever the script writes and whenever the ticker flushes.
THEOREM AtMostLastLine == Spec => []AtMostLastLineMissing
<1>1. ASSUME OutInv PROVE AtMostLastLineMissing
  <2> SUFFICES ASSUME Returned, started, NEW s \in Streams, NEW n \in 1..Owed(s)
               PROVE  \/ <<s, n>> \in Range(file) \/ <<s, n>> = hand \/ <<s, n>> \in raced
                      \/ /\ <<s, n>> \in Range(outLine)
                         /\ \A buffered \in Range(outLine) :
                               buffered[2] \in Newlines => buffered = hand \/ buffered \in raced
    BY DEF AtMostLastLineMissing, All
  <2>1. scan[s] = "done"
    BY <1>1 DEF OutInv, Order, Stopped
  <2>2. read[s] = Owed(s)
    BY <1>1, <2>1 DEF OutInv, ReadAll, Owed
  <2>3. Held(<<s, n>>)
    BY <1>1, <2>1, <2>2 DEF OutInv, Followed
  <2> QED BY <1>1, <2>3 DEF Held, OutInv, OneLine
<1> QED BY <1>1, InitOut, NextOut, PTL DEF Spec
-----------------------------------------------------------------------------
(* Complete.                                                               *)

\* Items of s that procOutput has received.
Sent(s) == IF scan[s] = "send" THEN read[s] - 1 ELSE read[s]

\* Items of s that it has put into the file or into its buffer.
Taken(s) == IF writer = "write" /\ hand[1] = s THEN Sent(s) - 1 ELSE Sent(s)

\* Items of s in the file and in the buffer.
Stored(s) == Count(file, s, Len(file)) + (IF s = "out" THEN Len(outLine) ELSE 0)

\* procOutput keeps everything, each item in its place, from the moment it is
\* received.
Placed ==
    /\ \A s \in Streams : Stored(s) = Taken(s)
    /\ \A i \in 1..Len(file) : InPlace(file[i], Count(file, file[i][1], i))
    /\ \A i \in 1..Len(outLine) :
          outLine[i][1] = "out" /\ InPlace(outLine[i], Count(file, "out", Len(file)) + i)
    /\ writer = "write" => InPlace(hand, Sent(hand[1]))
    /\ writer = "done" => outLine = <<>>

\* Where the items that Count counts are.
Positions(q, s, i) == {j \in 1..i : q[j][1] = s}

LEMMA CountType ==
    ASSUME NEW q, NEW s, NEW i \in Nat
    PROVE  /\ IsFiniteSet(Positions(q, s, i)) /\ Cardinality(Positions(q, s, i)) \in Nat
           /\ Count(q, s, i) = Cardinality(Positions(q, s, i))
<1>1. IsFiniteSet(1..i)
  BY FS_Interval
<1>2. IsFiniteSet(Positions(q, s, i))
  BY <1>1, FS_Subset DEF Positions
<1>3. Count(q, s, i) = Cardinality(Positions(q, s, i))
  BY DEF Count, Positions
<1> QED BY <1>2, <1>3, FS_CardinalityType

\* Only the items up to the i-th matter.
LEMMA CountPrefix ==
    ASSUME NEW q, NEW r, NEW s, NEW i \in Nat, \A j \in 1..i : q[j] = r[j]
    PROVE  Count(q, s, i) = Count(r, s, i)
<1>1. Positions(q, s, i) = Positions(r, s, i)
  BY DEF Positions
<1> QED BY <1>1, CountType

LEMMA CountAppend ==
    ASSUME NEW q \in Seq(Items), NEW x \in Items, NEW s
    PROVE  /\ \A i \in 1..Len(q) : Count(Append(q, x), s, i) = Count(q, s, i)
           /\ Count(Append(q, x), s, Len(q) + 1) =
                 Count(q, s, Len(q)) + (IF x[1] = s THEN 1 ELSE 0)
<1>1. /\ Len(q) \in Nat /\ Append(q, x)[Len(q) + 1] = x
      /\ \A i \in 1..Len(q) : Append(q, x)[i] = q[i]
  BY AppendProperties
<1>2. ASSUME NEW i \in 1..Len(q) PROVE Count(Append(q, x), s, i) = Count(q, s, i)
  <2>1. i \in Nat /\ \A j \in 1..i : Append(q, x)[j] = q[j]
    BY <1>1
  <2> QED BY <2>1, CountPrefix
<1> DEFINE Old == Positions(q, s, Len(q))
           New == Positions(Append(q, x), s, Len(q) + 1)
<1>3. IsFiniteSet(Old) /\ Cardinality(Old) \in Nat /\ Count(q, s, Len(q)) = Cardinality(Old)
  BY <1>1, CountType
<1>4. Count(Append(q, x), s, Len(q) + 1) = Cardinality(New)
  <2>1. Len(q) + 1 \in Nat
    BY <1>1
  <2> QED BY <2>1, CountType
<1>5. New = IF x[1] = s THEN Old \cup {Len(q) + 1} ELSE Old
  BY <1>1 DEF Positions
<1>6. Len(q) + 1 \notin Old
  BY <1>1 DEF Positions
<1> HIDE DEF Old, New
<1>7. Cardinality(Old \cup {Len(q) + 1}) = Cardinality(Old) + 1
  BY <1>3, <1>6, FS_AddElement
<1>8. Cardinality(New) = Cardinality(Old) + (IF x[1] = s THEN 1 ELSE 0)
  BY <1>3, <1>5, <1>7
<1> QED BY <1>2, <1>3, <1>4, <1>8

\* What a buffer of stdout adds to the file.
LEMMA CountConcat ==
    ASSUME NEW q \in Seq(Items), NEW r \in Seq(Items),
           \A i \in 1..Len(r) : r[i][1] = "out"
    PROVE  /\ \A s : \A i \in 1..Len(q) : Count(q \o r, s, i) = Count(q, s, i)
           /\ \A i \in 0..Len(r) :
                 /\ Count(q \o r, "out", Len(q) + i) = Count(q, "out", Len(q)) + i
                 /\ Count(q \o r, "err", Len(q) + i) = Count(q, "err", Len(q))
<1>1. /\ Len(q) \in Nat /\ Len(r) \in Nat
      /\ \A i \in 1..Len(q) : (q \o r)[i] = q[i]
      /\ \A i \in Len(q) + 1..Len(q) + Len(r) : (q \o r)[i] = r[i - Len(q)]
  <2>1. /\ Len(q) \in Nat /\ Len(r) \in Nat
        /\ \A i \in 1..Len(q) + Len(r) :
              (q \o r)[i] = IF i <= Len(q) THEN q[i] ELSE r[i - Len(q)]
    BY ConcatProperties
  <2> QED BY <2>1
<1>2. ASSUME NEW s, NEW i \in 1..Len(q) PROVE Count(q \o r, s, i) = Count(q, s, i)
  <2>1. i \in Nat /\ \A j \in 1..i : (q \o r)[j] = q[j]
    BY <1>1
  <2> QED BY <2>1, CountPrefix
<1>3. \A j \in Len(q) + 1..Len(q) + Len(r) : (q \o r)[j][1] = "out"
  <2> SUFFICES ASSUME NEW j \in Len(q) + 1..Len(q) + Len(r) PROVE r[j - Len(q)][1] = "out"
    BY <1>1
  <2>1. j - Len(q) \in 1..Len(r)
    BY <1>1
  <2> QED BY <2>1
<1>4. ASSUME NEW i \in 0..Len(r)
      PROVE  Count(q \o r, "out", Len(q) + i) = Count(q, "out", Len(q)) + i
  <2> DEFINE Old == Positions(q, "out", Len(q))
             New == Len(q) + 1..Len(q) + i
             Sum == Positions(q \o r, "out", Len(q) + i)
  <2>1. /\ IsFiniteSet(Old) /\ Cardinality(Old) \in Nat
        /\ Count(q, "out", Len(q)) = Cardinality(Old)
    BY <1>1, CountType
  <2>2. IsFiniteSet(New) /\ Cardinality(New) = i
    <3>1. Len(q) + 1 \in Int /\ Len(q) + i \in Int
      BY <1>1
    <3>2. IsFiniteSet(New) /\ Cardinality(New) =
             IF Len(q) + 1 > Len(q) + i THEN 0 ELSE (Len(q) + i) - (Len(q) + 1) + 1
      BY <3>1, FS_Interval
    <3> QED BY <1>1, <3>2
  <2>3. Count(q \o r, "out", Len(q) + i) = Cardinality(Sum)
    <3>1. Len(q) + i \in Nat
      BY <1>1
    <3> QED BY <3>1, CountType
  <2>4. Sum = Old \cup New
    <3>1. ASSUME NEW j \in 1..Len(q) + i
          PROVE  (q \o r)[j][1] = "out" <=> j \in Old \cup New
      <4>1. CASE j \in 1..Len(q)
        BY <1>1, <4>1 DEF Positions
      <4>2. CASE j \notin 1..Len(q)
        <5>1. j \in New /\ j \in Len(q) + 1..Len(q) + Len(r)
          BY <1>1, <4>2
        <5> QED BY <1>3, <5>1
      <4> QED BY <4>1, <4>2
    <3>2. Old \cup New \subseteq 1..Len(q) + i
      BY <1>1 DEF Positions
    <3> QED BY <3>1, <3>2 DEF Positions
  <2>5. Old \cap New = {}
    BY <1>1 DEF Positions
  <2> HIDE DEF Old, New, Sum
  <2>6. Cardinality(Old \cup New) = Cardinality(Old) + Cardinality(New) - Cardinality({})
    BY <2>1, <2>2, <2>5, FS_Union
  <2>7. Cardinality({}) = 0
    BY FS_EmptySet
  <2> QED BY <2>1, <2>2, <2>3, <2>4, <2>6, <2>7
<1>5. ASSUME NEW i \in 0..Len(r)
      PROVE  Count(q \o r, "err", Len(q) + i) = Count(q, "err", Len(q))
  <2>1. Positions(q \o r, "err", Len(q) + i) = Positions(q, "err", Len(q))
    <3>1. ASSUME NEW j \in 1..Len(q) + i, (q \o r)[j][1] = "err" PROVE j \in 1..Len(q)
      <4>1. j \notin Len(q) + 1..Len(q) + Len(r)
        BY <1>3, <3>1
      <4> QED BY <1>1, <4>1
    <3> QED BY <1>1, <3>1 DEF Positions
  <2>2. Len(q) + i \in Nat
    BY <1>1
  <2> QED BY <1>1, <2>1, <2>2, CountType
<1> QED BY <1>2, <1>4, <1>5

LEMMA StaysInPlace ==
    ASSUME NEW item, NEW n, raced \subseteq raced', InPlace(item, n)
    PROVE  item = <<item[1], n>> \/ <<item[1], n>> \in raced'
BY DEF InPlace

\* Steps that write nothing.
LEMMA FramePlaced ==
    ASSUME Placed, UNCHANGED <<outLine, file>>, raced \subseteq raced',
           \A s \in Streams : Taken(s)' = Taken(s),
           writer' = "write" => InPlace(hand, Sent(hand[1]))',
           writer' = "done" => writer = "done"
    PROVE  Placed'
<1>1. \A s \in Streams : Stored(s)' = Taken(s)'
  BY DEF Placed, Stored
<1>2. \A i \in 1..Len(file') : InPlace(file[i], Count(file, file[i][1], i))'
  BY StaysInPlace DEF Placed, InPlace
<1>3. \A i \in 1..Len(outLine') :
         outLine'[i][1] = "out" /\ InPlace(outLine[i], Count(file, "out", Len(file)) + i)'
  BY StaysInPlace DEF Placed, InPlace
<1> QED BY <1>1, <1>2, <1>3 DEF Placed

LEMMA InitPlaced == Init => Placed
<1> SUFFICES ASSUME Init PROVE Placed
  OBVIOUS
<1>1. /\ file = <<>> /\ outLine = <<>> /\ writer = "off"
      /\ \A s \in Streams : read[s] = 0 /\ scan[s] = "off"
  BY DEF Init
<1>2. \A s : Positions(file, s, 0) = {}
  BY DEF Positions
<1>3. \A s : Count(file, s, 0) = 0
  BY <1>2, CountType, FS_EmptySet
<1>4. Len(file) = 0 /\ Len(outLine) = 0
  BY <1>1
<1> QED BY <1>1, <1>3, <1>4 DEF Placed, Stored, Taken, Sent

\* The steps of Run, of the processes, and of the responder.
LEMMA RunPlaced ==
    ASSUME OutInv, Placed,
           \/ ContextDone \/ Fork \/ KidsEnd \/ LeaderEnds \/ Run
           \/ HandlerReport \/ Receive \/ Publish \/ Responded
           \/ \E s \in Streams : Write(s) \/ EndOfFile(s) \/ ScanFails(s) \/ Report(s)
    PROVE  Placed'
<1>1. /\ UNCHANGED <<read, hand, raced, outLine, file>>
      /\ writer' = writer \/ (writer = "off" /\ writer' = "select")
  <2> USE DEF outVars, procVars, ctxVars
  <2>1. CASE \/ ContextDone \/ Fork \/ KidsEnd \/ LeaderEnds
             \/ HandlerReport \/ Receive \/ Publish \/ Responded
    BY <2>1 DEF ContextDone, Fork, KidsEnd, LeaderEnds, HandlerReport, Receive, Publish,
                Responded
  <2>2. CASE Create
    BY <2>2 DEF Create, OutInv, OutTypes
  <2>3. CASE CreateFails \/ Start \/ StartFails
    BY <2>3 DEF CreateFails, Start, StartFails
  <2>4. CASE WaitOnIO \/ CmdWait \/ CloseResponse
    BY <2>4 DEF WaitOnIO, CmdWait, CloseResponse
  <2>5. CASE \E s \in Streams : Write(s) \/ EndOfFile(s) \/ ScanFails(s) \/ Report(s)
    BY <2>5 DEF Write, EndOfFile, ScanFails, Report
  <2> QED BY <2>1, <2>2, <2>3, <2>4, <2>5 DEF Run
<1>2. \A t \in Streams : scan'[t] = "send" <=> scan[t] = "send"
  <2> USE DEF outVars, procVars, ctxVars
  <2>1. scan \in [Streams -> {"off", "scan", "send", "report", "done"}]
    BY DEF OutInv, Order, Types
  <2>2. CASE \/ ContextDone \/ Fork \/ KidsEnd \/ LeaderEnds
             \/ HandlerReport \/ Receive \/ Publish \/ Responded
    BY <2>2 DEF ContextDone, Fork, KidsEnd, LeaderEnds, HandlerReport, Receive, Publish,
                Responded
  <2>3. CASE Start \/ StartFails
    BY <2>3 DEF Start, StartFails, OutInv, Order, Stopped
  <2>4. CASE Create \/ CreateFails \/ WaitOnIO \/ CmdWait \/ CloseResponse
    BY <2>4 DEF Create, CreateFails, WaitOnIO, CmdWait, CloseResponse
  <2>5. ASSUME NEW s \in Streams, Write(s) \/ EndOfFile(s) \/ ScanFails(s) \/ Report(s)
        PROVE  \A t \in Streams : scan'[t] = "send" <=> scan[t] = "send"
    BY <2>1, <2>5 DEF Write, EndOfFile, ScanFails, Report
  <2> QED BY <2>2, <2>3, <2>4, <2>5 DEF Run
<1>3. \A s \in Streams : Sent(s)' = Sent(s) /\ Taken(s)' = Taken(s)
  BY <1>1, <1>2 DEF Sent, Taken
<1>4. ASSUME writer' = "write" PROVE InPlace(hand, Sent(hand[1]))'
  <2>1. writer = "write" /\ hand \in Items
    BY <1>1, <1>4 DEF OutInv, OutTypes
  <2>2. hand[1] \in Streams
    BY <2>1 DEF Items
  <2> QED BY <1>1, <1>3, <2>1, <2>2 DEF Placed, InPlace
<1> QED BY <1>1, <1>3, <1>4, FramePlaced

\* A rune that the scanner overwrites keeps its place, as one that was raced.
LEMMA ScanPlaced == ASSUME OutInv, Placed, NEW s \in Streams, Scan(s) PROVE Placed'
<1>1. /\ UNCHANGED <<piped, writer, outLine, file>>
      /\ scan[s] = "scan" /\ Refill(s)
      /\ read' = [read EXCEPT ![s] = @ + 1] /\ scan' = [scan EXCEPT ![s] = "send"]
  BY DEF Scan, procVars
<1>2. /\ read \in [Streams -> Nat]
      /\ scan \in [Streams -> {"off", "scan", "send", "report", "done"}]
  BY DEF OutInv, OutTypes, Order, Types
<1>3. \A t \in Streams : Sent(t)' = Sent(t)
  BY <1>1, <1>2 DEF Sent
<1>4. \/ UNCHANGED <<hand, raced>>
      \/ /\ s = "out" /\ writer \in {"write", "test"} /\ raced' = raced \cup {hand}
         /\ hand[1] = "out" /\ \E n \in read[s] + 1 .. piped[s] : hand' = <<"out", n>>
  BY <1>1 DEF Refill
<1>5. raced \subseteq raced'
  BY <1>4
<1>6. writer \in {"write", "test"} => hand'[1] = hand[1]
  BY <1>4
<1>7. \A t \in Streams : Taken(t)' = Taken(t)
  BY <1>1, <1>3, <1>6 DEF Taken
<1>8. ASSUME writer' = "write" PROVE InPlace(hand, Sent(hand[1]))'
  <2>1. hand \in Items
    BY <1>1, <1>8 DEF OutInv, OutTypes
  <2>2. hand[1] \in Streams
    BY <2>1 DEF Items
  <2>3. InPlace(hand, Sent(hand[1]))
    BY <1>1, <1>8 DEF Placed
  <2>4. Sent(hand[1])' = Sent(hand[1])
    BY <1>1, <1>3, <1>6, <1>8, <2>2
  <2>5. CASE UNCHANGED <<hand, raced>>
    BY <2>3, <2>4, <2>5 DEF InPlace
  <2>6. CASE ~ UNCHANGED <<hand, raced>>
    BY <1>1, <1>4, <1>6, <1>8, <2>3, <2>4, <2>6 DEF InPlace
  <2> QED BY <2>5, <2>6
<1> QED BY <1>1, <1>5, <1>7, <1>8, FramePlaced

LEMMA SendPlaced == ASSUME OutInv, Placed, NEW s \in Streams, Send(s) PROVE Placed'
<1>1. /\ UNCHANGED <<read, raced, outLine, file>>
      /\ scan[s] = "send" /\ scan' = [scan EXCEPT ![s] = "report"]
      /\ writer = "select" /\ writer' = "write" /\ hand' = <<s, read[s]>>
  BY DEF Send
<1>2. /\ read \in [Streams -> Nat]
      /\ scan \in [Streams -> {"off", "scan", "send", "report", "done"}]
  BY DEF OutInv, OutTypes, Order, Types
<1>3. /\ Sent(s)' = read[s] /\ Sent(s) = read[s] - 1
      /\ \A t \in Streams : t # s => Sent(t)' = Sent(t)
  BY <1>1, <1>2 DEF Sent
<1>4. \A t \in Streams : Taken(t)' = Taken(t)
  BY <1>1, <1>3 DEF Taken
<1>5. InPlace(hand, Sent(hand[1]))'
  BY <1>1, <1>3 DEF InPlace
<1> QED BY <1>1, <1>4, <1>5, FramePlaced

LEMMA CollectPlaced == ASSUME OutInv, Placed, Collect PROVE Placed'
<1>1. /\ UNCHANGED <<read, scan, raced>> /\ writer = "write"
      /\ hand \in Items /\ hand[1] \in Streams
      /\ file \in Seq(Items) /\ outLine \in Seq(Items) /\ read \in [Streams -> Nat]
  BY DEF Collect, OutInv, OutTypes, Items
<1>2. Len(file) \in Nat /\ Len(outLine) \in Nat
  BY <1>1, LenProperties
<1>3. /\ \A s \in Streams : Sent(s)' = Sent(s) /\ Sent(s) \in Int
      /\ Sent(hand[1]) = Taken(hand[1]) + 1
      /\ \A s \in Streams : s # hand[1] => Taken(s) = Sent(s)
  BY <1>1 DEF Sent, Taken
<1>4. InPlace(hand, Sent(hand[1])) /\ Stored(hand[1]) = Taken(hand[1])
  BY <1>1 DEF Placed
<1>5. \A s \in Streams : Count(file, s, Len(file)) \in Nat
  BY <1>2, CountType
<1>6. CASE hand[1] = "err"
  <2>1. file' = Append(file, hand) /\ outLine' = outLine /\ writer' = "select"
    BY <1>6 DEF Collect
  <2>2. /\ Len(file') = Len(file) + 1 /\ file'[Len(file) + 1] = hand
        /\ \A i \in 1..Len(file) : file'[i] = file[i]
    BY <1>1, <2>1, AppendProperties
  <2>3. /\ \A s : \A i \in 1..Len(file) : Count(file', s, i) = Count(file, s, i)
        /\ \A s : Count(file', s, Len(file) + 1)
                    = Count(file, s, Len(file)) + (IF hand[1] = s THEN 1 ELSE 0)
    BY <1>1, <2>1, CountAppend
  <2>4. /\ Count(file', "out", Len(file')) = Count(file, "out", Len(file))
        /\ Count(file', "err", Len(file')) = Count(file, "err", Len(file)) + 1
    BY <1>5, <1>6, <2>2, <2>3 DEF Streams
  <2>5. \A s \in Streams : Stored(s)' = Taken(s)'
    <3>1. \A s \in Streams : Taken(s)' = Sent(s)
      BY <1>3, <2>1 DEF Taken
    <3>2. Stored("err")' = Taken("err")'
      BY <1>3, <1>4, <1>5, <1>6, <2>4, <3>1 DEF Stored, Streams
    <3>3. Stored("out")' = Taken("out")'
      BY <1>3, <1>6, <2>1, <2>4, <3>1 DEF Stored, Streams, Placed
    <3> QED BY <3>2, <3>3 DEF Streams
  <2>6. ASSUME NEW i \in 1..Len(file') PROVE InPlace(file[i], Count(file, file[i][1], i))'
    <3>1. CASE i = Len(file) + 1
      <4>1. Count(file', "err", i) = Sent("err")
        BY <1>3, <1>4, <1>5, <1>6, <2>2, <2>4, <3>1 DEF Stored, Streams
      <4> QED BY <1>1, <1>4, <1>6, <2>2, <3>1, <4>1 DEF InPlace
    <3>2. CASE i # Len(file) + 1
      <4>1. i \in 1..Len(file)
        BY <1>2, <2>2, <3>2
      <4>2. InPlace(file[i], Count(file, file[i][1], i))
        BY <4>1 DEF Placed
      <4> QED BY <1>1, <2>2, <2>3, <4>1, <4>2 DEF InPlace
    <3> QED BY <3>1, <3>2
  <2>7. \A i \in 1..Len(outLine') :
           outLine'[i][1] = "out" /\ InPlace(outLine[i], Count(file, "out", Len(file)) + i)'
    BY <1>1, <2>1, <2>4 DEF Placed, InPlace
  <2> QED BY <2>1, <2>5, <2>6, <2>7 DEF Placed
<1>7. CASE hand[1] = "out"
  <2>1. outLine' = Append(outLine, hand) /\ file' = file /\ writer' = "test" /\ hand' = hand
    BY <1>7 DEF Collect
  <2>2. /\ Len(outLine') = Len(outLine) + 1 /\ outLine'[Len(outLine) + 1] = hand
        /\ \A i \in 1..Len(outLine) : outLine'[i] = outLine[i]
    BY <1>1, <2>1, AppendProperties
  <2>3. Sent("out") = Count(file, "out", Len(file)) + (Len(outLine) + 1)
    BY <1>2, <1>3, <1>4, <1>5, <1>7 DEF Stored, Streams
  <2>4. \A s \in Streams : Stored(s)' = Taken(s)'
    <3>1. \A s \in Streams : Taken(s)' = Sent(s)
      BY <1>3, <2>1 DEF Taken
    <3>2. Stored("out")' = Taken("out")'
      BY <2>1, <2>2, <2>3, <3>1 DEF Stored, Streams
    <3>3. Stored("err")' = Taken("err")'
      BY <1>3, <1>7, <2>1, <3>1 DEF Stored, Streams, Placed
    <3> QED BY <3>2, <3>3 DEF Streams
  <2>5. ASSUME NEW i \in 1..Len(outLine')
        PROVE  outLine'[i][1] = "out" /\ InPlace(outLine[i], Count(file, "out", Len(file)) + i)'
    <3>1. CASE i = Len(outLine) + 1
      BY <1>1, <1>4, <1>7, <2>1, <2>2, <2>3, <3>1 DEF InPlace
    <3>2. CASE i # Len(outLine) + 1
      <4>1. i \in 1..Len(outLine)
        BY <1>2, <2>2, <3>2
      <4> QED BY <1>1, <2>1, <2>2, <4>1 DEF Placed, InPlace
    <3> QED BY <3>1, <3>2
  <2>6. \A i \in 1..Len(file') : InPlace(file[i], Count(file, file[i][1], i))'
    BY <1>1, <2>1 DEF Placed, InPlace
  <2> QED BY <2>1, <2>4, <2>5, <2>6 DEF Placed
<1> QED BY <1>6, <1>7 DEF Collect

\* The buffer goes to the end of the file.
LEMMA FlushPlaced == ASSUME OutInv, Placed, Newline \/ Flush \/ StopWriter PROVE Placed'
<1>1. /\ UNCHANGED <<read, scan, raced>>
      /\ writer # "write" /\ writer' \in {"select", "done"} /\ writer # "done"
      /\ \/ file' = file \o outLine /\ outLine' = <<>>
         \/ writer' = "select" /\ UNCHANGED <<file, outLine>>
      /\ file \in Seq(Items) /\ outLine \in Seq(Items)
  BY DEF Newline, Flush, StopWriter, OutInv, OutTypes
<1>2. \A s \in Streams : Taken(s)' = Taken(s)
  BY <1>1 DEF Taken, Sent
<1>3. CASE writer' = "select" /\ UNCHANGED <<file, outLine>>
  BY <1>1, <1>2, <1>3, FramePlaced
<1>4. CASE file' = file \o outLine /\ outLine' = <<>>
  <2>1. Len(file) \in Nat /\ Len(outLine) \in Nat /\ Len(outLine') = 0
    BY <1>1, <1>4, LenProperties
  <2>2. /\ Len(file') = Len(file) + Len(outLine)
        /\ \A i \in 1..Len(file) + Len(outLine) :
              file'[i] = IF i <= Len(file) THEN file[i] ELSE outLine[i - Len(file)]
    BY <1>1, <1>4, ConcatProperties
  <2>3. \A i \in 1..Len(outLine) : outLine[i][1] = "out"
    BY DEF Placed
  <2>4. /\ \A s : \A i \in 1..Len(file) : Count(file', s, i) = Count(file, s, i)
        /\ \A i \in 0..Len(outLine) :
              /\ Count(file', "out", Len(file) + i) = Count(file, "out", Len(file)) + i
              /\ Count(file', "err", Len(file) + i) = Count(file, "err", Len(file))
    BY <1>1, <1>4, <2>3, CountConcat
  <2>5. \A s \in Streams : Stored(s)' = Taken(s)'
    <3>1. /\ Count(file', "out", Len(file')) = Count(file, "out", Len(file)) + Len(outLine)
          /\ Count(file', "err", Len(file')) = Count(file, "err", Len(file))
      BY <2>1, <2>2, <2>4
    <3>2. \A s \in Streams : Count(file, s, Len(file)) \in Nat
      BY <2>1, CountType
    <3>3. \A s \in Streams : Stored(s)' = Stored(s)
      BY <2>1, <3>1, <3>2 DEF Stored, Streams
    <3> QED BY <1>2, <3>3 DEF Placed
  <2>6. ASSUME NEW i \in 1..Len(file') PROVE InPlace(file[i], Count(file, file[i][1], i))'
    <3>1. CASE i \in 1..Len(file)
      <4>1. file'[i] = file[i] /\ \A s : Count(file', s, i) = Count(file, s, i)
        BY <2>1, <2>2, <2>4, <3>1
      <4>2. InPlace(file[i], Count(file, file[i][1], i))
        BY <3>1 DEF Placed
      <4> QED BY <1>1, <4>1, <4>2 DEF InPlace
    <3>2. CASE i \notin 1..Len(file)
      <4>1. PICK k \in 1..Len(outLine) : i = Len(file) + k
        <5>1. i - Len(file) \in 1..Len(outLine) /\ i = Len(file) + (i - Len(file))
          BY <2>1, <2>2, <3>2
        <5> QED BY <5>1
      <4>2. file'[i] = outLine[k]
        BY <2>1, <2>2, <4>1
      <4>3. outLine[k][1] = "out" /\ InPlace(outLine[k], Count(file, "out", Len(file)) + k)
        BY DEF Placed
      <4>4. Count(file', "out", i) = Count(file, "out", Len(file)) + k
        BY <2>1, <2>4, <4>1
      <4> QED BY <1>1, <4>2, <4>3, <4>4 DEF InPlace
    <3> QED BY <3>1, <3>2
  <2> QED BY <1>1, <1>4, <2>1, <2>5, <2>6 DEF Placed
<1> QED BY <1>1, <1>3, <1>4

LEMMA NextPlaced == OutInv /\ Placed /\ [Next]_vars => Placed'
<1> SUFFICES ASSUME OutInv, Placed, [Next]_vars PROVE Placed'
  OBVIOUS
<1>1. CASE UNCHANGED vars
  <2>1. UNCHANGED <<read, scan, writer, hand, raced, outLine, file>>
    BY <1>1 DEF vars, outVars
  <2>2. Placed' <=> Placed
    BY <2>1 DEF Placed, Stored, Taken, Sent, InPlace
  <2> QED BY <2>2
<1>2. CASE Collect \/ Newline \/ Flush \/ StopWriter
  BY <1>2, CollectPlaced, FlushPlaced
<1>3. CASE \E s \in Streams : Scan(s) \/ Send(s)
  BY <1>3, ScanPlaced, SendPlaced
<1> QED BY <1>1, <1>2, <1>3, RunPlaced DEF Next, Scanner

\* When procOutput has ended the output file holds all that was written to the
\* pipes, or, of a stream whose scanner failed or whose pipe was closed too early,
\* all that was read, nothing of it twice and nothing out of order; only a rune
\* that the scanner overwrote has a later one in its place (pythonenv.go
\* procOutput and Run, singularity.go runWait).  This is the half of RunSettles
\* that is no liveness, for scripts that write any number of lines.
THEOREM OutputIsComplete == Spec => [](writer = "done" => Complete)
<1>1. ASSUME OutInv, Placed, writer = "done" PROVE Complete
  <2>1. \A s \in Streams : scan[s] = "done" /\ read[s] = Owed(s)
    BY <1>1 DEF OutInv, Order, Stopped, ReadAll, Owed
  <2>2. \A s \in Streams : Taken(s) = Owed(s)
    BY <1>1, <2>1 DEF Taken, Sent
  <2>3. outLine = <<>> /\ Len(outLine) = 0
    BY <1>1 DEF Placed
  <2>4. file \in Seq(Items)
    BY <1>1 DEF OutInv, OutTypes
  <2>5. \A s \in Streams : Count(file, s, Len(file)) \in Nat
    BY <2>4, LenProperties, CountType
  <2>6. \A s \in Streams : Count(file, s, Len(file)) = Owed(s)
    BY <1>1, <2>2, <2>3, <2>5 DEF Placed, Stored
  <2> QED BY <1>1, <2>6 DEF Placed, Complete
<1>2. OutInv /\ Placed => (writer = "done" => Complete)
  BY <1>1
<1> QED BY <1>2, InitOut, NextOut, InitPlaced, NextPlaced, PTL DEF Spec
=============================================================================
