--------------------------- MODULE WorkQueueProofs ---------------------------
(***************************************************************************)
(* The three work queues implement AtLeastOnce, for any messages, workers, *)
(* crashes and failures, and hand a message to one worker at a time under  *)
(* the conditions their properties state.                                  *)
(*                                                                         *)
(* For each queue the invariant says where a message can be, and that an   *)
(* acked message is a consumed one.  Each step then maps to Send, Consume, *)
(* Drop or to no change of the queue.  RabbitQueue is extended; SQSQueue   *)
(* and FileQueue, whose variables have the same names, are instances.      *)
(***************************************************************************)
EXTENDS RabbitQueue, FiniteSets, FiniteSetTheorems, SequenceTheorems, TLAPS

CONSTANTS
    ExtendFails,                           \* of SQSQueue
    Names, MaxCrashes, MaxRefused          \* of FileQueue

VARIABLES
    deleted, hidden, receipt, due, failures,   \* of SQSQueue
    files, file, crashes, refused              \* of FileQueue

SQS == INSTANCE SQSQueue
Dir == INSTANCE FileQueue
-----------------------------------------------------------------------------
(* RabbitMQ.Work.                                                          *)

\* What a worker has was sent, and what it acks was consumed.
BrokerHeld ==
    /\ ready \subseteq sent
    /\ \A w \in Workers :
          /\ msg[w] # None => msg[w] \in sent
          /\ pc[w] = "handle" => msg[w] # None
          /\ pc[w] \in {"idle", "get"} => msg[w] = None
          /\ ack[w] => pc[w] = "settle" /\ msg[w] \in consumed

BrokerInv == TypeOK /\ OnePlace /\ BrokerHeld

LEMMA BrokerInit == Init => BrokerInv
BY NoneAssumption DEF Init, BrokerInv, TypeOK, OnePlace, BrokerHeld

LEMMA BrokerNext == BrokerInv /\ [Next]_vars => BrokerInv'
<1> SUFFICES ASSUME BrokerInv, [Next]_vars PROVE BrokerInv'
  OBVIOUS
<1> USE NoneAssumption DEF BrokerInv
<1>1. ASSUME NEW m \in Msgs, Publish(m) PROVE BrokerInv'
  <2>1. \A w \in Workers : unacked[w] # m
    BY <1>1 DEF Publish, TypeOK, OnePlace, BrokerHeld
  <2> QED BY <1>1, <2>1 DEF Publish, TypeOK, OnePlace, BrokerHeld, worker
<1>2. ASSUME NEW w \in Workers, Attach(w) PROVE BrokerInv'
  <2>1. msg[w] = None /\ unacked[w] = None
    BY <1>2 DEF Attach, OnePlace, BrokerHeld
  <2>2. TypeOK' /\ BrokerHeld'
    BY <1>2 DEF Attach, TypeOK, BrokerHeld, broker
  <2>3. OnePlace'
    BY <1>2, <2>1 DEF Attach, TypeOK, OnePlace, broker
  <2> QED BY <2>2, <2>3
<1>3. ASSUME NEW w \in Workers, Get(w) PROVE BrokerInv'
  <2>1. PICK m \in ready : /\ ready' = ready \ {m}
                           /\ unacked' = [unacked EXCEPT ![w] = m]
                           /\ msg' = [msg EXCEPT ![w] = m]
    BY <1>3 DEF Get
  <2>2. pc' = [pc EXCEPT ![w] = "handle"] /\ UNCHANGED <<sent, consumed, connected, ack>>
        /\ connected[w] /\ pc[w] = "get"
    BY <1>3 DEF Get
  <2>3. TypeOK'
    BY <2>1, <2>2 DEF TypeOK
  <2>4. OnePlace'
    BY <2>1, <2>2 DEF TypeOK, OnePlace
  <2>5. BrokerHeld'
    BY <2>1, <2>2 DEF TypeOK, BrokerHeld
  <2> QED BY <2>3, <2>4, <2>5
<1>4. ASSUME NEW w \in Workers, GetNothing(w) PROVE BrokerInv'
  <2>1. msg[w] = None /\ unacked[w] = None
    BY <1>4 DEF GetNothing, OnePlace, BrokerHeld
  <2>2. TypeOK' /\ BrokerHeld'
    BY <1>4 DEF GetNothing, Close, TypeOK, BrokerHeld, broker
  <2>3. OnePlace'
    BY <1>4, <2>1 DEF GetNothing, Close, TypeOK, OnePlace, broker
  <2> QED BY <2>2, <2>3
<1>5. ASSUME NEW w \in Workers, Handle(w) PROVE BrokerInv'
  <2>1. msg[w] \in Msgs
    BY <1>5 DEF Handle, TypeOK, BrokerHeld
  <2>2. TypeOK' /\ OnePlace'
    BY <1>5, <2>1 DEF Handle, TypeOK, OnePlace, broker
  <2>3. BrokerHeld'
    BY <1>5, <2>1 DEF Handle, TypeOK, BrokerHeld, broker
  <2> QED BY <2>2, <2>3
<1>6. ASSUME NEW w \in Workers, Close(w), UNCHANGED <<sent, consumed>>,
             \/ ready' = ready \/ ready' = ready \cup ({unacked[w]} \ {None}),
             unacked' = [unacked EXCEPT ![w] = None]
      PROVE  BrokerInv'
  <2>1. TypeOK'
    BY <1>6 DEF Close, TypeOK
  <2>2. BrokerHeld'
    BY <1>6 DEF Close, TypeOK, OnePlace, BrokerHeld
  <2>3. OnePlace'
    BY <1>6 DEF Close, TypeOK, OnePlace
  <2> QED BY <2>1, <2>2, <2>3
<1>7. ASSUME NEW w \in Workers, Settle(w) PROVE BrokerInv'
  <2>1. CASE ~connected[w] /\ UNCHANGED broker
    <3>1. unacked' = [unacked EXCEPT ![w] = None]
      BY <2>1 DEF TypeOK, OnePlace, broker
    <3> QED BY <1>6, <1>7, <2>1, <3>1 DEF Settle, broker
  <2>2. CASE connected[w] /\ Settled(w)
    BY <1>6, <1>7, <2>2 DEF Settle, Settled, Requeue
  <2> QED BY <1>7, <2>1, <2>2 DEF Settle
<1>8. ASSUME NEW w \in Workers, ConnectionLost(w) PROVE BrokerInv'
  <2>1. TypeOK'
    BY <1>8 DEF ConnectionLost, Requeue, TypeOK, worker
  <2>2. BrokerHeld'
    BY <1>8 DEF ConnectionLost, Requeue, TypeOK, OnePlace, BrokerHeld, worker
  <2>3. OnePlace'
    BY <1>8 DEF ConnectionLost, Requeue, TypeOK, OnePlace, worker
  <2> QED BY <2>1, <2>2, <2>3
<1>9. ASSUME NEW w \in Workers, Crash(w) PROVE BrokerInv'
  BY <1>6, <1>9 DEF Crash, Requeue
<1>10. CASE UNCHANGED vars
  BY <1>10 DEF vars, broker, worker, TypeOK, OnePlace, BrokerHeld
<1> QED
  BY <1>1, <1>2, <1>3, <1>4, <1>5, <1>7, <1>8, <1>9, <1>10 DEF Next, Work

\* In every reachable state a message is in one place and a connected worker
\* handles what its channel holds (rmq.go Work).
THEOREM MessagesInOnePlace == Spec => [](TypeOK /\ OnePlace)
<1>1. BrokerInv => TypeOK /\ OnePlace
  BY DEF BrokerInv
<1> QED BY <1>1, BrokerInit, BrokerNext, PTL DEF Spec
-----------------------------------------------------------------------------
\* Requeueing moves a message without changing what is kept.
LEMMA RequeueKeeps ==
    ASSUME TypeOK, NEW w \in Workers, Requeue(w)
    PROVE  kept' = kept
<1>1. \A v \in Workers : unacked'[v] = IF v = w THEN None ELSE unacked[v]
  BY DEF Requeue, TypeOK
<1> QED BY <1>1 DEF Requeue, kept

\* Every step of Work is a step of the abstract queue.
LEMMA BrokerRefines == BrokerInv /\ [Next]_vars => [Abstract!Next]_(Abstract!vars)
<1> SUFFICES ASSUME BrokerInv, [Next]_vars
             PROVE  Abstract!Next \/ UNCHANGED <<sent, kept, consumed>>
  BY DEF Abstract!vars
<1> USE NoneAssumption
<1>1. ASSUME NEW m \in Msgs, Publish(m) PROVE Abstract!Next
  <2>1. kept' = kept \cup {m}
    BY <1>1 DEF Publish, kept
  <2> QED BY <1>1, <2>1 DEF Publish, Abstract!Next, Abstract!Send
<1>2. ASSUME NEW w \in Workers, Attach(w) \/ GetNothing(w)
      PROVE  UNCHANGED <<sent, kept, consumed>>
  BY <1>2 DEF Attach, GetNothing, kept, broker
<1>3. ASSUME NEW w \in Workers, Get(w) PROVE UNCHANGED <<sent, kept, consumed>>
  <2>1. PICK m \in ready : ready' = ready \ {m} /\ unacked' = [unacked EXCEPT ![w] = m]
    BY <1>3 DEF Get
  <2>2. m # None
    BY DEF BrokerInv, TypeOK
  <2>3. unacked[w] = None
    BY <1>3 DEF Get, BrokerInv, OnePlace, BrokerHeld
  <2>4. \A v \in Workers : unacked'[v] = IF v = w THEN m ELSE unacked[v]
    BY <2>1 DEF BrokerInv, TypeOK
  <2>5. {unacked'[v] : v \in Workers} \ {None} = ({unacked[v] : v \in Workers} \ {None}) \cup {m}
    BY <2>2, <2>3, <2>4
  <2>6. kept' = kept
    BY <2>1, <2>5 DEF kept
  <2> QED BY <1>3, <2>6 DEF Get
<1>4. ASSUME NEW w \in Workers, Handle(w)
      PROVE  Abstract!Next \/ UNCHANGED <<sent, kept, consumed>>
  <2>1. msg[w] \in Msgs /\ msg[w] \in sent
    BY <1>4 DEF Handle, BrokerInv, TypeOK, BrokerHeld
  <2>2. sent' = sent /\ kept' = kept
    BY <1>4 DEF Handle, kept, broker
  <2>3. CASE consumed' = consumed \cup {msg[w]}
    BY <2>1, <2>2, <2>3 DEF Abstract!Next, Abstract!Consume
  <2> QED BY <1>4, <2>2, <2>3 DEF Handle
<1>5. ASSUME NEW w \in Workers, Settle(w)
      PROVE  Abstract!Next \/ UNCHANGED <<sent, kept, consumed>>
  <2>1. UNCHANGED <<sent, consumed>>
    BY <1>5 DEF Settle
  <2>2. CASE ~connected[w] /\ UNCHANGED broker
    BY <2>1, <2>2 DEF kept, broker
  <2>3. CASE ~ack[w] /\ Requeue(w)
    BY <2>1, <2>3, RequeueKeeps DEF BrokerInv
  <2>4. CASE ack[w] /\ connected[w] /\ unacked' = [unacked EXCEPT ![w] = None] /\ UNCHANGED ready
    <3>1. unacked[w] = msg[w] /\ msg[w] \in consumed
      BY <2>4 DEF BrokerInv, OnePlace, BrokerHeld
    <3>2. msg[w] \in Msgs /\ msg[w] # None
      BY <3>1 DEF BrokerInv, TypeOK
    <3>3. \A v \in Workers : unacked'[v] = IF v = w THEN None ELSE unacked[v]
      BY <2>4 DEF BrokerInv, TypeOK
    <3>4. msg[w] \notin ready /\ \A v \in Workers : v # w => unacked[v] # msg[w]
      BY <3>1, <3>2 DEF BrokerInv, OnePlace
    <3>5. kept' = kept \ {msg[w]} /\ msg[w] \in kept
      BY <2>4, <3>1, <3>2, <3>3, <3>4 DEF kept
    <3> QED BY <2>1, <3>1, <3>2, <3>5 DEF Abstract!Next, Abstract!Drop
  <2> QED BY <1>5, <2>2, <2>3, <2>4 DEF Settle, Settled
<1>6. ASSUME NEW w \in Workers, ConnectionLost(w) \/ Crash(w)
      PROVE  UNCHANGED <<sent, kept, consumed>>
  BY <1>6, RequeueKeeps DEF ConnectionLost, Crash, BrokerInv
<1>7. CASE UNCHANGED vars
  BY <1>7 DEF vars, broker, kept
<1> QED BY <1>1, <1>2, <1>3, <1>4, <1>5, <1>6, <1>7 DEF Next, Work

\* RabbitMQ.Work is an at-least-once queue: crashes and lost connections never
\* lose a message that no handler consumed.
THEOREM RabbitDelivers == Spec => Delivers
<1>1. Init => Abstract!Init
  BY DEF Init, kept, Abstract!Init
<1> QED BY <1>1, BrokerInit, BrokerNext, BrokerRefines, PTL DEF Spec, Delivers, Abstract!Spec
-----------------------------------------------------------------------------
(* SQS.Work.                                                               *)

\* The state of the service and of the workers.
SQSTypes ==
    /\ sent \subseteq Msgs
    /\ hidden \in [Msgs -> Nat] /\ receipt \in [Msgs -> Workers \cup {None}]
    /\ pc \in [Workers -> {"idle", "handle", "settle"}]
    /\ msg \in [Workers -> Msgs \cup {None}] /\ ack \in [Workers -> BOOLEAN]
    /\ due \in [Workers -> Nat] /\ failures \in Nat

\* What a worker has was sent, what it acks was consumed, and so was what is
\* deleted.
SQSHeld ==
    /\ deleted \subseteq consumed /\ deleted \subseteq sent
    /\ \A w \in Workers :
          /\ pc[w] # "idle" => msg[w] \in sent
          /\ ack[w] => pc[w] = "settle" /\ msg[w] \in consumed

\* Until an extension was refused, a message that is handled has the receipt
\* handle of its handler: nobody has received it since, so nobody else can
\* make it visible.
SQSReceipts ==
    failures = 0 =>
       \A w \in Workers : pc[w] = "handle" /\ msg[w] \notin deleted => receipt[msg[w]] = w

SQSInv == SQSTypes /\ SQSHeld /\ SQSReceipts /\ SQS!OneHandler

LEMMA SQSInit == SQS!Init => SQSInv
BY DEF SQS!Init, SQSInv, SQSTypes, SQSHeld, SQSReceipts, SQS!OneHandler

LEMMA SQSNext == SQSInv /\ [SQS!Next]_(SQS!vars) => SQSInv'
<1> SUFFICES ASSUME SQSInv, [SQS!Next]_(SQS!vars) PROVE SQSInv'
  OBVIOUS
<1> USE DEF SQSInv, SQS!service, SQS!worker, SQS!visTimeout, SQS!half, SQS!firstExtension
<1>1. ASSUME NEW m \in Msgs, SQS!Publish(m) PROVE SQSInv'
  BY <1>1 DEF SQS!Publish, SQSTypes, SQSHeld, SQSReceipts, SQS!OneHandler
<1>2. ASSUME NEW w \in Workers, SQS!Receive(w) PROVE SQSInv'
  <2>1. PICK m \in SQS!Visible : /\ hidden' = [hidden EXCEPT ![m] = 2]
                                 /\ receipt' = [receipt EXCEPT ![m] = w]
                                 /\ msg' = [msg EXCEPT ![w] = m]
    BY <1>2 DEF SQS!Receive
  <2>2. /\ pc' = [pc EXCEPT ![w] = "handle"] /\ due' = [due EXCEPT ![w] = 1]
        /\ UNCHANGED <<sent, consumed, deleted, ack, failures>> /\ pc[w] = "idle"
    BY <1>2 DEF SQS!Receive
  <2>3. m \in sent /\ m \in Msgs /\ m \notin deleted /\ hidden[m] = 0
    BY DEF SQS!Visible, SQSTypes
  <2>4. failures = 0 => \A v \in Workers : pc[v] = "handle" => msg[v] # m
    BY <2>3 DEF SQS!OneHandler, SQSTypes
  <2>5. SQSTypes'
    BY <2>1, <2>2, <2>3 DEF SQSTypes
  <2>6. SQSHeld'
    BY <2>1, <2>2, <2>3 DEF SQSTypes, SQSHeld
  <2>7. SQSReceipts'
    BY <2>1, <2>2, <2>3, <2>4 DEF SQSTypes, SQSHeld, SQSReceipts
  <2>8. SQS!OneHandler'
    BY <2>1, <2>2, <2>3, <2>4 DEF SQSTypes, SQSHeld, SQS!OneHandler
  <2> QED BY <2>5, <2>6, <2>7, <2>8
<1>3. ASSUME NEW w \in Workers, SQS!ReceiveCancelled(w) PROVE SQSInv'
  <2>1. PICK m \in SQS!Visible : /\ hidden' = [hidden EXCEPT ![m] = 2]
                                 /\ receipt' = [receipt EXCEPT ![m] = None]
    BY <1>3 DEF SQS!ReceiveCancelled
  <2>2. UNCHANGED <<sent, consumed, deleted, pc, msg, ack, due, failures>>
    BY <1>3 DEF SQS!ReceiveCancelled
  <2>3. m \in Msgs /\ m \notin deleted /\ hidden[m] = 0
    BY DEF SQS!Visible, SQSTypes
  <2>4. failures = 0 => \A v \in Workers : pc[v] = "handle" => msg[v] # m
    BY <2>3 DEF SQS!OneHandler, SQSTypes
  <2>5. SQSTypes' /\ SQSHeld'
    BY <2>1, <2>2, <2>3 DEF SQSTypes, SQSHeld
  <2>6. SQSReceipts' /\ SQS!OneHandler'
    BY <2>1, <2>2, <2>3, <2>4 DEF SQSTypes, SQSHeld, SQSReceipts, SQS!OneHandler
  <2> QED BY <2>5, <2>6
<1>4. ASSUME NEW w \in Workers, SQS!Extend(w) PROVE SQSInv'
  <2>1. msg[w] \in Msgs /\ due[w] = 0
    BY <1>4 DEF SQS!Extend, SQSTypes, SQSHeld
  <2>2. /\ due' = [due EXCEPT ![w] = 1]
        /\ UNCHANGED <<sent, consumed, deleted, receipt, pc, msg, ack>>
    BY <1>4 DEF SQS!Extend
  <2>3. CASE hidden' = hidden /\ failures' = failures + 1
    BY <2>1, <2>2, <2>3 DEF SQSTypes, SQSHeld, SQSReceipts, SQS!OneHandler
  <2>4. CASE SQS!ChangeVisibility(w, 2) /\ UNCHANGED failures
    <3>1. hidden' = IF receipt[msg[w]] = w THEN [hidden EXCEPT ![msg[w]] = 2] ELSE hidden
      BY <2>4 DEF SQS!ChangeVisibility
    <3>2. SQSTypes' /\ SQSHeld' /\ SQSReceipts'
      BY <2>1, <2>2, <2>4, <3>1 DEF SQSTypes, SQSHeld, SQSReceipts
    <3>3. ASSUME failures = 0, NEW v \in Workers, pc[v] = "handle", msg[v] \notin deleted
          PROVE  hidden'[msg[v]] > due'[v]
      <4>1. receipt[msg[v]] = v /\ hidden[msg[v]] > due[v] /\ msg[v] \in Msgs
        BY <3>3 DEF SQSTypes, SQSHeld, SQSReceipts, SQS!OneHandler
      <4>2. CASE v = w
        BY <4>1, <4>2, <2>2, <3>1 DEF SQSTypes
      <4>3. CASE v # w
        BY <4>1, <4>3, <2>1, <2>2, <3>1 DEF SQSTypes
      <4> QED BY <4>2, <4>3
    <3>4. SQS!OneHandler'
      BY <2>2, <2>4, <3>3 DEF SQS!OneHandler
    <3> QED BY <3>2, <3>4
  <2> QED BY <1>4, <2>3, <2>4 DEF SQS!Extend
<1>5. ASSUME NEW w \in Workers, SQS!Handle(w) PROVE SQSInv'
  <2>1. msg[w] \in sent
    BY <1>5 DEF SQS!Handle, SQSHeld
  <2>2. /\ pc' = [pc EXCEPT ![w] = "settle"]
        /\ UNCHANGED <<sent, deleted, hidden, receipt, msg, due, failures>>
        /\ \/ ack' = [ack EXCEPT ![w] = TRUE] /\ consumed' = consumed \cup {msg[w]}
           \/ UNCHANGED <<ack, consumed>>
    BY <1>5 DEF SQS!Handle
  <2>3. SQSTypes'
    BY <2>2 DEF SQSTypes
  <2>4. SQSHeld'
    BY <2>1, <2>2 DEF SQSTypes, SQSHeld
  <2>5. SQSReceipts' /\ SQS!OneHandler'
    BY <2>2 DEF SQSTypes, SQSReceipts, SQS!OneHandler
  <2> QED BY <2>3, <2>4, <2>5
<1>6. ASSUME NEW w \in Workers, SQS!Return(w), UNCHANGED <<sent, consumed, receipt, failures>>,
             \/ UNCHANGED <<deleted, hidden>>
             \/ pc[w] = "settle" /\ SQS!Disposed(w)
      PROVE  SQSInv'
  <2>1. /\ pc' = [pc EXCEPT ![w] = "idle"] /\ msg' = [msg EXCEPT ![w] = None]
        /\ ack' = [ack EXCEPT ![w] = FALSE] /\ due' = [due EXCEPT ![w] = 0]
    BY <1>6 DEF SQS!Return
  <2>2. CASE UNCHANGED <<deleted, hidden>>
    BY <1>6, <2>1, <2>2 DEF SQSTypes, SQSHeld, SQSReceipts, SQS!OneHandler
  <2>3. CASE ack[w] /\ deleted' = deleted \cup {msg[w]} /\ UNCHANGED hidden
    <3>1. msg[w] \in consumed /\ msg[w] \in sent
      BY <2>3 DEF SQSHeld
    <3> QED BY <1>6, <2>1, <2>3, <3>1 DEF SQSTypes, SQSHeld, SQSReceipts, SQS!OneHandler
  <2>4. CASE ~ack[w] /\ pc[w] = "settle" /\ SQS!ChangeVisibility(w, 0) /\ UNCHANGED deleted
    <3>1. hidden' = IF receipt[msg[w]] = w THEN [hidden EXCEPT ![msg[w]] = 0] ELSE hidden
      BY <2>4 DEF SQS!ChangeVisibility
    <3>2. msg[w] \in Msgs
      BY <2>4 DEF SQSTypes, SQSHeld
    <3>3. SQSTypes' /\ SQSHeld' /\ SQSReceipts'
      BY <1>6, <2>1, <2>4, <3>1, <3>2 DEF SQSTypes, SQSHeld, SQSReceipts
    <3>4. ASSUME failures = 0, NEW v \in Workers, pc'[v] = "handle", msg'[v] \notin deleted
          PROVE  hidden'[msg'[v]] > due'[v]
      <4>1. v # w /\ msg'[v] = msg[v] /\ due'[v] = due[v] /\ pc[v] = "handle"
        BY <2>1, <3>4 DEF SQSTypes
      <4>2. receipt[msg[v]] = v /\ hidden[msg[v]] > due[v]
        BY <3>4, <4>1 DEF SQSReceipts, SQS!OneHandler
      <4>3. hidden'[msg[v]] = hidden[msg[v]]
        BY <3>1, <3>2, <4>1, <4>2 DEF SQSTypes
      <4> QED BY <4>1, <4>2, <4>3
    <3>5. SQS!OneHandler'
      BY <1>6, <2>1, <2>4, <3>4 DEF SQSTypes, SQS!OneHandler
    <3> QED BY <3>3, <3>5
  <2> QED BY <1>6, <2>2, <2>3, <2>4 DEF SQS!Disposed
<1>7. ASSUME NEW w \in Workers, SQS!Settle(w) PROVE SQSInv'
  BY <1>6, <1>7 DEF SQS!Settle
<1>8. ASSUME NEW w \in Workers, SQS!Crash(w) PROVE SQSInv'
  BY <1>6, <1>8 DEF SQS!Crash
<1>9. ASSUME SQS!Clock PROVE SQSInv'
  <2>1. /\ hidden' = [m \in Msgs |-> IF hidden[m] > 0 THEN hidden[m] - 1 ELSE 0]
        /\ due' = [w \in Workers |-> IF due[w] > 0 THEN due[w] - 1 ELSE 0]
        /\ UNCHANGED <<sent, consumed, deleted, receipt, pc, msg, ack, failures>>
        /\ \A w \in Workers : pc[w] = "handle" => due[w] > 0
    BY <1>9 DEF SQS!Clock
  <2>2. SQSTypes' /\ SQSHeld' /\ SQSReceipts'
    BY <2>1 DEF SQSTypes, SQSHeld, SQSReceipts
  <2>3. SQS!OneHandler'
    BY <2>1 DEF SQSTypes, SQSHeld, SQS!OneHandler
  <2> QED BY <2>2, <2>3
<1>10. CASE UNCHANGED SQS!vars
  BY <1>10 DEF SQS!vars, SQSTypes, SQSHeld, SQSReceipts, SQS!OneHandler
<1> QED BY <1>1, <1>2, <1>3, <1>4, <1>5, <1>7, <1>8, <1>9, <1>10
        DEF SQS!Next, SQS!ReceiveNothing

\* While extensions succeed, no message has two handlers, for any number of
\* messages and workers: the message of a running handler stays hidden until
\* its extender's next turn (sqs.go Work).
THEOREM SQSOneHandler == SQS!Spec => []SQS!OneHandler
<1>1. SQSInv => SQS!OneHandler
  BY DEF SQSInv
<1> QED BY <1>1, SQSInit, SQSNext, PTL DEF SQS!Spec

\* Every step of Work is a step of the abstract queue.
LEMMA SQSRefines == SQSInv /\ [SQS!Next]_(SQS!vars) => [SQS!Abstract!Next]_(SQS!Abstract!vars)
<1> SUFFICES ASSUME SQSInv, [SQS!Next]_(SQS!vars)
             PROVE  SQS!Abstract!Next \/ UNCHANGED <<sent, SQS!kept, consumed>>
  BY DEF SQS!Abstract!vars
<1> USE DEF SQSInv, SQS!service, SQS!worker
<1>1. ASSUME NEW m \in Msgs, SQS!Publish(m) PROVE SQS!Abstract!Next
  <2>1. SQS!kept' = SQS!kept \cup {m}
    BY <1>1 DEF SQS!Publish, SQS!kept, SQSHeld
  <2> QED BY <1>1, <2>1 DEF SQS!Publish, SQS!Abstract!Next, SQS!Abstract!Send
<1>2. ASSUME NEW w \in Workers,
             SQS!Receive(w) \/ SQS!ReceiveCancelled(w) \/ SQS!Extend(w) \/ SQS!Crash(w)
      PROVE  UNCHANGED <<sent, SQS!kept, consumed>>
  BY <1>2 DEF SQS!Receive, SQS!ReceiveCancelled, SQS!Extend, SQS!Crash, SQS!kept
<1>3. ASSUME NEW w \in Workers, SQS!Handle(w)
      PROVE  SQS!Abstract!Next \/ UNCHANGED <<sent, SQS!kept, consumed>>
  <2>1. msg[w] \in Msgs /\ msg[w] \in sent
    BY <1>3 DEF SQS!Handle, SQSTypes, SQSHeld
  <2>2. sent' = sent /\ SQS!kept' = SQS!kept
    BY <1>3 DEF SQS!Handle, SQS!kept
  <2>3. CASE consumed' = consumed \cup {msg[w]}
    BY <2>1, <2>2, <2>3 DEF SQS!Abstract!Next, SQS!Abstract!Consume
  <2> QED BY <1>3, <2>2, <2>3 DEF SQS!Handle
<1>4. ASSUME NEW w \in Workers, SQS!Settle(w)
      PROVE  SQS!Abstract!Next \/ UNCHANGED <<sent, SQS!kept, consumed>>
  <2>1. UNCHANGED <<sent, consumed>>
    BY <1>4 DEF SQS!Settle
  <2>2. CASE UNCHANGED deleted
    BY <2>1, <2>2 DEF SQS!kept
  <2>3. CASE ack[w] /\ deleted' = deleted \cup {msg[w]}
    <3>1. msg[w] \in consumed /\ msg[w] \in sent /\ msg[w] \in Msgs
      BY <2>3 DEF SQSTypes, SQSHeld
    <3>2. SQS!kept' = SQS!kept \ {msg[w]}
      BY <2>1, <2>3 DEF SQS!kept
    <3>3. CASE msg[w] \in SQS!kept
      BY <2>1, <3>1, <3>2, <3>3 DEF SQS!Abstract!Next, SQS!Abstract!Drop
    <3>4. CASE msg[w] \notin SQS!kept
      BY <2>1, <3>2, <3>4
    <3> QED BY <3>3, <3>4
  <2> QED BY <1>4, <2>2, <2>3 DEF SQS!Settle, SQS!Disposed
<1>5. CASE SQS!Clock
  BY <1>5 DEF SQS!Clock, SQS!kept
<1>6. CASE UNCHANGED SQS!vars
  BY <1>6 DEF SQS!vars, SQS!kept
<1> QED BY <1>1, <1>2, <1>3, <1>4, <1>5, <1>6 DEF SQS!Next, SQS!ReceiveNothing

\* SQS.Work is an at-least-once queue: through crashes, cancelled receptions,
\* refused extensions and failed deletions, what is deleted was consumed.
THEOREM SQSDelivers == SQS!Spec => SQS!Delivers
<1>1. SQS!Init => SQS!Abstract!Init
  BY DEF SQS!Init, SQS!kept, SQS!Abstract!Init
<1> QED BY <1>1, SQSInit, SQSNext, SQSRefines, PTL
        DEF SQS!Spec, SQS!Delivers, SQS!Abstract!Spec
-----------------------------------------------------------------------------
(* LocalQueue.Work.                                                        *)

\* What is in the directory, or in the hands of a worker, was sent, and what is
\* acked was consumed.
DirHeld ==
    /\ sent \subseteq Msgs /\ files \in Seq([name : Names, msg : sent])
    /\ pc \in [Workers -> {"idle", "read", "remove", "handle", "settle"}]
    /\ ack \in [Workers -> BOOLEAN]
    /\ file \in [Workers -> [name : Names, msg : sent] \cup {None}]
    /\ \A w \in Workers :
          /\ pc[w] # "idle" => file[w] \in [name : Names, msg : sent]
          /\ ack[w] => pc[w] = "settle" /\ file[w].msg \in consumed

\* No two files of the directory have the same message.
DirDistinct == \A i, j \in 1..Len(files) : files[i].msg = files[j].msg => i = j

DirInv == DirHeld /\ DirDistinct /\ Dir!OneHandler

\* Removing the i-th of a sequence moves up those behind it.
LEMMA RemovedAt ==
    ASSUME NEW S, NEW s \in Seq(S), NEW i \in 1..Len(s)
    PROVE  /\ Dir!RemoveAt(s, i) \in Seq(S)
           /\ Len(Dir!RemoveAt(s, i)) = Len(s) - 1
           /\ \A j \in 1..(Len(s) - 1) :
                 Dir!RemoveAt(s, i)[j] = IF j < i THEN s[j] ELSE s[j + 1]
<1> DEFINE a == SubSeq(s, 1, i - 1)  b == SubSeq(s, i + 1, Len(s))
<1>1. /\ a \in Seq(S) /\ Len(a) = i - 1
      /\ \A j \in 1..(i - 1) : a[j] = s[j]
  OBVIOUS
<1>2. /\ b \in Seq(S) /\ Len(b) = Len(s) - i
      /\ \A j \in 1..(Len(s) - i) : b[j] = s[j + i]
  OBVIOUS
<1> HIDE DEF a, b
<1>3. /\ a \o b \in Seq(S) /\ Len(a \o b) = Len(a) + Len(b)
      /\ \A j \in 1..(Len(a) + Len(b)) :
            (a \o b)[j] = IF j <= Len(a) THEN a[j] ELSE b[j - Len(a)]
  BY <1>1, <1>2, ConcatProperties
<1>4. Dir!RemoveAt(s, i) = a \o b
  BY DEF a, b, Dir!RemoveAt
<1>5. Len(s) \in Nat
  OBVIOUS
<1>6. ASSUME NEW j \in 1..(Len(s) - 1)
      PROVE  (a \o b)[j] = IF j < i THEN s[j] ELSE s[j + 1]
  <2>1. CASE j < i
    BY <1>1, <1>2, <1>3, <1>5, <2>1
  <2>2. CASE ~(j < i)
    <3>1. j - (i - 1) \in 1..(Len(s) - i) /\ ~(j <= Len(a)) /\ j \in 1..(Len(a) + Len(b))
      BY <1>1, <1>2, <1>5, <2>2
    <3>2. b[j - (i - 1)] = s[(j - (i - 1)) + i] /\ (j - (i - 1)) + i = j + 1
      BY <1>2, <1>5, <3>1
    <3> QED BY <1>1, <1>3, <2>2, <3>1, <3>2
  <2> QED BY <2>1, <2>2
<1>7. Len(a \o b) = Len(s) - 1
  BY <1>1, <1>2, <1>3, <1>5
<1> QED BY <1>3, <1>4, <1>6, <1>7

LEMMA DirInit == Dir!Init => DirInv
BY DEF Dir!Init, DirInv, DirHeld, DirDistinct, Dir!OneHandler, Dir!Holding, Dir!ToSet

\* In a directory of distinct messages, removing a file removes its message.
LEMMA RemovedFile ==
    ASSUME DirHeld, DirDistinct, NEW f, Dir!Removed(f)
    PROVE  /\ files' \in Seq([name : Names, msg : sent])
           /\ \A i, j \in 1..Len(files') : files'[i].msg = files'[j].msg => i = j
           /\ Dir!ToSet(files') = Dir!ToSet(files) \ {f}
           /\ \A g \in Dir!ToSet(files') : g.msg # f.msg
<1>2. PICK k \in 1..Len(files) : files[k] = f /\ files' = Dir!RemoveAt(files, k)
  BY DEF Dir!Removed, DirHeld
<1> DEFINE Rec == [name : Names, msg : sent]
<1>3. files \in Seq(Rec) 
  BY DEF DirHeld
<1> HIDE DEF Rec
<1>4. /\ files' \in Seq(Rec) /\ Len(files') = Len(files) - 1
      /\ \A j \in 1..(Len(files) - 1) :
            files'[j] = IF j < k THEN files[j] ELSE files[j + 1]
  BY <1>2, <1>3, RemovedAt
<1>5. \A i, j \in 1..Len(files') : files'[i].msg = files'[j].msg => i = j
  BY <1>3, <1>4 DEF DirDistinct
<1>6. \A g \in Dir!ToSet(files') : g.msg # f.msg /\ g \in Dir!ToSet(files)
  <2> SUFFICES ASSUME NEW j \in 1..Len(files')
               PROVE  files'[j].msg # f.msg /\ files'[j] \in Dir!ToSet(files)
    BY <1>4 DEF Dir!ToSet
  <2>1. PICK i \in 1..Len(files) : files'[j] = files[i] /\ i # k
    BY <1>3, <1>4
  <2> QED BY <1>2, <1>3, <2>1 DEF DirDistinct, Dir!ToSet
<1>7. ASSUME NEW g \in Dir!ToSet(files), g # f PROVE g \in Dir!ToSet(files')
  <2>1. PICK j \in 1..Len(files) : files[j] = g
    BY <1>3 DEF Dir!ToSet
  <2>2. CASE j < k
    BY <1>3, <1>4, <2>1, <2>2 DEF Dir!ToSet
  <2>3. CASE j > k
    <3>1. j - 1 \in 1..Len(files') /\ files'[j - 1] = g
      BY <1>3, <1>4, <2>1, <2>3
    <3> QED BY <1>4, <3>1 DEF Dir!ToSet
  <2> QED BY <1>2, <1>7, <2>1, <2>2, <2>3
<1> QED BY <1>4, <1>5, <1>6, <1>7 DEF Rec

\* A published message is a new last file.
LEMMA AddedFile ==
    ASSUME DirHeld, NEW m, Dir!Published(m)
    PROVE  \E n \in Names :
              /\ files' = Append(files, [name |-> n, msg |-> m])
              /\ Dir!ToSet(files') = Dir!ToSet(files) \cup {[name |-> n, msg |-> m]}
<1>1. PICK n \in Names : files' = Append(files, [name |-> n, msg |-> m])
  BY DEF Dir!Published, Dir!FreshNames, Dir!File
<1> DEFINE Rec == [name : Names, msg : sent]
<1>3. files \in Seq(Rec)
  BY DEF DirHeld
<1> HIDE DEF Rec
<1> DEFINE f == [name |-> n, msg |-> m]
<1>4. files' = Append(files, f)
  BY <1>1
<1> HIDE DEF f
<1>5. /\ Len(files') = Len(files) + 1 /\ files'[Len(files) + 1] = f
      /\ DOMAIN files' = 1..(Len(files) + 1) /\ DOMAIN files = 1..Len(files) /\ Len(files) \in Nat
      /\ \A i \in 1..Len(files) : files'[i] = files[i]
  BY <1>3, <1>4
<1>6. Dir!ToSet(files') = Dir!ToSet(files) \cup {f}
  BY <1>5 DEF Dir!ToSet
<1> QED BY <1>1, <1>6 DEF f

\* A file with a message that no other has keeps the messages distinct.
LEMMA AddedLast ==
    ASSUME DirInv, NEW T, sent \subseteq T, NEW m \in T, NEW n \in Names,
           \A i \in 1..Len(files) : files[i].msg # m,
           files' = Append(files, [name |-> n, msg |-> m])
    PROVE  /\ files' \in Seq([name : Names, msg : T])
           /\ \A i, j \in 1..Len(files') : files'[i].msg = files'[j].msg => i = j
<1> DEFINE Rec == [name : Names, msg : T]  f == [name |-> n, msg |-> m]
<1>1. files \in Seq(Rec)
  <2> DEFINE Old == [name : Names, msg : sent]
  <2>1. files \in Seq(Old) /\ Old \subseteq Rec
    BY DEF DirInv, DirHeld
  <2> HIDE DEF Old, Rec
  <2>2. \A i \in 1..Len(files) : files[i] \in Rec
    BY <2>1, ElementOfSeq
  <2> QED BY <2>1, <2>2
<1>2. f \in Rec /\ f.msg = m /\ files' = Append(files, f)
  OBVIOUS
<1> HIDE DEF Rec, f
<1>3. /\ files' \in Seq(Rec) /\ Len(files') = Len(files) + 1 /\ Len(files) \in Nat
      /\ files'[Len(files) + 1] = f /\ \A i \in 1..Len(files) : files'[i] = files[i]
  BY <1>1, <1>2, AppendProperties
<1>4. \A i, j \in 1..Len(files') : files'[i].msg = files'[j].msg => i = j
  BY <1>2, <1>3 DEF DirInv, DirDistinct
<1> QED BY <1>3, <1>4 DEF Rec

LEMMA DirNext == DirInv /\ [Dir!Next]_(Dir!vars) => DirInv'
<1> SUFFICES ASSUME DirInv, [Dir!Next]_(Dir!vars) PROVE DirInv'
  OBVIOUS
<1> DEFINE Rec == [name : Names, msg : sent]
<1> USE DEF DirInv, Dir!worker, Dir!loss
<1>1. ASSUME NEW m \in Msgs, Dir!Publish(m) PROVE DirInv'
  <2>1. PICK n \in Names :
           /\ files' = Append(files, [name |-> n, msg |-> m])
           /\ Dir!ToSet(files') = Dir!ToSet(files) \cup {[name |-> n, msg |-> m]}
    BY <1>1, AddedFile DEF Dir!Publish
  <2>2. /\ m \notin sent /\ sent' = sent \cup {m}
        /\ UNCHANGED <<consumed, pc, file, ack>>
    BY <1>1 DEF Dir!Publish
  <2>3. /\ files' \in Seq([name : Names, msg : sent'])
        /\ \A i, j \in 1..Len(files') : files'[i].msg = files'[j].msg => i = j
    <3>1. \A i \in 1..Len(files) : files[i] \in Rec
      BY ElementOfSeq DEF DirHeld
    <3>2. \A i \in 1..Len(files) : files[i].msg # m
      BY <2>2, <3>1
    <3>3. DirInv /\ sent \subseteq sent' /\ m \in sent'
      BY <2>2
    <3> HIDE DEF DirInv, Rec
    <3> QED BY <2>1, <3>2, <3>3, AddedLast
  <2>4. DirHeld'
    BY <2>2, <2>3 DEF DirHeld
  <2>5. \A v \in Workers : Dir!Holding(v) => file[v].msg # m
    BY <2>2 DEF DirHeld, Dir!Holding
  <2>6. Dir!OneHandler'
    BY <2>1, <2>2, <2>5 DEF Dir!OneHandler, Dir!Holding
  <2> QED BY <2>3, <2>4, <2>6 DEF DirDistinct
<1>2. ASSUME NEW w \in Workers, Dir!GetOldest(w) PROVE DirInv'
  <2>1. Head(files) \in Rec
    BY <1>2, HeadTailProperties DEF Dir!GetOldest, DirHeld
  <2>2. /\ file' = [file EXCEPT ![w] = Head(files)] /\ pc' = [pc EXCEPT ![w] = "read"]
        /\ UNCHANGED <<sent, consumed, files, ack>> /\ pc[w] = "idle"
    BY <1>2 DEF Dir!GetOldest, Dir!Goto
  <2>3. DirHeld'
    BY <2>1, <2>2 DEF DirHeld
  <2>4. DirDistinct' /\ Dir!OneHandler'
    BY <2>2 DEF DirHeld, DirDistinct, Dir!OneHandler, Dir!Holding
  <2> QED BY <2>3, <2>4
<1>3. ASSUME NEW w \in Workers, Dir!Return(w), UNCHANGED <<sent, consumed, files>>
      PROVE DirInv'
  <2>1. /\ file' = [file EXCEPT ![w] = None] /\ pc' = [pc EXCEPT ![w] = "idle"]
        /\ ack' = [ack EXCEPT ![w] = FALSE]
    BY <1>3 DEF Dir!Return, Dir!Goto
  <2>2. DirHeld'
    BY <1>3, <2>1 DEF DirHeld
  <2>3. DirDistinct' /\ Dir!OneHandler'
    BY <1>3, <2>1 DEF DirHeld, DirDistinct, Dir!OneHandler, Dir!Holding
  <2> QED BY <2>2, <2>3
<1>4. ASSUME NEW w \in Workers, Dir!Read(w) PROVE DirInv'
  <2>1. CASE Dir!Present(file[w]) /\ Dir!Goto(w, "remove") /\ UNCHANGED <<file, ack>>
    <3>1. /\ pc' = [pc EXCEPT ![w] = "remove"] /\ pc[w] = "read"
          /\ UNCHANGED <<sent, consumed, files, file, ack>>
      BY <1>4, <2>1 DEF Dir!Read, Dir!Goto
    <3>2. DirHeld'
      BY <3>1 DEF DirHeld
    <3>3. DirDistinct' /\ Dir!OneHandler'
      BY <3>1 DEF DirHeld, DirDistinct, Dir!OneHandler, Dir!Holding
    <3> QED BY <3>2, <3>3
  <2> QED BY <1>3, <1>4, <2>1 DEF Dir!Read
<1>5. ASSUME NEW w \in Workers, Dir!RemoveFile(w) PROVE DirInv'
  <2>1. CASE Dir!Removed(file[w]) /\ Dir!Goto(w, "handle") /\ UNCHANGED <<file, ack>>
    <3>1. /\ pc' = [pc EXCEPT ![w] = "handle"] /\ pc[w] = "remove"
          /\ UNCHANGED <<sent, consumed, file, ack>>
      BY <1>5, <2>1 DEF Dir!RemoveFile, Dir!Goto
    <3>2. /\ files' \in Seq(Rec)
          /\ \A i, j \in 1..Len(files') : files'[i].msg = files'[j].msg => i = j
          /\ Dir!ToSet(files') = Dir!ToSet(files) \ {file[w]}
          /\ \A g \in Dir!ToSet(files') : g.msg # file[w].msg
      BY <2>1, RemovedFile
    <3>3. DirHeld'
      BY <3>1, <3>2 DEF DirHeld
    <3>4. DirDistinct'
      BY <3>2 DEF DirDistinct
    <3>5. \A v \in Workers : Dir!Holding(v) => file[v].msg # file[w].msg
      BY <2>1 DEF Dir!Removed, Dir!ToSet, Dir!OneHandler
    <3>6. Dir!OneHandler'
      BY <3>1, <3>2, <3>5 DEF DirHeld, Dir!OneHandler, Dir!Holding
    <3> QED BY <3>3, <3>4, <3>6
  <2> QED BY <1>3, <1>5, <2>1 DEF Dir!RemoveFile
<1>6. ASSUME NEW w \in Workers, Dir!Handle(w) PROVE DirInv'
  <2>1. /\ pc' = [pc EXCEPT ![w] = "settle"] /\ pc[w] = "handle"
        /\ UNCHANGED <<sent, files, file>>
        /\ \/ ack' = [ack EXCEPT ![w] = TRUE] /\ consumed' = consumed \cup {file[w].msg}
           \/ UNCHANGED <<ack, consumed>>
    BY <1>6 DEF Dir!Handle, Dir!Goto
  <2>2. DirHeld'
    BY <2>1 DEF DirHeld
  <2>3. DirDistinct' /\ Dir!OneHandler'
    BY <2>1 DEF DirHeld, DirDistinct, Dir!OneHandler, Dir!Holding
  <2> QED BY <2>2, <2>3
<1>7. ASSUME NEW w \in Workers, Dir!Settle(w) PROVE DirInv'
  <2>1. CASE UNCHANGED files
    BY <1>3, <1>7, <2>1 DEF Dir!Settle
  <2>2. CASE Dir!Published(file[w].msg)
    <3>1. /\ file' = [file EXCEPT ![w] = None] /\ pc' = [pc EXCEPT ![w] = "idle"]
          /\ ack' = [ack EXCEPT ![w] = FALSE] /\ UNCHANGED <<sent, consumed>>
          /\ pc[w] = "settle"
      BY <1>7 DEF Dir!Settle, Dir!Return, Dir!Goto
    <3> DEFINE m == file[w].msg
    <3>2. PICK n \in Names :
             /\ files' = Append(files, [name |-> n, msg |-> m])
             /\ Dir!ToSet(files') = Dir!ToSet(files) \cup {[name |-> n, msg |-> m]}
      BY <2>2, AddedFile
    <3>3. m \in sent /\ Dir!Holding(w)
      BY <3>1 DEF DirHeld, Dir!Holding
    <3>4. \A f \in Dir!ToSet(files) : f.msg # m
      BY <3>3 DEF Dir!OneHandler
    <3>5. \A v \in Workers : Dir!Holding(v) /\ file[v].msg = m => v = w
      BY <3>3 DEF Dir!OneHandler
    <3> HIDE DEF m
    <3>6. \A i \in 1..Len(files) : files[i].msg # m
      BY <3>4 DEF Dir!ToSet, DirHeld
    <3>7. /\ files' \in Seq([name : Names, msg : sent])
          /\ \A i, j \in 1..Len(files') : files'[i].msg = files'[j].msg => i = j
      BY <3>2, <3>3, <3>6, AddedLast
    <3>8. DirHeld'
      BY <3>1, <3>7 DEF DirHeld
    <3>9. Dir!OneHandler'
      BY <3>1, <3>2, <3>5 DEF DirHeld, Dir!OneHandler, Dir!Holding
    <3> QED BY <3>7, <3>8, <3>9 DEF DirDistinct
  <2> QED BY <1>7, <2>1, <2>2 DEF Dir!Settle, Dir!Settled
<1>8. ASSUME NEW w \in Workers, Dir!Crash(w) PROVE DirInv'
  BY <1>3, <1>8 DEF Dir!Crash
<1>9. ASSUME NEW w \in Workers, Dir!FileFails(w) PROVE DirInv'
  BY <1>3, <1>9 DEF Dir!FileFails
<1>10. CASE UNCHANGED Dir!vars
  BY <1>10 DEF Dir!vars, DirHeld, DirDistinct, Dir!OneHandler, Dir!Holding
<1> QED BY <1>1, <1>2, <1>4, <1>5, <1>6, <1>7, <1>8, <1>9, <1>10
        DEF Dir!Next, Dir!Work, Dir!GetNothing

\* Listing, reading and removing a file are separate calls, and still no message
\* is handled by two workers, nor by one while it is in the directory, however
\* many messages, workers and crashes there are (localfilequeue.go Work, Get).
THEOREM FileOneHandler == Dir!Spec => []Dir!OneHandler
<1>1. DirInv => Dir!OneHandler
  BY DEF DirInv
<1> QED BY <1>1, DirInit, DirNext, PTL DEF Dir!Spec

\* The messages that are gone, finitely many and no more than what failed.
Gone == sent \ (consumed \cup Dir!kept)

DirLoss == /\ crashes \in Nat /\ refused \in Nat
           /\ IsFiniteSet(Gone) /\ Cardinality(Gone) <= crashes + refused

LEMMA Bounds ==
    ASSUME NEW c \in Nat, NEW d \in Nat, NEW x \in Nat, NEW y \in Nat,
           NEW x1 \in Nat, NEW y1 \in Nat, c <= x + y
    PROVE  /\ d <= c /\ x1 + y1 >= x + y => d <= x1 + y1
           /\ d <= c + 1 /\ x1 + y1 >= x + y + 1 => d <= x1 + y1
OBVIOUS

\* A step that adds nothing to what is gone, or one message and one failure.
LEMMA LossStep ==
    ASSUME DirLoss, crashes' \in Nat, refused' \in Nat,
           \/ Gone' \subseteq Gone /\ crashes' + refused' >= crashes + refused
           \/ /\ \E m : Gone' \subseteq Gone \cup {m}
              /\ crashes' + refused' >= crashes + refused + 1
    PROVE  DirLoss'
<1> DEFINE G == Gone  H == Gone'
<1>1. IsFiniteSet(G) /\ Cardinality(G) \in Nat /\ Cardinality(G) <= crashes + refused
  BY FS_CardinalityType DEF DirLoss
<1>0. crashes \in Nat /\ refused \in Nat
  BY DEF DirLoss
<1> HIDE DEF G, H
<1>2. ASSUME H \subseteq G PROVE IsFiniteSet(H) /\ Cardinality(H) <= Cardinality(G)
  BY <1>1, <1>2, FS_Subset
<1>3. ASSUME NEW m, H \subseteq G \cup {m}
      PROVE  IsFiniteSet(H) /\ Cardinality(H) <= Cardinality(G) + 1
  <2>1. /\ IsFiniteSet(G \cup {m})
        /\ Cardinality(G \cup {m}) = Cardinality(G) \/ Cardinality(G \cup {m}) = Cardinality(G) + 1
    BY <1>1, FS_AddElement
  <2>2. IsFiniteSet(H) /\ Cardinality(H) <= Cardinality(G \cup {m})
    BY <1>3, <2>1, FS_Subset
  <2>3. Cardinality(H) \in Nat
    BY <2>2, FS_CardinalityType
  <2> QED BY <1>1, <2>1, <2>2, <2>3
<1>4. IsFiniteSet(H) /\ Cardinality(H) \in Nat /\ Cardinality(H) <= crashes' + refused'
  <2>1. CASE H \subseteq G /\ crashes' + refused' >= crashes + refused
    <3>1. IsFiniteSet(H) /\ Cardinality(H) <= Cardinality(G)
      BY <1>2, <2>1
    <3>2. Cardinality(H) \in Nat
      BY <3>1, FS_CardinalityType
    <3> QED BY <1>0, <1>1, <2>1, <3>1, <3>2, Bounds
  <2>2. ASSUME NEW m, H \subseteq G \cup {m}, crashes' + refused' >= crashes + refused + 1
        PROVE  IsFiniteSet(H) /\ Cardinality(H) \in Nat /\ Cardinality(H) <= crashes' + refused'
    <3>1. IsFiniteSet(H) /\ Cardinality(H) <= Cardinality(G) + 1
      BY <1>3, <2>2
    <3>2. Cardinality(H) \in Nat
      BY <3>1, FS_CardinalityType
    <3> QED BY <1>0, <1>1, <2>2, <3>1, <3>2, Bounds
  <2> QED BY <2>1, <2>2 DEF G, H
<1> QED BY <1>4 DEF H, DirLoss

\* A worker that returns takes at most the message it has with it.
LEMMA DirReturns ==
    ASSUME DirInv, NEW w \in Workers, Dir!Return(w), UNCHANGED <<sent, consumed>>,
           Dir!ToSet(files) \subseteq Dir!ToSet(files')
    PROVE  /\ Gone' \subseteq Gone \cup {file[w].msg}
           /\ ~Dir!Holding(w) \/ ack[w] => Gone' \subseteq Gone
           /\ file[w].msg \in {f.msg : f \in Dir!ToSet(files')} => Gone' \subseteq Gone
<1>1. /\ pc' = [pc EXCEPT ![w] = "idle"]
      /\ \A v \in Workers \ {w} : file'[v] = file[v]
  BY DEF Dir!Return, Dir!Goto, DirInv, DirHeld
<1>2. \A v \in Workers \ {w} : Dir!Holding(v)' = Dir!Holding(v) /\ file'[v] = file[v]
  BY <1>1 DEF Dir!Holding, DirInv, DirHeld
<1>3. \A m \in Dir!kept : (m = file[w].msg /\ Dir!Holding(w)) \/ m \in Dir!kept'
  BY <1>2 DEF Dir!kept
<1>4. ack[w] => file[w].msg \in consumed
  BY DEF DirInv, DirHeld
<1>5. {f.msg : f \in Dir!ToSet(files')} \subseteq Dir!kept'
  BY DEF Dir!kept
<1> QED BY <1>3, <1>4, <1>5 DEF Gone

LEMMA DirLossNext == DirInv /\ DirLoss /\ [Dir!Next]_(Dir!vars) => DirLoss'
<1> SUFFICES ASSUME DirInv, DirLoss, [Dir!Next]_(Dir!vars) PROVE DirLoss'
  OBVIOUS
<1> USE DEF Dir!worker, Dir!loss
<1>0. crashes \in Nat /\ refused \in Nat
  BY DEF DirLoss
<1> DEFINE Filed == {f.msg : f \in Dir!ToSet(files)}
           InMemory == {file[w].msg : w \in {v \in Workers : Dir!Holding(v)}}
\* Steps that lose nothing.
<1>a. ASSUME UNCHANGED <<crashes, refused>>, Gone' \subseteq Gone PROVE DirLoss'
  BY <1>0, <1>a, LossStep
<1>1. ASSUME NEW m \in Msgs, Dir!Publish(m) PROVE DirLoss'
  <2>1. PICK n \in Names :
           Dir!ToSet(files') = Dir!ToSet(files) \cup {[name |-> n, msg |-> m]}
    BY <1>1, AddedFile DEF Dir!Publish, DirInv
  <2>2. sent' = sent \cup {m} /\ UNCHANGED <<consumed, pc, file, crashes, refused>>
    BY <1>1 DEF Dir!Publish
  <2>3. Filed' = Filed \cup {m}
    <3> DEFINE f == [name |-> n, msg |-> m]
    <3>1. f.msg = m /\ Dir!ToSet(files') = Dir!ToSet(files) \cup {f}
      BY <2>1
    <3> HIDE DEF f
    <3> QED BY <3>1
  <2>4. InMemory' = InMemory
    BY <2>2 DEF Dir!Holding
  <2>5. Gone' \subseteq Gone
    BY <2>2, <2>3, <2>4 DEF Gone, Dir!kept
  <2> QED BY <1>a, <2>2, <2>5
<1>2. ASSUME NEW w \in Workers, Dir!GetOldest(w) PROVE DirLoss'
  <2>1. /\ pc' = [pc EXCEPT ![w] = "read"] /\ pc[w] = "idle"
        /\ \A v \in Workers \ {w} : file'[v] = file[v]
        /\ UNCHANGED <<sent, consumed, files, crashes, refused>>
    BY <1>2 DEF Dir!GetOldest, Dir!Goto, DirInv, DirHeld
  <2>2. \A v \in Workers : /\ Dir!Holding(v)' = Dir!Holding(v)
                           /\ Dir!Holding(v) => file'[v] = file[v]
    BY <2>1 DEF Dir!Holding, DirInv, DirHeld
  <2>3. InMemory' = InMemory
    BY <2>2
  <2> QED BY <1>a, <2>1, <2>3 DEF Gone, Dir!kept
<1>3. ASSUME NEW w \in Workers, Dir!Return(w), UNCHANGED <<sent, consumed, files, crashes, refused>>,
             ~Dir!Holding(w) \/ ack[w]
      PROVE  DirLoss'
  BY <1>a, <1>3, DirReturns
<1>4. ASSUME NEW w \in Workers, Dir!Read(w) PROVE DirLoss'
  <2>1. CASE Dir!Goto(w, "remove") /\ UNCHANGED <<file, ack>>
    <3>1. \A v \in Workers : Dir!Holding(v)' = Dir!Holding(v)
      BY <1>4, <2>1 DEF Dir!Read, Dir!Goto, Dir!Holding, DirInv, DirHeld
    <3>2. Gone' = Gone /\ UNCHANGED <<crashes, refused>>
      BY <1>4, <2>1, <3>1 DEF Dir!Read, Gone, Dir!kept
    <3> QED BY <1>a, <3>2
  <2> QED BY <1>3, <1>4, <2>1 DEF Dir!Read, Dir!Holding
<1>5. ASSUME NEW w \in Workers, Dir!RemoveFile(w) PROVE DirLoss'
  <2>1. CASE Dir!Removed(file[w]) /\ Dir!Goto(w, "handle") /\ UNCHANGED <<file, ack>>
    <3>1. Dir!ToSet(files') = Dir!ToSet(files) \ {file[w]} /\ file[w] \in Dir!ToSet(files)
      BY <2>1, RemovedFile DEF Dir!Removed, Dir!ToSet, DirInv
    <3>2. /\ Dir!Holding(w)' /\ ~Dir!Holding(w)
          /\ UNCHANGED <<file, sent, consumed, crashes, refused>>
          /\ \A v \in Workers \ {w} : Dir!Holding(v)' = Dir!Holding(v)
      BY <1>5, <2>1 DEF Dir!RemoveFile, Dir!Goto, Dir!Holding, DirInv, DirHeld
    <3>3. InMemory' = InMemory \cup {file[w].msg}
      BY <3>2
    <3>4. Filed' \cup {file[w].msg} = Filed
      BY <3>1
    <3>5. Gone' \subseteq Gone
      BY <3>2, <3>3, <3>4 DEF Gone, Dir!kept
    <3> QED BY <1>a, <3>2, <3>5
  <2> QED BY <1>3, <1>5, <2>1 DEF Dir!RemoveFile, Dir!Holding
<1>6. ASSUME NEW w \in Workers, Dir!Handle(w) PROVE DirLoss'
  <2>1. /\ \A v \in Workers : Dir!Holding(v)' = Dir!Holding(v)
        /\ UNCHANGED <<sent, files, file, crashes, refused>> /\ consumed \subseteq consumed'
    BY <1>6 DEF Dir!Handle, Dir!Goto, Dir!Holding, DirInv, DirHeld
  <2>2. Gone' \subseteq Gone
    BY <2>1 DEF Gone, Dir!kept
  <2> QED BY <1>a, <2>1, <2>2
<1>7. ASSUME NEW w \in Workers, Dir!Settle(w) PROVE DirLoss'
  <2>0. Dir!Return(w) /\ UNCHANGED <<sent, consumed, crashes>>
    BY <1>7 DEF Dir!Settle
  <2>1. CASE ack[w] /\ UNCHANGED <<files, refused>>
    BY <1>3, <2>0, <2>1
  <2>2. CASE Dir!Published(file[w].msg) /\ UNCHANGED refused
    <3> DEFINE m == file[w].msg
    <3>1. PICK n \in Names :
             Dir!ToSet(files') = Dir!ToSet(files) \cup {[name |-> n, msg |-> m]}
      BY <2>2, AddedFile DEF DirInv
    <3>2. m \in {f.msg : f \in Dir!ToSet(files')}
      <4> DEFINE f == [name |-> n, msg |-> m]
      <4>1. f.msg = m /\ Dir!ToSet(files') = Dir!ToSet(files) \cup {f}
        BY <3>1
      <4> HIDE DEF f, m
      <4> QED BY <4>1
    <3>3. Dir!ToSet(files) \subseteq Dir!ToSet(files')
      BY <3>1
    <3>4. Gone' \subseteq Gone
      BY <2>0, <3>2, <3>3, DirReturns
    <3> QED BY <1>a, <2>0, <2>2, <3>4
  <2>3. CASE refused' = refused + 1 /\ UNCHANGED files
    <3>1. Gone' \subseteq Gone \cup {file[w].msg}
      BY <2>0, <2>3, DirReturns
    <3>2. crashes' \in Nat /\ refused' \in Nat /\ crashes' + refused' >= crashes + refused + 1
      BY <1>0, <2>0, <2>3
    <3> QED BY <3>1, <3>2, LossStep
  <2> QED BY <1>7, <2>1, <2>2, <2>3 DEF Dir!Settle, Dir!Settled
<1>8. ASSUME NEW w \in Workers, Dir!Crash(w) PROVE DirLoss'
  <2>1. Gone' \subseteq Gone \cup {file[w].msg}
    BY <1>8, DirReturns DEF Dir!Crash
  <2>2. crashes' \in Nat /\ refused' \in Nat /\ crashes' + refused' >= crashes + refused + 1
    BY <1>0, <1>8 DEF Dir!Crash
  <2> QED BY <2>1, <2>2, LossStep
<1>9. ASSUME NEW w \in Workers, Dir!FileFails(w) PROVE DirLoss'
  BY <1>3, <1>9 DEF Dir!FileFails, Dir!Holding
<1>10. CASE UNCHANGED Dir!vars
  BY <1>a, <1>10 DEF Dir!vars, Gone, Dir!kept, Dir!Holding
<1> QED BY <1>1, <1>2, <1>4, <1>5, <1>6, <1>7, <1>8, <1>9, <1>10
        DEF Dir!Next, Dir!Work, Dir!GetNothing

\* The cardinality that FileQueue uses is the one the lemmas are about.
LEMMA DirCardinality == \A S : Dir!Cardinality(S) = Cardinality(S)
BY Zenon DEF Dir!Cardinality, Cardinality, Dir!IsFiniteSet, IsFiniteSet

\* No more messages of a file queue are gone than workers died with one or
\* second publishes failed (localfilequeue.go Get, Work): races and failing
\* reads and removals lose nothing, for any messages, workers and failures.
THEOREM FileLossBounded == Dir!Spec => []Dir!LossBounded
<1>1. Dir!Init => DirLoss
  <2> SUFFICES ASSUME Dir!Init PROVE DirLoss
    OBVIOUS
  <2>1. Gone = {} /\ crashes = 0 /\ refused = 0
    BY DEF Dir!Init, Gone
  <2> QED BY <2>1, FS_EmptySet DEF DirLoss
<1>2. DirLoss => Dir!LossBounded
  BY DirCardinality DEF DirLoss, Dir!LossBounded, Gone
<1> QED BY <1>1, <1>2, DirInit, DirNext, DirLossNext, PTL DEF Dir!Spec
=============================================================================
