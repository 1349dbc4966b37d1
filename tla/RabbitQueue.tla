----------------------------- MODULE RabbitQueue -----------------------------
(***************************************************************************)
(* RabbitMQ.Work (internal/runner/rmq.go) against the broker.  A worker    *)
(* attaches, gets one message without auto-ack, hands it to the handler    *)
(* and acks it or nacks it with requeue.  The broker requeues what a       *)
(* channel has not acked when the channel goes away, also while the        *)
(* handler of the message is still running.                                *)
(***************************************************************************)
EXTENDS FiniteSets

CONSTANTS
    Msgs,      \* messages
    Workers,   \* Work invocations, of any number of runners
    None       \* no message

ASSUME NoneAssumption == None \notin Msgs

VARIABLES
    sent,      \* messages ever published
    consumed,  \* messages for which a handler returned ack
    ready,     \* broker: messages that Get may return
    unacked,   \* broker: the message a worker's channel has not acked
    connected, \* the worker's connection is up
    pc,        \* per worker: idle, get, handle or settle
    msg,       \* per worker: the message its handler was given
    ack        \* per worker: what its handler returned

broker == <<ready, unacked>>
worker == <<pc, msg, ack>>
vars   == <<sent, consumed, broker, connected, worker>>

TypeOK ==
    /\ sent \subseteq Msgs /\ consumed \subseteq Msgs /\ ready \subseteq Msgs
    /\ unacked \in [Workers -> Msgs \cup {None}]
    /\ connected \in [Workers -> BOOLEAN]
    /\ pc \in [Workers -> {"idle", "get", "handle", "settle"}]
    /\ msg \in [Workers -> Msgs \cup {None}]
    /\ ack \in [Workers -> BOOLEAN]

Init ==
    /\ sent = {} /\ consumed = {} /\ ready = {}
    /\ unacked = [w \in Workers |-> None]
    /\ connected = [w \in Workers |-> FALSE]
    /\ pc = [w \in Workers |-> "idle"]
    /\ msg = [w \in Workers |-> None]
    /\ ack = [w \in Workers |-> FALSE]

Publish(m) ==
    /\ m \notin sent
    /\ sent' = sent \cup {m}
    /\ ready' = ready \cup {m}
    /\ UNCHANGED <<consumed, unacked, connected, worker>>

\* attach opens a connection and a channel.
Attach(w) ==
    /\ pc[w] = "idle"
    /\ pc' = [pc EXCEPT ![w] = "get"]
    /\ connected' = [connected EXCEPT ![w] = TRUE]
    /\ UNCHANGED <<sent, consumed, broker, msg, ack>>

\* The broker puts back what the channel had not acked.
Requeue(w) ==
    /\ ready' = ready \cup ({unacked[w]} \ {None})
    /\ unacked' = [unacked EXCEPT ![w] = None]

\* Work returns, its deferred function closes the channel.
Close(w) ==
    /\ pc' = [pc EXCEPT ![w] = "idle"]
    /\ msg' = [msg EXCEPT ![w] = None]
    /\ ack' = [ack EXCEPT ![w] = FALSE]
    /\ connected' = [connected EXCEPT ![w] = FALSE]

\* Mutation: messages are fetched with auto-ack.
GetAutoAck(w) ==
    /\ pc[w] = "get" /\ connected[w]
    /\ \E m \in ready :
          /\ ready' = ready \ {m}
          /\ msg' = [msg EXCEPT ![w] = m]
    /\ pc' = [pc EXCEPT ![w] = "handle"]
    /\ UNCHANGED <<sent, consumed, unacked, connected, ack>>

\* ch.Get(queue, false) returns a message ...
Get(w) ==
    /\ pc[w] = "get" /\ connected[w]
    /\ \E m \in ready :
          /\ ready' = ready \ {m}
          /\ unacked' = [unacked EXCEPT ![w] = m]
          /\ msg' = [msg EXCEPT ![w] = m]
    /\ pc' = [pc EXCEPT ![w] = "handle"]
    /\ UNCHANGED <<sent, consumed, connected, ack>>

\* ... or none, or fails.
GetNothing(w) ==
    /\ pc[w] = "get"
    /\ ready = {} \/ ~connected[w]
    /\ Close(w)
    /\ UNCHANGED <<sent, consumed, broker>>

\* The handler returns.
Handle(w) ==
    /\ pc[w] = "handle"
    /\ \/ /\ ack' = [ack EXCEPT ![w] = TRUE]
          /\ consumed' = consumed \cup {msg[w]}
       \/ UNCHANGED <<ack, consumed>>
    /\ pc' = [pc EXCEPT ![w] = "settle"]
    /\ UNCHANGED <<sent, broker, connected, msg>>

\* Mutation: a message that is not acked is dropped instead of requeued.
SettledDropping(w) ==
    /\ unacked' = [unacked EXCEPT ![w] = None]
    /\ UNCHANGED ready

\* msg.Ack removes the message, msg.Nack with requeue puts it back.
Settled(w) ==
    \/ /\ ack[w]
       /\ unacked' = [unacked EXCEPT ![w] = None]
       /\ UNCHANGED ready
    \/ /\ ~ack[w]
       /\ Requeue(w)

\* Ack and Nack have no effect on a connection that is gone.
Settle(w) ==
    /\ pc[w] = "settle"
    /\ \/ connected[w] /\ Settled(w)
       \/ ~connected[w] /\ UNCHANGED broker
    /\ Close(w)
    /\ UNCHANGED <<sent, consumed>>

\* The connection is lost; the worker finds out when it next uses it.
ConnectionLost(w) ==
    /\ connected[w]
    /\ connected' = [connected EXCEPT ![w] = FALSE]
    /\ Requeue(w)
    /\ UNCHANGED <<sent, consumed, worker>>

\* The runner dies, and its connection with it.
Crash(w) ==
    /\ pc[w] # "idle"
    /\ Requeue(w)
    /\ Close(w)
    /\ UNCHANGED <<sent, consumed>>

Work(w) == Get(w) \/ GetNothing(w) \/ Handle(w) \/ Settle(w)

Next ==
    \/ \E m \in Msgs : Publish(m)
    \/ \E w \in Workers : Attach(w) \/ Work(w) \/ ConnectionLost(w) \/ Crash(w)

Spec == Init /\ [][Next]_vars

\* A Work invocation goes on and its handler ends: Process bounds it.
FairSpec == Spec /\ \A w \in Workers : WF_vars(Work(w))
-----------------------------------------------------------------------------
(* Properties.                                                             *)

\* The queue keeps what is ready and what some channel has not acked.
kept == ready \cup ({unacked[w] : w \in Workers} \ {None})

Abstract == INSTANCE AtLeastOnce WITH sent <- sent, kept <- kept, consumed <- consumed

\* RabbitMQ.Work with this broker is an at-least-once queue: a message leaves
\* it only after a handler consumed it, through lost connections and crashes.
Delivers == Abstract!Spec

\* A message is in one place at the broker, so that it is not handed out twice
\* while one worker has it, and a worker whose connection is up is handling
\* exactly the message its channel has not acked.
OnePlace ==
    /\ \A w \in Workers : unacked[w] \notin ready
    /\ \A w, v \in Workers : unacked[w] = unacked[v] /\ unacked[w] # None => w = v
    /\ \A w \in Workers : unacked[w] = IF connected[w] THEN msg[w] ELSE None

\* A message that is not consumed is offered again, whatever happened to the
\* workers that had it.
ComesBack == \A m \in Msgs : m \in sent ~> m \in ready \cup consumed
=============================================================================
