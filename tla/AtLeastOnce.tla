----------------------------- MODULE AtLeastOnce -----------------------------
(***************************************************************************)
(* What the runner expects of a work queue (docs/interface.md): "a         *)
(* reliable, at-least-once, messaging system", in which "if the worker     *)
(* disappears, or work is not reclaimed by the worker as progress is made" *)
(* the work is requeued.  A message that was sent is kept by the queue     *)
(* until some handler consumed it (MsgHandler returned ack), however often *)
(* it is handed out.                                                       *)
(***************************************************************************)
EXTENDS FiniteSets

CONSTANT Msgs

VARIABLES
    sent,      \* messages put on the queue
    kept,      \* messages that are, or will be again, available
    consumed   \* messages for which a handler returned ack

vars == <<sent, kept, consumed>>

Init == sent = {} /\ kept = {} /\ consumed = {}

Send(m) ==
    /\ m \notin sent
    /\ sent' = sent \cup {m} /\ kept' = kept \cup {m}
    /\ UNCHANGED consumed

Consume(m) ==
    /\ m \in sent
    /\ consumed' = consumed \cup {m}
    /\ UNCHANGED <<sent, kept>>

Drop(m) ==
    /\ m \in kept /\ m \in consumed
    /\ kept' = kept \ {m}
    /\ UNCHANGED <<sent, consumed>>

Next == \E m \in Msgs : Send(m) \/ Consume(m) \/ Drop(m)

Spec == Init /\ [][Next]_vars
=============================================================================
