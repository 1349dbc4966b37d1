------------------------------ MODULE SQSQueue ------------------------------
(***************************************************************************)
(* SQS.Work (pkg/aws/sqs.go) against the service.  A received message is   *)
(* hidden for visTimeout; while the handler runs, an extender goroutine    *)
(* asks every half of it for another visTimeout.  An acked message is      *)
(* deleted, another one is made visible at once; the results of these two  *)
(* calls are ignored.  A message nobody extends becomes visible by itself. *)
(*                                                                         *)
(* Time is counted in halves of the visibility timeout.                    *)
(***************************************************************************)
EXTENDS Naturals, FiniteSets

CONSTANTS
    Msgs,         \* messages
    Workers,      \* Work invocations, of any number of runners
    None,         \* no message
    ExtendFails   \* bound: extensions the service refuses

ASSUME ConstantsAssumption == None \notin Msgs /\ ExtendFails \in Nat

visTimeout == 2
half       == 1

VARIABLES
    sent, consumed,
    deleted,      \* service: messages that were deleted
    hidden,       \* service: halves until a message is visible, 0 when it is
    receipt,      \* service: the worker with the latest receipt handle
    pc,           \* per worker: idle, handle or settle
    msg, ack,     \* per worker: message, and what its handler returned
    due,          \* per worker: halves until its extender acts
    failures      \* extensions refused so far

service == <<deleted, hidden, receipt>>
worker  == <<pc, msg, ack, due>>
vars    == <<sent, consumed, service, worker, failures>>

Init ==
    /\ sent = {} /\ consumed = {} /\ deleted = {}
    /\ hidden = [m \in Msgs |-> 0]
    /\ receipt = [m \in Msgs |-> None]
    /\ pc = [w \in Workers |-> "idle"]
    /\ msg = [w \in Workers |-> None]
    /\ ack = [w \in Workers |-> FALSE]
    /\ due = [w \in Workers |-> 0]
    /\ failures = 0

Publish(m) ==
    /\ m \notin sent
    /\ sent' = sent \cup {m}
    /\ UNCHANGED <<consumed, service, worker, failures>>

Visible == {m \in sent \ deleted : hidden[m] = 0}

\* Mutation: the extender first acts when the timeout is over.
firstExtensionLate == visTimeout

\* timeout := visTimeout / 2, also for every later extension.
firstExtension == half

\* ReceiveMessage hides a message and the extender starts.
Receive(w) ==
    /\ pc[w] = "idle"
    /\ \E m \in Visible :
          /\ hidden' = [hidden EXCEPT ![m] = visTimeout]
          /\ receipt' = [receipt EXCEPT ![m] = w]
          /\ msg' = [msg EXCEPT ![w] = m]
    /\ pc' = [pc EXCEPT ![w] = "handle"]
    /\ due' = [due EXCEPT ![w] = firstExtension]
    /\ UNCHANGED <<sent, consumed, deleted, ack, failures>>

\* The context was done meanwhile: Work returns and the message stays hidden.
ReceiveCancelled(w) ==
    /\ pc[w] = "idle"
    /\ \E m \in Visible : /\ hidden' = [hidden EXCEPT ![m] = visTimeout]
                          /\ receipt' = [receipt EXCEPT ![m] = None]
    /\ UNCHANGED <<sent, consumed, deleted, worker, failures>>

\* There is no message.
ReceiveNothing(w) == pc[w] = "idle" /\ Visible = {} /\ UNCHANGED vars

\* ChangeMessageVisibility works with the latest receipt handle only.
ChangeVisibility(w, t) ==
    hidden' = IF receipt[msg[w]] = w THEN [hidden EXCEPT ![msg[w]] = t] ELSE hidden

\* The extender's turn.  A refused extension does not shorten the interval:
\* the variable halved on failure counts nanoseconds and is never over 5s.
\* It may be in the middle of an extension when the handler returns.
Extend(w) ==
    /\ pc[w] # "idle" /\ due[w] = 0
    /\ \/ /\ ChangeVisibility(w, visTimeout)
          /\ UNCHANGED failures
       \/ /\ failures < ExtendFails
          /\ failures' = failures + 1
          /\ UNCHANGED hidden
    /\ due' = [due EXCEPT ![w] = half]
    /\ UNCHANGED <<sent, consumed, deleted, receipt, pc, msg, ack>>

\* The handler returns; quitC is closed for the extender.
Handle(w) ==
    /\ pc[w] = "handle"
    /\ \/ /\ ack' = [ack EXCEPT ![w] = TRUE]
          /\ consumed' = consumed \cup {msg[w]}
       \/ UNCHANGED <<ack, consumed>>
    /\ pc' = [pc EXCEPT ![w] = "settle"]
    /\ UNCHANGED <<sent, service, msg, due, failures>>

Return(w) ==
    /\ pc' = [pc EXCEPT ![w] = "idle"]
    /\ msg' = [msg EXCEPT ![w] = None]
    /\ ack' = [ack EXCEPT ![w] = FALSE]
    /\ due' = [due EXCEPT ![w] = 0]

\* Mutation: the message is deleted whatever the handler returned.
DisposedAlways(w) ==
    /\ deleted' = deleted \cup {msg[w]}
    /\ UNCHANGED hidden

\* DeleteMessage, or ChangeMessageVisibility to 0.
Disposed(w) ==
    \/ /\ ack[w]
       /\ deleted' = deleted \cup {msg[w]}
       /\ UNCHANGED hidden
    \/ /\ ~ack[w]
       /\ ChangeVisibility(w, 0)
       /\ UNCHANGED deleted

\* The call may fail, and is not repeated.
Settle(w) ==
    /\ pc[w] = "settle"
    /\ Disposed(w) \/ UNCHANGED <<deleted, hidden>>
    /\ Return(w)
    /\ UNCHANGED <<sent, consumed, receipt, failures>>

\* The runner dies with its extender.
Crash(w) ==
    /\ pc[w] # "idle"
    /\ Return(w)
    /\ UNCHANGED <<sent, consumed, service, failures>>

\* Half a visibility timeout goes by.  Extenders that are due act first.
Clock ==
    /\ \A w \in Workers : pc[w] = "handle" => due[w] > 0
    /\ \E m \in sent : hidden[m] > 0
    /\ hidden' = [m \in Msgs |-> IF hidden[m] > 0 THEN hidden[m] - 1 ELSE 0]
    /\ due' = [w \in Workers |-> IF due[w] > 0 THEN due[w] - 1 ELSE 0]
    /\ UNCHANGED <<sent, consumed, deleted, receipt, pc, msg, ack, failures>>

Next ==
    \/ \E m \in Msgs : Publish(m)
    \/ \E w \in Workers :
          \/ Receive(w) \/ ReceiveCancelled(w) \/ ReceiveNothing(w) \/ Extend(w)
          \/ Handle(w) \/ Settle(w) \/ Crash(w)
    \/ Clock

Spec == Init /\ [][Next]_vars

\* Time passes, extenders act, handlers end: Process bounds them.
FairSpec ==
    /\ Spec
    /\ WF_vars(Clock)
    /\ \A w \in Workers : /\ WF_vars(Extend(w)) /\ WF_vars(Handle(w))
                          /\ WF_vars(Settle(w))
-----------------------------------------------------------------------------
(* Properties.                                                             *)

kept == sent \ deleted

Abstract == INSTANCE AtLeastOnce WITH sent <- sent, kept <- kept, consumed <- consumed

\* SQS.Work is an at-least-once queue: a message is only deleted after a
\* handler consumed it.
Delivers == Abstract!Spec

\* As long as no extension was refused, the extender keeps a message from being
\* handed out while its handler runs: no message has two handlers, and the one
\* being handled stays hidden until the next extension ("Start a visbility
\* timeout extender that runs until the work is done", sqs.go).
OneHandler ==
    failures = 0 =>
    /\ \A w, v \in Workers : pc[w] = "handle" /\ pc[v] = "handle" /\ msg[w] = msg[v] => w = v
    /\ \A w \in Workers : pc[w] = "handle" /\ msg[w] \notin deleted => hidden[msg[w]] > due[w]

\* "continue to try to change the visibility at decreasing intervals until we
\* finish the job" (sqs.go:282): with one refused extension in all, the retry
\* comes before the timeout.
OneHandlerAfterRefusal ==
    \A w, v \in Workers : pc[w] = "handle" /\ pc[v] = "handle" /\ msg[w] = msg[v] => w = v

\* A message that was not consumed becomes visible again, also when its worker
\* died, was cancelled on reception or failed to make it visible.
ComesBack ==
    \A m \in Msgs : m \in sent ~> m \in Visible \cup consumed
=============================================================================
