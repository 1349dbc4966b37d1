------------------------------ MODULE Allocator ------------------------------
(***************************************************************************)
(* What Alloc and Release of internal/resources/resources.go promise their *)
(* callers: "Alloc will go through all requested resources and allocate    *)
(* them using the resource APIs.  If any single resource be not available  *)
(* then the ones done so far will be released".  A handler has all that it *)
(* asked for or nothing, it gets it in one step, and the machine has it to *)
(* give at that step.                                                      *)
(***************************************************************************)
EXTENDS Integers, FiniteSets, Functions

CONSTANTS Tasks, Cards, CardSlots, CardMem, Requests,
          SoftMaxCores, SoftMaxMem, DiskSize, MinFree

VARIABLE grant   \* per handler that has an allocation: its request and cards

\* What is granted of one resource.
Granted(amount(_)) ==
    FoldFunction(+, 0, [t \in Tasks |-> IF t \in DOMAIN grant
                                        THEN amount(grant[t].rqst) ELSE 0])

\* The machine has what is granted.
Within ==
    /\ Granted(LAMBDA r : r.cpu) <= SoftMaxCores
    /\ Granted(LAMBDA r : r.mem) <= SoftMaxMem
    /\ Granted(LAMBDA r : r.disk) + MinFree <= DiskSize \/ Granted(LAMBDA r : r.disk) = 0

\* The cards are those the request asks for.
Suits(r, cards) ==
    IF r.gpu = 0 /\ r.gpuMem = 0
    THEN cards = {}
    ELSE /\ Cardinality(cards) = r.gpuCount
         /\ \A c \in cards : /\ CardSlots[c] = r.gpu
                             /\ r.gpuMem = 0 \/ CardMem[c] >= r.gpuMem

Init == grant = [t \in {} |-> {}]

\* A live Alloc succeeds.
Grant(t, r, cards) ==
    /\ t \notin DOMAIN grant
    /\ Suits(r, cards)
    /\ \A u \in DOMAIN grant : grant[u].cards \cap cards = {}
    /\ grant' = [u \in DOMAIN grant \cup {t} |->
                    IF u = t THEN [rqst |-> r, cards |-> cards] ELSE grant[u]]
    /\ Within'

\* Release.
Give(t) ==
    /\ t \in DOMAIN grant
    /\ grant' = [u \in DOMAIN grant \ {t} |-> grant[u]]

Next ==
    \E t \in Tasks : \/ \E r \in Requests, cards \in SUBSET Cards : Grant(t, r, cards)
                     \/ Give(t)

Spec == Init /\ [][Next]_grant
=============================================================================
