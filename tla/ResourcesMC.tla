----------------------------- MODULE ResourcesMC -----------------------------
(* Model checking instances of Resources. *)
EXTENDS Resources, TLC

CONSTANTS c1, c2

Rqst(cpu, mem, disk, gpu, gpuMem, gpuCount) ==
    [cpu |-> cpu, mem |-> mem, disk |-> disk,
     gpu |-> gpu, gpuMem |-> gpuMem, gpuCount |-> gpuCount]

\* Two cards of the same size.
SameSlots == c1 :> 2 @@ c2 :> 2
Mem       == c1 :> 2 @@ c2 :> 1

\* Both cards; one card with memory; no card, many cores or much disk.
MixedRequests == {Rqst(1, 1, 1, 2, 0, 2), Rqst(1, 2, 2, 2, 2, 1), Rqst(2, 1, 1, 0, 0, 0),
                  Rqst(1, 1, 2, 0, 0, 0)}
=============================================================================
