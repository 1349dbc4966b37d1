--------------------------- MODULE ServingBridgeMC ---------------------------
(***************************************************************************)
(* An instance of ServingBridge: two index files that may name either of   *)
(* two models, one of them with two blobs.                                 *)
(***************************************************************************)
EXTENDS ServingBridge

CONSTANTS k1, k2, m1, m2, b1, b2, other

Entry(base, key) == [base |-> base, key |-> key]

MCContents ==
    {<<Entry(m1, b1), Entry(m1, b2)>>, <<Entry(m2, b1)>>}
=============================================================================
