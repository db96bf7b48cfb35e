--------------------------- MODULE MCPublication ---------------------------
(***************************************************************************)
(* An instance of Publication: two batches that share a curve, as fixed    *)
(* sigmas make them, and a third inside the first.                         *)
(***************************************************************************)
EXTENDS Publication

CONSTANTS b1, b2, b3

MCCurves == (b1 :> {1, 2}) @@ (b2 :> {2, 3}) @@ (b3 :> {1})
=============================================================================
