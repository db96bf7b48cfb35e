--------------------------- MODULE MCWorkerControl ---------------------------
(***************************************************************************)
(* Worker 1 crashes, changes its stage and runs out of rows; worker 2 has  *)
(* a long Stage1 row and keeps an exit waiting, perhaps for ever.  The     *)
(* Stage2 program may be missing.                                          *)
(***************************************************************************)
EXTENDS WorkerControl

MCHeads == {h \in [Workers -> 0..2] : h[2] = 1}
MCInstallations == {{}, {2}}
=============================================================================
