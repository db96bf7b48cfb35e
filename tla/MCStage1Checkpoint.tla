------------------------- MODULE MCStage1Checkpoint -------------------------
(***************************************************************************)
(* Instances of Stage1Checkpoint: three backups of which a session keeps   *)
(* one to three, two batches and three faults.                             *)
(***************************************************************************)
EXTENDS Stage1Checkpoint
=============================================================================
