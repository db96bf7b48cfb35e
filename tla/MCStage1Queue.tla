--------------------------- MODULE MCStage1Queue ---------------------------
(***************************************************************************)
(* Instances of Stage1Queue for TLC: two workers on one worktodo file,     *)
(* with identical rows in one section.                                     *)
(***************************************************************************)
EXTENDS Stage1Queue

CONSTANTS t1, t2, bad

MCRow(t) == [stage |-> 1, target |-> t, skip |-> 0]

\* Worker 1 has the same assignment twice; worker 2 has it too, with checkpoint
\* files of its own: both append to one save file.
MCQueue == <<TaskLine(MCRow(t1)), TaskLine(MCRow(t1)), HeaderLine(2), TaskLine(MCRow(t1))>>

\* Worker 1 has two targets, worker 2 only a row that cannot be parsed.
MCMixedQueue == <<TaskLine(MCRow(t1)), TaskLine(MCRow(t2)), HeaderLine(2), TaskLine(MCRow(bad))>>

\* One target in the sections of both workers.
MCTwoWorkers == <<TaskLine(MCRow(t1)), HeaderLine(2), TaskLine(MCRow(t1))>>

MCAnyStage == [priority |-> 0, skip |-> 0]

\* Checkpoint files are named by curve model, size and B1: numbers of one size
\* share a name, workers with one tmp_dir the files.
MCOwnPath    == [w \in Workers |-> [t \in Targets |-> <<w, t>>]]
MCOnePath    == [w \in Workers |-> [t \in Targets |-> <<w, 0>>]]
MCSharedPath == [w \in Workers |-> [t \in Targets |-> <<0, t>>]]

\* Bound: two batches with two faults or a fault and an edit, or a batch for
\* every row with none of these.
MCDisturbed == faults + edits <= IF nextId <= 2 THEN 2 ELSE 0

MCComment == {CommentLine}
MCNoEdits == {}
=============================================================================
