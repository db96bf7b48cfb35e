-------------------------- MODULE AssignmentHandoff -------------------------
(***************************************************************************)
(* What the handoff from Stage1 to Stage2 promises: an assignment is owed  *)
(* from the moment Stage1 parks it, is put into the Stage2 queue once, is  *)
(* done once, and never goes back.                                         *)
(***************************************************************************)
CONSTANTS
    Rows,     \* the assignments
    Given     \* those that are in the Stage2 queue from the start

VARIABLE status

Init == status = [r \in Rows |-> IF r \in Given THEN "queued" ELSE "held"]

Move(r, from, to) == status[r] = from /\ status' = [status EXCEPT ![r] = to]

Next == \E r \in Rows : \/ Move(r, "held", "owed")
                        \/ Move(r, "owed", "queued")
                        \/ Move(r, "queued", "done")

Spec == Init /\ [][Next]_status
=============================================================================
