-------------------------- MODULE MCStage2Transfer --------------------------
(***************************************************************************)
(* One Stage1 worker with three assignments, two Stage2 workers that share *)
(* a finished record, and a target file with a section for each; the third *)
(* assignment is in the queue already.                                     *)
(***************************************************************************)
EXTENDS Stage2Transfer

A(n) == [stage |-> 2, id |-> n]

MCThree == <<<<A(1), A(2), A(3)>>>>

MCReceiver  == [s \in Sources |-> s]
MCSections  == <<HeaderLine(2), TaskLine(A(3)), CommentLine, HeaderLine(1)>>

MCShared == [r \in Receivers |-> "finished"]
=============================================================================
