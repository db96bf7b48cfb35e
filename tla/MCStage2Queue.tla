---------------------------- MODULE MCStage2Queue ---------------------------
(***************************************************************************)
(* Instances of Stage2Queue: one or two rows over the same save.           *)
(***************************************************************************)
EXTENDS Stage2Queue

R(skip, count, b2) == [stage |-> 2, skip |-> skip, count |-> count, b2 |-> b2]

\* Two curves at b2 1, a policy of one curve, another bound, and a b2 below B1,
\* also for a curve the save does not have at first.
MCVariants == {R(0, 2, 1), R(0, 1, 1), R(0, 2, 2), R(1, 0, 1), R(0, 2, 0), R(2, 1, 0)}
MCInvalid  == {R(0, 2, 0), R(2, 1, 0)}
MCHits     == {<<2, 2>>}
MCQueue    == <<TaskLine(R(0, 2, 1)), TaskLine(R(1, 0, 1))>>
MCOne      == <<TaskLine(R(0, 2, 1))>>
=============================================================================
