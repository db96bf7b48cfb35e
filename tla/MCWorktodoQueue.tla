-------------------------- MODULE MCWorktodoQueue ---------------------------
(***************************************************************************)
(* Every text of at most two lines, and some longer ones, with two         *)
(* workers' headers, a foreign bracket line, a comment, a Stage1 and a     *)
(* Stage2 row.                                                             *)
(***************************************************************************)
EXTENDS WorktodoQueue

MCRows == {[stage |-> 1, id |-> 1], [stage |-> 2, id |-> 2]}

MCLines == {TaskLine(r) : r \in MCRows} \cup {HeaderLine(1), HeaderLine(2), CommentLine, ForeignLine}

One == TaskLine([stage |-> 1, id |-> 1])
Two == TaskLine([stage |-> 2, id |-> 2])

H1 == HeaderLine(1)
H2 == HeaderLine(2)

MCTexts ==
    UNION {[1..n -> MCLines] : n \in 0..2} \cup
    {<<H2, One, H1, H2, One>>, <<H2, One, H1, H2>>, <<H2, H1, One, H1>>,
     <<H2, One, ForeignLine, H2, One>>, <<One, H2, One, H1, CommentLine>>,
     <<H2, ForeignLine, H1, ForeignLine, ForeignLine>>, <<One, H1, H1, CommentLine, H2>>}

MCSelections == {[priority |-> 0, skip |-> 0], [priority |-> 2, skip |-> 0], [priority |-> 0, skip |-> 1]}
=============================================================================
