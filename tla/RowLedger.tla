----------------------------- MODULE RowLedger -----------------------------
(***************************************************************************)
(* What the Stage1 queue promises the person who filled it, without files, *)
(* receipts or processes: every row is credited with a batch of curves of  *)
(* its own, by the worker whose section it stands in, or it is marked as   *)
(* an error - and in both cases exactly one row goes.                      *)
(***************************************************************************)
EXTENDS Integers

CONSTANTS Workers, Targets, Batches

VARIABLES
    open,       \* open[w][t]: the rows of target t in the section of w
    marked,     \* how many rows are marked as errors
    credited    \* who was paid: a worker and the batch that paid for a row of its

vars == <<open, marked, credited>>

Init ==
    /\ open \in [Workers -> [Targets -> Nat]]
    /\ marked \in Nat
    /\ credited = {}

Take(w, t) ==
    /\ open[w][t] > 0
    /\ open' = [open EXCEPT ![w][t] = @ - 1]

Credit(w, t, b) ==
    /\ Take(w, t)
    /\ \A c \in credited : c.batch # b
    /\ credited' = credited \cup {[w |-> w, batch |-> b]}
    /\ UNCHANGED marked

Mark(w, t) ==
    /\ Take(w, t)
    /\ marked' = marked + 1
    /\ UNCHANGED credited

Next == \E w \in Workers, t \in Targets :
            Mark(w, t) \/ \E b \in Batches : Credit(w, t, b)

Spec == Init /\ [][Next]_vars
=============================================================================
