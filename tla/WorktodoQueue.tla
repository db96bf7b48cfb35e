--------------------------- MODULE WorktodoQueue ----------------------------
(***************************************************************************)
(* One worktodo file under the operations of its API, in any order and by  *)
(* any worker: select and advance (Stage1, Stage2, the legacy unsectioned  *)
(* view), route an assignment to a worker (the handoff between stages).    *)
(* The file starts as any short text, so that headers are repeated,        *)
(* missing, out of order or separated by bracket lines that mean nothing.  *)
(* Every operation is one step: it runs under the QueueEdit gate.          *)
(***************************************************************************)
EXTENDS WorktodoFile

CONSTANTS
    Workers,       \* the worker numbers with a section
    Rows,          \* the assignments
    Selections,    \* the (priority, skip) settings of the consumers
    Texts,         \* the texts the file may have at the start
    MaxRows        \* bound: rows, open or marked, up to which more are routed

Line == [kind : {"Task", "Error"}, w : {0}, row : Rows] \cup
        [kind : {"Comment", "Foreign"}, w : {0}, row : {None}] \cup
        [kind : {"Header"}, w : Nat \ {0}, row : {None}]

\* Any text of classified lines: a header names a worker from 1 on.
ASSUME WorkersAssumption == Workers \subseteq Nat \ {0}
ASSUME TextAssumption == Texts \subseteq Seq(Line)

VARIABLES queue, finished

vars == <<queue, finished>>

Init == queue \in Texts /\ finished = {}

\* The line a consumer of the worker reads, under some setting.
Readable(w) == {ReadNext(queue, w, sel, c) : sel \in Selections, c \in 0..2} \ {0}

\* The row a consumer selected is advanced by its text.  Stage2 records the
\* row as finished before it removes it.
Consume(w, i) ==
    LET r == queue[i].row IN
      \/ /\ queue' = Advanced(queue, w, r, "Remove", None)
         /\ finished' = finished \cup {r}
      \/ /\ \/ queue' = Advanced(queue, w, r, "MarkError", None)
            \/ \E n \in Rows : queue' = Advanced(queue, w, r, "Replace", n)
         /\ UNCHANGED finished

Route(w, row) ==
    /\ w # 0
    /\ Cardinality({i \in DOMAIN queue : queue[i].row # None}) < MaxRows
    /\ queue' = AppendUnique(queue, finished, w, row)
    /\ UNCHANGED finished

StepOf(w) == (\E i \in Readable(w) : Consume(w, i)) \/ (\E r \in Rows : Route(w, r))

Next == \E w \in Workers \cup {0} : StepOf(w)

Spec == Init /\ [][Next]_vars
-----------------------------------------------------------------------------
(* Properties.                                                             *)

\* The rows of a worker in the order it works on them.
RowsOf(f, w) ==
    LET own == Pick(f, {i \in DOMAIN f : f[i].kind = "Task" /\ Section(f, i) = w})
    IN  [n \in DOMAIN own |-> own[n].row]

\* A worker consumes and advances only its own section, and a row routed to it
\* leaves the rows of everybody else where they were, whatever headers the
\* compaction drops (worktodo.h: "a worker consumes and advances ONLY its own
\* section").
OwnSection ==
    [][\A w \in Workers : StepOf(w) =>
          \A v \in Workers \ {w} : RowsOf(queue', v) = RowsOf(queue, v)]_vars

\* No step changes the order of a worker's rows: it takes one out, rewrites one
\* in place or adds one at the end.
OrderKept ==
    [][\A w \in Workers :
          LET old == RowsOf(queue, w)  new == RowsOf(queue', w) IN
            \/ new = old
            \/ \E i \in DOMAIN old : new = RemoveAt(old, i)
            \/ \E i \in DOMAIN old, r \in Rows : new = ReplaceAt(old, i, r)
            \/ \E r \in Rows : new = Append(old, r)]_vars

\* The line advance changes is the line the consumer selected, although it is
\* looked up again by its text: identical rows come before it in no section
\* and at no priority.
SelectedIsTaken ==
    \A w \in Workers \cup {0}, sel \in Selections, c \in 0..2 :
        LET i == ReadNext(queue, w, sel, c)
        IN  i # 0 => Min(TicketAt(queue, w, queue[i].row)) = i
=============================================================================
