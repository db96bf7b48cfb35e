---------------------------- MODULE WorktodoFile ----------------------------
(***************************************************************************)
(* The text of one worktodo file as a sequence of classified lines, and    *)
(* the operations src/src/io/worktodo.cpp performs on that text: select    *)
(* the next assignment of a worker, replace / remove / mark one row, add a *)
(* routed row once.  Everything here is a function from the text that was  *)
(* read to the text that is written; who may call it when (edit lock,      *)
(* receipts, crashes) is the business of the modules that use it.          *)
(*                                                                         *)
(* A line is [kind, w, row].  kind says what classify_line makes of it; w  *)
(* is the worker a header names; row is the assignment of a task line, or  *)
(* the one quoted by a "# ..." line.  A row is any record with a field     *)
(* stage, 1 or 2 (the ECMSTAGE2= prefix or anything else).                 *)
(***************************************************************************)
EXTENDS Integers, Sequences, FiniteSets, SequencesExt

CONSTANT None      \* the absence of an assignment, a receipt, a checkpoint

TaskLine(r)    == [kind |-> "Task",    w |-> 0, row |-> r]
ErrorLine(r)   == [kind |-> "Error",   w |-> 0, row |-> r]
HeaderLine(n)  == [kind |-> "Header",  w |-> n, row |-> None]
CommentLine    == [kind |-> "Comment", w |-> 0, row |-> None]
ForeignLine    == [kind |-> "Foreign", w |-> 0, row |-> None]

\* The lines S of a file, in their order.
Nth(S, n)  == CHOOSE i \in S : Cardinality({k \in S : k <= i}) = n
Pick(f, S) == [n \in 1..Cardinality(S) |-> f[Nth(S, n)]]

(***************************************************************************)
(* Sections.  A header opens the section of its worker; what stands before *)
(* any header belongs to worker 1.  Other bracket lines open nothing.      *)
(***************************************************************************)
Headers(f, i) == {j \in 1..i : f[j].kind = "Header"}
Section(f, i) == IF Headers(f, i) = {} THEN 1 ELSE f[Max(Headers(f, i))].w

\* Mutant: sections are ignored.
WorkerMatchesAll(section, worker) == TRUE

\* worker <= 0 is the legacy view: the whole file is one queue.
WorkerMatches(section, worker) == worker <= 0 \/ section = worker

TaskAt(f, worker) ==
    {i \in DOMAIN f : f[i].kind = "Task" /\ WorkerMatches(Section(f, i), worker)}

(***************************************************************************)
(* ecm_worktodo_read_next_line: the position of the selected line, 0 for   *)
(* Empty.  A queue with a preferred stage takes its first row of that      *)
(* stage; a consumer of one stage waits when the selected row belongs to   *)
(* the other.  priority, skip: a stage, or 0 for none; consumer: a stage,  *)
(* or 0 for any.                                                           *)
(***************************************************************************)
Selected(f, worker, sel) ==
    LET visible   == {i \in TaskAt(f, worker) : f[i].row.stage # sel.skip}
        preferred == {i \in visible : f[i].row.stage = sel.priority}
    IN  IF preferred # {} THEN preferred ELSE visible

ReadNext(f, worker, sel, consumer) ==
    LET cand == Selected(f, worker, sel)
    IN  IF cand = {} THEN 0
        ELSE IF consumer \notin {0, f[Min(cand)].row.stage} THEN 0
        ELSE Min(cand)

\* ecm_worktodo_stage1_lines: the rows the startup repair looks at.
Stage1Rows(f, worker) == {i \in TaskAt(f, worker) : f[i].row.stage = 1}

(***************************************************************************)
(* ecm_worktodo_advance.  The ticket is matched by its exact text inside   *)
(* the worker's section; the first match is changed, nothing else is.      *)
(***************************************************************************)
\* Mutant: the text is looked for in the whole file.
TicketAnywhere(f, worker, row) == {i \in DOMAIN f : f[i].kind = "Task" /\ f[i].row = row}

TicketAt(f, worker, row) == {i \in TaskAt(f, worker) : f[i].row = row}

Found(f, worker, row) == TicketAt(f, worker, row) # {}

RemoveTicket(f, worker, row) == RemoveAt(f, Min(TicketAt(f, worker, row)))

ReplaceTicket(f, worker, row, line) ==
    ReplaceAt(f, Min(TicketAt(f, worker, row)), line)

\* The three WorktodoActions on a ticket that was found.
Advanced(f, worker, row, action, replacement) ==
    CASE action = "Remove"    -> RemoveTicket(f, worker, row)
      [] action = "MarkError" -> ReplaceTicket(f, worker, row, ErrorLine(row))
      [] action = "Replace"   -> ReplaceTicket(f, worker, row, TaskLine(replacement))

(***************************************************************************)
(* ecm_worktodo_append_unique.  A row that stands anywhere in the queue, or *)
(* in the receiver's finished record, is already delivered.  Otherwise the *)
(* redundant headers go, and the row follows the last line of the          *)
(* receiver's last segment; a receiver without one gets a header at the    *)
(* end of the file.                                                        *)
(***************************************************************************)
\* Mutant: the finished record is not looked at.
DeliveredIfQueued(f, done, row) == \E i \in DOMAIN f : f[i].kind = "Task" /\ f[i].row = row

Delivered(f, done, row) ==
    row \in done \/ \E i \in DOMAIN f : f[i].kind = "Task" /\ f[i].row = row

\* Mutant: any second header of a worker goes.
RedundantLater(f, i) ==
    f[i].kind = "Header" /\ \E j \in 1..(i - 1) : f[j].kind = "Header" /\ f[j].w = f[i].w

\* Header i repeats the section it stands in, and an explicit header of that
\* section was seen since the last foreign bracket line.
Redundant(f, i) ==
    /\ f[i].kind = "Header"
    /\ \E j \in 1..(i - 1) :
          /\ f[j].kind = "Header" /\ f[j].w = f[i].w
          /\ \A k \in (j + 1)..(i - 1) : f[k].kind \notin {"Header", "Foreign"}

Compact(f) == Pick(f, {i \in DOMAIN f : ~Redundant(f, i)})

\* Mutant: the row goes to the front of the receiver's section.
InsertRowFirst(f, worker, row) ==
    LET own == {i \in DOMAIN f : Section(f, i) = worker}
    IN  IF own # {}        THEN InsertAt(f, Min(own) + 1, TaskLine(row))
        ELSE IF worker = 1 THEN InsertAt(f, 1, TaskLine(row))
        ELSE f \o <<HeaderLine(worker), TaskLine(row)>>

InsertRow(f, worker, row) ==
    LET own == {i \in DOMAIN f : Section(f, i) = worker}
    IN  IF own # {}        THEN InsertAt(f, Max(own) + 1, TaskLine(row))
        ELSE IF worker = 1 THEN InsertAt(f, 1, TaskLine(row))
        ELSE f \o <<HeaderLine(worker), TaskLine(row)>>

AppendUnique(f, done, worker, row) ==
    IF Delivered(f, done, row) THEN f ELSE InsertRow(Compact(f), worker, row)

\* ecm_worktodo_list_workers and ecm_worktodo_worker_loads.
ListWorkers(f) == {Section(f, i) : i \in {j \in DOMAIN f : f[j].kind = "Task"}}

LoadedWorkers(f) == ListWorkers(f) \cup {f[i].w : i \in {j \in DOMAIN f : f[j].kind = "Header"}}

WorkerLoads(f) ==
    [w \in LoadedWorkers(f) |->
        Cardinality({i \in DOMAIN f : f[i].kind = "Task" /\ Section(f, i) = w})]
=============================================================================
