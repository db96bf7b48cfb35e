--------------------------- MODULE Stage2Transfer ---------------------------
(***************************************************************************)
(* The routed handoff of Stage2 assignments (src/src/sync/stage2.cpp):     *)
(* every Stage1 worker parks its assignment in an outbox of its own before *)
(* its source row may go, and flushes the outbox into the queue of the     *)
(* Stage2 workers, at startup and after every task.                        *)
(*                                                                         *)
(* The source row and its receipt are those of Stage1Queue, with the       *)
(* commit as one step; a row interrupted before the receipt is worked on   *)
(* again and, resumed from its checkpoint, leaves the same assignment.     *)
(* The Stage2 side is reduced to what the handoff sees of it: progress     *)
(* file, finished record, queue row, in that order.                        *)
(***************************************************************************)
EXTENDS WorktodoFile

CONSTANTS
    Sources,       \* the Stage1 workers
    Todo,          \* Todo[s]: the assignments their rows lead to, in order
    Receivers,     \* the Stage2 workers
    Routing,       \* "fixed": one receiver; "list": the least loaded of Receivers;
                   \* "auto": the least loaded section of the queue
    Receiver,      \* Receiver[s]: the fixed receiver of a source
    FinishedOf,    \* FinishedOf[r]: the finished record of a receiver
    InitQueue,     \* the Stage2 worktodo text at the start
    MaxFault       \* bound: crashes and failed appends

\* The assignments: those of the sources, and those in the queue already.
Given == {InitQueue[i].row : i \in {j \in DOMAIN InitQueue : InitQueue[j].kind = "Task"}}
Rows  == UNION {Range(Todo[s]) : s \in Sources} \cup Given
Line  == [kind : {"Task"}, w : {0}, row : Rows]
         \cup [kind : {"Comment", "Foreign"}, w : {0}, row : {None}]
         \cup [kind : {"Header"}, w : Nat \ {0}, row : {None}]
Entry == [row : Rows, worker : Receivers, finished : Range(FinishedOf)]

ASSUME TodoAssumption == Todo \in [Sources -> Seq([stage : {2}, id : Nat])]
ASSUME NoneAssumption == None \notin Rows
ASSUME RoutingAssumption == /\ Routing \in {"fixed", "list", "auto"}
                            /\ Receivers \subseteq Nat \ {0}
                            /\ Receiver \in [Sources -> Receivers]
                            /\ DOMAIN FinishedOf = Receivers
\* With "auto", the sections of the queue are those of receivers.
ASSUME QueueAssumption == /\ InitQueue \in Seq(Line)
                          /\ Routing = "auto" => LoadedWorkers(InitQueue) \subseteq Receivers

VARIABLES
    queue,        \* the worktodo file of the Stage2 workers
    finished,     \* finished[f]: the rows recorded in a finished file
    outbox,       \* outbox[s]: the pending entries, durable
    todo,         \* todo[s]: the source rows still in the Stage1 queue
    receipt,      \* receipt[s]: a stored completion
    pc,           \* pc[s]: where the Stage1 process is
    booting,      \* booting[s]: it is still in its startup
    sent,         \* sent[s]: the entries the flush under way has appended
    task,         \* task[r]: the row a Stage2 worker works on
    s2pc,         \* s2pc[r]: where it is
    progress,     \* the rows with a complete progress file
    ran,          \* history: how often the curves of a row were run
    faults

vars == <<queue, finished, outbox, todo, receipt, pc, booting, sent,
          task, s2pc, progress, ran, faults>>

source == <<todo, receipt, pc, booting, sent, outbox>>
stage2 == <<task, s2pc, progress, ran, finished>>

Init ==
    /\ queue = InitQueue
    /\ finished = [f \in Range(FinishedOf) |-> {}]
    /\ outbox = [s \in Sources |-> <<>>]
    /\ todo = Todo
    /\ receipt = [s \in Sources |-> None]
    /\ pc = [s \in Sources |-> "down"]
    /\ booting = [s \in Sources |-> FALSE]
    /\ sent = [s \in Sources |-> 0]
    /\ task = [r \in Receivers |-> None]
    /\ s2pc = [r \in Receivers |-> "read"]
    /\ progress = {}
    /\ ran = [row \in Rows |-> 0]
    /\ faults = 0

Goto(s, from, to) == pc[s] = from /\ pc' = [pc EXCEPT ![s] = to]

(***************************************************************************)
(* The Stage1 process: flush, finish what a receipt stands for, then the   *)
(* rows one by one: park, store the completion, commit it, flush.          *)
(***************************************************************************)
\* Mutant: an outbox left by an earlier process is not looked at.
StartWithoutFlush(s) ==
    /\ Goto(s, "down", "finish")
    /\ booting' = [booting EXCEPT ![s] = TRUE]
    /\ UNCHANGED <<queue, stage2, todo, receipt, sent, outbox, faults>>

Start(s) ==
    /\ Goto(s, "down", "flush")
    /\ booting' = [booting EXCEPT ![s] = TRUE]
    /\ UNCHANGED <<queue, stage2, todo, receipt, sent, outbox, faults>>

Work(s) ==
    /\ Goto(s, "idle", "park")
    /\ todo[s] # <<>>
    /\ UNCHANGED <<queue, stage2, todo, receipt, booting, sent, outbox, faults>>

Exit(s) ==
    /\ Goto(s, "idle", "down")
    /\ todo[s] = <<>>
    /\ UNCHANGED <<queue, stage2, todo, receipt, booting, sent, outbox, faults>>

\* The receivers to choose from, and what each of them has to do already,
\* the undelivered entries of this outbox included.
Candidates ==
    IF Routing = "list" \/ LoadedWorkers(queue) = {} THEN Receivers ELSE LoadedWorkers(queue)

Load(s, r) ==
    (IF r \in LoadedWorkers(queue) THEN WorkerLoads(queue)[r] ELSE 0)
    + Cardinality({i \in DOMAIN outbox[s] : outbox[s][i].worker = r})

Least(s) == Min({r \in Candidates : \A q \in Candidates : Load(s, r) <= Load(s, q)})

Chosen(s) == IF Routing = "fixed" THEN Receiver[s] ELSE Least(s)

Parked(s) == [row |-> Head(todo[s]), worker |-> Chosen(s), finished |-> FinishedOf[Chosen(s)]]

Park(s) ==
    /\ Goto(s, "park", "store")
    /\ outbox' = [outbox EXCEPT ![s] = Append(@, Parked(s))]
    /\ UNCHANGED <<queue, stage2, todo, receipt, booting, sent, faults>>

Store(s) ==
    /\ Goto(s, "store", "finish")
    /\ receipt' = [receipt EXCEPT ![s] = Head(todo[s])]
    /\ UNCHANGED <<queue, stage2, todo, booting, sent, outbox, faults>>

\* finish_record: the row goes (see Stage1Queue for the steps), if there is a
\* receipt; a started process then takes its next row, a finished task is
\* followed by a flush.
Finish(s) ==
    /\ Goto(s, "finish", IF booting[s] THEN "idle" ELSE "flush")
    /\ booting' = [booting EXCEPT ![s] = FALSE]
    /\ receipt' = [receipt EXCEPT ![s] = None]
    /\ todo' = IF receipt[s] = None THEN todo ELSE [todo EXCEPT ![s] = Tail(@)]
    /\ UNCHANGED <<queue, stage2, sent, outbox, faults>>

\* One entry of the flush: append_unique on the receiver's queue.
FlushEntry(s) ==
    /\ pc[s] = "flush"
    /\ sent[s] < Len(outbox[s])
    /\ LET e == outbox[s][sent[s] + 1]
       IN  queue' = AppendUnique(queue, finished[e.finished], e.worker, e.row)
    /\ sent' = [sent EXCEPT ![s] = @ + 1]
    /\ UNCHANGED <<stage2, todo, receipt, pc, booting, outbox, faults>>

\* Mutant: the next flush counts on from the entries of the last one.
FlushAckCounting(s) ==
    /\ Goto(s, "flush", IF booting[s] THEN "finish" ELSE "idle")
    /\ \/ sent[s] = Len(outbox[s]) /\ UNCHANGED faults
       \/ sent[s] < Len(outbox[s]) /\ faults < MaxFault /\ faults' = faults + 1
    /\ outbox' = [outbox EXCEPT ![s] = SubSeq(@, sent[s] + 1, Len(@))]
    /\ UNCHANGED <<queue, stage2, todo, receipt, booting, sent>>

\* The appended entries leave the outbox in one write.
FlushAck(s) ==
    /\ Goto(s, "flush", IF booting[s] THEN "finish" ELSE "idle")
    /\ \/ sent[s] = Len(outbox[s]) /\ UNCHANGED faults
       \/ sent[s] < Len(outbox[s]) /\ faults < MaxFault /\ faults' = faults + 1
    /\ outbox' = [outbox EXCEPT ![s] = SubSeq(@, sent[s] + 1, Len(@))]
    /\ sent' = [sent EXCEPT ![s] = 0]
    /\ UNCHANGED <<queue, stage2, todo, receipt, booting>>

Crash(s) ==
    /\ pc[s] # "down" /\ faults < MaxFault
    /\ pc' = [pc EXCEPT ![s] = "down"]
    /\ sent' = [sent EXCEPT ![s] = 0]
    /\ faults' = faults + 1
    /\ UNCHANGED <<queue, stage2, todo, receipt, booting, outbox>>

(***************************************************************************)
(* The Stage2 workers, each in its own section.                            *)
(***************************************************************************)
NextTask(r) == ReadNext(queue, r, [priority |-> 0, skip |-> 0], 2)

S2Goto(r, from, to) == s2pc[r] = from /\ s2pc' = [s2pc EXCEPT ![r] = to]

S2Read(r) ==
    /\ S2Goto(r, "read", "run")
    /\ NextTask(r) # 0
    /\ task' = [task EXCEPT ![r] = queue[NextTask(r)].row]
    /\ UNCHANGED <<queue, source, progress, ran, finished, faults>>

\* A complete progress file of the same task is not run again.
S2Run(r) ==
    /\ S2Goto(r, "run", "record")
    /\ progress' = progress \cup {task[r]}
    /\ ran' = IF task[r] \in progress THEN ran ELSE [ran EXCEPT ![task[r]] = @ + 1]
    /\ UNCHANGED <<queue, source, task, finished, faults>>

\* Mutant: the finished record is written after the row is gone, if at all.
S2RecordUnwritten(r) ==
    /\ S2Goto(r, "record", "remove")
    /\ UNCHANGED <<queue, source, task, progress, ran, finished, faults>>

\* "task completed but worktodo changed" ends the process: nothing is recorded.
S2Record(r) ==
    /\ s2pc[r] = "record"
    /\ IF NextTask(r) # 0 /\ queue[NextTask(r)].row = task[r]
       THEN /\ finished' = [finished EXCEPT ![FinishedOf[r]] = @ \cup {task[r]}]
            /\ s2pc' = [s2pc EXCEPT ![r] = "remove"]
            /\ UNCHANGED task
       ELSE /\ s2pc' = [s2pc EXCEPT ![r] = "read"]
            /\ task' = [task EXCEPT ![r] = None]
            /\ UNCHANGED finished
    /\ UNCHANGED <<queue, source, progress, ran, faults>>

S2Remove(r) ==
    /\ S2Goto(r, "remove", "clean")
    /\ Found(queue, r, task[r])
    /\ queue' = Advanced(queue, r, task[r], "Remove", None)
    /\ UNCHANGED <<source, task, progress, ran, finished, faults>>

S2Clean(r) ==
    /\ S2Goto(r, "clean", "read")
    /\ progress' = progress \ {task[r]}
    /\ task' = [task EXCEPT ![r] = None]
    /\ UNCHANGED <<queue, source, ran, finished, faults>>

S2Crash(r) ==
    /\ s2pc[r] # "read" /\ faults < MaxFault
    /\ s2pc' = [s2pc EXCEPT ![r] = "read"]
    /\ task' = [task EXCEPT ![r] = None]
    /\ faults' = faults + 1
    /\ UNCHANGED <<queue, source, progress, ran, finished>>

Step(s) == \/ Start(s) \/ Work(s) \/ Exit(s) \/ Park(s) \/ Store(s)
           \/ Finish(s) \/ FlushEntry(s) \/ FlushAck(s)

S2Step(r) == S2Read(r) \/ S2Run(r) \/ S2Record(r) \/ S2Remove(r) \/ S2Clean(r)

Next == \/ \E s \in Sources : Step(s) \/ Crash(s)
        \/ \E r \in Receivers : S2Step(r) \/ S2Crash(r)

Spec == Init /\ [][Next]_vars

\* Every process takes its own steps and is started again after it ended.
LiveSpec == /\ Spec
            /\ \A s \in Sources : WF_vars(Step(s))
            /\ \A r \in Receivers : WF_vars(S2Step(r))
-----------------------------------------------------------------------------
(* Properties.                                                             *)

Queued(row)   == \E i \in DOMAIN queue : queue[i].kind = "Task" /\ queue[i].row = row
Owed(row)     == \E s \in Sources : \E i \in DOMAIN outbox[s] : outbox[s][i].row = row
Recorded(row) == \E f \in DOMAIN finished : row \in finished[f]

TypeOK ==
    /\ outbox \in [Sources -> Seq(Entry)]
    /\ queue \in Seq(Line)
    /\ finished \in [Range(FinishedOf) -> SUBSET Rows]
    /\ \A s \in Sources : \E n \in 0..Len(Todo[s]) : todo[s] = SubSeq(Todo[s], n + 1, Len(Todo[s]))
    /\ receipt \in [Sources -> Rows \cup {None}]
    /\ pc \in [Sources -> {"down", "flush", "finish", "idle", "park", "store"}]
    /\ sent \in [Sources -> Nat] /\ \A s \in Sources : sent[s] <= Len(outbox[s])
    /\ task \in [Receivers -> Rows \cup {None}]
    /\ s2pc \in [Receivers -> {"read", "run", "record", "remove", "clean"}]
    /\ progress \subseteq Rows /\ ran \in [Rows -> Nat] /\ booting \in [Sources -> BOOLEAN]

\* The curves of an assignment are run once, however often it is parked,
\* flushed and read again.
RunOnce == \A row \in Rows : ran[row] <= 1

\* Every assignment is run in the end.
AllRun == <>(\A row \in Rows : ran[row] >= 1 /\ Recorded(row) /\ ~Queued(row))

(***************************************************************************)
(* The refinement of AssignmentHandoff.                                    *)
(***************************************************************************)
Status == [row \in Rows |-> IF Recorded(row)  THEN "done"
                            ELSE IF Queued(row) THEN "queued"
                            ELSE IF Owed(row)   THEN "owed"
                            ELSE "held"]

Handoff == INSTANCE AssignmentHandoff WITH status <- Status

\* Parking, replaying and consuming an assignment is one move forward or none.
ImplementsHandoff == Handoff!Spec
=============================================================================
