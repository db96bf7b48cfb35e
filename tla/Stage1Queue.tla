----------------------------- MODULE Stage1Queue ----------------------------
(***************************************************************************)
(* The Stage1 queue workers of src/src/main.cpp: the loop of run_worktodo, *)
(* one task (run_one over run_stage1_task), and the durable completion of  *)
(* a task (finish_record over ecm_worktodo_commit_completion).             *)
(*                                                                         *)
(* Every file is a variable: the shared queue, finished, the save files,   *)
(* the internal results, one checkpoint per path, one completion receipt   *)
(* per worker.  Each durable write is a step of its own, so a process may  *)
(* die between any two of them; it comes back through Start and sees the   *)
(* files only.  write_atomic makes one write all-or-nothing, and a write   *)
(* that is reported as failed although it is visible (publication          *)
(* uncertain) ends the process like a crash after the write.               *)
(*                                                                         *)
(* A batch is one execution of a row: its sigmas, drawn once, are its id,  *)
(* and fix its outcome ("Points": it leaves a Stage2 residue to hand off,  *)
(* "Factor": residue but no handoff, "Empty": nothing saved).  A batch     *)
(* saves at most one record; count is 0 or 1.                              *)
(***************************************************************************)
EXTENDS WorktodoFile

CONSTANTS
    Workers,      \* the worker numbers that run Stage1 on this queue
    Targets,      \* what a row asks to factor (N, B1, curve model)
    Malformed,    \* the targets normalize_worktodo rejects
    Selection,    \* worktodo_priority and worktodo_skip: a stage, or 0
    Outcomes,     \* the outcomes a batch may have
    InitQueue,    \* the worktodo text at the start
    CkptPath,     \* CkptPath[w][t]: the checkpoint file of a row
    Edits,        \* the lines an editor may append, as a set
    Deletes,      \* may the editor delete a Stage1 row?
    MaxBatch, MaxFault, MaxEdit     \* bounds: batches; crashes, stops and failed runs; edits

Row     == [stage : {1, 2}, target : Targets, skip : Nat]
Line    == [kind : {"Task", "Error"}, w : {0}, row : Row]
           \cup [kind : {"Comment", "Foreign"}, w : {0}, row : {None}]
           \cup [kind : {"Header"}, w : Nat \ {0}, row : {None}]
Batch   == [id : Nat, target : Targets, outcome : Outcomes]
Record  == [target : Targets, skip : Nat, count : {0, 1}]
Paths   == UNION {{CkptPath[w][t] : t \in Targets} : w \in Workers}
Version == [before : Seq(Line), after : Seq(Line)]
Receipt == [ticket : Row, record : Record, replacement : Row \cup {None},
            path : Paths, evidence : Version \cup {None}, batch : Batch]
Repair  == [at : Nat, row : Row, count : Nat \cup {None}]

ASSUME WorkersAssumption  == Workers \subseteq Nat \ {0}
ASSUME TargetsAssumption  == Malformed \subseteq Targets
ASSUME SelectionAssumption == Selection \in [priority : 0..2, skip : 0..2]
ASSUME OutcomesAssumption == Outcomes \subseteq {"Points", "Factor", "Empty"}
ASSUME QueueAssumption    == InitQueue \in Seq(Line) /\ Edits \subseteq Line
ASSUME PathAssumption     == DOMAIN CkptPath = Workers
                             /\ \A w \in Workers : DOMAIN CkptPath[w] = Targets
ASSUME NoneAssumption    == None \notin Nat \cup Row \cup Batch \cup Record \cup Receipt \cup Version
ASSUME BoundsAssumption   == MaxBatch \in Nat /\ MaxFault \in Nat /\ MaxEdit \in Nat

VARIABLES
    queue,        \* worktodo.txt
    editLock,     \* the holder of the QueueEdit gate between two steps, 0: free
    finished,     \* the finished record, one entry per distinct text
    save,         \* save[t]: the batches whose record stands in the save file
    results,      \* the batches in the internal and submission results
    ckpt,         \* ckpt[p]: the batch a checkpoint file holds, or None
    ckptLock,     \* ckptLock[p]: the worker that has the batch open, 0: free
    receipt,      \* receipt[w]: the completion receipt, or None
    pc,           \* pc[w]: where the worker's process is
    booting,      \* booting[w]: the process has not entered its task loop yet
    ticket,       \* ticket[w]: the row text the process works on
    batch,        \* batch[w]: the batch it computes
    range,        \* range[w]: the verified save range of that batch
    rows,         \* rows[w]: the rows the startup repair has left, each with
                  \* the record count cached for its save file
    taken,        \* history: the completions whose queue write happened
    s2done,       \* history: the Stage2 rows consumed by Stage2
    nextId, faults, edits

files == <<queue, editLock, finished, save, results, ckpt, ckptLock, receipt>>
local == <<pc, booting, ticket, batch, range, rows>>
aux   == <<taken, s2done, nextId, faults, edits>>
vars  == <<files, local, aux>>

PC == {"down", "repair", "rows", "idle", "claim", "open", "seed", "run", "failed", "results",
       "store", "commit", "advance", "write", "cleanup", "ack"}

Path(w) == CkptPath[w][ticket[w].target]

Init ==
    /\ queue = InitQueue
    /\ editLock = 0
    /\ finished = {}
    /\ save = [t \in Targets |-> <<>>]
    /\ results = {}
    /\ ckpt = [p \in Paths |-> None]
    /\ ckptLock = [p \in Paths |-> 0]
    /\ receipt = [w \in Workers |-> None]
    /\ pc = [w \in Workers |-> "down"]
    /\ booting = [w \in Workers |-> FALSE]
    /\ ticket = [w \in Workers |-> None]
    /\ batch = [w \in Workers |-> None]
    /\ range = [w \in Workers |-> None]
    /\ rows = [w \in Workers |-> {}]
    /\ taken = <<>> /\ s2done = {}
    /\ nextId = 0 /\ faults = 0 /\ edits = 0

Goto(w, from, to) == pc[w] = from /\ pc' = [pc EXCEPT ![w] = to]

\* The locks a process holds go with it; so does everything in its memory.
Unlocked(w) == [p \in Paths |-> IF ckptLock[p] = w THEN 0 ELSE ckptLock[p]]

Die(w) ==
    /\ pc' = [pc EXCEPT ![w] = "down"]
    /\ ckptLock' = Unlocked(w)
    /\ editLock' = IF editLock = w THEN 0 ELSE editLock
    /\ ticket' = [ticket EXCEPT ![w] = None]
    /\ batch' = [batch EXCEPT ![w] = None]
    /\ range' = [range EXCEPT ![w] = None]
    /\ rows' = [rows EXCEPT ![w] = {}]
    /\ booting' = [booting EXCEPT ![w] = FALSE]
    /\ UNCHANGED <<queue, finished, save, results, ckpt, receipt>>

(***************************************************************************)
(* Startup: own the queue section, finish what an earlier process left,    *)
(* correct the skip of the worker's own Stage1 rows.                       *)
(***************************************************************************)
\* Mutant: startup goes on without finishing what the receipt stands for.
StartFresh(w) ==
    /\ pc[w] = "down"
    /\ pc' = [pc EXCEPT ![w] = "repair"]
    /\ booting' = [booting EXCEPT ![w] = TRUE]
    /\ UNCHANGED <<files, ticket, batch, range, rows, aux>>

\* The process owns its section; finish_record first: without a receipt there
\* is nothing to finish.
Start(w) ==
    /\ pc[w] = "down"
    /\ pc' = [pc EXCEPT ![w] = IF receipt[w] = None THEN "repair" ELSE "commit"]
    /\ booting' = [booting EXCEPT ![w] = TRUE]
    /\ UNCHANGED <<files, ticket, batch, range, rows, aux>>

Unrepaired(w) == {i \in Stage1Rows(queue, w) :
                    /\ queue[i].row.target \notin Malformed
                    /\ queue[i].row.skip = 0}

\* The rows are read once and then corrected one by one.
RepairRead(w) ==
    /\ Goto(w, "repair", "rows")
    /\ rows' = [rows EXCEPT ![w] = {[at |-> i, row |-> queue[i].row, count |-> None] :
                                      i \in Unrepaired(w)}]
    /\ UNCHANGED <<files, booting, ticket, batch, range, aux>>

NextRepair(w) == CHOOSE x \in rows[w] : x.at = Min({y.at : y \in rows[w]})

\* The first row of a save file counts its records, for all rows of that file:
\* another worker may append to it while they are corrected.  Without a record
\* the skip of these rows stays 0.
CountRows(w) ==
    /\ pc[w] = "rows"
    /\ rows[w] # {}
    /\ NextRepair(w).count = None
    /\ LET t    == NextRepair(w).row.target
           same == {x \in rows[w] : x.row.target = t}
       IN  rows' = [rows EXCEPT ![w] = (@ \ same) \cup
                      IF save[t] = <<>> THEN {}
                      ELSE {[x EXCEPT !.count = Len(save[t])] : x \in same}]
    /\ UNCHANGED <<files, pc, booting, ticket, batch, range, aux>>

RepairRow(w) ==
    /\ pc[w] = "rows" /\ editLock = 0
    /\ rows[w] # {}
    /\ NextRepair(w).count # None
    /\ LET x == NextRepair(w) IN
         /\ Found(queue, w, x.row)
         /\ queue' = Advanced(queue, w, x.row, "Replace", [x.row EXCEPT !.skip = x.count])
    /\ rows' = [rows EXCEPT ![w] = @ \ {NextRepair(w)}]
    /\ UNCHANGED <<editLock, finished, save, results, ckpt, ckptLock, receipt,
                   pc, booting, ticket, batch, range, aux>>

\* "cannot repair current worker Stage1 skip": the row changed meanwhile, fatal.
RepairLost(w) ==
    /\ pc[w] = "rows" /\ editLock = 0
    /\ rows[w] # {}
    /\ NextRepair(w).count # None
    /\ ~Found(queue, w, NextRepair(w).row)
    /\ Die(w)
    /\ UNCHANGED aux

Repaired(w) ==
    /\ Goto(w, "rows", "idle")
    /\ rows[w] = {}
    /\ booting' = [booting EXCEPT ![w] = FALSE]
    /\ UNCHANGED <<files, ticket, batch, range, rows, aux>>

(***************************************************************************)
(* The task loop: read_task and the claim of the row.                      *)
(***************************************************************************)
NextRow(w) == ReadNext(queue, w, Selection, 1)

\* Empty: the loop ends and the process exits.
Exit(w) ==
    /\ pc[w] = "idle"
    /\ NextRow(w) = 0
    /\ Die(w)
    /\ UNCHANGED aux

Read(w) ==
    /\ Goto(w, "idle", "claim")
    /\ NextRow(w) # 0
    /\ queue[NextRow(w)].row.target \notin Malformed
    /\ ticket' = [ticket EXCEPT ![w] = queue[NextRow(w)].row]
    /\ UNCHANGED <<files, booting, batch, range, rows, aux>>

\* A row that cannot be normalized is marked by its exact text.
MarkMalformed(w) ==
    /\ pc[w] = "idle" /\ editLock = 0
    /\ NextRow(w) # 0
    /\ LET r == queue[NextRow(w)].row IN
         /\ r.target \in Malformed
         /\ queue' = Advanced(queue, w, r, "MarkError", None)
    /\ UNCHANGED <<editLock, finished, save, results, ckpt, ckptLock, receipt, local, aux>>

\* Mutant: the skip is the index of the last record, not the count.
ClaimedLast(w) == [ticket[w] EXCEPT !.skip = Len(save[ticket[w].target]) - 1]

\* The row's skip becomes the record count of its save; the changed text is
\* the ticket from here on.
Claimed(w) == [ticket[w] EXCEPT !.skip = Len(save[ticket[w].target])]

Claim(w) ==
    /\ Goto(w, "claim", "open")
    /\ editLock = 0
    /\ \/ /\ Claimed(w) = ticket[w]
          /\ UNCHANGED queue
       \/ /\ Claimed(w) # ticket[w]
          /\ Found(queue, w, ticket[w])
          /\ queue' = Advanced(queue, w, ticket[w], "Replace", Claimed(w))
    /\ ticket' = [ticket EXCEPT ![w] = Claimed(w)]
    /\ UNCHANGED <<editLock, finished, save, results, ckpt, ckptLock, receipt,
                   booting, batch, range, rows, aux>>

\* "task row changed before claim": fatal.
ClaimLost(w) ==
    /\ pc[w] = "claim" /\ editLock = 0
    /\ Claimed(w) # ticket[w]
    /\ ~Found(queue, w, ticket[w])
    /\ Die(w)
    /\ UNCHANGED aux

(***************************************************************************)
(* run_stage1_task: the batch lock and checkpoint, the execution, the save *)
(* and the results.  The lock is taken without waiting and released when   *)
(* the task returns; the completed checkpoint stays.                       *)
(***************************************************************************)
Open(w) ==
    /\ pc[w] = "open"
    /\ ckptLock[Path(w)] = 0
    /\ IF ckpt[Path(w)] = None
       THEN /\ pc' = [pc EXCEPT ![w] = "seed"]
            /\ UNCHANGED batch
       ELSE /\ ckpt[Path(w)].target = ticket[w].target
            /\ pc' = [pc EXCEPT ![w] = "run"]
            /\ batch' = [batch EXCEPT ![w] = ckpt[Path(w)]]
    /\ ckptLock' = [ckptLock EXCEPT ![Path(w)] = w]
    /\ UNCHANGED <<queue, editLock, finished, save, results, ckpt, receipt,
                   booting, ticket, range, rows, aux>>

\* Another worker has the batch open, or the checkpoint belongs to another
\* task: fatal, the row stays.
OpenRefused(w) ==
    /\ pc[w] = "open"
    /\ \/ ckptLock[Path(w)] # 0
       \/ ckpt[Path(w)] # None /\ ckpt[Path(w)].target # ticket[w].target
    /\ Die(w)
    /\ UNCHANGED aux

\* New sigmas, persisted before any arithmetic.
Seed(w) ==
    /\ Goto(w, "seed", "run")
    /\ nextId < MaxBatch
    /\ \E o \in Outcomes :
         LET b == [id |-> nextId, target |-> ticket[w].target, outcome |-> o] IN
           /\ batch' = [batch EXCEPT ![w] = b]
           /\ ckpt' = [ckpt EXCEPT ![Path(w)] = b]
    /\ nextId' = nextId + 1
    /\ UNCHANGED <<queue, editLock, finished, save, results, ckptLock, receipt,
                   booting, ticket, range, rows, taken, s2done, faults, edits>>

\* A periodic flush of the running batch.
Persist(w) ==
    /\ pc[w] = "run"
    /\ ckpt' = [ckpt EXCEPT ![Path(w)] = batch[w]]
    /\ UNCHANGED <<queue, editLock, finished, save, results, ckptLock, receipt, local, aux>>

\* A stop request or a device failure: the process ends, the row stays.
Stop(w) ==
    /\ pc[w] = "run" /\ faults < MaxFault
    /\ faults' = faults + 1
    /\ Die(w)
    /\ UNCHANGED <<taken, s2done, nextId, edits>>

\* Mutant: a failed execution removes its checkpoint too.
FailRemoving(w) ==
    /\ Goto(w, "run", "failed")
    /\ faults < MaxFault
    /\ faults' = faults + 1
    /\ ckptLock' = Unlocked(w)
    /\ ckpt' = [ckpt EXCEPT ![Path(w)] = None]
    /\ UNCHANGED <<queue, editLock, finished, save, results, receipt,
                   booting, ticket, batch, range, rows, taken, s2done, nextId, edits>>

\* The execution failed: the session closes without removing its checkpoint.
Fail(w) ==
    /\ Goto(w, "run", "failed")
    /\ faults < MaxFault
    /\ faults' = faults + 1
    /\ ckptLock' = Unlocked(w)
    /\ UNCHANGED <<queue, editLock, finished, save, results, ckpt, receipt,
                   booting, ticket, batch, range, rows, taken, s2done, nextId, edits>>

\* ... and the row is marked; a row that is gone ends the process.
MarkFailed(w) ==
    /\ Goto(w, "failed", "idle")
    /\ editLock = 0
    /\ Found(queue, w, ticket[w])
    /\ queue' = Advanced(queue, w, ticket[w], "MarkError", None)
    /\ ticket' = [ticket EXCEPT ![w] = None]
    /\ batch' = [batch EXCEPT ![w] = None]
    /\ UNCHANGED <<editLock, finished, save, results, ckpt, ckptLock, receipt,
                   booting, range, rows, aux>>

MarkFailedLost(w) ==
    /\ pc[w] = "failed" /\ editLock = 0
    /\ ~Found(queue, w, ticket[w])
    /\ Die(w)
    /\ UNCHANGED aux

\* The execution completed; publish_batch: a record that stands in the save
\* already keeps its place.
PublishSave(w) ==
    /\ Goto(w, "run", "results")
    /\ LET b   == batch[w]
           old == save[b.target]
           at  == {i \in DOMAIN old : old[i] = b.id}
       IN  IF b.outcome = "Empty"
           THEN /\ range' = [range EXCEPT ![w] =
                                [target |-> b.target, skip |-> Len(old), count |-> 0]]
                /\ UNCHANGED save
           ELSE /\ save' = [save EXCEPT ![b.target] =
                                IF at = {} THEN Append(old, b.id) ELSE old]
                /\ range' = [range EXCEPT ![w] =
                                [target |-> b.target, count |-> 1,
                                 skip |-> IF at = {} THEN Len(old) ELSE Min(at) - 1]]
    /\ UNCHANGED <<queue, editLock, finished, results, ckpt, ckptLock, receipt,
                   booting, ticket, batch, rows, aux>>

\* publish_stage1_batch, then the session closes: lock off, checkpoint kept.
PublishResults(w) ==
    /\ Goto(w, "results", "store")
    /\ results' = results \cup {batch[w].id}
    /\ ckptLock' = Unlocked(w)
    /\ UNCHANGED <<queue, editLock, finished, save, ckpt, receipt,
                   booting, ticket, batch, range, rows, aux>>

(***************************************************************************)
(* Completion.  The receipt takes over the responsibility for the row; the *)
(* finished record is written first, then the queue version the row will   *)
(* be taken from (evidence), then the queue; the checkpoint and the        *)
(* receipt go last.                                                        *)
(***************************************************************************)
\* Mutant: the assignment takes its skip from the row, as the claim found it.
HandoffClaimed(w) ==
    IF batch[w].outcome = "Points"
    THEN [stage |-> 2, target |-> range[w].target, skip |-> ticket[w].skip]
    ELSE None

Handoff(w) ==
    IF batch[w].outcome = "Points"
    THEN [stage |-> 2, target |-> range[w].target, skip |-> range[w].skip]
    ELSE None

\* ecm_worktodo_store_completion refuses while a receipt is unacknowledged.
Store(w) ==
    /\ Goto(w, "store", "commit")
    /\ receipt[w] = None
    /\ receipt' = [receipt EXCEPT ![w] =
                     [ticket |-> ticket[w], record |-> range[w],
                      replacement |-> Handoff(w), path |-> Path(w),
                      evidence |-> None, batch |-> batch[w]]]
    /\ UNCHANGED <<queue, editLock, finished, save, results, ckpt, ckptLock,
                   booting, ticket, batch, range, rows, aux>>

\* Mutant: recovery does not look for the queue versions.
HasEvidenceNever(w) == FALSE

HasEvidence(w) == receipt[w].evidence # None
AtBefore(w) == HasEvidence(w) /\ queue = receipt[w].evidence.before
AtAfter(w)  == HasEvidence(w) /\ queue = receipt[w].evidence.after

\* Mutant: recovery takes the checkpoint of a removed row for removed as well.
CommitDoneKeeping(w) ==
    /\ Goto(w, "commit", "ack")
    /\ AtAfter(w)
    /\ UNCHANGED <<files, booting, ticket, batch, range, rows, aux>>

\* The evidence says the queue write happened.
CommitDone(w) ==
    /\ Goto(w, "commit", "cleanup")
    /\ AtAfter(w)
    /\ UNCHANGED <<files, booting, ticket, batch, range, rows, aux>>

\* Neither version: stop, keep the receipt for inspection.
CommitAmbiguous(w) ==
    /\ pc[w] = "commit"
    /\ HasEvidence(w) /\ ~AtBefore(w) /\ ~AtAfter(w)
    /\ Die(w)
    /\ UNCHANGED aux

\* Mutant: the finished record is not written before the row is advanced.
CommitRecordUnwritten(w) ==
    /\ Goto(w, "commit", "advance")
    /\ ~AtAfter(w)
    /\ ~HasEvidence(w) \/ AtBefore(w)
    /\ UNCHANGED <<files, booting, ticket, batch, range, rows, aux>>

CommitRecord(w) ==
    /\ Goto(w, "commit", "advance")
    /\ ~AtAfter(w)
    /\ ~HasEvidence(w) \/ AtBefore(w)
    /\ finished' = finished \cup {receipt[w].record}
    /\ UNCHANGED <<queue, editLock, save, results, ckpt, ckptLock, receipt,
                   booting, ticket, batch, range, rows, aux>>

After(w) ==
    LET r == receipt[w] IN
      IF r.replacement = None
      THEN Advanced(queue, w, r.ticket, "Remove", None)
      ELSE Advanced(queue, w, r.ticket, "Replace", r.replacement)

\* ecm_worktodo_advance with a receipt: the gate is held over both writes.
WriteEvidence(w) ==
    /\ Goto(w, "advance", "write")
    /\ editLock = 0
    /\ Found(queue, w, receipt[w].ticket)
    /\ editLock' = w
    /\ receipt' = [receipt EXCEPT ![w].evidence = [before |-> queue, after |-> After(w)]]
    /\ UNCHANGED <<queue, finished, save, results, ckpt, ckptLock,
                   booting, ticket, batch, range, rows, aux>>

\* "cannot match/advance completed task; ... receipt retained": fatal.
AdvanceLost(w) ==
    /\ pc[w] = "advance" /\ editLock = 0
    /\ ~Found(queue, w, receipt[w].ticket)
    /\ Die(w)
    /\ UNCHANGED aux

WriteQueue(w) ==
    /\ Goto(w, "write", "cleanup")
    /\ queue' = receipt[w].evidence.after
    /\ editLock' = 0
    /\ taken' = Append(taken, [w |-> w, batch |-> receipt[w].batch,
                               record |-> receipt[w].record])
    /\ UNCHANGED <<finished, save, results, ckpt, ckptLock, receipt,
                   booting, ticket, batch, range, rows, s2done, nextId, faults, edits>>

\* Context::remove on a context of its own: no batch lock is taken.
RemoveCheckpoint(w) ==
    /\ Goto(w, "cleanup", "ack")
    /\ ckpt' = [ckpt EXCEPT ![receipt[w].path] = None]
    /\ UNCHANGED <<queue, editLock, finished, save, results, ckptLock, receipt,
                   booting, ticket, batch, range, rows, aux>>

Acknowledge(w) ==
    /\ pc[w] = "ack"
    /\ pc' = [pc EXCEPT ![w] = IF booting[w] THEN "repair" ELSE "idle"]
    /\ receipt' = [receipt EXCEPT ![w] = None]
    /\ ticket' = [ticket EXCEPT ![w] = None]
    /\ batch' = [batch EXCEPT ![w] = None]
    /\ range' = [range EXCEPT ![w] = None]
    /\ UNCHANGED <<queue, editLock, finished, save, results, ckpt, ckptLock, booting, rows, aux>>

(***************************************************************************)
(* The environment: faults, the Stage2 consumer of the same queue, and an *)
(* editor that respects the edit gate.                                     *)
(***************************************************************************)
Crash(w) ==
    /\ pc[w] # "down" /\ faults < MaxFault
    /\ faults' = faults + 1
    /\ Die(w)
    /\ UNCHANGED <<taken, s2done, nextId, edits>>

\* Stage2 records a row as finished and removes it (see Stage2Queue).
ConsumeStage2(i) ==
    /\ editLock = 0
    /\ queue[i].kind = "Task" /\ queue[i].row.stage = 2
    /\ queue' = RemoveAt(queue, i)
    /\ s2done' = s2done \cup {queue[i].row}
    /\ UNCHANGED <<editLock, finished, save, results, ckpt, ckptLock, receipt, local,
                   taken, nextId, faults, edits>>

EditAppend(l) ==
    /\ editLock = 0 /\ edits < MaxEdit
    /\ queue' = Append(queue, l)
    /\ edits' = edits + 1
    /\ UNCHANGED <<editLock, finished, save, results, ckpt, ckptLock, receipt, local,
                   taken, s2done, nextId, faults>>

EditDelete(i) ==
    /\ Deletes /\ editLock = 0 /\ edits < MaxEdit
    /\ queue[i].kind = "Task" /\ queue[i].row.stage = 1
    /\ queue' = RemoveAt(queue, i)
    /\ edits' = edits + 1
    /\ UNCHANGED <<editLock, finished, save, results, ckpt, ckptLock, receipt, local,
                   taken, s2done, nextId, faults>>

Boot(w)       == \/ Start(w) \/ RepairRead(w) \/ CountRows(w)
                 \/ RepairRow(w) \/ RepairLost(w) \/ Repaired(w)
Take(w)       == Exit(w) \/ Read(w) \/ MarkMalformed(w) \/ Claim(w) \/ ClaimLost(w)
Task(w)       == \/ Open(w) \/ OpenRefused(w) \/ Seed(w) \/ Persist(w)
                 \/ Stop(w) \/ Fail(w) \/ MarkFailed(w) \/ MarkFailedLost(w)
                 \/ PublishSave(w) \/ PublishResults(w)
Completion(w) == \/ Store(w) \/ CommitDone(w) \/ CommitAmbiguous(w) \/ CommitRecord(w)
                 \/ WriteEvidence(w) \/ AdvanceLost(w) \/ WriteQueue(w)
                 \/ RemoveCheckpoint(w) \/ Acknowledge(w)
Stage2        == \E i \in DOMAIN queue : ConsumeStage2(i)
Editor        == \/ \E i \in DOMAIN queue : EditDelete(i)
                 \/ \E l \in Edits : EditAppend(l)

Next ==
    \/ \E w \in Workers : Boot(w) \/ Take(w) \/ Task(w) \/ Completion(w) \/ Crash(w)
    \/ Stage2
    \/ Editor

Spec == Init /\ [][Next]_vars

(***************************************************************************)
(* Fairness: a process that can take a step of its own program takes it,   *)
(* and a worker that went down is started again.  A Stage2 row at the head *)
(* of a section makes its Stage1 worker wait, so the Stage2 consumer has   *)
(* to run too.  Crashes, stops, failed executions and edits are never      *)
(* promised.                                                               *)
(***************************************************************************)
Progress(w) == \/ Boot(w) \/ Take(w) \/ Completion(w)
               \/ Open(w) \/ OpenRefused(w) \/ Seed(w)
               \/ MarkFailed(w) \/ MarkFailedLost(w)
               \/ PublishSave(w) \/ PublishResults(w)

LiveSpec == Spec /\ WF_vars(Stage2) /\ \A w \in Workers : WF_vars(Progress(w))
-----------------------------------------------------------------------------
(* Properties.                                                             *)

\* Every variable has its type.
TypeOK ==
    /\ queue \in Seq(Line)
    /\ editLock \in Workers \cup {0}
    /\ finished \subseteq Record
    /\ save \in [Targets -> Seq(Nat)]
    /\ results \subseteq Nat
    /\ ckpt \in [Paths -> Batch \cup {None}]
    /\ ckptLock \in [Paths -> Workers \cup {0}]
    /\ receipt \in [Workers -> Receipt \cup {None}]
    /\ pc \in [Workers -> PC]
    /\ booting \in [Workers -> BOOLEAN]
    /\ ticket \in [Workers -> Row \cup {None}]
    /\ batch \in [Workers -> Batch \cup {None}]
    /\ range \in [Workers -> Record \cup {None}]
    /\ rows \in [Workers -> SUBSET Repair]
    /\ taken \in Seq([w : Workers, batch : Batch, record : Record])
    /\ s2done \subseteq Row
    /\ nextId \in Nat /\ faults \in Nat /\ edits \in Nat

\* One batch of curves pays for one row: whatever the process died between,
\* recovery never takes a second (possibly identical) row on the strength of
\* the receipt of the first, and a resumed checkpoint never serves two rows.
OneRowPerBatch ==
    \A i, j \in DOMAIN taken : taken[i].batch.id = taken[j].batch.id => i = j

\* A row leaves the queue only after everything it stands for is durable: its
\* curves are in the results, its residue in the save, its line in finished.
ConsumedIsPublished ==
    \A i \in DOMAIN taken :
        LET b == taken[i].batch IN
          /\ b.id \in results
          /\ b.outcome # "Empty" => \E k \in DOMAIN save[b.target] : save[b.target][k] = b.id
          /\ taken[i].record \in finished

\* The Stage2 assignment of a consumed row is in the queue until Stage2 has
\* done it: taking the row and adding the assignment is one queue version.
HandoffKept ==
    \A i \in DOMAIN taken :
        taken[i].batch.outcome = "Points" =>
            LET r == [stage |-> 2, target |-> taken[i].record.target,
                      skip |-> taken[i].record.skip]
            IN  Delivered(queue, s2done, r)

\* A published batch is never orphaned: until its line stands in finished, its
\* checkpoint is on disk, so that the row is finished from it and not computed
\* again with other curves.
NoOrphanBatch ==
    \A t \in Targets : \A k \in DOMAIN save[t] :
        \/ [target |-> t, skip |-> k - 1, count |-> 1] \in finished
        \/ \E p \in Paths : ckpt[p] # None /\ ckpt[p].id = save[t][k]

\* The lock of a checkpoint keeps it to one process: a step that changes the
\* file while a worker has the batch open is that worker's own.
CheckpointLocked ==
    [][\A p \in Paths, w \in Workers :
         ckptLock[p] = w /\ ckpt'[p] # ckpt[p] =>
            \A v \in Workers \ {w} : pc'[v] = pc[v]]_vars

\* A recovery that cannot go on: the queue is at neither version, or the row
\* is not in the worker's section any more.
Stuck(w) ==
    /\ receipt[w] # None
    /\ IF HasEvidence(w) THEN ~AtBefore(w) /\ ~AtAfter(w)
                      ELSE ~Found(queue, w, receipt[w].ticket)

\* A stored receipt is eventually acknowledged, through any crash, unless an
\* edit in the window made the queue ambiguous.
ReceiptResolved ==
    \A w \in Workers : receipt[w] # None ~> (receipt[w] = None \/ Stuck(w))

\* The next row's checkpoint file holds a batch of another task, one that no
\* completion stands for (a failed run left it): the worker is refused.  The
\* checkpoint of a completed batch is none of these, its completion removes it.
Blocked(w) ==
    /\ NextRow(w) # 0
    /\ LET t == queue[NextRow(w)].row.target
           b == ckpt[CkptPath[w][t]]
       IN  /\ b # None
           /\ b.target # t
           /\ \A i \in DOMAIN taken : taken[i].batch.id # b.id

\* A worker's Stage1 rows are all worked off in the end, or it stays refused:
\* from some point on its recovery is stuck on an ambiguous queue, or its next
\* row on the checkpoint of another task.  Passing through a state that looks
\* like one of these, between two steps of a completion, is no excuse.
RowsWorkedOff ==
    \A w \in Workers : <>[](Stage1Rows(queue, w) = {} \/ Stuck(w) \/ Blocked(w))
-----------------------------------------------------------------------------
(* The refinement: the ledger's rows are the queue's, its batches those of *)
(* the completions.  (Without edits: an editor may add and delete rows.)   *)
OpenRows(w, t) == Cardinality({i \in Stage1Rows(queue, w) : queue[i].row.target = t})

Ledger == INSTANCE RowLedger WITH
    Batches  <- 0..MaxBatch,
    open     <- [w \in Workers |-> [t \in Targets |-> OpenRows(w, t)]],
    marked   <- Cardinality({i \in DOMAIN queue : queue[i].kind = "Error"}),
    credited <- {[w |-> taken[i].w, batch |-> taken[i].batch.id] : i \in DOMAIN taken}

\* Every step of the workers is a step of the ledger or invisible to it.
RefinesLedger == Ledger!Spec
=============================================================================
