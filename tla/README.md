# ECM-ELF: a verification project for its queues

ECM-ELF factors large integers with the elliptic curve method. This directory holds TLA+
models of the part of the program that decides what is computed, what is written down and
in which order: the work queues, the durable completion of a task, the handoff from Stage1
to Stage2 and to Prime95, the checkpoints, the result ledgers, and the supervision of the
worker processes. The arithmetic is not modelled: a batch
or a curve is one step that ends in some outcome.

Paths below are relative to the repository's `src/`, so `src/main.cpp` is
`src/src/main.cpp` in `PROJECT.json`.

## 1. The system

A user (or the GUI) writes rows into `worktodo.txt`. A row asks for curves on a number.
The file has sections, one per worker (`[Worker #n]`), and holds rows of both stages.

| Component | State it keeps | Operations | Interacts with |
|---|---|---|---|
| worktodo text (`io/worktodo.cpp`) | `worktodo.txt`, `finished` | read next line, advance (remove, mark, replace), append unique, list workers and loads | every worker and the GUI, under the `QueueEdit` gate |
| Stage1 queue worker (`main.cpp`) | the completion receipt | startup (flush, finish the receipt, repair skips), task loop, `run_one`, `finish_record` | worktodo, task execution, transfer |
| Stage1 task (`ecm/stage1/task.cpp`) | memory only | open checkpoint, seed, run, publish save, publish results, close | checkpoint, save, results |
| Stage1 checkpoint (`io/stage1_checkpoint.cpp`) | the batch file with its lock and generations | begin, flush, accept, commit, remove, close | Stage1 task, `finish_record` |
| save file (`io/save.cpp`) | one record per curve for Stage2 | publish batch, count, verify a range | Stage1 appends, Stage2 reads |
| results (`io/results.cpp`) | internal and submission files, receipts, sealed batches, publication order | publish a Stage1 batch, publish a Stage2 curve, seal, append | both stages |
| Stage1 to Stage2 transfer (`sync/stage2.cpp`) | one outbox per Stage1 worker | park, flush | Stage1 worker, the Stage2 queue |
| Stage2 queue worker (`ecm/stage2/task.cpp`) | memory, one child per curve | take a row, resume, run curves, seal, record, remove | worktodo, task checkpoint, results |
| Stage2 task checkpoint (`io/stage2_checkpoint.cpp`) | done, total, attempt, policy | load, reconfigure, save, reconcile | Stage2 worker |
| Prime95 handoff (`sync/p95.cpp`, `io/prime95.cpp`) | per batch `.intent`, `.sending`, `.ready`, `.done`; the sent ledger; a copy of the save; `worktodo.add` | park, flush, deliver, recover rejected lines | Stage1 worker, Prime95 |
| file primitives (`io/files.cpp`) | owner leases, locks | atomic write, lock, lease | everything |
| worker control (`ecm/application/gui/worker_controller.cpp`, `worker_proc.cpp`) | per worker: process, wanted, state, crashes, pending stop; the phase of an exit | start, stop, close, tick (stops, exit, autostart, poll, restart, change of the stage) | starts and ends the workers, reads the queue |
| GUI views, feeder, arithmetic, Android, tools | none the above read back, other than queue edits | | |

Processes: one Stage1 and one Stage2 process may run per section, each holding an owner
lease on it; a Stage2 curve is a child in a job object and dies with its parent; an editor
(GUI or user tool) changes the queue under the `QueueEdit` gate. Nothing but files connects
them.

What is hard here is what lies between two durable writes. One finished task touches four
or five files written by three modules, and a process can die between any two of them. Rows
are identified by their text and two rows may have the same text. A row is read under one
lock and replaced under a later one. The queue is shared with people. A Stage2 curve leaves
three traces in three files. A save grows while another process reads it. Prime95 takes its file
away at any moment and keeps no lock. The GUI sees the end of a process only at its next tick.

What makes each component correct:

- worktodo text: a worker changes only its own section, keeps the order of its rows, and
  the row it advances is the one it read, although it is found again by its text.
- Stage1 worker: each row that goes is paid by a batch of its own; it goes only after save,
  results and finished are durable; its Stage2 assignment appears in the same queue
  version; a computed batch is not lost and not computed again; recovery terminates.
- transfer: an assignment is never lost, never run twice, and run in the end.
- Stage2 worker: confirmed progress has evidence and is never taken back; a curve is
  reported once; a row that goes has been reported and recorded; rows are worked off.
- ledgers: a torn or interrupted write is recognised and completed, nothing is reported twice.
- checkpoint: what a flush confirmed is given back; a fault costs at most one generation; a
  removed batch is never resumed.
- Prime95 handoff: no batch is dropped, no line goes out before its save, none goes out twice.
- worker control: a stopped worker stays stopped, a wanted one goes on, an exit ends.

`PROJECT.json` lists the hazards at their lines, each with the properties that watch it.

## 2. Modules

| Module | What it is | Code |
|---|---|---|
| `WorktodoFile` | the queue text and its pure operations; no variables | `io/worktodo.cpp` |
| `WorktodoQueue` | one file under any order of those operations by any worker | `io/worktodo.cpp` |
| `Stage1Queue` | the Stage1 workers, their tasks and completions, an editor, a Stage2 consumer | `main.cpp`, `ecm/stage1/task.cpp`, `io/worktodo.cpp`, `io/stage1_checkpoint.cpp` |
| `RowLedger` | abstract: every row is credited once or marked once | what `Stage1Queue` promises |
| `Stage2Transfer` | park and flush, with what the handoff sees of both stages | `sync/stage2.cpp`, `main.cpp` |
| `AssignmentHandoff` | abstract: held, owed, queued, done, never back | what `Stage2Transfer` promises |
| `Stage2Queue` | one Stage2 worker with its curve child, task checkpoint and ledger | `ecm/stage2/task.cpp`, `io/stage2_checkpoint.cpp`, `io/results.cpp` |
| `Stage1Checkpoint` | one batch file: generations, rotation, removal, damage | `io/stage1_checkpoint.cpp`, `main.cpp` |
| `DurableRegister` | abstract: a register that a fault may set back by one step | what `Stage1Checkpoint` promises |
| `Publication` | save, internal results and submission file of Stage1 batches, with a Stage2 publisher on the same submission file | `io/save.cpp`, `io/results.cpp`, `ecm/stage1/task.cpp` |
| `P95Handoff` | intents, the flush and Prime95 as an external consumer | `sync/p95.cpp`, `io/prime95.cpp` |
| `WorkerControl` | the controller of the GUI over its worker processes | `ecm/application/gui/worker_controller.cpp`, `worker_proc.cpp`, `app.cpp` |
| `WorktodoFileProofs` | lemmas about the operators of `WorktodoFile`, for lines of any kind | |
| `WorktodoQueueProofs`, `Stage1QueueProofs`, `Stage2TransferProofs`, `Stage2QueueProofs` | the theorems about those modules, over the lemmas of `WorktodoFileProofs` | |
| `Stage1CheckpointProofs`, `P95HandoffProofs` | the theorems about those modules | |
| `PublicationControlProofs` | the theorems about `Publication` and `WorkerControl`, which do not touch the worktodo; as one module extends both, the parts of `WorkerControl` carry the component in their names (`ControlInit`, `ControlNext`, `ControlSpec`) | |
| `MC...` | instances for TLC | |

`WorktodoFile` is shared by all: `Stage1Queue`, `Stage2Transfer` and `Stage2Queue` take
`ReadNext`, `Advanced` and `AppendUnique` from it. Definitions whose comment begins with
"Mutant" are deliberate bugs; `PROJECT.json` pairs each with the property that finds it,
and nothing else uses them.

### WorktodoFile
A text is a sequence of classified lines: a task line with its row, a header with its
worker number, a comment, a foreign bracket line, an error line. `Selected`/`ReadNext`
follow the scan of `ecm_worktodo_read_next_line` with `worktodo_priority` and
`worktodo_skip`; `TicketAt`/`Advanced` find the row again by its text in the section and
rewrite it; `AppendUnique` is compaction of redundant headers, the lookup in the active
queue and `finished`, and insertion at the end of the receiver's section. Worker 0 is the
legacy view without sections. Parsing a row, the classic `ECM=` form and the byte level
are abstracted.

### Stage1Queue
Every file is a variable and every durable write an action. A process is `pc[w]` with
`ticket`, `batch`, `range` and `rows` as its memory:

    down -> (commit of a stored receipt) -> repair -> rows -> idle
    idle -> claim -> idle                 skip resolved in the queue
    idle -> open -> seed -> run -> results -> store      run_one, run_stage1_task
    store -> commit -> advance -> write -> cleanup -> ack     finish_record

The startup repair reads its rows once (`RepairRead`), counts the records of a save file at
its first row and keeps that count for the others (`CountRows`), and corrects one row after
the other (`RepairRow`), while other workers append: the count may be old when it is used.
`Claim` replaces the row text with the one that carries its Stage1 skip. `Open` takes the
checkpoint lock and adopts an existing batch, `Seed` draws a new one, `PublishSave` and
`PublishResults` append once (they recognise their batch), `Store` writes the completion
receipt. `CommitRecord` puts the line into `finished` and saves nothing else;
`WriteEvidence` stores the queue before and after inside the receipt; `WriteQueue` is the
queue write; on a restart `CommitDone`, `CommitAmbiguous` or a repetition follow from
comparing the queue with both versions. `editLock` is held between `WriteEvidence` and
`WriteQueue` because the code holds the `QueueEdit` gate there. `Crash` is enabled
everywhere; a stop and a failed execution are separate actions. A batch's id stands for
its set of sigmas, which is drawn once.

### Stage2Transfer
Per Stage1 worker: `outbox`, the rows still in its own queue, the stored receipt. `Park`
chooses a receiver (fixed, the least loaded of a list, or the least loaded section) and
appends to the outbox, also when the line is there already; `FlushEntry` appends one entry
to the Stage2 queue with `AppendUnique`, which leaves out what is queued or finished;
`FlushAck` shortens the outbox by what was delivered, after success and after a failure.
Stage2 is reduced to read, run, record, remove, clean. The queue may hold assignments of its
own at the start (`Given`). With routing "auto" its sections are those of receivers.

### Stage2Queue
One process, with the child's steps in its sequence because the parent waits for it:

    head -> load -> resume -> curve -> child -> (export) -> answer -> count -> curve
    curve -> render -> check -> record -> remove -> clean -> head

The save is reduced to how many curves it holds. `ReadRow` fixes the plan, `Load` computes
the task identity later (`sha256_file` after `records`), so the save may grow in between.
A checkpoint has done, total, run token, pending token, the result path of the attempt and
b2. `Recover`, `Reconfigure` and `Refuse` are the three ways out of a resumed state.
A ledger receipt has curve, b2 and its first owner. `Seal` writes the batch and `Render`
the submission output (`seal_submissions` calls `append_submissions` at its end in any
case). The "# ERROR" text that a rejected row leaves in the finished file is not kept:
`finished` holds completions only. Editors change rows, configuration may name another
result file at any start. A row is `Rejected` while its inputs are checked curve by curve, so
never with an empty plan. `Refused` is the state of a row whose new policy has to wait for an
attempt with a receipt (`AttemptedFor`); an attempt without one is given up.

### Stage1Checkpoint
`file[0]` is the primary, `file[1..]` the backups, `temp` the file `.new`. A content is a
generation (batch, progress, sound or not), a file with a wrong checksum, a checkpoint of
another task, or nothing.

    closed -> run             Begin: the newest usable generation (validate_pending)
    run -> rotate .. copy -> replace -> prune -> run      one flush, a step per rename
    run -> remove .. -> acknowledge -> closed             publication, then finish_record

The receipt of the queue stands between the publication and the end of the removal, so a crash
in between repeats the removal instead of opening a session. `badPrimary` is the entry in
`bad_primaries`, which keeps a damaged primary from being rotated over the backup it was
recovered from. A session chooses `ckpt_backups` anew. `Deferred` is `defer_payload_validation`:
a GPU session validates the payload itself and goes on to an older generation, a CPU session
takes the first one that decodes; they differ for an unsound payload under a valid checksum
only. The CPU loop goes on writing after a failed write, the GPU loop stops; both are behaviours
here. What `run_stage1_task` does around it is the sequence of `Stage1Queue`, which sees one
file per batch.

### Publication
Every file is replaced atomically under a lock that dies with its process, except the append
of Stage2, which may be cut anywhere: a line is two pieces of text so that it can be. A
batch goes `PublishSave` (the missing records at the end of the save, then its range),
`Commit` (the internal rows with the plan of the text), `Export` (the text behind its
prefix); `Confirm` finds nothing left to commit and only repairs. `Restored`, `Replayed` and
`Repaired` are what a Stage1 publisher does first with what earlier ones left: `Replays` is
the loop that puts one committed batch after the other behind its prefix, as a recursive
function. `Refused` is the exception the code throws. Stage2 keeps receipts,
writes the whole text to `publication.order`, appends. The prefix of a plan stands for its
offset and hash. A factor found in Stage1 has one identity and two spellings, by Stage1 and
by Stage2; curves may be shared by batches because sigmas may be fixed. All Stage1 workers
use one pair of files. Stage2 may report on curves of a batch that is not done yet, because
its rows may cover the whole save.

### P95Handoff
`Park` writes the intent with the settings of its worker (`config`: `p95_keep_aid` and
`p95_recover_lost`), which a batch parked again keeps; `Consume` lets the source row go. One
flush at a time holds the handoff lock (all workers of an installation share the pending path).
For every intent it copies the save, reconciles with what was attempted before (`Seen`, `Known`,
`Observed`), claims the batch with `.sending`, looks for lines to recover if its settings say
so, writes `.ready`, reads and replaces `worktodo.add`, records in the ledger, writes `.done`,
drops intent and `.sending`. The evidence is read in the code's order, `worktodo.add` before
Prime95's `worktodo.txt`, and rejections in the opposite one. Prime95 is external: `Incorporate`
takes the add file between any two steps, also between the read and the write of `worktodo.add`;
it runs lines and deletes those whose key its server rejects. `worktodo.add` is a set of lines
(one section). A line that can be neither found nor excluded is ambiguous, and the flush ends.

### WorkerControl
`proc[w]` is the `WorkerProc` with its process, `view[w]` the `WorkerView`. The controller
runs on the UI thread, so a command or one whole `Tick` is a step; processes end and crash,
queues change and deadlines pass in between. `Ticked(w)` is the order of the code: pending
stops and the exit first, then autostart, poll (an end, or a restart that is due), then the
change of the stage when the queue of this stage has just run out. A timer is a flag that
its moment is reached. `head[w]` is the stage of the next row, 0 without one. `exit_confirm`
is chosen with each close request. `StartThese` is `start` for one worker (`Start`, its button
is there while the worker neither runs nor waits for a restart) and for all without a process
(`StartAll`, which does not wait for a restart). `wanted` is a history variable: the user's last
command for the worker, which closing the window does not change. This module is also the reason
for "is started again" in the fairness of the others.

## 3. Runs

All constants and bounds are in the cfg files; identical rows are present on purpose.

| Run | Instance | Shows |
|---|---|---|
| `worktodo_file` | every text of up to two lines and seven longer ones with repeated, missing or foreign headers; two workers and the legacy view; three settings | `OwnSection`, `OrderKept`, `SelectedIsTaken` |
| `stage1_queue` | two workers with own checkpoint files and one save file, three rows with the same text in two sections; two batches with two faults or a fault and a deletion, or three batches without (`MCDisturbed`) | `OneRowPerBatch`, `ConsumedIsPublished`, `HandoffKept`, `NoOrphanBatch`, `TypeOK` |
| `stage1_queue_live` | two numbers of one size (one checkpoint name), a malformed row of another worker, one fault, one added comment, three batches, fairness | refinement of `RowLedger`, `ReceiptResolved`, `RowsWorkedOff` |
| `stage1_checkpoint` | GPU sessions; three backups of which a session keeps one to three, four generations, two batches, three faults | `OwnBatch`, `OnlyDamageLoses`, refinement of `DurableRegister`, `TypeOK` |
| `publication` | two batches that share a curve, a third inside the first, a factor that both stages report, a curve without a point, three faults | `ReportedOnce`, `HistoryAgrees`, `DoneIsPublished`, `TypeOK` |
| `stage2_transfer` | one source with three assignments, two receivers with one finished record, routing `auto`, two faults, fairness | `RunOnce`, `AllRun`, refinement of `AssignmentHandoff`, `TypeOK` |
| `stage2_queue` | two rows over one save, one invalid variant, a factor at one curve and bound, a save that grows by one, one fault, one edit, another result path at any start, fairness | `CheckpointLoadable`, `CountedIsDurable`, `ReportedOnce`, `RecordedOnce`, `ProgressKept`, `RemovedIsReported`, `RowsConsumed`, `TypeOK` |
| `p95_handoff` | two batches with one rejectable key, each parked with both settings on or both off, two faults, fairness of the flush | `SavedFirst`, `NeverLost`, `SentOnce`, `HandedOver`, `TypeOK` |
| `worker_control` | two workers, one fragile and edited, one that may hang on a Stage1 row; breaker at two crashes; autostart of any of them; Stage2 program missing or not; one repeated close request; fairness of time | `StopHolds`, `KeepsGoing`, `ExitCompletes`, `ControlTypeOK` |
| `publication_shared`, `stage1_shared_dir`, `stage2_grown_save` | one fault; two workers with one `tmp_dir`; a save that grows | the findings, section 6 |

Why the bounds are enough. Two faults cover a crash of the recovery from a crash, and a failed
run after a crash; a third would meet the same files. The instance of `stage1_queue` is cut by a
CONSTRAINT to what two disturbances do to two batches and to three undisturbed ones, which is
enough for a count in the startup repair that is behind the save when it is used; the theorems
of section 4 hold for any number of each. Two identical rows are the least number for which
"which row" is a question, and the other worker's row makes the shared file change in a
receipt's window. Three batches allow one per row, or one extra drawn by mistake. Two lines
suffice for every pair of header and row; the longer texts have the repeated and bracketed
headers on which compaction decides. In `stage2_queue` two curves with a factor in one separate
the NF batch from the factor line, and one edit reaches every policy change because the variants
differ in count, in bound or in both, and one of them has an empty plan at an invalid bound. One
fault is enough there because what it leaves (an attempt, a receipt, a sealed batch) meets every
edit, path and growth of the save; the invariants are proved for any number. In
`stage1_checkpoint` four generations fill the primary and three backups, and three faults are
one more than two backups, so that both sides of "fewer faults than backups" occur. In
`publication` one curve in two batches is the least for a deduplicated record inside a range;
three faults let the repair of one publisher meet the leftovers of the other. In `p95_handoff`
one batch is the one whose delivery is cut off and the other the one whose flush meets what is
left. In `worker_control` the first crash restarts and the second trips the breaker; the second
worker keeps an exit waiting.

Fairness. `LiveSpec` promises that a process takes the steps of its own program and is started
again after it ended (the GUI and the batch files do it; without it nothing is promised after a
crash), and that the Stage2 consumer of `Stage1Queue` runs, because a Stage2 row at the head of
a section makes Stage1 wait (`ecm_worktodo_read_next_line`). In `P95Handoff` flushes go on (each
start of a worker and each task end in one), nothing is promised of Prime95. In `WorkerControl`
the frame loop ticks, and the delay of a restart and the deadline of an exit pass; nothing is
promised of the workers, which may hang, nor of the queue, the user, or the deadline of a single
stop. No module promises a crash, a stop, a failed execution, an edit or a growing save.
`RowsWorkedOff` and `RowsConsumed` have the form `<>[]`: the excuse (an ambiguous queue, the
checkpoint of another task, an attempt that must be resolved first) has to hold for ever.
Between the queue write and the removal of the checkpoint a healthy completion also looks like
one of them, and that must not count; therefore `Blocked` does not count the checkpoint of a
batch that a completion stands for. All of it is weak fairness: no step of one process is
disabled again and again by another, except behind the gate, whose holder is never refused its
next step.

`CHECK_DEADLOCK FALSE` is set where the system may really stop: `worktodo_file` (a full text
with nothing to read), `p95_handoff` and `publication` (everything is handed over or
published), `worker_control` (the window is closed).

## 4. Proofs

`WorktodoQueueProofs` proves for every text over the lines of `Line`, every set of workers and
every settings of the selection:

- `SelectedCorrect`: `Spec => []SelectedIsTaken`. The selection gives a ticket by position; the
  advance looks for the ticket's text in the section and finds the line that was selected.
- `OwnSectionCorrect`: `Spec => OwnSection`, and `OrderCorrect`: `Spec => OrderKept`. Both are
  about the list of rows of one worker, `RowsOf`. An operation carries the old task lines into
  the new text by an order-preserving map that keeps sections (`Embeds`, `OneMore`: lemmas of
  `WorktodoFileProofs`, where the compaction of redundant headers is the hard one). Ordered
  sets that such a map carries into each other have the same n-th elements (`NthMapped`, on
  least elements, `NthWithout` for one line less), so the lists are equal, one shorter, one
  longer at the end, or equal but for one row. The invariant is only `IsText`.

`Stage1QueueProofs` proves for every set of workers, any initial queue, targets, routing of
checkpoint paths, edits and number of faults:

- `TypeCorrect`: `Spec => []TypeOK`. `TypeOK` alone is not inductive, because an action
  reads `ticket[w]` or the evidence of `receipt[w]` that it needs to be more than `None`.
  `TypeInv` adds `LocalOK`: what a process holds at each place of its program.
- `OrderCorrect`: `Spec => []ConsumedIsPublished`. A completion appends to `taken` from
  what its receipt says, so the receipt must already be backed by the files. `OrderOK`
  follows the process: at "results" its batch is in the save, at "store" in the results too,
  a receipt implies both, and at "advance" and "write"
  its record is in `finished`. The other files only grow, so nobody else can undo it. Most
  actions touch none of these files (`OrderUntouched`, `OrderQuiet`); the others have a
  lemma each.
- `HandoffCorrect`: `Spec => []HandoffKept`. `HandInv` says that a worker at "write" holds the
  gate and that the queue is at that moment the version its evidence calls "before"
  (`WriteOK`), that the replacement of a batch with points is the Stage2 row of its record
  (`HandoffOK`), and that rows leave or are rewritten by Stage1 tickets only (`TicketOK`).
- `NoOrphanCorrect`: `Spec => []NoOrphanBatch`, under `OwnPaths`: no two workers have a
  checkpoint path in common. Without it the code breaks the property, see `stage1_shared_dir`
  in section 6. `BatchInv` says where a batch may be: every id is in one line of one save
  (`SaveOK`) and in one checkpoint (`CkptOK`), a receipt names the path it was seeded into,
  and that path holds this batch or nothing (`ReceiptOK`).
- `OneRowCorrect`: `Spec => []OneRowPerBatch`, under `OwnPaths` and `NoRowAppended`: an editor
  adds no Stage1 row (see the first observation in section 6; comments, Stage2 rows and
  deletions are allowed). The argument is a count: no step adds a
  Stage1 row, a completion takes one away, so a receipt that has taken its row finds fewer of
  them than its "before" version had and cannot be taken for one that has not (`ReceiptOnce`).
- `LedgerCorrect`: `Spec => RefinesLedger`, the refinement of `RowLedger`, under `OwnPaths` and
  `RowsUntouched`: an editor deletes nothing and adds neither a Stage1 row nor an error mark,
  because the ledger counts what the workers do to rows. The open rows of a worker and target
  are counted by place (`OpenAt`). An advance changes one line and moves no other line to
  another section, so it closes one row of the worker that holds the ticket, or rewrites it
  with the same target (`OpenRemoved`, `OpenReplaced`, `LedgerAdvanced`). That a credit names
  a batch that was not paid before is `OnceInv` at the write of the queue.

`Stage2TransferProofs` proves for any sources, assignments, receivers, routing and queue:

- `TypeCorrect`: `Spec => []TypeOK`; `TypeInv` adds what a source and a receiver hold at each
  place, and that with "auto" the loaded sections stay those of receivers.
- `HandoffCorrect`: `Spec => ImplementsHandoff`, the refinement of `AssignmentHandoff`. The
  status of an assignment is computed from six files. `DeliverInv` gives what a step needs:
  an entry the flush has passed over stands in the queue or in a record (`SentOK`), and a
  receiver removes a row only when it is recorded (`RemoveOK`); then the removal of an
  outbox entry or of a row never takes a status back, and each step has a lemma that says
  which statuses it advances.
- `RunOnceCorrect`: `Spec => []RunOnce`, if each assignment has a `home`: all receivers it may
  be routed to write and read this one finished record (`OneRecord`), and the first queue holds
  an assignment at one place (`OnePlace`). A fixed receiver, or one record for all, gives
  that; without it the code runs an assignment twice, see section 6. `RunInv` says that an
  assignment which ran and is not in progress is in its record and in no queue.

`Stage2QueueProofs` proves for every queue text, set of rows, hits and result paths, and any
number of crashes, stops, edits and curves saved in between:

- `TypeCorrect`: `Spec => []TypeOK`, strengthened by `MemOK`: from `Reconfigure` on the
  state in memory is the checkpoint on disk, and its total is at least the plan.
- `LoadableCorrect`: `Spec => []CheckpointLoadable`. `SoundInv` says it of the copy in memory
  too. The delicate step is `Reconfigure`: an attempt survives only under its own policy, so
  the total it is checked against is the one it was launched under.
- `DurableCorrect`: `Spec => []CountedIsDurable`. What the checkpoint counts has to be deduced
  from a result line with the right token, so the invariant is about tokens: each is drawn
  once (`TokensDrawn`), no two tasks wait for the same one (`Alone`), a line with the pending
  token of a task answers its very next curve (`Owns`), and no line comes before its receipt
  (`ReceiptFirst`).
- `RecordCorrect`: `Spec => []RecordedOnce`. At "remove" the record is written, and `Record`
  looks for the line before it appends one.
- `ReportedOnceCorrect`: `Spec => []ReportedOnce`, and `RemovedIsReportedCorrect`:
  `Spec => RemovedIsReported`. `ReportInv` is about the receipts of a task that no batch holds
  (`Open`): each is of a curve that the checkpoint counts, or of the pending attempt and then
  under its bound (`Covers`); hence no curve has two of them, and a reconfiguration can
  change the bound only where no receipt is left behind. After the seal there is none, and
  from "check" on the output shows all of the task.
- `ProgressKeptCorrect`: `Spec => ProgressKept`, from the tokens of `DurableInv`: a count goes
  up by one at a result line that carries the pending token, which only one task can own.

`Stage1CheckpointProofs` proves for any number of backups, generations, batches and faults:

- `TypeCorrect`: `Spec => []TypeOK`, which is inductive.
- `OwnBatchCorrect`: `Spec => []OwnBatch`. The property speaks of states without a receipt
  and rests on what the removal did under one: `BatchInv` says that every generation on disk
  is of the batch at work, that the removal leaves none below its place, and none at its end.
- `OnlyDamageLosesCorrect`: `Spec => OnlyDamageLoses`. The only invariant it needs is
  `PrimaryInv`, that the steps which move backups about are never reached with a primary
  found bad; then each step keeps the primary or puts the newer generation there.
- `RegisterCorrect`: `Spec => ImplementsRegister`, the refinement of `DurableRegister`, for
  sessions that validate payloads (`Deferred`): one that does not goes on from an unsound payload
  under a valid checksum, which is no state of the register. That a
  fault costs one flush at most is not inductive as a statement about the newest file: the next
  fault takes the file behind it. `RegInv` counts the usable files below each file (`Below`): a
  file lies at most one generation behind the peak for each usable file that is newer and for
  each fault, and as many usable files are left as backups are kept, less the faults. This has
  four forms, by what a flush is doing: `Plain` between flushes, `Moving` while the rotation
  runs, `Replacing` when the primary is about to go, `Pruning` while files beyond a setting
  that was reduced are still there. Each step of a flush leads from one form to the next
  (`PlainRotated`, `MovingRotated`, `PlainCopied`, `MovingCopied`, `Replaced`, `PlainPruned`), and
  damage, a failed call or a crash stays in the form, or goes back to `Plain`, with one fault
  more (`SpoiledLess`, `CutOff`, `CopyCutOff`). A rename, a copy or the pruning can take the
  last usable generation along only when there were as many faults as backups
  (`RotatedValue`, `CopiedValue`, `PrunedValue`): the action `Decay` of the register.

`P95HandoffProofs` proves for any batches, keys, rejections and number of faults:

- `TypeCorrect`: `Spec => []TypeOK`, inductive as it stands.
- `SentCorrect`: `Spec => []SentOnce`. `SentInv`: a line that was published has `.sending` or
  `.done` beside it, and the flush on its way to the write has not published yet.
- `SavedCorrect`: `Spec => []SavedFirst`. `SavedInv` follows a line through every place that
  may give it back: the ledger, `.ready`, the text of `worktodo.add` that was read, the lines
  to be recovered. All of them are `Covered` by the copy of the save, which only grows.
- `LostCorrect`: `Spec => []NeverLost`. `LedgerInv` relates intents, `.done`, the ledger and
  what Prime95 has; `FlushInv` says how a flush gets from one to the other.

`PublicationControlProofs` proves of `Publication`, for any batches, curves, hits, reports of
Stage2 and number of faults:

- `TypeCorrect`: `Spec => []TypeOK`, `ReportedOnceCorrect`: `Spec => []ReportedOnce`,
  `HistoryAgreesCorrect`: `Spec => []HistoryAgrees`, `DoneIsPublishedCorrect`:
  `Spec => []DoneIsPublished`. None of them is inductive, and they need each other, so there
  is one invariant with four parts, `IInv`:
  - `TypeOK`; that every text but the one of a torn append has whole lines is part of it;
  - `PlanInv`: the curves of committed batches are apart, and the text of each plan is `Good`:
    a line says which batch or report it is from (`RowOK`). A factor line is found again by its
    identity. A line without factor has none that could be compared, and is told apart by its
    place: it is the last line of its plan. That is what keeps two NF lines apart;
  - `TextInv`: the submission file, the history of Stage2 (`publication.order`) and the text
    of the publisher at work continue each other, with lines of Stage1 only behind the history
    (`Continues`, `Agrees`);
  - `DoneInv`: the range of a batch that saved holds its records, and all curves of a batch
    that is done are in lines of Stage1 in the file. That every curve of a committed batch
    is covered by some plan is in `PlanInv`.
  `HistoryAgrees` also says that a commit can be completed before Stage2 has a history. For
  that `AloneInv` is needed: until then the prefix of each batch is the text of the one before
  it (`Chain`), and the file ends with one of them.
- `OutputGrowsCorrect`: `Spec => OutputGrows`, an action property no run checks: of all that the
  publishers write anew or cut off, nothing is text that was there. It comes with each step of `IInv`.
- `CommitCompletesAlone`: `Spec => []CommitCompletes` when `Reports = {}`, an installation
  without Stage2 publisher on this pair of files. With one the property is false, see
  `publication_shared` in section 6; run and theorem together say that the second publisher
  is the cause and no crash of Stage1 is.

  The replay computes over a sequence of batches. Its proof needs no induction rule with an
  operator parameter: the function exists, and has the results the steps need, because
  a least batch without them would follow from the one before (`ReplayExists`, `ReplayFacts`,
  with `NatLessThanWellFounded`). In the same way every finite set of numbers has its sorted
  sequence (`AscendingExists`, `SortedFacts`), which is how curves become lines.

It proves of `WorkerControl`, for any workers, breaker, queues and installations:

- `ControlTypeCorrect`: `ControlSpec => []ControlTypeOK`, and with it that a record is
  consistent: it holds a process exactly when it is Running, and an asked process is not wanted.
- `StopCorrect`: `ControlSpec => StopHolds`, an action property. What may come back by itself (a
  Restarting worker, a running one whose end is not seen, a worker still to be autostarted)
  is wanted by the user: `WantedInv`. The proof has a fact about each function of the record
  (`SpawnFact`, `PolledFact`, `TickedFact`) and one step per action.

The assumptions are the named ASSUMEs of the modules, which TLC evaluates
in each run. The lemmas about `RemoveAt`, `ReplaceAt`, `Min` of natural numbers, `ReadNext`
and `Advanced` are stated once in `WorktodoFileProofs`; the existence of a least element
comes from `NatLessThanWellFounded`.

Only model-checked: liveness, because the prover has no ENABLED and thus no fairness. These
are `ReceiptResolved`, `RowsWorkedOff`, `AllRun`, `RowsConsumed`, `HandedOver`, `KeepsGoing`
and `ExitCompletes`. All invariants and action properties of the passing runs are proved.

## 5. Not modelled, and abstractions to know

- Arithmetic, kernels, device selection, tuning, GUI views, the feeder tool, Android, build
  and experiments: no decision of the modelled part reads their inner state. They are by far
  most of the repository: of some 140000 lines the kernels and NTT engines, the experiments
  under `tools/`, vendored headers, generated configuration and drawing code leave only a few
  thousand that decide anything about queues, files and processes. The share of lines that the
  models cover stays small for that reason.
- File primitives are atomic steps. `write_atomic` may report an uncertain publication; the
  process then ends, which is a crash after the write. Ownership (`OwnerLease`, one process
  per section and stage) is a lock of the operating system and is taken as given.
- Removing a checkpoint always succeeds (`main.cpp:221` does not look at the error).
- In `Stage1Queue` a batch saves at most one record and has one checkpoint file; longer
  batches are in `Publication`, generations in `Stage1Checkpoint`.
- The routed handoff and the direct one (Stage2 row in the same file) are two modules;
  `Stage1Queue` has the direct one.
- Of the results: row formats and checksums, the older internal ledger and its migration, the
  refusal of foreign submissions, the append-only internal results of Stage2.
- Of the Prime95 handoff: the import of the legacy pending file, `validate_ready` and the
  prefix conflicts, the choice of Prime95's worker section, which log lines are a rejection.
- Of the GUI: logs, monitors, views, the editing of the configuration, the task generator; the
  second GUI (`gui_v2`) with its leases and its own shutdown, over the same controller.
- Single-save, planning and dry-run modes, legacy imports and the sync copies of save files.

## 6. Findings

Each is a run that TLC refutes, with the line it contradicts in `PROJECT.json`.

- `publication_shared`: a Stage1 batch is interrupted between its two files and Stage2 appends
  a report before the retry. The text of the batch no longer fits behind its prefix, and every
  later Stage1 publication to this pair of files is refused. Without Stage2 it cannot happen
  (`CommitCompletesAlone`).
- `stage1_shared_dir`: `finish_record` removes the completed checkpoint without the batch
  lock. With a shared `tmp_dir` another worker may have it open.
- `stage2_grown_save`: a save that grows between a crash and the restart gives the task a
  new identity, while the receipt of the interrupted curve keeps its first owner: it enters
  no batch of the task that completes, and the curve is missing from the report.

Observations made while modelling, without a run of their own:

- Recovery compares the queue with its before and after versions by content
  (`io/worktodo.cpp:1093`). A row added again after the queue write makes it equal to
  "before", and the new row is consumed for the old batch; `io/worktodo.h:169` says recovery
  stops rather than consuming another task.
- Parking again after a crash chooses the receiver and its finished record anew
  (`sync/stage2.cpp:100`). With a finished record per receiver a finished line can be routed
  to a receiver that does not know it, and is run again: with `FinishedOf` injective TLC
  finds `RunOnce` violated with one fault. `io/worktodo.h:178` and `docs/usage/STAGE1.md:109`
  say that a finished line is not queued again.
- Prime95: a recovered line left in `.ready` by a crash may be published again with the next
  attempt (`sync/p95.cpp:555`); an ambiguous intent ends the flush and holds back all later
  intents; the read-modify-write of `worktodo.add` can restore lines that Prime95 took in
  between; rejected lines are recovered only when a later batch is delivered, and only
  if that batch was parked with `p95_recover_lost`.
- GUI: the change of the stage is decided only in the tick that sees QueueEmpty and only with
  exit phase Idle (`worker_controller.cpp:438`), so a worker whose stage runs out while the
  exit question is open stays down after a cancel. `begin_graceful_exit` skips Restarting
  workers; `poll` starts them again during the exit without a stop request, and the exit waits
  for its deadline and kills them. That is why `StopHolds` speaks of the user's stop and not
  of the exit. Start in the frame in which a stopped worker's end was seen keeps
  `stop_requested`: the new process was never asked and is killed at the old deadline.
  `request_close` with `exit_confirm=stop` moves the deadline each time. The breaker is reset
  by a reconfiguration or a change of the stage only.

## 7. What is open

1. The removal of a checkpoint that fails (`main.cpp:221`) as a fault of `Stage1Queue`.
2. The leases of the second GUI together with `WorkerControl`.
3. Which receiver and finished record a parked assignment gets the second time
   (`sync/stage2.cpp:100`), as a run of its own.
