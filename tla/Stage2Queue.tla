----------------------------- MODULE Stage2Queue ----------------------------
(***************************************************************************)
(* One Stage2 queue worker: run_tasks of src/src/ecm/stage2/task.cpp, its  *)
(* task checkpoint (src/src/io/stage2_checkpoint.cpp), the curve child it  *)
(* launches (curve_worker) and the submission ledger the curves end in     *)
(* (publish_submission, has_stage2_attempt and seal_submissions of         *)
(* src/src/io/results.cpp).                                                *)
(*                                                                         *)
(* A row asks for the curves skip+1 .. skip+count of a save file, up to a  *)
(* bound b2.  The checkpoint knows how many of them are done; it belongs   *)
(* to the save's content and skip, while count and b2 are a policy that    *)
(* may change between two starts.  A curve leaves three traces: a receipt  *)
(* in the ledger, a line in the results with the token of its attempt,     *)
(* and, after the parent has seen that line, the checkpoint's count.  The  *)
(* child dies with its parent.                                             *)
(*                                                                         *)
(* Left out: single-save and planning modes, the import of older           *)
(* checkpoints, a missing ledger, torn lines (an unterminated result line  *)
(* counts for nothing, so it is the crash before the line).                *)
(***************************************************************************)
EXTENDS WorktodoFile

CONSTANTS
    InitQueue,    \* the worktodo text at the start
    Variants,     \* the rows an editor may write
    Invalid,      \* the rows whose b2 no curve accepts
    Hits,         \* <<curve, b2>>: the curves that find a factor, and up to where
    InitSaved,    \* how many curves the save holds at the start
    Paths,        \* the result files an installation may configure
    InitPath,     \* the one it configures at first
    MaxSaved, MaxFault, MaxEdit     \* bounds: saved curves; crashes and stops; edits of rows

Me == 1
NoSelection == [priority |-> 0, skip |-> 0]

Row     == [stage : {2}, skip : Nat, count : Nat, b2 : Nat]
Skips   == {r.skip : r \in Variants}
Ids     == [save : InitSaved..MaxSaved, skip : Skips]
State   == {s \in [done : Nat, total : Nat, run : Nat, pending : Nat,
                   path : Paths \cup {None}, b2 : Nat] :
              s.pending = 0 <=> s.path = None}
Receipt == [curve : Nat, b2 : Nat, task : Ids]

ASSUME VariantAssumption == Variants \subseteq Row /\ Invalid \subseteq Variants
ASSUME QueueAssumption ==
    InitQueue \in Seq([kind : {"Task", "Error"}, w : {0}, row : Variants])
ASSUME PathAssumption  == InitPath \in Paths /\ None \notin Paths
ASSUME NoneAssumption  == None \notin State
ASSUME BoundAssumption == /\ InitSaved \in Nat /\ MaxSaved \in Nat /\ InitSaved <= MaxSaved
                          /\ MaxFault \in Nat /\ MaxEdit \in Nat

VARIABLES
    queue,      \* the worker's section of worktodo.txt
    saved,      \* the save file: how many curves it holds; it only grows
    path,       \* the result file the configuration names
    progress,   \* progress[id]: the task checkpoint on disk, or None
    results,    \* the result lines: [path, token, curve, b2]
    ledger,     \* the receipts of the submission ledger
    batches,    \* its sealed batches, each a set of receipts
    output,     \* what the submission file shows: batches, and factors as {receipt}
    finished,   \* the finished record
    pc, row, plan, id, state,      \* the process: its row, curves, task, checkpoint
    removed,    \* history: the rows that were worked off
    token, faults, edits

disk == <<queue, saved, path, progress, results, ledger, batches, output, finished>>
mem  == <<row, plan, id, state>>
aux  == <<removed, token, faults, edits>>
vars == <<disk, pc, mem, aux>>

PC == {"down", "head", "load", "resume", "curve", "child", "export", "answer", "count",
       "render", "check", "record", "remove", "clean"}

Init ==
    /\ queue = InitQueue /\ saved = InitSaved /\ path = InitPath
    /\ progress = [i \in Ids |-> None]
    /\ results = {} /\ ledger = {} /\ batches = {} /\ output = {} /\ finished = <<>>
    /\ pc = "down" /\ row = None /\ plan = 0 /\ id = None /\ state = None
    /\ removed = <<>> /\ token = 0 /\ faults = 0 /\ edits = 0

Goto(from, to) == pc = from /\ pc' = to

\* The process ends; what it knew is lost.
Die == /\ pc' = "down" /\ row' = None /\ plan' = 0 /\ id' = None /\ state' = None
       /\ UNCHANGED disk

(***************************************************************************)
(* The next row, and where its task stands.                                *)
(***************************************************************************)
NextRow == ReadNext(queue, Me, NoSelection, 2)

Start == Goto("down", "head") /\ UNCHANGED <<disk, mem, aux>>

Exit == /\ Goto("head", "down")
        /\ NextRow = 0
        /\ UNCHANGED <<disk, mem, aux>>

\* records(save, skip, count): what is there of the curves asked for.
Available(r) ==
    LET left == IF r.skip < saved THEN saved - r.skip ELSE 0
    IN  IF r.count = 0 THEN left ELSE Min({r.count, left})

ReadRow ==
    /\ Goto("head", "load")
    /\ NextRow # 0
    /\ row' = queue[NextRow].row
    /\ plan' = Available(row')
    /\ UNCHANGED <<disk, id, state, aux>>

\* The inputs are checked curve by curve: without curves nothing is rejected.
Rejected == row \in Invalid /\ plan # 0

\* A task input error: the row is commented out, or, if it is gone, fatal.
RejectRow ==
    /\ pc = "load" /\ Rejected
    /\ IF Found(queue, Me, row)
       THEN /\ queue' = Advanced(queue, Me, row, "MarkError", None)
            /\ pc' = "head" /\ row' = None /\ plan' = 0
            /\ UNCHANGED <<saved, path, progress, results, ledger, batches, output, finished,
                           id, state>>
       ELSE Die
    /\ UNCHANGED aux

Fresh == [done |-> 0, total |-> 0, run |-> 0, pending |-> 0, path |-> None, b2 |-> 0]

\* Mutant: a checkpoint of another bound is not taken over.
LoadSameBound ==
    /\ Goto("load", "resume")
    /\ ~Rejected
    /\ id' = [save |-> saved, skip |-> row.skip]
    /\ state' = IF progress[id'] = None \/ progress[id'].b2 # row.b2 THEN Fresh ELSE progress[id']
    /\ UNCHANGED <<disk, row, plan, aux>>

\* load_task: the save is hashed only now.
Load ==
    /\ Goto("load", "resume")
    /\ ~Rejected
    /\ id' = [save |-> saved, skip |-> row.skip]
    /\ state' = IF progress[id'] = None THEN Fresh ELSE progress[id']
    /\ UNCHANGED <<disk, row, plan, aux>>

ResultWritten(p, t) == \E r \in results : r.path = p /\ r.token = t

Counted(s) == [s EXCEPT !.done = @ + 1, !.pending = 0, !.path = None]

Answered == state.pending # 0 /\ ResultWritten(state.path, state.pending)

\* "Recovered completed curve from durable result receipt."
Recover ==
    /\ pc = "resume"
    /\ Answered
    /\ state' = Counted(state)
    /\ progress' = [progress EXCEPT ![id] = state']
    /\ UNCHANGED <<queue, saved, path, results, ledger, batches, output, finished,
                   pc, row, plan, id, aux>>

Hit(c, b2) == <<c, b2>> \in Hits

\* Mutant: a receipt of the attempt is not looked for.
AttemptedNever(c) == FALSE

\* Mutant: every unresolved attempt is taken for one with a receipt.
AttemptedAlways(c) == TRUE

\* has_stage2_attempt: a receipt of the task and curve, or a factor of the
\* curve whatever it was found for.
AttemptedFor(i, c) == \E r \in ledger : r.curve = c /\ (r.task = i \/ Hit(r.curve, r.b2))

Attempted(c) == AttemptedFor(id, c)

NextCurve == row.skip + state.done + 1

\* State::reconfigure refuses to change the policy of an unresolved attempt.
SamePolicy == state.total = plan /\ state.b2 = row.b2

Unresolved == state.pending # 0 /\ ~SamePolicy /\ Attempted(NextCurve)

\* Mutant: the target replaces the total, also when more is done already.
EffectiveTotal(s) == plan

Total(s) == Max({s.done, plan})

Reconfigure ==
    /\ Goto("resume", "curve")
    /\ ~Answered /\ ~Unresolved
    /\ state' = LET s == IF state.pending # 0 /\ ~SamePolicy
                         THEN [state EXCEPT !.pending = 0, !.path = None] ELSE state
                IN  [s EXCEPT !.total = Total(s), !.b2 = row.b2,
                              !.run = IF @ = 0 THEN token + 1 ELSE @]
    /\ token' = IF state.run = 0 THEN token + 1 ELSE token
    /\ progress' = [progress EXCEPT ![id] = state']
    /\ UNCHANGED <<queue, saved, path, results, ledger, batches, output, finished,
                   row, plan, id, removed, faults, edits>>

\* "Stage2 has an unconfirmed curve; recover its original B2 and curve count".
Refuse ==
    /\ pc = "resume"
    /\ ~Answered /\ Unresolved
    /\ Die
    /\ UNCHANGED aux

(***************************************************************************)
(* The curves, one child each.                                             *)
(***************************************************************************)
\* Mutant: the intent does not say which result file will answer.
LaunchPathless ==
    /\ Goto("curve", "child")
    /\ state.done < plan
    /\ state' = [state EXCEPT !.pending = token + 1, !.path = None]
    /\ token' = token + 1
    /\ progress' = [progress EXCEPT ![id] = state']
    /\ UNCHANGED <<queue, saved, path, results, ledger, batches, output, finished,
                   row, plan, id, removed, faults, edits>>

\* The intent is on disk before the child runs.
Launch ==
    /\ Goto("curve", "child")
    /\ state.done < plan
    /\ state' = [state EXCEPT !.pending = token + 1, !.path = path]
    /\ token' = token + 1
    /\ progress' = [progress EXCEPT ![id] = state']
    /\ UNCHANGED <<queue, saved, path, results, ledger, batches, output, finished,
                   row, plan, id, removed, faults, edits>>

\* A stop request between two curves; a task that is done is still completed.
Stop ==
    /\ pc = "curve" /\ state.done < plan
    /\ faults < MaxFault /\ faults' = faults + 1
    /\ Die
    /\ UNCHANGED <<removed, token, edits>>

\* Mutant: the result line is written without a receipt.
PublishSkipped ==
    /\ Goto("child", "answer")
    /\ UNCHANGED <<disk, mem, aux>>

\* publish_submission: the first receipt of a curve and b2 keeps its owner.
Publish ==
    /\ Goto("child", IF Hit(NextCurve, state.b2) THEN "export" ELSE "answer")
    /\ ledger' = IF \E r \in ledger : r.curve = NextCurve /\ r.b2 = state.b2
                 THEN ledger
                 ELSE ledger \cup {[curve |-> NextCurve, b2 |-> state.b2, task |-> id]}
    /\ UNCHANGED <<queue, saved, path, progress, results, batches, output, finished, mem, aux>>

\* append_submissions: whatever the ledger has and the output lacks.
Rendered == output \cup batches \cup {{r} : r \in {x \in ledger : Hit(x.curve, x.b2)}}

ExportFactor ==
    /\ Goto("export", "answer")
    /\ output' = Rendered
    /\ UNCHANGED <<queue, saved, path, progress, results, ledger, batches, finished, mem, aux>>

\* The result line with the token of the attempt: the curve is answered.
Answer ==
    /\ Goto("answer", "count")
    /\ results' = results \cup {[path |-> path, token |-> state.pending,
                                 curve |-> NextCurve, b2 |-> state.b2]}
    /\ UNCHANGED <<queue, saved, path, progress, ledger, batches, output, finished, mem, aux>>

Count ==
    /\ Goto("count", "curve")
    /\ Answered
    /\ state' = Counted(state)
    /\ progress' = [progress EXCEPT ![id] = state']
    /\ UNCHANGED <<queue, saved, path, results, ledger, batches, output, finished,
                   row, plan, id, aux>>

(***************************************************************************)
(* The task is done: seal, record, remove, clean.                          *)
(***************************************************************************)
Unsealed == {r \in ledger : /\ r.task = id /\ ~Hit(r.curve, r.b2)
                            /\ \A b \in batches : r \notin b}

\* Mutant: without a new batch the output is not looked at.
SealOnly ==
    /\ Goto("curve", IF Unsealed = {} THEN "check" ELSE "render")
    /\ state.done >= plan
    /\ batches' = IF Unsealed = {} THEN batches ELSE batches \cup {Unsealed}
    /\ UNCHANGED <<queue, saved, path, progress, results, ledger, output, finished, mem, aux>>

\* seal_submissions: the curves without a factor become one batch of the task.
Seal ==
    /\ Goto("curve", "render")
    /\ state.done >= plan
    /\ batches' = IF Unsealed = {} THEN batches ELSE batches \cup {Unsealed}
    /\ UNCHANGED <<queue, saved, path, progress, results, ledger, output, finished, mem, aux>>

Render ==
    /\ Goto("render", "check")
    /\ output' = Rendered
    /\ UNCHANGED <<queue, saved, path, progress, results, ledger, batches, finished, mem, aux>>

\* "task completed but worktodo changed": nothing is recorded.
Check ==
    /\ pc = "check"
    /\ IF NextRow # 0 /\ queue[NextRow].row = row
       THEN pc' = "record" /\ UNCHANGED <<disk, mem>>
       ELSE Die
    /\ UNCHANGED aux

\* Mutant: the line is written without looking for it.
FinishedWrittenNever == FALSE

FinishedWritten == \E i \in DOMAIN finished : finished[i] = [run |-> state.run, row |-> row]

Record ==
    /\ Goto("record", "remove")
    /\ finished' = IF FinishedWritten THEN finished
                   ELSE Append(finished, [run |-> state.run, row |-> row])
    /\ UNCHANGED <<queue, saved, path, progress, results, ledger, batches, output, mem, aux>>

RemoveRow ==
    /\ pc = "remove"
    /\ IF Found(queue, Me, row)
       THEN /\ queue' = Advanced(queue, Me, row, "Remove", None)
            /\ removed' = Append(removed, [id |-> id, run |-> state.run, row |-> row,
                                           done |-> state.done])
            /\ pc' = "clean"
            /\ UNCHANGED <<saved, path, progress, results, ledger, batches, output, finished, mem>>
       ELSE Die /\ UNCHANGED removed
    /\ UNCHANGED <<token, faults, edits>>

Clean ==
    /\ Goto("clean", "head")
    /\ progress' = [progress EXCEPT ![id] = None]
    /\ row' = None /\ plan' = 0 /\ id' = None /\ state' = None
    /\ UNCHANGED <<queue, saved, path, results, ledger, batches, output, finished, aux>>

(***************************************************************************)
(* Around it: a crash of parent or child, Stage1 appending to the save, an *)
(* editor, another configuration at the next start.                        *)
(***************************************************************************)
Crash ==
    /\ pc # "down" /\ faults < MaxFault
    /\ faults' = faults + 1
    /\ Die
    /\ UNCHANGED <<removed, token, edits>>

Grow ==
    /\ saved < MaxSaved
    /\ saved' = saved + 1
    /\ UNCHANGED <<queue, path, progress, results, ledger, batches, output, finished, pc, mem, aux>>

EditRow(i, r) ==
    /\ edits < MaxEdit /\ edits' = edits + 1
    /\ queue[i].kind = "Task" /\ queue[i].row # r
    /\ queue' = ReplaceAt(queue, i, TaskLine(r))
    /\ UNCHANGED <<saved, path, progress, results, ledger, batches, output, finished,
                   pc, mem, removed, token, faults>>

ChangePath(p) ==
    /\ pc = "down"
    /\ p # path /\ path' = p
    /\ UNCHANGED <<queue, saved, progress, results, ledger, batches, output, finished,
                   pc, mem, aux>>

Take   == Start \/ Exit \/ ReadRow \/ RejectRow \/ Load \/ Recover \/ Reconfigure \/ Refuse
Curve  == Launch \/ Publish \/ ExportFactor \/ Answer \/ Count
Finish == Seal \/ Render \/ Check \/ Record \/ RemoveRow \/ Clean
Around == \/ Crash \/ Stop \/ Grow
          \/ \E i \in DOMAIN queue, r \in Variants : EditRow(i, r)
          \/ \E p \in Paths : ChangePath(p)

Next == Take \/ Curve \/ Finish \/ Around

Spec == Init /\ [][Next]_vars

\* The worker does its own steps and is started again after it ended.
LiveSpec == Spec /\ WF_vars(Take \/ Curve \/ Finish)
-----------------------------------------------------------------------------
(* Properties.                                                             *)

TypeOK ==
    /\ queue \in Seq([kind : {"Task", "Error"}, w : {0}, row : Variants])
    /\ saved \in InitSaved..MaxSaved /\ path \in Paths
    /\ progress \in [Ids -> State \cup {None}]
    /\ results \subseteq [path : Paths, token : Nat, curve : Nat, b2 : Nat]
    /\ ledger \subseteq Receipt
    /\ batches \subseteq SUBSET ledger /\ output \subseteq SUBSET ledger
    /\ finished \in Seq([run : Nat, row : Variants])
    /\ pc \in PC
    /\ row \in Variants \cup {None} /\ plan \in Nat
    /\ id \in Ids \cup {None} /\ state \in State \cup {None}
    /\ removed \in Seq([id : Ids, run : Nat, row : Variants, done : Nat])
    /\ token \in Nat /\ faults \in Nat /\ edits \in Nat

\* A checkpoint that was written can be read again: State::load refuses more
\* done than total, and an attempt that is pending when all is done.
CheckpointLoadable ==
    \A i \in Ids : progress[i] # None =>
        /\ progress[i].run # 0
        /\ progress[i].done <= progress[i].total
        /\ progress[i].pending # 0 => progress[i].done < progress[i].total

\* A curve the checkpoint counts as done has its receipt and its result line,
\* whatever was interrupted and however the policy changed.
CountedIsDurable ==
    \A i \in Ids : progress[i] # None =>
        \A n \in 1..progress[i].done :
            \E r \in ledger, l \in results :
                r.curve = i.skip + n /\ l.curve = r.curve /\ l.b2 = r.b2

\* No work is reported twice: a receipt is in one batch at most, and within a
\* batch a curve is there under one b2 only.
ReportedOnce ==
    /\ \A b, c \in batches : b # c => b \cap c = {}
    /\ \A b \in batches : \A r, q \in b : r.curve = q.curve => r = q

\* At the step that takes a row out of the queue, every receipt of its task is
\* in the submission output, through whatever batch or factor line.
RemovedIsReported ==
    [][removed' # removed =>
          \A r \in ledger : r.task = id => \E b \in output : r \in b]_vars

\* Every row that goes is recorded, and no task run is recorded twice for it.
RecordedOnce ==
    /\ \A k \in DOMAIN removed : \E i \in DOMAIN finished :
          finished[i] = [run |-> removed[k].run, row |-> removed[k].row]
    /\ \A i, j \in DOMAIN finished : finished[i] = finished[j] => i = j

\* Confirmed progress is never taken back: a checkpoint on disk keeps its run
\* and its count, or counts the curve whose result line has appeared.
ProgressKept ==
    [][\A i \in Ids : progress[i] # None /\ progress'[i] # None =>
          /\ progress'[i].run = progress[i].run
          /\ \/ progress'[i].done = progress[i].done
             \/ /\ progress'[i].done = progress[i].done + 1
                /\ ResultWritten(progress[i].path, progress[i].pending)]_vars

\* The head row changes the policy of an attempt that has a receipt and no
\* result line: it can only be resolved under the policy it was started with.
Refused ==
    /\ NextRow # 0
    /\ LET r == queue[NextRow].row
           i == [save |-> saved, skip |-> r.skip]
           s == progress[i]
       IN  /\ s # None /\ s.pending # 0 /\ ~ResultWritten(s.path, s.pending)
           /\ s.b2 # r.b2 \/ s.total # Available(r)
           /\ AttemptedFor(i, r.skip + s.done + 1)

\* The worker's rows are worked off, unless the head row stays refused for ever;
\* an attempt that left nothing is given up for the new policy and refuses none.
RowsConsumed == <>[](NextRow = 0 \/ Refused)

\* All curves of a task that found no factor are reported when its row goes.
AllReported ==
    \A k \in DOMAIN removed : \A n \in 1..removed[k].done :
        \E r \in ledger, b \in output : r.curve = removed[k].row.skip + n /\ r \in b
=============================================================================
