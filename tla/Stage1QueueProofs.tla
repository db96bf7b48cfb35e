------------------------- MODULE Stage1QueueProofs -------------------------
(***************************************************************************)
(* Theorems about Stage1Queue, for every set of workers, every queue text, *)
(* every edit and any number of crashes.                                   *)
(***************************************************************************)
EXTENDS Stage1Queue, WorktodoFileProofs

\* The line a Stage1 worker reads is a task line of its section.
LEMMA NextRowIsTask ==
    ASSUME queue \in Seq(Line), NEW w, NextRow(w) # 0
    PROVE  /\ NextRow(w) \in TaskAt(queue, w)
           /\ NextRow(w) \in 1..Len(queue)
           /\ queue[NextRow(w)].row \in Row
           /\ Found(queue, w, queue[NextRow(w)].row)
BY ReadIsTask DEF NextRow, Line

\* ecm_worktodo_advance on the shared queue.
LEMMA AdvancedIsQueue ==
    ASSUME NEW f \in Seq(Line), NEW w, NEW r \in Row, Found(f, w, r),
           NEW a \in {"Remove", "MarkError", "Replace"},
           NEW n, a = "Replace" => n \in Row
    PROVE  Advanced(f, w, r, a, n) \in Seq(Line)
<1>1. ErrorLine(r) \in Line  BY DEF ErrorLine, Line
<1>2. a = "Replace" => TaskLine(n) \in Line  BY DEF TaskLine, Line
<1>3. QED BY <1>1, <1>2, AdvancedIsFile

(***************************************************************************)
(* The type invariant is not inductive by itself: what a process holds in  *)
(* memory depends on where it is.                                          *)
(***************************************************************************)
HoldsTicket(w)  == pc[w] \in {"claim", "open", "seed", "run", "failed", "results", "store"}
HoldsBatch(w)   == pc[w] \in {"run", "failed", "results", "store"}
HoldsRange(w)   == pc[w] \in {"results", "store"}
HoldsReceipt(w) == pc[w] \in {"commit", "advance", "write", "cleanup", "ack"}

LocalOK(w) ==
    /\ HoldsTicket(w) => ticket[w] \in Row
    /\ HoldsBatch(w) => batch[w] \in Batch
    /\ HoldsRange(w) => range[w] \in Record
    /\ HoldsReceipt(w) => receipt[w] \in Receipt
    /\ pc[w] = "write" => receipt[w].evidence \in Version

TypeInv == TypeOK /\ \A w \in Workers : LocalOK(w)

LEMMA PathIsPath ==
    ASSUME NEW w \in Workers, ticket[w] \in Row
    PROVE  Path(w) \in Paths
BY PathAssumption DEF Path, Paths, Row

USE DEF PC, LocalOK, HoldsTicket, HoldsBatch, HoldsRange, HoldsReceipt

\* The death of a process keeps every type; only its memory and locks change.
LEMMA DieType ==
    ASSUME TypeInv, NEW w \in Workers, Die(w),
           taken' \in Seq([w : Workers, batch : Batch, record : Record]),
           s2done' \subseteq Row, nextId' \in Nat, faults' \in Nat, edits' \in Nat
    PROVE  TypeInv'
BY DEF TypeInv, TypeOK, Die, Unlocked

\* The startup repair works on one of the rows it read.
LEMMA NextRepairIsRow ==
    ASSUME NEW w \in Workers, rows \in [Workers -> SUBSET Repair], rows[w] # {}
    PROVE  NextRepair(w) \in rows[w] /\ NextRepair(w) \in Repair
<1> DEFINE at == {y.at : y \in rows[w]}
<1>0. rows[w] \subseteq Repair
  OBVIOUS
<1>1. at \in SUBSET Nat /\ at # {}
  BY <1>0 DEF Repair
<1>2. Min(at) \in at
  BY <1>1, MinOfNats
<1>3. PICK x \in rows[w] : x.at = Min(at)
  BY <1>2
<1>4. NextRepair(w) \in rows[w]
  BY <1>3 DEF NextRepair
<1>5. QED BY <1>0, <1>4

\* A count is put beside the rows of one save file; the rows stay as they were
\* read.
LEMMA CountedRows ==
    ASSUME NEW w \in Workers, rows \in [Workers -> SUBSET Repair], save \in [Targets -> Seq(Nat)],
           CountRows(w)
    PROVE  /\ rows' \in [Workers -> SUBSET Repair]
           /\ \A x \in rows'[w] : \E y \in rows[w] : x.row = y.row
<1> DEFINE t == NextRepair(w).row.target
           same == {x \in rows[w] : x.row.target = t}
           Counted(y) == [y EXCEPT !.count = Len(save[t])]
<1>1. /\ rows[w] # {}
      /\ rows' = [rows EXCEPT ![w] = (@ \ same) \cup IF save[t] = <<>> THEN {} ELSE {Counted(y) : y \in same}]
  BY DEF CountRows
<1>2. t \in Targets
  BY <1>1, NextRepairIsRow DEF Repair, Row
<1>3. Len(save[t]) \in Nat
  BY <1>2, LenProperties
<1>4. ASSUME NEW y \in rows[w] PROVE Counted(y) \in Repair /\ Counted(y).row = y.row
  <2>1. y \in Repair
    OBVIOUS
  <2>2. QED BY <1>3, <2>1 DEF Repair
<1>5. rows'[w] = (rows[w] \ same) \cup IF save[t] = <<>> THEN {} ELSE {Counted(y) : y \in same}
  BY <1>1
<1>6. \A x \in rows'[w] : x \in rows[w] \/ \E y \in rows[w] : x = Counted(y)
  BY <1>5
<1>7. \A x \in rows'[w] : x \in Repair /\ \E y \in rows[w] : x.row = y.row
  BY <1>4, <1>6
<1>8. QED BY <1>1, <1>7

LEMMA BootType ==
    ASSUME TypeInv, NEW w \in Workers, Boot(w)
    PROVE  TypeInv'
<1> USE DEF TypeInv, TypeOK, files, local, aux, Goto
<1>1. CASE Start(w)
  BY <1>1 DEF Start
<1>2. CASE RepairRead(w)
  <2>1. ASSUME NEW i \in Unrepaired(w) PROVE i \in Nat /\ queue[i].row \in Row
    <3>1. i \in TaskAt(queue, w) /\ i \in 1..Len(queue)
      BY LenProperties DEF Unrepaired, Stage1Rows, TaskAt
    <3>2. queue[i] \in Line /\ queue[i].kind = "Task"
      BY <3>1, ElementOfSeq DEF TaskAt
    <3>3. QED BY <3>1, <3>2 DEF Line
  <2>2. \A y \in rows'[w] : y \in Repair
    BY <1>2, <2>1 DEF RepairRead, Repair
  <2>3. QED BY <1>2, <2>2 DEF RepairRead
<1>3. CASE RepairRow(w)
  <2> DEFINE x == NextRepair(w)
  <2>1. x \in Repair /\ x.count # None
    BY <1>3, NextRepairIsRow DEF RepairRow
  <2>2. x.row \in Row /\ [x.row EXCEPT !.skip = x.count] \in Row
    BY <2>1 DEF Repair, Row
  <2>3. queue' \in Seq(Line)
    BY <1>3, <2>2, AdvancedIsQueue DEF RepairRow
  <2>4. QED BY <1>3, <2>3 DEF RepairRow
<1>4. CASE CountRows(w)
  BY <1>4, CountedRows DEF CountRows
<1>5. CASE RepairLost(w)
  BY <1>5, DieType DEF RepairLost
<1>6. CASE Repaired(w)
  BY <1>6 DEF Repaired
<1>7. QED BY <1>1, <1>2, <1>3, <1>4, <1>5, <1>6 DEF Boot

LEMMA TakeType ==
    ASSUME TypeInv, NEW w \in Workers, Take(w)
    PROVE  TypeInv'
<1> USE DEF TypeInv, TypeOK, files, local, aux, Goto
<1>1. CASE Exit(w)
  BY <1>1, DieType DEF Exit
<1>2. CASE Read(w)
  BY <1>2, NextRowIsTask DEF Read
<1>3. CASE MarkMalformed(w)
  <2>1. queue' \in Seq(Line)
    BY <1>3, NextRowIsTask, AdvancedIsQueue DEF MarkMalformed
  <2>2. QED BY <1>3, <2>1 DEF MarkMalformed
<1>4. CASE Claim(w)
  <2>1. Claimed(w) \in Row
    BY <1>4, LenProperties DEF Claim, Claimed, Row
  <2>2. queue' \in Seq(Line)
    BY <1>4, <2>1, AdvancedIsQueue DEF Claim
  <2>3. QED BY <1>4, <2>1, <2>2 DEF Claim
<1>5. CASE ClaimLost(w)
  BY <1>5, DieType DEF ClaimLost
<1>6. QED BY <1>1, <1>2, <1>3, <1>4, <1>5 DEF Take

LEMMA TaskType ==
    ASSUME TypeInv, NEW w \in Workers, Task(w)
    PROVE  TypeInv'
<1> USE DEF TypeInv, TypeOK, files, local, aux, Goto
<1>1. CASE Open(w)
  <2>1. Path(w) \in Paths
    BY <1>1, PathIsPath DEF Open
  <2>2. CASE ckpt[Path(w)] = None
    BY <1>1, <2>1, <2>2 DEF Open
  <2>3. CASE ckpt[Path(w)] # None
    <3>1. ckpt[Path(w)] \in Batch
      BY <2>1, <2>3
    <3>2. QED BY <1>1, <2>1, <2>3, <3>1 DEF Open
  <2>4. QED BY <2>2, <2>3
<1>2. CASE OpenRefused(w)
  BY <1>2, DieType DEF OpenRefused
<1>3. CASE Seed(w)
  <2>1. PICK o \in Outcomes :
          LET b == [id |-> nextId, target |-> ticket[w].target, outcome |-> o] IN
            /\ batch' = [batch EXCEPT ![w] = b]
            /\ ckpt' = [ckpt EXCEPT ![Path(w)] = b]
    BY <1>3 DEF Seed
  <2>2. [id |-> nextId, target |-> ticket[w].target, outcome |-> o] \in Batch
    BY <1>3 DEF Seed, Batch, Row
  <2>3. /\ batch' \in [Workers -> Batch \cup {None}] /\ batch'[w] \in Batch
        /\ \A v \in Workers \ {w} : batch'[v] = batch[v]
        /\ ckpt' \in [Paths -> Batch \cup {None}]
    BY <2>1, <2>2
  <2>4. QED BY <1>3, <2>3 DEF Seed
<1>4. CASE Persist(w)
  BY <1>4 DEF Persist
<1>5. CASE Stop(w)
  <2>1. /\ Die(w) /\ faults' \in Nat
        /\ UNCHANGED <<taken, s2done, nextId, edits>>
    BY <1>5 DEF Stop
  <2>2. QED BY <2>1, DieType
<1>6. CASE Fail(w)
  BY <1>6 DEF Fail, Unlocked
<1>7. CASE MarkFailed(w)
  <2>1. queue' \in Seq(Line)
    BY <1>7, AdvancedIsQueue DEF MarkFailed
  <2>2. QED BY <1>7, <2>1 DEF MarkFailed
<1>8. CASE MarkFailedLost(w)
  BY <1>8, DieType DEF MarkFailedLost
<1>9. CASE PublishSave(w)
  <2> DEFINE b == batch[w]  old == save[b.target]
             at == {i \in DOMAIN old : old[i] = b.id}
  <2>1. b \in Batch /\ old \in Seq(Nat) /\ Len(old) \in Nat
    BY <1>9, LenProperties DEF PublishSave, Batch
  <2>2. Append(old, b.id) \in Seq(Nat)
    BY <2>1, AppendProperties DEF Batch
  <2>3. at # {} => Min(at) - 1 \in Nat
    <3>1. at \in SUBSET Nat /\ at \in SUBSET (1..Len(old))
      BY <2>1, LenProperties
    <3>2. at # {} => Min(at) \in 1..Len(old)
      BY <3>1, MinOfNats
    <3>3. QED BY <2>1, <3>2
  <2>4. save' \in [Targets -> Seq(Nat)]
    BY <1>9, <2>1, <2>2 DEF PublishSave
  <2>5. /\ [target |-> b.target, skip |-> Len(old), count |-> 0] \in Record
        /\ [target |-> b.target, count |-> 1,
            skip |-> IF at = {} THEN Len(old) ELSE Min(at) - 1] \in Record
    BY <2>1, <2>3 DEF Record, Batch
  <2>6. range' \in [Workers -> Record \cup {None}] /\ range'[w] \in Record
    BY <1>9, <2>5 DEF PublishSave
  <2>7. QED BY <1>9, <2>4, <2>6 DEF PublishSave
<1>10. CASE PublishResults(w)
  BY <1>10 DEF PublishResults, Unlocked, Batch
<1>11. QED BY <1>1, <1>2, <1>3, <1>4, <1>5, <1>6, <1>7, <1>8, <1>9, <1>10 DEF Task

LEMMA AfterIsFile ==
    ASSUME TypeInv, NEW w \in Workers, receipt[w] \in Receipt,
           Found(queue, w, receipt[w].ticket)
    PROVE  After(w) \in Seq(Line)
<1>1. receipt[w].ticket \in Row /\ receipt[w].replacement \in Row \cup {None}
  BY DEF Receipt
<1>2. CASE receipt[w].replacement = None
  BY <1>1, <1>2, AdvancedIsQueue DEF After, TypeInv, TypeOK
<1>3. CASE receipt[w].replacement # None
  BY <1>1, <1>3, AdvancedIsQueue DEF After, TypeInv, TypeOK
<1>4. QED BY <1>2, <1>3

LEMMA CompletionType ==
    ASSUME TypeInv, NEW w \in Workers, Completion(w)
    PROVE  TypeInv'
<1> USE DEF TypeInv, TypeOK, files, local, aux, Goto
<1>1. CASE Store(w)
  <2> DEFINE new == [ticket |-> ticket[w], record |-> range[w],
                     replacement |-> Handoff(w), path |-> Path(w),
                     evidence |-> None, batch |-> batch[w]]
  <2>1. ticket[w] \in Row /\ range[w] \in Record /\ batch[w] \in Batch /\ Path(w) \in Paths
    BY <1>1, PathIsPath DEF Store
  <2>2. Handoff(w) \in Row \cup {None}
    BY <2>1 DEF Handoff, Row, Record
  <2>3. new \in Receipt
    BY <2>1, <2>2 DEF Receipt
  <2>4. receipt' = [receipt EXCEPT ![w] = new]
    BY <1>1 DEF Store
  <2> HIDE DEF new
  <2>5. QED BY <1>1, <2>3, <2>4 DEF Store
<1>2. CASE CommitDone(w)
  BY <1>2 DEF CommitDone
<1>3. CASE CommitAmbiguous(w)
  BY <1>3, DieType DEF CommitAmbiguous
<1>4. CASE CommitRecord(w)
  BY <1>4 DEF CommitRecord, Receipt
<1>5. CASE WriteEvidence(w)
  <2> DEFINE ev == [before |-> queue, after |-> After(w)]
  <2>1. receipt[w] \in Receipt
    BY <1>5 DEF WriteEvidence
  <2>2. ev \in Version
    BY <1>5, <2>1, AfterIsFile DEF WriteEvidence, Version
  <2>3. [receipt[w] EXCEPT !.evidence = ev] \in Receipt
    BY <2>1, <2>2 DEF Receipt
  <2>4. receipt' = [receipt EXCEPT ![w] = [receipt[w] EXCEPT !.evidence = ev]]
    BY <1>5, <2>1 DEF WriteEvidence
  <2>5. [receipt[w] EXCEPT !.evidence = ev].evidence = ev
    BY <2>1 DEF Receipt
  <2> HIDE DEF ev
  <2>6. receipt' \in [Workers -> Receipt \cup {None}] /\ receipt'[w].evidence \in Version
    BY <2>2, <2>3, <2>4, <2>5
  <2>7. receipt'[w] \in Receipt /\ \A v \in Workers \ {w} : receipt'[v] = receipt[v]
    BY <2>3, <2>4
  <2>8. /\ pc' = [pc EXCEPT ![w] = "write"] /\ editLock' = w
        /\ UNCHANGED <<queue, finished, save, results, ckpt, ckptLock,
                       booting, ticket, batch, range, rows, aux>>
    BY <1>5 DEF WriteEvidence
  <2>9. QED BY <2>6, <2>7, <2>8
<1>6. CASE AdvanceLost(w)
  BY <1>6, DieType DEF AdvanceLost
<1>7. CASE WriteQueue(w)
  <2>1. receipt[w] \in Receipt /\ receipt[w].evidence.after \in Seq(Line)
    BY <1>7 DEF WriteQueue, Version
  <2>2. [w |-> w, batch |-> receipt[w].batch, record |-> receipt[w].record]
           \in [w : Workers, batch : Batch, record : Record]
    BY <2>1 DEF Receipt
  <2>3. taken' \in Seq([w : Workers, batch : Batch, record : Record])
    BY <1>7, <2>2, AppendProperties DEF WriteQueue
  <2>4. QED BY <1>7, <2>1, <2>3 DEF WriteQueue
<1>8. CASE RemoveCheckpoint(w)
  BY <1>8 DEF RemoveCheckpoint
<1>9. CASE Acknowledge(w)
  BY <1>9 DEF Acknowledge
<1>10. QED BY <1>1, <1>2, <1>3, <1>4, <1>5, <1>6, <1>7, <1>8, <1>9 DEF Completion

LEMMA EnvironmentType ==
    ASSUME TypeInv, (\E w \in Workers : Crash(w)) \/ Stage2 \/ Editor
    PROVE  TypeInv'
<1> USE DEF TypeInv, TypeOK, files, local, aux
<1>1. ASSUME NEW w \in Workers, Crash(w) PROVE TypeInv'
  <2>1. /\ Die(w) /\ faults' \in Nat
        /\ UNCHANGED <<taken, s2done, nextId, edits>>
    BY <1>1 DEF Crash
  <2>2. QED BY <2>1, DieType
<1>2. ASSUME NEW i \in DOMAIN queue, ConsumeStage2(i) PROVE TypeInv'
  <2>1. i \in 1..Len(queue) /\ queue[i] \in Line
    BY <1>2, LenProperties, ElementOfSeq
  <2>2. queue[i].row \in Row /\ queue' \in Seq(Line)
    BY <1>2, <2>1, RemoveLine DEF ConsumeStage2, Line
  <2>3. QED BY <1>2, <2>2 DEF ConsumeStage2
<1>3. ASSUME NEW i \in DOMAIN queue, EditDelete(i) PROVE TypeInv'
  <2>1. queue' \in Seq(Line)
    BY <1>3, LenProperties, RemoveLine DEF EditDelete
  <2>2. /\ edits' = edits + 1
        /\ UNCHANGED <<editLock, finished, save, results, ckpt, ckptLock, receipt, local,
                       taken, s2done, nextId, faults>>
    BY <1>3 DEF EditDelete
  <2>3. QED BY <2>1, <2>2
<1>4. ASSUME NEW l \in Edits, EditAppend(l) PROVE TypeInv'
  <2>1. queue' \in Seq(Line)
    BY <1>4, QueueAssumption, AppendProperties DEF EditAppend
  <2>2. QED BY <1>4, <2>1 DEF EditAppend
<1>5. QED BY <1>1, <1>2, <1>3, <1>4 DEF Stage2, Editor

LEMMA InitType == Init => TypeInv
<1> SUFFICES ASSUME Init PROVE TypeInv
  OBVIOUS
<1>1. [t \in Targets |-> <<>>] \in [Targets -> Seq(Nat)]
  BY EmptySeq
<1>2. QED BY <1>1, QueueAssumption, EmptySeq DEF Init, TypeInv, TypeOK

LEMMA StepType == TypeInv /\ [Next]_vars => TypeInv'
<1> SUFFICES ASSUME TypeInv, [Next]_vars PROVE TypeInv'
  OBVIOUS
<1>1. CASE UNCHANGED vars
  BY <1>1 DEF vars, files, local, aux, TypeInv, TypeOK
<1>2. CASE Next
  BY <1>2, BootType, TakeType, TaskType, CompletionType, EnvironmentType DEF Next
<1>3. QED BY <1>1, <1>2

\* The variables have their types in every reachable state.
THEOREM TypeCorrect == Spec => []TypeOK
<1>1. TypeInv => TypeOK  BY DEF TypeInv
<1>2. QED BY <1>1, InitType, StepType, PTL DEF Spec

(***************************************************************************)
(* Durable order.  A row is taken from the queue under a receipt; a        *)
(* receipt is stored for a published batch; the finished record is written *)
(* between the two.  What is published stays published.                    *)
(***************************************************************************)
Saved(b) == b.outcome # "Empty" => \E k \in DOMAIN save[b.target] : save[b.target][k] = b.id

OrderOK(w) ==
    /\ pc[w] = "results" => Saved(batch[w])
    /\ pc[w] = "store" => Saved(batch[w]) /\ batch[w].id \in results
    /\ receipt[w] \in Receipt =>
          Saved(receipt[w].batch) /\ receipt[w].batch.id \in results
    /\ pc[w] \in {"advance", "write"} => receipt[w].record \in finished

OrderInv == ConsumedIsPublished /\ \A w \in Workers : OrderOK(w)

\* The receipts, results, save and finished files a step leaves alone.
Untouched == UNCHANGED <<finished, save, results, receipt, taken>>

\* A process that moves on without reaching one of the four places OrderOK
\* speaks of, and without touching those files, keeps the order.
LEMMA OrderUntouched ==
    ASSUME OrderInv, TypeInv, NEW w \in Workers, Untouched,
           pc' = [pc EXCEPT ![w] = pc'[w]],
           \A v \in Workers \ {w} : batch'[v] = batch[v],
           pc'[w] \notin {"results", "store", "advance", "write"}
    PROVE  OrderInv'
<1>1. /\ pc \in [Workers -> PC]
      /\ UNCHANGED <<finished, save, results, receipt, taken>>
  BY DEF TypeInv, TypeOK, Untouched
<1>2. ASSUME NEW v \in Workers PROVE OrderOK(v)'
  <2>1. OrderOK(v)  BY DEF OrderInv
  <2>2. CASE v = w
    BY <1>1, <2>1, <2>2 DEF OrderOK, Saved
  <2>3. CASE v # w
    <3>1. pc'[v] = pc[v] /\ batch'[v] = batch[v]  BY <1>1, <2>3
    <3>2. QED BY <1>1, <2>1, <3>1 DEF OrderOK, Saved
  <2>4. QED BY <2>2, <2>3
<1>3. ConsumedIsPublished'
  BY <1>1 DEF OrderInv, ConsumedIsPublished
<1>4. QED BY <1>2, <1>3 DEF OrderInv

\* Everything outside the five steps that touch those files.
LEMMA OrderQuiet ==
    ASSUME OrderInv, TypeInv, NEW w \in Workers,
           \/ Boot(w) \/ Take(w) \/ Open(w) \/ OpenRefused(w) \/ Seed(w) \/ Persist(w)
           \/ Stop(w) \/ Fail(w) \/ MarkFailed(w) \/ MarkFailedLost(w)
           \/ CommitDone(w) \/ CommitAmbiguous(w) \/ AdvanceLost(w)
           \/ RemoveCheckpoint(w) \/ Crash(w)
    PROVE  OrderInv'
<1> USE DEF files, local, aux, Goto, Untouched
<1> SUFFICES /\ Untouched
             /\ pc' = [pc EXCEPT ![w] = pc'[w]]
             /\ \A v \in Workers \ {w} : batch'[v] = batch[v]
             /\ pc'[w] \notin {"results", "store", "advance", "write"}
  BY OrderUntouched
<1>0. pc \in [Workers -> PC] /\ batch \in [Workers -> Batch \cup {None}]
  BY DEF TypeInv, TypeOK
<1>1. CASE Boot(w) \/ Take(w)
  BY <1>0, <1>1 DEF Boot, Start, RepairRead, CountRows, RepairRow, RepairLost, Repaired,
              Take, Exit, Read, MarkMalformed,
                    Claim, ClaimLost, Die
<1>2. CASE Open(w) \/ Seed(w) \/ Persist(w) \/ Fail(w) \/ MarkFailed(w)
  BY <1>0, <1>2 DEF Open, Seed, Persist, Fail, MarkFailed
<1>3. CASE OpenRefused(w) \/ Stop(w) \/ MarkFailedLost(w) \/ Crash(w)
  BY <1>0, <1>3 DEF OpenRefused, Stop, MarkFailedLost, Crash, Die
<1>4. CASE CommitDone(w) \/ CommitAmbiguous(w) \/ AdvanceLost(w) \/ RemoveCheckpoint(w)
  BY <1>0, <1>4 DEF CommitDone, CommitAmbiguous, AdvanceLost, RemoveCheckpoint, Die
<1>5. QED BY <1>1, <1>2, <1>3, <1>4

\* publish_batch only appends to a save file, and the batch is in it afterwards.
LEMMA OrderPublishSave ==
    ASSUME OrderInv, TypeInv, NEW w \in Workers, PublishSave(w)
    PROVE  OrderInv'
<1> DEFINE b == batch[w]  old == save[b.target]
           at == {i \in DOMAIN old : old[i] = b.id}
<1>1. /\ b \in Batch /\ old \in Seq(Nat) /\ save \in [Targets -> Seq(Nat)]
      /\ pc \in [Workers -> PC] /\ pc' = [pc EXCEPT ![w] = "results"]
      /\ UNCHANGED <<finished, results, receipt, taken, batch>>
      /\ \A v \in Workers : receipt[v] \in Receipt => receipt[v].batch \in Batch
      /\ \A i \in DOMAIN taken : taken[i].batch \in Batch
  <2>1. ASSUME NEW i \in DOMAIN taken
        PROVE  taken[i] \in [w : Workers, batch : Batch, record : Record]
    <3>1. taken \in Seq([w : Workers, batch : Batch, record : Record])
      BY DEF TypeInv, TypeOK
    <3>2. QED BY <3>1, ElementOfSeq, LenProperties
  <2>2. QED BY <2>1 DEF PublishSave, TypeInv, TypeOK, Goto, aux, Batch, Receipt
<1>2. \A t \in Targets : \A k \in DOMAIN save[t] :
          k \in DOMAIN save'[t] /\ save'[t][k] = save[t][k]
  <2>1. CASE b.outcome = "Empty" \/ at # {}
    BY <1>1, <2>1 DEF PublishSave
  <2>2. CASE b.outcome # "Empty" /\ at = {}
    <3>1. save' = [save EXCEPT ![b.target] = Append(old, b.id)]
      BY <1>1, <2>2 DEF PublishSave
    <3>2. \A k \in DOMAIN old : k \in DOMAIN Append(old, b.id) /\ Append(old, b.id)[k] = old[k]
      BY <1>1, AppendProperties, LenProperties DEF Batch
    <3>3. QED BY <1>1, <3>1, <3>2
  <2>3. QED BY <2>1, <2>2
<1>3. Saved(b)'
  <2>1. CASE b.outcome = "Empty"
    BY <1>1, <2>1 DEF Saved
  <2>2. CASE b.outcome # "Empty" /\ at # {}
    <3>1. save' = save
      <4>1. [save EXCEPT ![b.target] = old] = save
        BY <1>1 DEF Batch
      <4>2. QED BY <2>2, <4>1 DEF PublishSave
    <3>2. QED BY <1>1, <2>2, <3>1 DEF Saved
  <2>3. CASE b.outcome # "Empty" /\ at = {}
    <3>1. save'[b.target] = Append(old, b.id)
      BY <1>1, <2>3 DEF PublishSave, Batch
    <3>2. Len(old) + 1 \in DOMAIN Append(old, b.id) /\ Append(old, b.id)[Len(old) + 1] = b.id
      BY <1>1, AppendProperties, LenProperties DEF Batch
    <3>3. QED BY <1>1, <3>1, <3>2 DEF Saved
  <2>4. QED BY <2>1, <2>2, <2>3
<1>4. \A c \in Batch : Saved(c) => Saved(c)'
  BY <1>2 DEF Saved, Batch
<1>5. \A v \in Workers : HoldsBatch(v) => batch[v] \in Batch
  BY DEF TypeInv
<1>6. ConsumedIsPublished'
  BY <1>1, <1>4 DEF OrderInv, ConsumedIsPublished, Saved
<1>7. ASSUME NEW v \in Workers PROVE OrderOK(v)'
  BY <1>1, <1>3, <1>4, <1>5 DEF OrderInv, OrderOK
<1>8. QED BY <1>6, <1>7 DEF OrderInv

LEMMA OrderPublishResults ==
    ASSUME OrderInv, TypeInv, NEW w \in Workers, PublishResults(w)
    PROVE  OrderInv'
<1>1. /\ pc \in [Workers -> PC] /\ pc[w] = "results" /\ pc' = [pc EXCEPT ![w] = "store"]
      /\ results' = results \cup {batch[w].id}
      /\ UNCHANGED <<finished, save, receipt, taken, batch>>
  BY DEF PublishResults, Goto, aux, TypeInv, TypeOK
<1>2. QED BY <1>1 DEF OrderInv, OrderOK, Saved, ConsumedIsPublished

LEMMA OrderStore ==
    ASSUME OrderInv, TypeInv, NEW w \in Workers, Store(w)
    PROVE  OrderInv'
<1>1. /\ receipt' = [receipt EXCEPT ![w] = receipt'[w]] /\ receipt'[w].batch = batch[w]
      /\ pc' = [pc EXCEPT ![w] = "commit"] /\ pc[w] = "store"
      /\ UNCHANGED <<finished, save, results, taken, batch>>
  BY DEF Store, Goto, aux, TypeInv, TypeOK
<1>2. Saved(receipt'[w].batch) /\ receipt'[w].batch.id \in results
  BY <1>1 DEF OrderInv, OrderOK
<1>3. pc \in [Workers -> PC] /\ receipt \in [Workers -> Receipt \cup {None}]
  BY DEF TypeInv, TypeOK
<1>4. ASSUME NEW v \in Workers PROVE OrderOK(v)'
  <2>1. OrderOK(v) /\ OrderOK(w)  BY DEF OrderInv
  <2>2. CASE v = w
    BY <1>1, <1>2, <1>3, <2>1, <2>2 DEF OrderOK, Saved
  <2>3. CASE v # w
    BY <1>1, <1>3, <2>1, <2>3 DEF OrderOK, Saved
  <2>4. QED BY <2>2, <2>3
<1>5. ConsumedIsPublished'
  BY <1>1 DEF OrderInv, ConsumedIsPublished
<1>6. QED BY <1>4, <1>5 DEF OrderInv

LEMMA OrderCommitRecord ==
    ASSUME OrderInv, TypeInv, NEW w \in Workers, CommitRecord(w)
    PROVE  OrderInv'
<1>1. /\ pc \in [Workers -> PC] /\ pc[w] = "commit" /\ pc' = [pc EXCEPT ![w] = "advance"]
      /\ finished' = finished \cup {receipt[w].record}
      /\ UNCHANGED <<results, save, receipt, taken, batch>>
  BY DEF CommitRecord, Goto, aux, TypeInv, TypeOK
<1>2. QED BY <1>1 DEF OrderInv, OrderOK, Saved, ConsumedIsPublished

LEMMA OrderWriteEvidence ==
    ASSUME OrderInv, TypeInv, NEW w \in Workers, WriteEvidence(w)
    PROVE  OrderInv'
<1>1. /\ receipt[w] \in Receipt /\ receipt'[w].batch = receipt[w].batch
      /\ receipt'[w].record = receipt[w].record
      /\ \A v \in Workers \ {w} : receipt'[v] = receipt[v]
      /\ pc' = [pc EXCEPT ![w] = "write"] /\ pc[w] = "advance"
      /\ UNCHANGED <<finished, save, results, taken, batch>>
  BY DEF WriteEvidence, Goto, aux, TypeInv, TypeOK, Receipt
<1>2. pc \in [Workers -> PC] /\ receipt \in [Workers -> Receipt \cup {None}]
  BY DEF TypeInv, TypeOK
<1>3. ASSUME NEW v \in Workers PROVE OrderOK(v)'
  <2>1. OrderOK(v) /\ OrderOK(w)  BY DEF OrderInv
  <2>2. CASE v = w
    BY <1>1, <1>2, <2>1, <2>2 DEF OrderOK, Saved
  <2>3. CASE v # w
    BY <1>1, <1>2, <2>1, <2>3 DEF OrderOK, Saved
  <2>4. QED BY <2>2, <2>3
<1>4. ConsumedIsPublished'
  BY <1>1 DEF OrderInv, ConsumedIsPublished
<1>5. QED BY <1>3, <1>4 DEF OrderInv

LEMMA OrderWriteQueue ==
    ASSUME OrderInv, TypeInv, NEW w \in Workers, WriteQueue(w)
    PROVE  OrderInv'
<1> DEFINE e == [w |-> w, batch |-> receipt[w].batch, record |-> receipt[w].record]
<1>1. /\ receipt[w] \in Receipt /\ pc[w] = "write" /\ pc' = [pc EXCEPT ![w] = "cleanup"]
      /\ taken' = Append(taken, e)
      /\ UNCHANGED <<finished, save, results, receipt, batch>>
  BY DEF WriteQueue, Goto, TypeInv
<1>2. /\ Saved(e.batch) /\ e.batch.id \in results /\ e.record \in finished
  BY <1>1 DEF OrderInv, OrderOK
<1>3. taken \in Seq([w : Workers, batch : Batch, record : Record])
      /\ e \in [w : Workers, batch : Batch, record : Record]
  BY <1>1 DEF TypeInv, TypeOK, Receipt
<1>4. ConsumedIsPublished'
  <2> SUFFICES ASSUME NEW i \in DOMAIN taken'
               PROVE  LET b == taken'[i].batch IN
                        /\ b.id \in results
                        /\ b.outcome # "Empty" =>
                              \E k \in DOMAIN save[b.target] : save[b.target][k] = b.id
                        /\ taken'[i].record \in finished
    BY <1>1 DEF ConsumedIsPublished
  <2>1. i \in 1..(Len(taken) + 1)
    BY <1>1, <1>3, AppendProperties, LenProperties
  <2>2. CASE i = Len(taken) + 1
    <3>1. taken'[i] = e
      BY <1>1, <1>3, <2>2, AppendProperties
    <3>2. QED BY <1>2, <3>1 DEF Saved
  <2>3. CASE i \in 1..Len(taken)
    <3>1. taken'[i] = taken[i] /\ i \in DOMAIN taken
      BY <1>1, <1>3, <2>3, AppendProperties, LenProperties
    <3>2. QED BY <3>1 DEF OrderInv, ConsumedIsPublished
  <2>4. QED BY <1>3, <2>1, <2>2, <2>3, LenProperties
<1>5. ASSUME NEW v \in Workers PROVE OrderOK(v)'
  BY <1>1 DEF OrderInv, OrderOK, Saved, TypeInv, TypeOK
<1>6. QED BY <1>4, <1>5 DEF OrderInv

LEMMA OrderAcknowledge ==
    ASSUME OrderInv, TypeInv, NEW w \in Workers, Acknowledge(w)
    PROVE  OrderInv'
<1>1. /\ receipt' = [receipt EXCEPT ![w] = None] /\ None \notin Receipt
      /\ pc' = [pc EXCEPT ![w] = pc'[w]] /\ pc'[w] \in {"repair", "idle"}
      /\ batch' = [batch EXCEPT ![w] = None]
      /\ pc \in [Workers -> PC] /\ batch \in [Workers -> Batch \cup {None}]
      /\ receipt \in [Workers -> Receipt \cup {None}]
      /\ UNCHANGED <<finished, save, results, taken>>
  BY NoneAssumption DEF Acknowledge, aux, TypeInv, TypeOK
<1>2. ASSUME NEW v \in Workers PROVE OrderOK(v)'
  <2>1. OrderOK(v)  BY DEF OrderInv
  <2>2. CASE v = w
    BY <1>1, <2>2 DEF OrderOK
  <2>3. CASE v # w
    BY <1>1, <2>1, <2>3 DEF OrderOK, Saved
  <2>4. QED BY <2>2, <2>3
<1>3. ConsumedIsPublished'
  BY <1>1 DEF OrderInv, ConsumedIsPublished
<1>4. QED BY <1>2, <1>3 DEF OrderInv

\* The Stage2 consumer and the editor touch none of these files.
LEMMA OrderEnvironment ==
    ASSUME OrderInv, Stage2 \/ Editor
    PROVE  OrderInv'
<1>1. UNCHANGED <<finished, save, results, receipt, taken, pc, batch>>
  BY DEF Stage2, Editor, ConsumeStage2, EditAppend, EditDelete, local
<1>2. QED BY <1>1 DEF OrderInv, OrderOK, Saved, ConsumedIsPublished

LEMMA OrderInit == Init => OrderInv
<1> SUFFICES ASSUME Init PROVE OrderInv
  OBVIOUS
<1>1. DOMAIN taken = {}
  BY EmptySeq, LenProperties DEF Init
<1>2. QED BY <1>1, NoneAssumption DEF Init, OrderInv, OrderOK, ConsumedIsPublished

LEMMA OrderStep == TypeInv /\ OrderInv /\ [Next]_vars => OrderInv'
<1> SUFFICES ASSUME TypeInv, OrderInv, [Next]_vars PROVE OrderInv'
  OBVIOUS
<1>1. CASE UNCHANGED vars
  BY <1>1 DEF vars, files, local, aux, OrderInv, OrderOK, Saved, ConsumedIsPublished
<1>2. ASSUME NEW w \in Workers, Boot(w) \/ Take(w) \/ Task(w) \/ Completion(w) \/ Crash(w)
      PROVE  OrderInv'
  BY <1>2, OrderQuiet, OrderPublishSave, OrderPublishResults, OrderStore, OrderCommitRecord,
     OrderWriteEvidence, OrderWriteQueue, OrderAcknowledge DEF Task, Completion
<1>3. QED BY <1>1, <1>2, OrderEnvironment DEF Next

\* No reachable state has a row consumed whose batch is not in the results,
\* whose residue is not in the save or whose line is not in finished.
THEOREM OrderCorrect == Spec => []ConsumedIsPublished
<1>1. OrderInv => ConsumedIsPublished  BY DEF OrderInv
<1>2. QED BY <1>1, InitType, StepType, OrderInit, OrderStep, PTL DEF Spec


(***************************************************************************)
(* The frame.  A worker's step leaves the memory and the receipt of every  *)
(* other worker alone, and no queue write but its own passes the gate.     *)
(***************************************************************************)
WorkerStep(w) == Boot(w) \/ Take(w) \/ Task(w) \/ Completion(w) \/ Crash(w)

\* What belongs to a worker: its memory and its receipt.
Kept(v) ==
    /\ pc'[v] = pc[v] /\ ticket'[v] = ticket[v] /\ batch'[v] = batch[v]
    /\ range'[v] = range[v] /\ rows'[v] = rows[v] /\ receipt'[v] = receipt[v]

LEMMA OthersKept ==
    ASSUME TypeInv, NEW w \in Workers, WorkerStep(w), NEW v \in Workers \ {w}
    PROVE  Kept(v)
<1> USE DEF Kept, files, local, aux, Goto
<1>0. /\ pc \in [Workers -> PC] /\ ticket \in [Workers -> Row \cup {None}]
      /\ batch \in [Workers -> Batch \cup {None}] /\ range \in [Workers -> Record \cup {None}]
      /\ rows \in [Workers -> SUBSET Repair]
      /\ receipt \in [Workers -> Receipt \cup {None}]
  BY DEF TypeInv, TypeOK
<1>1. CASE Boot(w)
  BY <1>0, <1>1 DEF Boot, Start, RepairRead, CountRows, RepairRow, RepairLost, Repaired, Die
<1>2. CASE Take(w)
  BY <1>0, <1>2 DEF Take, Exit, Read, MarkMalformed, Claim, ClaimLost, Die
<1>3. CASE Task(w)
  <2>1. CASE Open(w) \/ OpenRefused(w) \/ Seed(w) \/ Persist(w) \/ Stop(w) \/ Fail(w)
    BY <1>0, <2>1 DEF Open, OpenRefused, Seed, Persist, Stop, Fail, Die
  <2>2. CASE MarkFailed(w) \/ MarkFailedLost(w) \/ PublishResults(w)
    BY <1>0, <2>2 DEF MarkFailed, MarkFailedLost, PublishResults, Die
  <2>3. CASE PublishSave(w)
    BY <1>0, <2>3 DEF PublishSave
  <2>4. QED BY <1>3, <2>1, <2>2, <2>3 DEF Task
<1>4. CASE Completion(w)
  <2>1. CASE Store(w) \/ CommitDone(w) \/ CommitAmbiguous(w) \/ CommitRecord(w)
    BY <1>0, <2>1 DEF Store, CommitDone, CommitAmbiguous, CommitRecord, Die
  <2>2. CASE WriteEvidence(w) \/ AdvanceLost(w) \/ WriteQueue(w)
    BY <1>0, <2>2 DEF WriteEvidence, AdvanceLost, WriteQueue, Die
  <2>3. CASE RemoveCheckpoint(w) \/ Acknowledge(w)
    BY <1>0, <2>3 DEF RemoveCheckpoint, Acknowledge
  <2>4. QED BY <1>4, <2>1, <2>2, <2>3 DEF Completion
<1>5. CASE Crash(w)
  BY <1>0, <1>5 DEF Crash, Die
<1>6. QED BY <1>1, <1>2, <1>3, <1>4, <1>5 DEF WorkerStep

\* The Stage2 consumer and the editor change the queue, under the gate.
LEMMA EnvironmentKept ==
    ASSUME Stage2 \/ Editor
    PROVE  /\ editLock = 0
           /\ UNCHANGED <<editLock, finished, save, results, ckpt, ckptLock, receipt,
                          local, taken, nextId>>
BY DEF Stage2, Editor, ConsumeStage2, EditAppend, EditDelete

(***************************************************************************)
(* The handoff.  Every row a Stage1 worker takes out of the queue or       *)
(* rewrites is a Stage1 row, and the write of a completion puts exactly    *)
(* the version the evidence names in place of the one it was made from.    *)
(***************************************************************************)
TicketOK(w) ==
    /\ HoldsTicket(w) => ticket[w].stage = 1
    /\ receipt[w] # None => receipt[w].ticket.stage = 1
    /\ \A x \in rows[w] : x.row.stage = 1

WriteOK(w) == pc[w] = "write" =>
    /\ editLock = w
    /\ receipt[w].evidence = [before |-> queue, after |-> After(w)]
    /\ Found(queue, w, receipt[w].ticket)

HandoffOK(w) == receipt[w] # None =>
    /\ receipt[w].replacement # None => receipt[w].replacement.stage = 2
    /\ receipt[w].batch.outcome = "Points" =>
          receipt[w].replacement = [stage |-> 2, target |-> receipt[w].record.target,
                                    skip |-> receipt[w].record.skip]

HandInv == HandoffKept /\ \A w \in Workers : TicketOK(w) /\ WriteOK(w) /\ HandoffOK(w)

\* A worker is at the queue write only by writing its evidence.
LEMMA ToWrite ==
    ASSUME TypeInv, NEW w \in Workers, WorkerStep(w), pc'[w] = "write"
    PROVE  WriteEvidence(w)
<1> USE DEF files, local, aux, Goto
<1>0. pc \in [Workers -> PC]
  BY DEF TypeInv, TypeOK
<1>1. ~Boot(w)
  BY <1>0 DEF Boot, Start, RepairRead, CountRows, RepairRow, RepairLost, Repaired, Die
<1>2. ~Take(w)
  BY <1>0 DEF Take, Exit, Read, MarkMalformed, Claim, ClaimLost, Die
<1>3. ~Task(w)
  BY <1>0 DEF Task, Open, OpenRefused, Seed, Persist, Stop, Fail, MarkFailed, MarkFailedLost,
              PublishSave, PublishResults, Die
<1>4. ~Crash(w)
  BY <1>0 DEF Crash, Die
<1>5. Completion(w) => WriteEvidence(w)
  BY <1>0 DEF Completion, Store, CommitDone, CommitAmbiguous, CommitRecord, AdvanceLost,
              WriteQueue, RemoveCheckpoint, Acknowledge, Die
<1>6. QED BY <1>1, <1>2, <1>3, <1>4, <1>5 DEF WorkerStep

\* While another worker holds the gate, a worker writes neither queue nor gate.
LEMMA GateHeld ==
    ASSUME TypeInv, NEW w \in Workers, WriteOK(w), WorkerStep(w), editLock \notin {0, w}
    PROVE  UNCHANGED <<queue, editLock>>
<1> USE DEF files, local, aux
<1>1. CASE Boot(w)
  BY <1>1 DEF Boot, Start, RepairRead, CountRows, RepairRow, RepairLost, Repaired, Die
<1>2. CASE Take(w)
  BY <1>2 DEF Take, Exit, Read, MarkMalformed, Claim, ClaimLost, Die
<1>3. CASE Task(w)
  BY <1>3 DEF Task, Open, OpenRefused, Seed, Persist, Stop, Fail, MarkFailed, MarkFailedLost,
              PublishSave, PublishResults, Die
<1>4. CASE Completion(w)
  <2>1. ~WriteQueue(w)
    BY DEF WriteQueue, WriteOK, Goto
  <2>2. QED
    BY <1>4, <2>1 DEF Completion, Store, CommitDone, CommitAmbiguous, CommitRecord, AdvanceLost,
              WriteEvidence, RemoveCheckpoint, Acknowledge, Die
<1>5. CASE Crash(w)
  BY <1>5 DEF Crash, Die
<1>6. QED BY <1>1, <1>2, <1>3, <1>4, <1>5 DEF WorkerStep

LEMMA WriteStep ==
    ASSUME TypeInv, HandInv, NEW w \in Workers, WorkerStep(w), NEW v \in Workers
    PROVE  WriteOK(v)'
<1> SUFFICES ASSUME pc'[v] = "write"
             PROVE  /\ editLock' = v
                    /\ receipt'[v].evidence = [before |-> queue', after |-> After(v)']
                    /\ Found(queue', v, receipt'[v].ticket)
  BY DEF WriteOK
<1>1. CASE v = w
  <2>1. WriteEvidence(w)
    BY <1>1, ToWrite
  <2>2. receipt[w] \in Receipt /\ receipt \in [Workers -> Receipt \cup {None}]
    BY <2>1 DEF TypeInv, TypeOK, LocalOK, HoldsReceipt, WriteEvidence, Goto
  <2>3. /\ receipt'[w].evidence = [before |-> queue, after |-> After(w)]
        /\ receipt'[w].ticket = receipt[w].ticket
        /\ receipt'[w].replacement = receipt[w].replacement
    BY <2>1, <2>2 DEF WriteEvidence, Receipt
  <2>4. After(w)' = After(w)
    BY <2>1, <2>3 DEF After, WriteEvidence
  <2>5. QED BY <1>1, <2>1, <2>3, <2>4 DEF WriteEvidence
<1>2. CASE v # w
  <2>1. Kept(v)
    BY <1>2, OthersKept
  <2>2. WriteOK(v) /\ pc[v] = "write" /\ WriteOK(w)
    BY <2>1 DEF Kept, HandInv
  <2>3. editLock = v /\ v # 0
    BY <2>2, WorkersAssumption DEF WriteOK
  <2>4. UNCHANGED <<queue, editLock>>
    BY <1>2, <2>2, <2>3, GateHeld
  <2>5. After(v)' = After(v)
    BY <2>1, <2>4 DEF Kept, After
  <2>6. QED BY <2>1, <2>2, <2>3, <2>4, <2>5 DEF Kept, WriteOK
<1>3. QED BY <1>1, <1>2

\* A worker's tickets are Stage1 rows: it reads with consumer 1 and repairs
\* its Stage1 lines only.
LEMMA TicketStep ==
    ASSUME TypeInv, HandInv, NEW w \in Workers, WorkerStep(w)
    PROVE  TicketOK(w)'
<1> USE DEF files, local, aux, Goto, TicketOK, HoldsTicket
<1>0. /\ pc \in [Workers -> PC] /\ ticket \in [Workers -> Row \cup {None}]
      /\ rows \in [Workers -> SUBSET Repair]
      /\ receipt \in [Workers -> Receipt \cup {None}]
      /\ TicketOK(w) /\ LocalOK(w)
  BY DEF TypeInv, TypeOK, HandInv
<1>1. CASE Boot(w)
  <2>1. CASE RepairRead(w)
    <3>1. \A x \in rows'[w] : x.row.stage = 1
      BY <1>0, <2>1 DEF RepairRead, Unrepaired, Stage1Rows
    <3>2. QED BY <1>0, <2>1, <3>1 DEF RepairRead
  <2>2. CASE CountRows(w)
    <3>0. save \in [Targets -> Seq(Nat)]
      BY DEF TypeInv, TypeOK
    <3>1. \A x \in rows'[w] : x.row.stage = 1
      BY <1>0, <2>2, <3>0, CountedRows
    <3>2. QED BY <1>0, <2>2, <3>1 DEF CountRows
  <2>3. CASE Start(w) \/ RepairRow(w) \/ RepairLost(w) \/ Repaired(w)
    BY <1>0, <2>3 DEF Start, RepairRow, RepairLost, Repaired, Die
  <2>4. QED BY <1>1, <2>1, <2>2, <2>3 DEF Boot
<1>2. CASE Take(w)
  <2>1. CASE Read(w)
    <3>1. queue[NextRow(w)].row.stage = 1
      BY <2>1 DEF Read, NextRow, ReadNext
    <3>2. QED BY <1>0, <2>1, <3>1 DEF Read
  <2>2. CASE Claim(w)
    <3>1. ticket[w] \in Row /\ ticket[w].stage = 1
      BY <1>0, <2>2 DEF Claim, LocalOK
    <3>2. Claimed(w).stage = 1
      BY <3>1 DEF Claimed, Row
    <3>3. ticket'[w] = Claimed(w) /\ UNCHANGED <<receipt, rows>>
      BY <1>0, <2>2 DEF Claim
    <3>4. QED BY <1>0, <3>2, <3>3
  <2>3. CASE Exit(w) \/ MarkMalformed(w) \/ ClaimLost(w)
    BY <1>0, <2>3 DEF Exit, MarkMalformed, ClaimLost, Die
  <2>4. QED BY <1>2, <2>1, <2>2, <2>3 DEF Take
<1>3. CASE Task(w)
  <2>1. CASE Open(w) \/ OpenRefused(w) \/ Seed(w) \/ Persist(w) \/ Stop(w) \/ Fail(w)
    BY <1>0, <2>1 DEF Open, OpenRefused, Seed, Persist, Stop, Fail, Die
  <2>2. CASE MarkFailed(w) \/ MarkFailedLost(w) \/ PublishResults(w)
    BY <1>0, <2>2 DEF MarkFailed, MarkFailedLost, PublishResults, Die
  <2>3. CASE PublishSave(w)
    BY <1>0, <2>3 DEF PublishSave
  <2>4. QED BY <1>3, <2>1, <2>2, <2>3 DEF Task
<1>4. CASE Completion(w)
  <2>1. CASE Store(w)
    <3>1. receipt'[w].ticket = ticket[w] /\ pc'[w] = "commit" /\ rows' = rows /\ pc[w] = "store"
      BY <1>0, <2>1 DEF Store
    <3>2. QED BY <1>0, <3>1
  <2>2. CASE CommitDone(w) \/ CommitAmbiguous(w) \/ CommitRecord(w)
    BY <1>0, <2>2 DEF CommitDone, CommitAmbiguous, CommitRecord, Die
  <2>3. CASE WriteEvidence(w)
    <3>1. receipt[w] \in Receipt
      BY <1>0, <2>3 DEF WriteEvidence, LocalOK, HoldsReceipt
    <3>2. receipt'[w].ticket = receipt[w].ticket /\ pc'[w] = "write" /\ rows' = rows
      BY <1>0, <2>3, <3>1 DEF WriteEvidence, Receipt
    <3>3. receipt[w] # None
      BY <3>1, NoneAssumption
    <3>4. QED BY <1>0, <3>2, <3>3
  <2>4. CASE AdvanceLost(w) \/ WriteQueue(w)
    BY <1>0, <2>4 DEF AdvanceLost, WriteQueue, Die
  <2>5. CASE RemoveCheckpoint(w) \/ Acknowledge(w)
    BY <1>0, <2>5 DEF RemoveCheckpoint, Acknowledge
  <2>6. QED BY <1>4, <2>1, <2>2, <2>3, <2>4, <2>5 DEF Completion
<1>5. CASE Crash(w)
  BY <1>0, <1>5 DEF Crash, Die
<1>6. QED BY <1>1, <1>2, <1>3, <1>4, <1>5 DEF WorkerStep

\* Only storing one, writing the evidence into it and acknowledging it change
\* a worker's receipt.
LEMMA ReceiptStep ==
    ASSUME TypeInv, NEW w \in Workers, WorkerStep(w), receipt'[w] # receipt[w]
    PROVE  Store(w) \/ WriteEvidence(w) \/ Acknowledge(w)
<1> USE DEF files, local, aux
<1>1. ~Boot(w)
  BY DEF Boot, Start, RepairRead, CountRows, RepairRow, RepairLost, Repaired, Die
<1>2. ~Take(w)
  BY DEF Take, Exit, Read, MarkMalformed, Claim, ClaimLost, Die
<1>3. ~Task(w)
  BY DEF Task, Open, OpenRefused, Seed, Persist, Stop, Fail, MarkFailed, MarkFailedLost,
         PublishSave, PublishResults, Die
<1>4. ~Crash(w)
  BY DEF Crash, Die
<1>5. QED
  BY <1>1, <1>2, <1>3, <1>4 DEF WorkerStep, Completion, CommitDone, CommitAmbiguous, CommitRecord,
     AdvanceLost, WriteQueue, RemoveCheckpoint, Die

\* The history of completions grows with the queue write only.
LEMMA TakenStep ==
    ASSUME NEW w, WorkerStep(w), ~WriteQueue(w)
    PROVE  taken' = taken
<1> USE DEF files, local, aux
<1>1. Boot(w) => taken' = taken
  BY DEF Boot, Start, RepairRead, CountRows, RepairRow, RepairLost, Repaired, Die
<1>2. Take(w) => taken' = taken
  BY DEF Take, Exit, Read, MarkMalformed, Claim, ClaimLost, Die
<1>3. Task(w) => taken' = taken
  BY DEF Task, Open, OpenRefused, Seed, Persist, Stop, Fail, MarkFailed, MarkFailedLost,
         PublishSave, PublishResults, Die
<1>4. Completion(w) => taken' = taken
  BY DEF Completion, Store, CommitDone, CommitAmbiguous, CommitRecord, AdvanceLost,
         WriteEvidence, RemoveCheckpoint, Acknowledge, Die
<1>5. Crash(w) => taken' = taken
  BY DEF Crash, Die
<1>6. QED BY <1>1, <1>2, <1>3, <1>4, <1>5 DEF WorkerStep

LEMMA HandoffStep ==
    ASSUME TypeInv, HandInv, NEW w \in Workers, WorkerStep(w)
    PROVE  HandoffOK(w)'
<1>0. /\ receipt \in [Workers -> Receipt \cup {None}] /\ pc \in [Workers -> PC]
      /\ HandoffOK(w) /\ LocalOK(w)
  BY DEF TypeInv, TypeOK, HandInv
<1>1. CASE Store(w)
  <2>1. /\ receipt'[w].batch = batch[w] /\ receipt'[w].record = range[w]
        /\ receipt'[w].replacement = Handoff(w)
    BY <1>0, <1>1 DEF Store
  <2>2. QED BY <2>1 DEF HandoffOK, Handoff
<1>2. CASE WriteEvidence(w)
  <2>1. receipt[w] \in Receipt /\ receipt[w] # None
    BY <1>0, <1>2, NoneAssumption DEF WriteEvidence, LocalOK, HoldsReceipt, Goto
  <2>2. /\ receipt'[w].batch = receipt[w].batch /\ receipt'[w].record = receipt[w].record
        /\ receipt'[w].replacement = receipt[w].replacement
    BY <1>0, <1>2, <2>1 DEF WriteEvidence, Receipt
  <2>3. QED BY <1>0, <2>1, <2>2 DEF HandoffOK
<1>3. CASE Acknowledge(w)
  BY <1>0, <1>3 DEF Acknowledge, HandoffOK
<1>4. CASE receipt'[w] = receipt[w]
  BY <1>0, <1>4 DEF HandoffOK
<1>5. QED BY <1>1, <1>2, <1>3, <1>4, ReceiptStep

\* A step of a worker keeps every Stage2 row delivered.
LEMMA WorkerDelivers ==
    ASSUME TypeInv, HandInv, NEW w \in Workers, WorkerStep(w),
           NEW r, r.stage = 2, Delivered(queue, s2done, r)
    PROVE  Delivered(queue, s2done, r)'
<1> USE DEF files, local, aux, Goto
<1>0. /\ TicketOK(w) /\ LocalOK(w) /\ queue \in Seq(Line)
      /\ rows \in [Workers -> SUBSET Repair]
  BY DEF TypeInv, TypeOK, HandInv
<1>1. CASE queue' = queue /\ s2done' = s2done
  BY <1>1 DEF Delivered
<1>2. ASSUME NEW t, t.stage = 1, Found(queue, w, t), NEW n, NEW a \in {"Remove", "MarkError", "Replace"},
             queue' = Advanced(queue, w, t, a, n), s2done' = s2done
      PROVE  Delivered(queue, s2done, r)'
  <2>1. Delivered(Advanced(queue, w, t, a, n), s2done, r)
    BY <1>0, <1>2, DeliveredAdvanced
  <2>2. QED BY <1>2, <2>1
<1>3. CASE RepairRow(w)
  <2>2. NextRepair(w) \in rows[w]
    BY <1>0, <1>3, NextRepairIsRow DEF RepairRow
  <2>3. NextRepair(w).row.stage = 1
    BY <1>0, <2>2 DEF TicketOK
  <2>4. QED BY <1>2, <1>3, <2>3 DEF RepairRow
<1>4. CASE MarkMalformed(w)
  <2>1. queue[NextRow(w)].row.stage = 1 /\ Found(queue, w, queue[NextRow(w)].row)
    BY <1>0, <1>4, NextRowIsTask DEF MarkMalformed, NextRow, ReadNext
  <2>2. QED BY <1>2, <1>4, <2>1 DEF MarkMalformed
<1>5. CASE Claim(w)
  <2>1. ticket[w].stage = 1
    BY <1>0, <1>5 DEF Claim, TicketOK, HoldsTicket
  <2>2. QED BY <1>1, <1>2, <1>5, <2>1 DEF Claim
<1>6. CASE MarkFailed(w)
  <2>1. ticket[w].stage = 1
    BY <1>0, <1>6 DEF MarkFailed, TicketOK, HoldsTicket
  <2>2. QED BY <1>2, <1>6, <2>1 DEF MarkFailed
<1>7. CASE WriteQueue(w)
  <2>1. receipt[w] \in Receipt /\ receipt[w] # None
    BY <1>0, <1>7, NoneAssumption DEF WriteQueue, LocalOK, HoldsReceipt
  <2>2. /\ queue' = After(w) /\ Found(queue, w, receipt[w].ticket) /\ s2done' = s2done
    <3>1. WriteOK(w) /\ pc[w] = "write"
      BY <1>7 DEF WriteQueue, HandInv
    <3>2. receipt[w].evidence.after = After(w)
      BY <3>1 DEF WriteOK
    <3>3. queue' = receipt[w].evidence.after /\ s2done' = s2done
      BY <1>7 DEF WriteQueue
    <3>4. QED BY <3>1, <3>2, <3>3 DEF WriteOK
  <2>3. receipt[w].ticket.stage = 1
    BY <1>0, <2>1 DEF TicketOK
  <2>4. QED BY <1>2, <2>2, <2>3 DEF After
<1>8. Boot(w) => (queue' = queue /\ s2done' = s2done) \/ RepairRow(w)
  BY DEF Boot, Start, RepairRead, CountRows, RepairLost, Repaired, Die
<1>9. Take(w) => (queue' = queue /\ s2done' = s2done) \/ MarkMalformed(w) \/ Claim(w)
  BY DEF Take, Exit, Read, ClaimLost, Die
<1>10. Task(w) => (queue' = queue /\ s2done' = s2done) \/ MarkFailed(w)
  BY DEF Task, Open, OpenRefused, Seed, Persist, Stop, Fail, MarkFailedLost,
         PublishSave, PublishResults, Die
<1>11. Completion(w) => (queue' = queue /\ s2done' = s2done) \/ WriteQueue(w)
  BY DEF Completion, Store, CommitDone, CommitAmbiguous, CommitRecord, AdvanceLost,
         WriteEvidence, RemoveCheckpoint, Acknowledge, Die
<1>12. Crash(w) => queue' = queue /\ s2done' = s2done
  BY DEF Crash, Die
<1>13. QED
  BY <1>1, <1>3, <1>4, <1>5, <1>6, <1>7, <1>8, <1>9, <1>10, <1>11, <1>12 DEF WorkerStep

\* So do the Stage2 consumer, which records what it takes, and the editor.
LEMMA EnvironmentDelivers ==
    ASSUME queue \in Seq(Line), Stage2 \/ Editor,
           NEW r, r.stage = 2, Delivered(queue, s2done, r)
    PROVE  Delivered(queue, s2done, r)'
<1>1. ASSUME NEW i \in DOMAIN queue, ConsumeStage2(i) PROVE Delivered(queue, s2done, r)'
  <2>1. i \in 1..Len(queue)
    BY LenProperties
  <2>2. CASE queue[i].row = r
    BY <1>1, <2>2 DEF ConsumeStage2, Delivered
  <2>3. CASE queue[i].row # r
    <3>1. Delivered(RemoveAt(queue, i), s2done, r)
      BY <2>1, <2>3, DeliveredElsewhere
    <3>2. queue' = RemoveAt(queue, i) /\ s2done \subseteq s2done'
      BY <1>1 DEF ConsumeStage2
    <3>3. QED BY <3>1, <3>2 DEF Delivered
  <2>4. QED BY <2>2, <2>3
<1>2. ASSUME NEW i \in DOMAIN queue, EditDelete(i) PROVE Delivered(queue, s2done, r)'
  <2>1. i \in 1..Len(queue) /\ queue[i].row # r
    BY <1>2, LenProperties DEF EditDelete
  <2>2. Delivered(RemoveAt(queue, i), s2done, r)
    BY <2>1, DeliveredElsewhere
  <2>3. queue' = RemoveAt(queue, i) /\ s2done' = s2done
    BY <1>2 DEF EditDelete
  <2>4. QED BY <2>2, <2>3
<1>3. ASSUME NEW l \in Edits, EditAppend(l) PROVE Delivered(queue, s2done, r)'
  <2>1. l \in Line /\ queue' = Append(queue, l) /\ s2done' = s2done
    BY <1>3, QueueAssumption DEF EditAppend
  <2>2. \A j \in 1..Len(queue) : j \in DOMAIN Append(queue, l) /\ Append(queue, l)[j] = queue[j]
    BY <2>1, AppendProperties, LenProperties
  <2>3. QED BY <2>1, <2>2, LenProperties DEF Delivered
<1>4. QED BY <1>1, <1>2, <1>3 DEF Stage2, Editor

\* The assignment a completion stands for.
Owed(e) == [stage |-> 2, target |-> e.record.target, skip |-> e.record.skip]

\* What was delivered before a step is so after it, and the completion a queue
\* write stands for has its assignment in the version written.
LEMMA DeliveredToTaken ==
    ASSUME TypeInv, HandInv,
           \A r : r.stage = 2 /\ Delivered(queue, s2done, r) => Delivered(queue', s2done', r)
    PROVE  \A i \in DOMAIN taken : taken[i].batch.outcome = "Points" =>
               Delivered(queue', s2done', Owed(taken[i]))
<1> SUFFICES ASSUME NEW i \in DOMAIN taken, taken[i].batch.outcome = "Points"
             PROVE  Delivered(queue', s2done', Owed(taken[i]))
  OBVIOUS
<1>1. Delivered(queue, s2done, Owed(taken[i]))
  BY DEF HandInv, HandoffKept, Owed
<1>2. Owed(taken[i]).stage = 2
  BY DEF Owed
<1>3. QED BY <1>1, <1>2

LEMMA HandoffKeptStep ==
    ASSUME TypeInv, HandInv, NEW w \in Workers, WorkerStep(w)
    PROVE  HandoffKept'
<1>1. \A i \in DOMAIN taken : taken[i].batch.outcome = "Points" =>
          Delivered(queue', s2done', Owed(taken[i]))
  <2>1. ASSUME NEW r, r.stage = 2, Delivered(queue, s2done, r)
        PROVE  Delivered(queue', s2done', r)
    <3>1. Delivered(queue, s2done, r)'
      BY <2>1, WorkerDelivers
    <3>2. QED BY <3>1
  <2>2. QED BY <2>1, DeliveredToTaken
<1>2. CASE WriteQueue(w)
  <2> DEFINE e == [w |-> w, batch |-> receipt[w].batch, record |-> receipt[w].record]
  <2>0. /\ LocalOK(w) /\ pc[w] = "write" /\ WriteOK(w) /\ HandoffOK(w) /\ queue \in Seq(Line)
        /\ taken \in Seq([w : Workers, batch : Batch, record : Record])
    BY <1>2 DEF TypeInv, TypeOK, HandInv, WriteQueue, Goto
  <2>1. receipt[w] \in Receipt /\ receipt[w] # None
    BY <2>0, NoneAssumption DEF LocalOK, HoldsReceipt
  <2>2. e.batch.outcome = "Points" => Delivered(queue', s2done', Owed(e))
    <3> SUFFICES ASSUME e.batch.outcome = "Points" PROVE Delivered(queue', s2done', Owed(e))
      OBVIOUS
    <3>1. receipt[w].replacement = Owed(e)
      BY <2>0, <2>1 DEF HandoffOK, Owed
    <3>2. Owed(e) \in Row
      BY <2>1, <3>1 DEF Owed, Receipt, Record, Row
    <3>3. Owed(e) # None
      BY <3>2, NoneAssumption
    <3>4. After(w) = Advanced(queue, w, receipt[w].ticket, "Replace", Owed(e))
      BY <3>1, <3>3 DEF After
    <3>5. Delivered(After(w), s2done, Owed(e))
      BY <2>0, <3>4, DeliveredReplacement DEF WriteOK
    <3>6. queue' = After(w) /\ s2done' = s2done
      <4>1. queue' = receipt[w].evidence.after /\ s2done' = s2done
        BY <1>2 DEF WriteQueue
      <4>2. receipt[w].evidence.after = After(w)
        BY <2>0 DEF WriteOK
      <4>3. QED BY <4>1, <4>2
    <3>7. QED BY <3>5, <3>6
  <2>3. taken' = Append(taken, e)
    BY <1>2 DEF WriteQueue
  <2>4. e \in [w : Workers, batch : Batch, record : Record]
    BY <2>1 DEF Receipt
  <2> HIDE DEF e
  <2>5. \A i \in DOMAIN taken' : taken'[i] = e \/ (i \in DOMAIN taken /\ taken'[i] = taken[i])
    BY <2>0, <2>3, <2>4, AppendProperties, LenProperties
  <2>6. ASSUME NEW i \in DOMAIN taken', taken'[i].batch.outcome = "Points"
        PROVE  Delivered(queue', s2done', Owed(taken'[i]))
    BY <1>1, <2>2, <2>5, <2>6
  <2>7. QED BY <2>6 DEF HandoffKept, Owed
<1>3. CASE ~WriteQueue(w)
  <2>1. taken' = taken
    BY <1>3, TakenStep
  <2>2. QED BY <1>1, <2>1 DEF HandoffKept, Owed
<1>4. QED BY <1>2, <1>3

LEMMA HandStep == TypeInv /\ HandInv /\ [Next]_vars => HandInv'
<1> SUFFICES ASSUME TypeInv, HandInv, [Next]_vars PROVE HandInv'
  OBVIOUS
<1>1. CASE UNCHANGED vars
  BY <1>1 DEF vars, files, local, aux, HandInv, HandoffKept, TicketOK, HoldsTicket, WriteOK,
              HandoffOK, After
<1>2. ASSUME NEW w \in Workers, WorkerStep(w) PROVE HandInv'
  <2>1. ASSUME NEW v \in Workers PROVE (TicketOK(v) /\ WriteOK(v) /\ HandoffOK(v))'
    <3>1. WriteOK(v)'
      BY <1>2, WriteStep
    <3>2. CASE v = w
      BY <1>2, <3>1, <3>2, TicketStep, HandoffStep
    <3>3. CASE v # w
      <4>1. Kept(v) /\ TicketOK(v) /\ HandoffOK(v)
        BY <1>2, <3>3, OthersKept DEF HandInv
      <4>2. TicketOK(v)' /\ HandoffOK(v)'
        BY <4>1 DEF Kept, TicketOK, HoldsTicket, HandoffOK
      <4>3. QED BY <3>1, <4>2
    <3>4. QED BY <3>2, <3>3
  <2>2. HandoffKept'
    BY <1>2, HandoffKeptStep
  <2>3. QED BY <2>1, <2>2 DEF HandInv
<1>3. CASE Stage2 \/ Editor
  <2>1. /\ editLock = 0 /\ taken' = taken /\ receipt' = receipt /\ UNCHANGED local
    BY <1>3, EnvironmentKept
  <2>2. ASSUME NEW r, r.stage = 2, Delivered(queue, s2done, r)
        PROVE  Delivered(queue', s2done', r)
    <3>1. queue \in Seq(Line)
      BY DEF TypeInv, TypeOK
    <3>2. Delivered(queue, s2done, r)'
      BY <1>3, <2>2, <3>1, EnvironmentDelivers
    <3>3. QED BY <3>2
  <2>3. HandoffKept'
    BY <2>1, <2>2, DeliveredToTaken DEF HandoffKept, Owed
  <2>4. ASSUME NEW v \in Workers PROVE (TicketOK(v) /\ WriteOK(v) /\ HandoffOK(v))'
    <3>1. pc[v] # "write"
      BY <2>1, WorkersAssumption DEF HandInv, WriteOK
    <3>2. QED BY <2>1, <3>1 DEF HandInv, TicketOK, HoldsTicket, WriteOK, HandoffOK, local
  <2>5. QED BY <2>3, <2>4 DEF HandInv
<1>4. QED BY <1>1, <1>2, <1>3 DEF Next, WorkerStep

LEMMA HandInit == Init => HandInv
<1> SUFFICES ASSUME Init PROVE HandInv
  OBVIOUS
<1>1. DOMAIN taken = {}
  BY EmptySeq, LenProperties DEF Init
<1>2. QED BY <1>1 DEF Init, HandInv, HandoffKept, TicketOK, HoldsTicket, WriteOK, HandoffOK

\* The Stage2 assignment of a row that was taken is in the queue until Stage2
\* has recorded it, whoever crashes where.
THEOREM HandoffCorrect == Spec => []HandoffKept
<1>1. HandInv => HandoffKept  BY DEF HandInv
<1>2. QED BY <1>1, InitType, StepType, HandInit, HandStep, PTL DEF Spec

(***************************************************************************)
(* Batches and their files.  With checkpoint files of their own (a         *)
(* temporary directory each), a batch is alive in one place: the           *)
(* checkpoint it was seeded into, which its receipt names.                 *)
(***************************************************************************)
OwnPaths ==
    \A v, w \in Workers : \A t, u \in Targets : CkptPath[v][t] = CkptPath[w][u] => v = w

Own(w) == {CkptPath[w][t] : t \in Targets}

AtTask(w) == HoldsTicket(w) \/ pc[w] \in {"repair", "rows", "idle"}

\* Record r is the line the batch's residue has in the save files f.
Lined(f, b, r) == b.outcome # "Empty" =>
    \E k \in DOMAIN f[b.target] :
        /\ f[b.target][k] = b.id
        /\ r = [target |-> b.target, skip |-> k - 1, count |-> 1]

MemOK(w) ==
    /\ AtTask(w) => receipt[w] = None
    /\ HoldsBatch(w) => ckpt[Path(w)] = batch[w]
    /\ pc[w] = "seed" => ckpt[Path(w)] = None
    /\ pc[w] = "ack" => ckpt[receipt[w].path] = None
    /\ pc[w] \in {"results", "store"} => Lined(save, batch[w], range[w])
    /\ pc[w] \in {"advance", "write", "cleanup", "ack"} => receipt[w].record \in finished

ReceiptOK(w) == receipt[w] # None =>
    /\ receipt[w].path \in Own(w)
    /\ ckpt[receipt[w].path] \in {None, receipt[w].batch}
    /\ Lined(save, receipt[w].batch, receipt[w].record)
    /\ receipt[w].evidence # None => receipt[w].record \in finished
    /\ receipt[w].batch.id < nextId

\* No id stands twice in the save files.
SaveOK ==
    /\ \A t \in Targets : \A k \in DOMAIN save[t] : save[t][k] < nextId
    /\ \A t, u \in Targets : \A k \in DOMAIN save[t], l \in DOMAIN save[u] :
          save[t][k] = save[u][l] => t = u /\ k = l

\* No batch is in two checkpoints; a saved one is in the save of its target.
CkptOK == \A p \in Paths : ckpt[p] # None =>
    /\ ckpt[p].id < nextId
    /\ \A t \in Targets : \A k \in DOMAIN save[t] :
          save[t][k] = ckpt[p].id => t = ckpt[p].target /\ ckpt[p].outcome # "Empty"
    /\ \A q \in Paths : ckpt[q] # None /\ ckpt[q].id = ckpt[p].id => p = q

BatchInv == SaveOK /\ CkptOK /\ \A w \in Workers : MemOK(w) /\ ReceiptOK(w)

LEMMA OwnIsPath ==
    ASSUME NEW w \in Workers
    PROVE  /\ Own(w) \subseteq Paths
           /\ ticket[w] \in Row => Path(w) \in Own(w)
BY PathAssumption DEF Own, Paths, Path, Row

LEMMA OwnDisjoint ==
    ASSUME OwnPaths, NEW v \in Workers, NEW w \in Workers, v # w, NEW p, p \in Own(v)
    PROVE  p \notin Own(w)
BY DEF OwnPaths, Own

\* What publish_batch does to the save files: nothing, or one record more.
LEMMA PublishSaveEffect ==
    ASSUME TypeInv, NEW w \in Workers, PublishSave(w)
    PROVE  /\ batch[w] \in Batch
           /\ \/ save' = save
              \/ /\ batch[w].outcome # "Empty"
                 /\ \A k \in DOMAIN save[batch[w].target] : save[batch[w].target][k] # batch[w].id
                 /\ save' = [save EXCEPT ![batch[w].target] = Append(@, batch[w].id)]
<1> DEFINE b == batch[w]  old == save[b.target]
           at == {i \in DOMAIN old : old[i] = b.id}
<1>1. b \in Batch /\ save \in [Targets -> Seq(Nat)]
  BY DEF PublishSave, Goto, TypeInv, TypeOK, LocalOK, HoldsBatch
<1>2. b.target \in Targets
  BY <1>1 DEF Batch
<1>3. CASE b.outcome = "Empty"
  BY <1>1, <1>3 DEF PublishSave
<1>4. CASE b.outcome # "Empty" /\ at # {}
  <2>1. save' = [save EXCEPT ![b.target] = old]
    BY <1>4 DEF PublishSave
  <2>2. [save EXCEPT ![b.target] = old] = save
    BY <1>1, <1>2
  <2>3. QED BY <1>1, <2>1, <2>2
<1>5. CASE b.outcome # "Empty" /\ at = {}
  <2>1. save' = [save EXCEPT ![b.target] = Append(old, b.id)]
    BY <1>5 DEF PublishSave
  <2>2. \A k \in DOMAIN old : old[k] # b.id
    BY <1>5
  <2>3. QED BY <1>1, <1>5, <2>1, <2>2
<1>6. QED BY <1>3, <1>4, <1>5

\* Which step changes which file.
LEMMA FilesStep ==
    ASSUME TypeInv, BatchInv, NEW w \in Workers, WorkerStep(w)
    PROVE  /\ finished \subseteq finished'
           /\ save' = save \/ PublishSave(w)
           /\ ckpt' = ckpt \/ Seed(w) \/ RemoveCheckpoint(w)
           /\ nextId' = nextId \/ Seed(w)
<1> USE DEF files, local, aux
<1>0. MemOK(w) /\ ckpt \in [Paths -> Batch \cup {None}] /\ LocalOK(w)
  BY DEF BatchInv, TypeInv, TypeOK
<1>1. CASE Boot(w)
  BY <1>1 DEF Boot, Start, RepairRead, CountRows, RepairRow, RepairLost, Repaired, Die
<1>2. CASE Take(w)
  BY <1>2 DEF Take, Exit, Read, MarkMalformed, Claim, ClaimLost, Die
<1>3. CASE Task(w)
  <2>1. CASE Persist(w)
    <3>1. ckpt[Path(w)] = batch[w] /\ Path(w) \in Paths
      BY <1>0, <2>1, PathIsPath DEF Persist, MemOK, HoldsBatch, LocalOK, HoldsTicket
    <3>2. ckpt' = ckpt
      BY <1>0, <2>1, <3>1 DEF Persist
    <3>3. QED BY <2>1, <3>2 DEF Persist
  <2>2. CASE ~Persist(w)
    BY <1>3, <2>2 DEF Task, Open, OpenRefused, Seed, Stop, Fail, MarkFailed, MarkFailedLost,
                      PublishSave, PublishResults, Die
  <2>3. QED BY <2>1, <2>2
<1>4. CASE Completion(w)
  BY <1>4 DEF Completion, Store, CommitDone, CommitAmbiguous, CommitRecord, AdvanceLost,
         WriteEvidence, WriteQueue, RemoveCheckpoint, Acknowledge, Die
<1>5. CASE Crash(w)
  BY <1>5 DEF Crash, Die
<1>6. QED BY <1>1, <1>2, <1>3, <1>4, <1>5 DEF WorkerStep

\* A record keeps its place in its save file.
LEMMA SaveGrows ==
    ASSUME TypeInv, BatchInv, NEW w \in Workers, WorkerStep(w)
    PROVE  /\ \A t \in Targets : \A k \in DOMAIN save[t] :
                 k \in DOMAIN save'[t] /\ save'[t][k] = save[t][k]
           /\ \A b \in Batch : \A r : Lined(save, b, r) => Lined(save', b, r)
<1>1. \A t \in Targets : \A k \in DOMAIN save[t] :
          k \in DOMAIN save'[t] /\ save'[t][k] = save[t][k]
  <2>1. CASE save' = save
    BY <2>1
  <2>2. CASE save' # save
    <3> DEFINE b == batch[w]
    <3>1. /\ b \in Batch /\ save \in [Targets -> Seq(Nat)]
          /\ save' = [save EXCEPT ![b.target] = Append(@, b.id)]
      BY <2>2, FilesStep, PublishSaveEffect DEF TypeInv, TypeOK
    <3>2. \A k \in DOMAIN save[b.target] :
              k \in DOMAIN Append(save[b.target], b.id) /\ Append(save[b.target], b.id)[k] = save[b.target][k]
      BY <3>1, AppendProperties, LenProperties DEF Batch
    <3>3. QED BY <3>1, <3>2
  <2>3. QED BY <2>1, <2>2
<1>2. QED BY <1>1 DEF Lined, Batch

\* A worker writes no checkpoint but its own.
LEMMA CkptStep ==
    ASSUME TypeInv, BatchInv, NEW w \in Workers, WorkerStep(w), NEW p \in Paths, p \notin Own(w)
    PROVE  ckpt'[p] = ckpt[p]
<1>0. /\ MemOK(w) /\ ReceiptOK(w) /\ LocalOK(w) /\ ckpt \in [Paths -> Batch \cup {None}]
  BY DEF BatchInv, TypeInv, TypeOK
<1>1. CASE Seed(w)
  <2>1. Path(w) \in Own(w)
    BY <1>0, <1>1, OwnIsPath DEF Seed, Goto, LocalOK, HoldsTicket
  <2>2. PICK b : ckpt' = [ckpt EXCEPT ![Path(w)] = b]
    BY <1>1 DEF Seed
  <2>3. QED BY <1>0, <2>1, <2>2
<1>2. CASE RemoveCheckpoint(w)
  <2>1. receipt[w] \in Receipt
    BY <1>0, <1>2 DEF RemoveCheckpoint, Goto, LocalOK, HoldsReceipt
  <2>2. receipt[w].path \in Own(w)
    BY <1>0, <2>1, NoneAssumption DEF ReceiptOK
  <2>3. QED BY <1>0, <1>2, <2>2 DEF RemoveCheckpoint
<1>3. QED BY <1>1, <1>2, FilesStep

\* So what another worker relies on stays.
LEMMA BatchOthers ==
    ASSUME OwnPaths, TypeInv, BatchInv, NEW w \in Workers, WorkerStep(w), NEW v \in Workers \ {w}
    PROVE  MemOK(v)' /\ ReceiptOK(v)'
<1>1. Kept(v)
  BY OthersKept
<1>2. MemOK(v) /\ ReceiptOK(v) /\ LocalOK(v) /\ receipt[v] \in Receipt \cup {None}
  BY DEF BatchInv, TypeInv, TypeOK
<1>3. \A p \in Own(v) : ckpt'[p] = ckpt[p]
  BY CkptStep, OwnIsPath, OwnDisjoint
<1>4. HoldsTicket(v) => Path(v) \in Own(v)
  BY <1>2, OwnIsPath DEF LocalOK
<1>5. finished \subseteq finished' /\ nextId \in Nat /\ nextId <= nextId' /\ nextId' \in Nat
  <2>1. nextId' = nextId \/ nextId' = nextId + 1
    BY FilesStep DEF Seed
  <2>2. QED BY <2>1, FilesStep DEF TypeInv, TypeOK
<1>6. HoldsBatch(v) => batch[v] \in Batch
  BY <1>2 DEF LocalOK
<1>7. \A b \in Batch : \A r : Lined(save, b, r) => Lined(save', b, r)
  BY SaveGrows
<1>8. Path(v)' = Path(v)
  BY <1>1 DEF Kept, Path
<1>9. MemOK(v)'
  <2>1. (AtTask(v) => receipt[v] = None)'
    BY <1>1, <1>2 DEF Kept, MemOK, AtTask, HoldsTicket
  <2>2. (HoldsBatch(v) => ckpt[Path(v)] = batch[v])'
    BY <1>1, <1>2, <1>3, <1>4, <1>8 DEF Kept, MemOK, HoldsBatch, HoldsTicket
  <2>3. (pc[v] = "seed" => ckpt[Path(v)] = None)'
    BY <1>1, <1>2, <1>3, <1>4, <1>8 DEF Kept, MemOK, HoldsTicket
  <2>4. (pc[v] = "ack" => ckpt[receipt[v].path] = None)'
    BY <1>1, <1>2, <1>3, NoneAssumption DEF Kept, MemOK, ReceiptOK, LocalOK, HoldsReceipt
  <2>5. (pc[v] \in {"results", "store"} => Lined(save, batch[v], range[v]))'
    <3>1. pc[v] \in {"results", "store"} => HoldsBatch(v) /\ Lined(save, batch[v], range[v])
      BY <1>2 DEF MemOK, HoldsBatch
    <3>2. pc[v] \in {"results", "store"} => Lined(save', batch[v], range[v])
      BY <1>6, <1>7, <3>1
    <3>3. QED BY <1>1, <3>2 DEF Kept
  <2>6. (pc[v] \in {"advance", "write", "cleanup", "ack"} => receipt[v].record \in finished)'
    BY <1>1, <1>2, <1>5 DEF Kept, MemOK
  <2>7. QED BY <2>1, <2>2, <2>3, <2>4, <2>5, <2>6 DEF MemOK
<1>10. ReceiptOK(v)'
  <2> SUFFICES ASSUME receipt'[v] # None PROVE ReceiptOK(v)'
    BY DEF ReceiptOK
  <2>1. receipt'[v] = receipt[v] /\ receipt[v] \in Receipt /\ receipt[v] # None
    BY <1>1, <1>2 DEF Kept
  <2>2. receipt[v].batch \in Batch /\ receipt[v].batch.id \in Nat
    BY <2>1 DEF Receipt, Batch
  <2>3. Lined(save', receipt[v].batch, receipt[v].record)
    BY <1>2, <1>7, <2>1, <2>2 DEF ReceiptOK
  <2>4. receipt[v].path \in Own(v)
    BY <1>2, <2>1 DEF ReceiptOK
  <2>5. QED BY <1>2, <1>3, <1>5, <2>1, <2>2, <2>3, <2>4 DEF ReceiptOK, Own
<1>11. QED BY <1>9, <1>10

\* The worker itself: what it holds in memory is what its checkpoint holds.
LEMMA MemStep ==
    ASSUME TypeInv, BatchInv, NEW w \in Workers, WorkerStep(w)
    PROVE  MemOK(w)'
<1> USE DEF files, local, aux, Goto, AtTask, HoldsTicket, HoldsBatch
<1>0. /\ pc \in [Workers -> PC] /\ ticket \in [Workers -> Row \cup {None}]
      /\ batch \in [Workers -> Batch \cup {None}] /\ range \in [Workers -> Record \cup {None}]
      /\ receipt \in [Workers -> Receipt \cup {None}]
      /\ ckpt \in [Paths -> Batch \cup {None}]
      /\ MemOK(w) /\ ReceiptOK(w) /\ LocalOK(w)
  BY DEF TypeInv, TypeOK, BatchInv
<1>1. CASE Boot(w)
  BY <1>0, <1>1 DEF Boot, Start, RepairRead, CountRows, RepairRow, RepairLost, Repaired, Die, MemOK
<1>2. CASE Take(w)
  BY <1>0, <1>2 DEF Take, Exit, Read, MarkMalformed, Claim, ClaimLost, Die, MemOK, Path
<1>3. CASE Open(w)
  <2>1. Path(w) \in Paths /\ Path(w)' = Path(w)
    BY <1>0, <1>3, PathIsPath DEF Open, LocalOK, Path
  <2>2. CASE ckpt[Path(w)] = None
    BY <1>0, <1>3, <2>1, <2>2 DEF Open, MemOK
  <2>3. CASE ckpt[Path(w)] # None
    BY <1>0, <1>3, <2>1, <2>3 DEF Open, MemOK
  <2>4. QED BY <2>2, <2>3
<1>4. CASE Seed(w)
  <2>1. Path(w) \in Paths /\ Path(w)' = Path(w)
    BY <1>0, <1>4, PathIsPath DEF Seed, LocalOK, Path
  <2>2. PICK b : batch' = [batch EXCEPT ![w] = b] /\ ckpt' = [ckpt EXCEPT ![Path(w)] = b]
    BY <1>4 DEF Seed
  <2>3. ckpt'[Path(w)] = batch'[w] /\ pc'[w] = "run" /\ receipt'[w] = receipt[w] /\ pc[w] = "seed"
    BY <1>0, <1>4, <2>1, <2>2 DEF Seed
  <2>4. QED BY <1>0, <2>1, <2>3 DEF MemOK
<1>5. CASE Persist(w) \/ Fail(w)
  <2>1. /\ ckpt' = ckpt /\ UNCHANGED <<ticket, batch, receipt>>
        /\ pc[w] = "run" /\ pc'[w] \in {"run", "failed"}
    BY <1>0, <1>5, FilesStep DEF Persist, Fail, Seed, RemoveCheckpoint
  <2>2. QED BY <1>0, <2>1 DEF MemOK, Path
<1>6. CASE OpenRefused(w) \/ Stop(w) \/ MarkFailed(w) \/ MarkFailedLost(w) \/ Crash(w)
  BY <1>0, <1>6 DEF OpenRefused, Stop, MarkFailed, MarkFailedLost, Crash, Die, MemOK
<1>7. CASE PublishSave(w)
  <2> DEFINE b == batch[w]  old == save[b.target]
             at == {i \in DOMAIN old : old[i] = b.id}
  <2>1. /\ b \in Batch /\ old \in Seq(Nat) /\ save \in [Targets -> Seq(Nat)]
        /\ b.target \in Targets /\ b.id \in Nat
    BY <1>0, <1>7 DEF PublishSave, LocalOK, Batch, TypeInv, TypeOK
  <2>2. Lined(save', b, range'[w])
    <3>1. CASE b.outcome = "Empty"
      BY <3>1 DEF Lined
    <3>2. CASE b.outcome # "Empty" /\ at # {}
      <4>1. at \in SUBSET Nat
        BY <2>1, LenProperties
      <4>2. Min(at) \in at
        BY <3>2, <4>1, MinOfNats
      <4>3. save' = save
        BY <3>2, <1>7, PublishSaveEffect
      <4>4. range'[w] = [target |-> b.target, count |-> 1, skip |-> Min(at) - 1]
        BY <1>0, <1>7, <3>2 DEF PublishSave
      <4>5. QED BY <4>2, <4>3, <4>4 DEF Lined
    <3>3. CASE b.outcome # "Empty" /\ at = {}
      <4>1. save' = [save EXCEPT ![b.target] = Append(old, b.id)]
        BY <1>7, <3>3 DEF PublishSave
      <4>2. range'[w] = [target |-> b.target, count |-> 1, skip |-> Len(old)]
        BY <1>0, <1>7, <3>3 DEF PublishSave
      <4>3. /\ Len(old) + 1 \in DOMAIN Append(old, b.id)
            /\ Append(old, b.id)[Len(old) + 1] = b.id /\ (Len(old) + 1) - 1 = Len(old)
        BY <2>1, AppendProperties, LenProperties
      <4>4. save'[b.target] = Append(old, b.id)
        BY <2>1, <4>1
      <4>5. QED BY <4>2, <4>3, <4>4 DEF Lined
    <3>4. QED BY <3>1, <3>2, <3>3
  <2>3. /\ batch' = batch /\ ticket' = ticket /\ receipt' = receipt /\ ckpt' = ckpt
        /\ pc'[w] = "results" /\ pc[w] = "run"
    BY <1>0, <1>7 DEF PublishSave
  <2>4. QED BY <1>0, <2>2, <2>3 DEF MemOK, Path
<1>8. CASE PublishResults(w)
  BY <1>0, <1>8 DEF PublishResults, MemOK, Path
<1>9. CASE Store(w)
  BY <1>0, <1>9 DEF Store, MemOK
<1>10. CASE CommitDone(w)
  <2>1. receipt[w].evidence # None /\ receipt[w] # None
    BY <1>0, <1>10, NoneAssumption DEF CommitDone, AtAfter, HasEvidence, LocalOK, HoldsReceipt
  <2>2. QED BY <1>0, <1>10, <2>1 DEF CommitDone, MemOK, ReceiptOK
<1>11. CASE CommitRecord(w)
  BY <1>0, <1>11 DEF CommitRecord, MemOK
<1>12. CASE WriteEvidence(w)
  <2>1. receipt[w] \in Receipt
    BY <1>0, <1>12 DEF WriteEvidence, LocalOK, HoldsReceipt
  <2>2. receipt'[w].record = receipt[w].record /\ pc'[w] = "write" /\ pc[w] = "advance"
        /\ finished' = finished
    BY <1>0, <1>12, <2>1 DEF WriteEvidence, Receipt
  <2>3. QED BY <1>0, <2>2 DEF MemOK
<1>13. CASE CommitAmbiguous(w) \/ AdvanceLost(w)
  BY <1>0, <1>13 DEF CommitAmbiguous, AdvanceLost, Die, MemOK
<1>14. CASE WriteQueue(w) \/ Acknowledge(w)
  BY <1>0, <1>14 DEF WriteQueue, Acknowledge, MemOK
<1>15. CASE RemoveCheckpoint(w)
  <2>1. receipt[w].path \in Paths
    BY <1>0, <1>15 DEF RemoveCheckpoint, LocalOK, HoldsReceipt, Receipt
  <2>2. /\ ckpt'[receipt[w].path] = None /\ pc'[w] = "ack" /\ pc[w] = "cleanup"
        /\ receipt' = receipt /\ finished' = finished
    BY <1>0, <1>15, <2>1 DEF RemoveCheckpoint
  <2>3. QED BY <1>0, <2>2 DEF MemOK
<1>16. QED
  BY <1>1, <1>2, <1>3, <1>4, <1>5, <1>6, <1>7, <1>8, <1>9, <1>10, <1>11, <1>12, <1>13, <1>14, <1>15
  DEF WorkerStep, Task, Completion

\* A receipt names the checkpoint of its batch until that is removed.
LEMMA ReceiptKept ==
    ASSUME TypeInv, BatchInv, NEW w \in Workers, WorkerStep(w)
    PROVE  ReceiptOK(w)'
<1> USE DEF Goto
<1>0. /\ receipt \in [Workers -> Receipt \cup {None}] /\ ckpt \in [Paths -> Batch \cup {None}]
      /\ pc \in [Workers -> PC]
      /\ MemOK(w) /\ ReceiptOK(w) /\ LocalOK(w) /\ nextId \in Nat
  BY DEF TypeInv, TypeOK, BatchInv
<1>1. CASE Store(w)
  <2>1. ticket[w] \in Row /\ batch[w] \in Batch
    BY <1>0, <1>1 DEF Store, LocalOK, HoldsTicket, HoldsBatch
  <2>2. /\ receipt'[w].path = Path(w) /\ receipt'[w].batch = batch[w]
        /\ receipt'[w].record = range[w] /\ receipt'[w].evidence = None
        /\ UNCHANGED <<ckpt, save, finished, nextId>>
    BY <1>0, <1>1 DEF Store, aux
  <2>3. Path(w) \in Own(w) /\ Path(w) \in Paths
    BY <2>1, OwnIsPath
  <2>4. ckpt[Path(w)] = batch[w] /\ Lined(save, batch[w], range[w])
    BY <1>0, <1>1 DEF Store, MemOK, HoldsBatch
  <2>5. batch[w].id < nextId
    <3>1. batch[w] # None
      BY <2>1, NoneAssumption
    <3>2. QED BY <2>3, <2>4, <3>1 DEF BatchInv, CkptOK
  <2>6. QED BY <2>2, <2>3, <2>4, <2>5 DEF ReceiptOK, Own
<1>2. CASE Acknowledge(w)
  BY <1>0, <1>2 DEF Acknowledge, ReceiptOK
<1>3. CASE ~Store(w) /\ ~Acknowledge(w) /\ receipt'[w] # None
  <2>1. receipt[w] \in Receipt /\ receipt[w] # None
    <3>1. CASE WriteEvidence(w)
      BY <1>0, <3>1, NoneAssumption DEF WriteEvidence, LocalOK, HoldsReceipt
    <3>2. CASE receipt'[w] = receipt[w]
      BY <1>0, <1>3, <3>2
    <3>3. QED BY <1>3, <3>1, <3>2, ReceiptStep
  <2>2. /\ receipt'[w].path = receipt[w].path /\ receipt'[w].batch = receipt[w].batch
        /\ receipt'[w].record = receipt[w].record
        /\ receipt'[w].evidence # None => receipt[w].record \in finished
    <3>1. CASE WriteEvidence(w)
      BY <1>0, <2>1, <3>1 DEF WriteEvidence, Receipt, MemOK
    <3>2. CASE receipt'[w] = receipt[w]
      BY <1>0, <2>1, <3>2 DEF ReceiptOK
    <3>3. QED BY <1>3, <3>1, <3>2, ReceiptStep
  <2>3. receipt[w].batch \in Batch /\ receipt[w].path \in Paths
    BY <2>1 DEF Receipt
  <2>4. Lined(save', receipt[w].batch, receipt[w].record)
    BY <1>0, <2>1, <2>3, SaveGrows DEF ReceiptOK
  <2>5. ckpt'[receipt[w].path] \in {None, receipt[w].batch}
    <3>1. CASE Seed(w)
      BY <1>0, <2>1, <3>1 DEF Seed, MemOK, AtTask, HoldsTicket
    <3>2. CASE RemoveCheckpoint(w)
      BY <1>0, <2>3, <3>2 DEF RemoveCheckpoint
    <3>3. CASE ckpt' = ckpt
      BY <1>0, <2>1, <3>3 DEF ReceiptOK
    <3>4. QED BY <3>1, <3>2, <3>3, FilesStep
  <2>6. receipt[w].batch.id < nextId'
    <3>1. nextId' \in {nextId, nextId + 1}
      BY FilesStep DEF Seed
    <3>2. receipt[w].batch.id \in Nat
      BY <2>3 DEF Batch
    <3>3. receipt[w].batch.id < nextId
      BY <1>0, <2>1 DEF ReceiptOK
    <3>4. QED BY <1>0, <3>1, <3>2, <3>3
  <2>7. finished \subseteq finished' /\ receipt[w].path \in Own(w)
    BY <1>0, <2>1, FilesStep DEF ReceiptOK
  <2>8. QED BY <2>2, <2>4, <2>5, <2>6, <2>7 DEF ReceiptOK, Own
<1>4. CASE receipt'[w] = None
  BY <1>4 DEF ReceiptOK
<1>5. QED BY <1>1, <1>2, <1>3, <1>4

\* The record publish_batch appends: a new last entry in one save file, of the
\* batch the worker's checkpoint holds.
LEMMA Appended ==
    ASSUME TypeInv, BatchInv, NEW w \in Workers, PublishSave(w), save' # save
    PROVE  LET b == batch[w]  n == Len(save[b.target]) + 1
           IN  /\ b \in Batch /\ b # None /\ b.outcome # "Empty" /\ b.id < nextId
               /\ Path(w) \in Paths /\ ckpt[Path(w)] = b
               /\ n \in DOMAIN save'[b.target] /\ save'[b.target][n] = b.id
               /\ \A t \in Targets : \A k \in DOMAIN save'[t] :
                     \/ t = b.target /\ k = n
                     \/ k \in DOMAIN save[t] /\ save'[t][k] = save[t][k] /\ save[t][k] # b.id
<1> DEFINE b == batch[w]  old == save[b.target]  n == Len(old) + 1
<1>1. /\ b \in Batch /\ b.outcome # "Empty"
      /\ \A k \in DOMAIN old : old[k] # b.id
      /\ save' = [save EXCEPT ![b.target] = Append(old, b.id)]
  BY PublishSaveEffect
<1>2. b.target \in Targets /\ b.id \in Nat /\ b # None
  BY <1>1, NoneAssumption DEF Batch
<1>3. old \in Seq(Nat) /\ save \in [Targets -> Seq(Nat)]
  BY <1>2 DEF TypeInv, TypeOK
<1>4. Path(w) \in Paths /\ ckpt[Path(w)] = b
  <2>1. LocalOK(w) /\ MemOK(w) /\ pc[w] = "run"
    BY DEF TypeInv, BatchInv, PublishSave, Goto
  <2>2. QED BY <2>1, PathIsPath DEF LocalOK, MemOK, HoldsTicket, HoldsBatch
<1>5. b.id < nextId /\ \A t \in Targets : \A k \in DOMAIN save[t] : save[t][k] = b.id => t = b.target
  BY <1>2, <1>4 DEF BatchInv, CkptOK
<1>6. /\ n \in DOMAIN Append(old, b.id) /\ Append(old, b.id)[n] = b.id
      /\ \A k \in DOMAIN Append(old, b.id) :
            k = n \/ (k \in DOMAIN old /\ Append(old, b.id)[k] = old[k])
  BY <1>2, <1>3, AppendProperties, LenProperties
<1>7. save'[b.target] = Append(old, b.id)
      /\ \A t \in Targets : t # b.target => save'[t] = save[t]
  BY <1>1, <1>2, <1>3
<1> HIDE DEF n, old
<1>8. ASSUME NEW t \in Targets, NEW k \in DOMAIN save'[t]
      PROVE  \/ t = b.target /\ k = n
             \/ k \in DOMAIN save[t] /\ save'[t][k] = save[t][k] /\ save[t][k] # b.id
  <2>1. CASE t = b.target
    <3>1. k = n \/ (k \in DOMAIN old /\ save'[t][k] = old[k])
      BY <1>6, <1>7, <1>8, <2>1
    <3>2. old = save[t]
      BY <2>1 DEF old
    <3>3. QED BY <1>1, <2>1, <3>1, <3>2
  <2>2. CASE t # b.target
    BY <1>5, <1>7, <1>8, <2>2
  <2>3. QED BY <2>1, <2>2
<1>9. n \in DOMAIN save'[b.target] /\ save'[b.target][n] = b.id
  BY <1>6, <1>7
<1>10. QED BY <1>1, <1>2, <1>4, <1>5, <1>8, <1>9 DEF n, old

LEMMA NextIdStep ==
    ASSUME TypeInv, BatchInv, NEW w \in Workers, WorkerStep(w)
    PROVE  nextId \in Nat /\ nextId' \in {nextId, nextId + 1}
BY FilesStep DEF Seed, TypeInv, TypeOK

LEMMA SaveStep ==
    ASSUME TypeInv, BatchInv, NEW w \in Workers, WorkerStep(w)
    PROVE  SaveOK'
<1>1. SaveOK /\ nextId \in Nat /\ nextId' \in {nextId, nextId + 1}
  BY NextIdStep DEF BatchInv
<1>2. \A t \in Targets : \A k \in DOMAIN save[t] : save[t][k] \in Nat
  BY ElementOfSeq, LenProperties DEF TypeInv, TypeOK
<1>3. CASE save' = save
  BY <1>1, <1>2, <1>3 DEF SaveOK
<1>4. CASE save' # save
  <2> DEFINE b == batch[w]  n == Len(save[b.target]) + 1
  <2>1. /\ b \in Batch /\ b.id < nextId /\ save'[b.target][n] = b.id
        /\ \A t \in Targets : \A k \in DOMAIN save'[t] :
              \/ t = b.target /\ k = n
              \/ k \in DOMAIN save[t] /\ save'[t][k] = save[t][k] /\ save[t][k] # b.id
    BY <1>4, FilesStep, Appended
  <2>2. b.id \in Nat
    BY <2>1 DEF Batch
  <2> HIDE DEF b, n
  <2>3. \A t \in Targets : \A k \in DOMAIN save'[t] : save'[t][k] < nextId'
    BY <1>1, <1>2, <2>1, <2>2 DEF SaveOK
  <2>4. \A t, u \in Targets : \A k \in DOMAIN save'[t], l \in DOMAIN save'[u] :
            save'[t][k] = save'[u][l] => t = u /\ k = l
    BY <1>1, <2>1 DEF SaveOK
  <2>5. QED BY <2>3, <2>4 DEF SaveOK
<1>5. QED BY <1>3, <1>4

LEMMA CkptKept ==
    ASSUME TypeInv, BatchInv, NEW w \in Workers, WorkerStep(w)
    PROVE  CkptOK'
<1>1. /\ CkptOK /\ SaveOK /\ nextId \in Nat /\ nextId' \in {nextId, nextId + 1}
      /\ MemOK(w) /\ LocalOK(w)
      /\ ckpt \in [Paths -> Batch \cup {None}]
  BY NextIdStep DEF BatchInv, TypeInv, TypeOK
<1>2. \A p \in Paths : ckpt[p] # None => ckpt[p].id \in Nat
  BY <1>1 DEF Batch
<1>3. CASE Seed(w)
  <2>1. Path(w) \in Paths
    BY <1>1, <1>3, PathIsPath DEF Seed, Goto, LocalOK, HoldsTicket
  <2>2. PICK b : b.id = nextId /\ ckpt' = [ckpt EXCEPT ![Path(w)] = b]
    BY <1>3 DEF Seed
  <2>3. nextId' = nextId + 1 /\ save' = save
    BY <1>3 DEF Seed
  <2>4. \A t \in Targets : \A k \in DOMAIN save[t] : save[t][k] # nextId
    <3>1. \A t \in Targets : \A k \in DOMAIN save[t] : save[t][k] \in Nat
      BY ElementOfSeq, LenProperties DEF TypeInv, TypeOK
    <3>2. QED BY <1>1, <3>1 DEF SaveOK
  <2>5. ASSUME NEW p \in Paths, ckpt'[p] # None
        PROVE  /\ ckpt'[p].id < nextId'
               /\ \A t \in Targets : \A k \in DOMAIN save'[t] :
                     save'[t][k] = ckpt'[p].id => t = ckpt'[p].target /\ ckpt'[p].outcome # "Empty"
               /\ \A q \in Paths : ckpt'[q] # None /\ ckpt'[q].id = ckpt'[p].id => p = q
    <3>1. \A q \in Paths : q # Path(w) => ckpt'[q] = ckpt[q]
      BY <1>1, <2>2
    <3>2. ckpt'[Path(w)] = b
      BY <1>1, <2>1, <2>2
    <3>3. \A q \in Paths : ckpt[q] # None => ckpt[q].id < nextId
      BY <1>1 DEF CkptOK
    <3>4. CASE p = Path(w)
      <4>1. ckpt'[p].id = nextId
        BY <2>2, <3>2, <3>4
      <4>2. \A q \in Paths : ckpt'[q] # None /\ ckpt'[q].id = nextId => p = q
        BY <1>1, <1>2, <3>1, <3>3, <3>4
      <4>3. QED BY <1>1, <2>3, <2>4, <4>1, <4>2
    <3>5. CASE p # Path(w)
      <4>1. ckpt'[p] = ckpt[p] /\ ckpt[p] # None
        BY <2>5, <3>1, <3>5
      <4>2. ckpt[p].id < nextId'
        BY <1>1, <1>2, <2>3, <3>3, <4>1
      <4>3. ASSUME NEW q \in Paths, ckpt'[q] # None, ckpt'[q].id = ckpt'[p].id
            PROVE  p = q
        <5>1. q # Path(w)
          BY <1>1, <1>2, <2>2, <3>2, <3>3, <4>1, <4>3
        <5>2. QED BY <1>1, <3>1, <4>1, <4>3, <5>1 DEF CkptOK
      <4>4. QED BY <1>1, <2>3, <4>1, <4>2, <4>3 DEF CkptOK
    <3>6. QED BY <3>4, <3>5
  <2>6. QED BY <2>5 DEF CkptOK
<1>4. CASE RemoveCheckpoint(w)
  <2>1. \A p \in Paths : ckpt'[p] # None => ckpt'[p] = ckpt[p]
    BY <1>1, <1>4 DEF RemoveCheckpoint
  <2>2. save' = save /\ nextId' = nextId
    BY <1>4 DEF RemoveCheckpoint, aux
  <2>3. QED BY <1>1, <2>1, <2>2 DEF CkptOK
<1>5. CASE ckpt' = ckpt /\ save' = save
  BY <1>1, <1>2, <1>5 DEF CkptOK
<1>6. CASE ckpt' = ckpt /\ save' # save
  <2> DEFINE b == batch[w]  n == Len(save[b.target]) + 1
  <2>1. /\ b # None /\ b.outcome # "Empty" /\ Path(w) \in Paths /\ ckpt[Path(w)] = b
        /\ save'[b.target][n] = b.id
        /\ \A t \in Targets : \A k \in DOMAIN save'[t] :
              \/ t = b.target /\ k = n
              \/ k \in DOMAIN save[t] /\ save'[t][k] = save[t][k] /\ save[t][k] # b.id
    BY <1>6, FilesStep, Appended
  <2> HIDE DEF b, n
  <2>2. \A p \in Paths : ckpt[p] # None /\ ckpt[p].id = b.id => p = Path(w)
    BY <1>1, <2>1 DEF CkptOK
  <2>3. ASSUME NEW p \in Paths, ckpt[p] # None, NEW t \in Targets, NEW k \in DOMAIN save'[t],
               save'[t][k] = ckpt[p].id
        PROVE  t = ckpt[p].target /\ ckpt[p].outcome # "Empty"
    <3>1. CASE t = b.target /\ k = n
      BY <2>1, <2>2, <2>3, <3>1
    <3>2. CASE k \in DOMAIN save[t] /\ save'[t][k] = save[t][k]
      BY <1>1, <2>3, <3>2 DEF CkptOK
    <3>3. QED BY <2>1, <2>3, <3>1, <3>2
  <2>4. QED BY <1>1, <1>2, <1>6, <2>3 DEF CkptOK
<1>7. CASE PublishSave(w)
  <2>1. ckpt' = ckpt
    BY <1>7 DEF PublishSave
  <2>2. QED BY <1>5, <1>6, <2>1
<1>8. QED BY <1>3, <1>4, <1>5, <1>7, FilesStep

\* A batch loses its checkpoint only when its line stands in finished.
LEMMA OrphanStep ==
    ASSUME TypeInv, BatchInv, NoOrphanBatch, NEW w \in Workers, WorkerStep(w)
    PROVE  NoOrphanBatch'
<1>0. /\ MemOK(w) /\ ReceiptOK(w) /\ LocalOK(w) /\ CkptOK /\ SaveOK
      /\ ckpt \in [Paths -> Batch \cup {None}]
      /\ finished \subseteq finished'
  BY FilesStep DEF BatchInv, TypeInv, TypeOK
<1> SUFFICES ASSUME NEW t \in Targets, NEW k \in DOMAIN save'[t]
             PROVE  \/ [target |-> t, skip |-> k - 1, count |-> 1] \in finished'
                    \/ \E p \in Paths : ckpt'[p] # None /\ ckpt'[p].id = save'[t][k]
  BY DEF NoOrphanBatch
<1>1. CASE save' # save
  <2>1. PublishSave(w) /\ ckpt' = ckpt
    BY <1>1, FilesStep DEF PublishSave
  <2> DEFINE b == batch[w]  n == Len(save[b.target]) + 1
  <2>2. /\ b # None /\ Path(w) \in Paths /\ ckpt[Path(w)] = b /\ save'[b.target][n] = b.id
        /\ \/ t = b.target /\ k = n
           \/ k \in DOMAIN save[t] /\ save'[t][k] = save[t][k]
    BY <1>1, <2>1, Appended
  <2> HIDE DEF b, n
  <2>3. QED BY <1>0, <2>1, <2>2 DEF NoOrphanBatch
<1>2. CASE save' = save
  <2>1. CASE [target |-> t, skip |-> k - 1, count |-> 1] \in finished
    BY <1>0, <2>1
  <2>2. ASSUME NEW p \in Paths, ckpt[p] # None, ckpt[p].id = save[t][k]
        PROVE  \/ [target |-> t, skip |-> k - 1, count |-> 1] \in finished'
               \/ ckpt'[p] = ckpt[p]
    <3>1. CASE ckpt' = ckpt
      BY <3>1
    <3>2. CASE Seed(w)
      <4>1. ckpt[Path(w)] = None
        BY <1>0, <3>2 DEF Seed, Goto, MemOK
      <4>2. PICK b : ckpt' = [ckpt EXCEPT ![Path(w)] = b]
        BY <3>2 DEF Seed
      <4>3. QED BY <1>0, <2>2, <4>1, <4>2
    <3>3. CASE RemoveCheckpoint(w) /\ p # receipt[w].path
      BY <1>0, <3>3 DEF RemoveCheckpoint
    <3>4. CASE RemoveCheckpoint(w) /\ p = receipt[w].path
      <4> DEFINE b == receipt[w].batch
      <4>1. receipt[w] # None /\ receipt[w].record \in finished
        BY <1>0, <3>4, NoneAssumption DEF RemoveCheckpoint, Goto, LocalOK, HoldsReceipt, MemOK
      <4>2. ckpt[p] = b /\ Lined(save, b, receipt[w].record)
        BY <1>0, <2>2, <3>4, <4>1 DEF ReceiptOK
      <4>3. t = b.target /\ b.outcome # "Empty"
        BY <1>0, <1>2, <2>2, <4>2 DEF CkptOK
      <4>4. PICK l \in DOMAIN save[t] : /\ save[t][l] = b.id
                 /\ receipt[w].record = [target |-> t, skip |-> l - 1, count |-> 1]
        BY <4>2, <4>3 DEF Lined
      <4>5. l = k
        BY <1>0, <1>2, <2>2, <4>2, <4>4 DEF SaveOK
      <4>6. QED BY <1>0, <4>1, <4>4, <4>5
    <3>5. QED BY <3>1, <3>2, <3>3, <3>4, FilesStep
  <2>3. QED BY <1>2, <2>1, <2>2 DEF NoOrphanBatch
<1>3. QED BY <1>1, <1>2

LEMMA BatchStep ==
    ASSUME OwnPaths
    PROVE  TypeInv /\ BatchInv /\ NoOrphanBatch /\ [Next]_vars => (BatchInv /\ NoOrphanBatch)'
<1> SUFFICES ASSUME TypeInv, BatchInv, NoOrphanBatch, [Next]_vars PROVE (BatchInv /\ NoOrphanBatch)'
  OBVIOUS
<1> USE DEF BatchInv, NoOrphanBatch, SaveOK, CkptOK, MemOK, ReceiptOK, AtTask, HoldsTicket,
            HoldsBatch, Lined, Path
<1>1. CASE UNCHANGED vars
  BY <1>1 DEF vars, files, local, aux
<1>2. CASE Stage2 \/ Editor
  BY <1>2, EnvironmentKept DEF local
<1> HIDE DEF BatchInv, NoOrphanBatch, SaveOK, CkptOK, MemOK, ReceiptOK, AtTask, HoldsTicket,
             HoldsBatch, Lined, Path
<1>3. ASSUME NEW w \in Workers, WorkerStep(w) PROVE (BatchInv /\ NoOrphanBatch)'
  <2>1. ASSUME NEW v \in Workers PROVE MemOK(v)' /\ ReceiptOK(v)'
    <3>1. CASE v = w
      BY <1>3, <3>1, MemStep, ReceiptKept
    <3>2. CASE v # w
      BY <1>3, <3>2, BatchOthers
    <3>3. QED BY <3>1, <3>2
  <2>2. QED BY <1>3, <2>1, SaveStep, CkptKept, OrphanStep DEF BatchInv
<1>4. QED BY <1>1, <1>2, <1>3 DEF Next, WorkerStep

LEMMA BatchInit == Init => BatchInv /\ NoOrphanBatch
<1> SUFFICES ASSUME Init PROVE BatchInv /\ NoOrphanBatch
  OBVIOUS
<1>1. \A t \in Targets : DOMAIN save[t] = {}
  BY EmptySeq, LenProperties DEF Init
<1>2. QED BY <1>1 DEF Init, BatchInv, NoOrphanBatch, SaveOK, CkptOK, MemOK, ReceiptOK, AtTask,
                      HoldsTicket, HoldsBatch

\* With checkpoint files of their own, the batches of all workers keep their
\* checkpoint until their line stands in finished.
THEOREM NoOrphanCorrect == ASSUME OwnPaths PROVE Spec => []NoOrphanBatch
<1>1. QED BY InitType, StepType, BatchInit, BatchStep, PTL DEF Spec

(***************************************************************************)
(* One row per batch.  The Stage1 rows of the queue are counted: no step   *)
(* of a worker adds one, a completion takes one away; so the queue never   *)
(* comes back to the version a receipt was made from, and the receipt      *)
(* cannot take a second row.                                               *)
(***************************************************************************)
Stage1Line == {l \in Line : l.kind = "Task" /\ l.row.stage = 1}

\* The editor of the queue appends no Stage1 row.
NoRowAppended == Edits \cap Stage1Line = {}

Left(f) == HowMany(f, Stage1Line)

LEMMA LeftIsNat ==
    ASSUME NEW f \in Seq(Line)
    PROVE  Left(f) \in Nat
BY CountIsNat DEF Left

\* An advance of a Stage1 ticket: one row less, unless another takes its place.
LEMMA LeftAdvanced ==
    ASSUME NEW f \in Seq(Line), NEW w, NEW t \in Row, t.stage = 1, Found(f, w, t),
           NEW a \in {"Remove", "MarkError", "Replace"}, NEW n
    PROVE  /\ Left(Advanced(f, w, t, a, n)) <= Left(f)
           /\ a = "Remove" => Left(Advanced(f, w, t, a, n)) < Left(f)
           /\ a = "Replace" /\ n.stage = 2 => Left(Advanced(f, w, t, a, n)) < Left(f)
<1> DEFINE i == Min(TicketAt(f, w, t))
<1>1. i \in 1..Len(f) /\ f[i].kind = "Task" /\ f[i].row = t
  BY TicketLine
<1>2. f[i] \in Stage1Line
  <2>1. f[i] \in Line
    BY <1>1, ElementOfSeq
  <2>2. QED BY <1>1, <2>1 DEF Stage1Line
<1>3. Left(f) \in Nat
  BY LeftIsNat
<1> HIDE DEF i
<1>4. Left(RemoveAt(f, i)) = Left(f) - 1
  BY <1>1, <1>2, CountRemoved DEF Left
<1>5. ASSUME NEW l
      PROVE  Left(ReplaceAt(f, i, l)) = IF l \in Stage1Line THEN Left(f) ELSE Left(f) - 1
  BY <1>1, <1>2, CountReplaced DEF Left
<1>6. ErrorLine(t) \notin Stage1Line
  BY DEF ErrorLine, Stage1Line
<1>7. n.stage = 2 => TaskLine(n) \notin Stage1Line
  BY DEF TaskLine, Stage1Line
<1>8. CASE a = "Remove"
  <2>1. Advanced(f, w, t, a, n) = RemoveAt(f, i)
    BY <1>8 DEF Advanced, RemoveTicket, i
  <2>2. QED BY <1>3, <1>4, <1>8, <2>1
<1>9. CASE a = "MarkError"
  <2>1. Advanced(f, w, t, a, n) = ReplaceAt(f, i, ErrorLine(t))
    BY <1>9 DEF Advanced, ReplaceTicket, i
  <2>2. QED BY <1>3, <1>5, <1>6, <1>9, <2>1
<1>10. CASE a = "Replace"
  <2>1. Advanced(f, w, t, a, n) = ReplaceAt(f, i, TaskLine(n))
    BY <1>10 DEF Advanced, ReplaceTicket, i
  <2>2. QED BY <1>3, <1>5, <1>7, <1>10, <2>1
<1>11. QED BY <1>8, <1>9, <1>10

LEMMA LeftStep ==
    ASSUME TypeInv, HandInv, NEW w \in Workers, WorkerStep(w)
    PROVE  /\ Left(queue) \in Nat /\ Left(queue') \in Nat
           /\ Left(queue') <= Left(queue)
           /\ WriteQueue(w) => Left(queue') < Left(queue)
<1> USE DEF files, local, aux, Goto
<1>0. /\ TicketOK(w) /\ LocalOK(w) /\ queue \in Seq(Line)
      /\ rows \in [Workers -> SUBSET Repair]
  BY DEF TypeInv, TypeOK, HandInv
<1>1. Left(queue) \in Nat /\ Left(queue') \in Nat
  <2>1. queue' \in Seq(Line)
    BY StepType DEF TypeInv, TypeOK, Next, WorkerStep
  <2>2. QED BY <1>0, <2>1, LeftIsNat
<1>2. CASE queue' = queue /\ ~WriteQueue(w)
  BY <1>1, <1>2
<1>3. ASSUME NEW t \in Row, t.stage = 1, Found(queue, w, t), NEW n,
             NEW a \in {"Remove", "MarkError", "Replace"},
             queue' = Advanced(queue, w, t, a, n)
      PROVE  Left(queue') <= Left(queue)
  BY <1>0, <1>3, LeftAdvanced
<1>4. CASE RepairRow(w)
  <2>2. NextRepair(w) \in rows[w] /\ NextRepair(w) \in Repair
    BY <1>0, <1>4, NextRepairIsRow DEF RepairRow
  <2>3. NextRepair(w).row.stage = 1 /\ NextRepair(w).row \in Row
    BY <1>0, <2>2 DEF TicketOK, Repair
  <2>4. ~WriteQueue(w)
    BY <1>4 DEF RepairRow, WriteQueue
  <2>5. QED BY <1>1, <1>3, <1>4, <2>3, <2>4 DEF RepairRow
<1>5. CASE MarkMalformed(w)
  <2>1. /\ queue[NextRow(w)].row.stage = 1 /\ Found(queue, w, queue[NextRow(w)].row)
        /\ queue[NextRow(w)].row \in Row
    BY <1>0, <1>5, NextRowIsTask DEF MarkMalformed, NextRow, ReadNext
  <2>2. ~WriteQueue(w)
    BY <1>5 DEF MarkMalformed, WriteQueue
  <2>3. QED BY <1>1, <1>3, <1>5, <2>1, <2>2 DEF MarkMalformed
<1>6. CASE Claim(w)
  <2>1. ticket[w].stage = 1 /\ ticket[w] \in Row
    BY <1>0, <1>6 DEF Claim, TicketOK, LocalOK, HoldsTicket
  <2>2. ~WriteQueue(w)
    BY <1>6 DEF Claim, WriteQueue
  <2>3. QED BY <1>1, <1>2, <1>3, <1>6, <2>1, <2>2 DEF Claim
<1>7. CASE MarkFailed(w)
  <2>1. ticket[w].stage = 1 /\ ticket[w] \in Row
    BY <1>0, <1>7 DEF MarkFailed, TicketOK, LocalOK, HoldsTicket
  <2>2. ~WriteQueue(w)
    BY <1>7 DEF MarkFailed, WriteQueue
  <2>3. QED BY <1>1, <1>3, <1>7, <2>1, <2>2 DEF MarkFailed
<1>8. CASE WriteQueue(w)
  <2>1. receipt[w] \in Receipt /\ receipt[w] # None
    BY <1>0, <1>8, NoneAssumption DEF WriteQueue, LocalOK, HoldsReceipt
  <2>2. /\ queue' = After(w) /\ Found(queue, w, receipt[w].ticket)
    <3>1. WriteOK(w) /\ pc[w] = "write"
      BY <1>8 DEF WriteQueue, HandInv
    <3>2. receipt[w].evidence.after = After(w)
      BY <3>1 DEF WriteOK
    <3>3. queue' = receipt[w].evidence.after
      BY <1>8 DEF WriteQueue
    <3>4. QED BY <3>1, <3>2, <3>3 DEF WriteOK
  <2>3. /\ receipt[w].ticket.stage = 1 /\ receipt[w].ticket \in Row
        /\ receipt[w].replacement # None => receipt[w].replacement.stage = 2
    BY <1>0, <2>1 DEF TicketOK, HandInv, HandoffOK, Receipt
  <2>4. Left(After(w)) < Left(queue)
    BY <1>0, <2>2, <2>3, LeftAdvanced DEF After
  <2>5. QED BY <1>1, <2>2, <2>4
<1>9. Boot(w) => (queue' = queue /\ ~WriteQueue(w)) \/ RepairRow(w)
  BY DEF Boot, Start, RepairRead, CountRows, RepairLost, Repaired, Die, WriteQueue
<1>10. Take(w) => (queue' = queue /\ ~WriteQueue(w)) \/ MarkMalformed(w) \/ Claim(w)
  BY DEF Take, Exit, Read, ClaimLost, Die, WriteQueue
<1>11. Task(w) => (queue' = queue /\ ~WriteQueue(w)) \/ MarkFailed(w)
  BY DEF Task, Open, OpenRefused, Seed, Persist, Stop, Fail, MarkFailedLost,
         PublishSave, PublishResults, Die, WriteQueue
<1>12. Completion(w) => (queue' = queue /\ ~WriteQueue(w)) \/ WriteQueue(w)
  BY DEF Completion, Store, CommitDone, CommitAmbiguous, CommitRecord, AdvanceLost,
         WriteEvidence, RemoveCheckpoint, Acknowledge, Die
<1>13. Crash(w) => (queue' = queue /\ ~WriteQueue(w)) \/ WriteQueue(w)
  BY DEF Crash, Die
<1>14. QED
  BY <1>2, <1>4, <1>5, <1>6, <1>7, <1>8, <1>9, <1>10, <1>11, <1>12, <1>13 DEF WorkerStep

LEMMA LeftEnvironment ==
    ASSUME NoRowAppended, TypeInv, Stage2 \/ Editor
    PROVE  Left(queue') \in Nat /\ Left(queue) \in Nat /\ Left(queue') <= Left(queue)
<1>0. Left(queue) \in Nat /\ queue \in Seq(Line)
  BY LeftIsNat DEF TypeInv, TypeOK
<1>1. ASSUME NEW i \in DOMAIN queue, queue' = RemoveAt(queue, i)
      PROVE  Left(queue') \in {Left(queue), Left(queue) - 1}
  <2>1. i \in 1..Len(queue)
    BY <1>0, LenProperties
  <2>2. QED BY <1>0, <1>1, <2>1, CountRemoved DEF Left
<1>2. ASSUME NEW l \in Edits, queue' = Append(queue, l) PROVE Left(queue') = Left(queue)
  BY <1>0, <1>2, QueueAssumption, CountAppended DEF Left, NoRowAppended
<1>3. Left(queue') \in {Left(queue), Left(queue) - 1}
  BY <1>1, <1>2 DEF Stage2, Editor, ConsumeStage2, EditDelete, EditAppend
<1>4. queue' \in Seq(Line)
  BY EnvironmentType DEF TypeInv, TypeOK
<1>5. QED BY <1>0, <1>3, <1>4, LeftIsNat

Taken(s, x) == \E i \in DOMAIN s : s[i].batch.id = x

\* A receipt and its batch belong together, and one that took its row says so:
\* fewer rows are left than in the version it was made from.
ReceiptOnce(w) == receipt[w] # None =>
    /\ \A p \in Paths : ckpt[p] # None /\ ckpt[p].id = receipt[w].batch.id => p = receipt[w].path
    /\ \A v \in Workers :
          receipt[v] # None /\ receipt[v].batch.id = receipt[w].batch.id => v = w
    /\ Taken(taken, receipt[w].batch.id) =>
          receipt[w].evidence # None /\ Left(queue) < Left(receipt[w].evidence.before)
    /\ pc[w] \in {"advance", "write"} => ~Taken(taken, receipt[w].batch.id)

OnceInv ==
    /\ OneRowPerBatch
    /\ \A i \in DOMAIN taken : taken[i].batch.id < nextId
    /\ \A w \in Workers : ReceiptOnce(w)
    /\ \A p \in Paths : ckpt[p] # None /\ Taken(taken, ckpt[p].id) =>
          \E w \in Workers : receipt[w] # None /\ receipt[w].path = p

\* The types the argument below rests on.
LEMMA OnceTypes ==
    ASSUME TypeInv
    PROVE  /\ nextId \in Nat
           /\ \A i \in DOMAIN taken : taken[i].batch.id \in Nat
           /\ \A p \in Paths : ckpt[p] # None => ckpt[p].id \in Nat
           /\ \A w \in Workers : receipt[w] # None =>
                 /\ receipt[w] \in Receipt /\ receipt[w].batch.id \in Nat
                 /\ receipt[w].evidence # None => Left(receipt[w].evidence.before) \in Nat
           /\ Left(queue) \in Nat
<1>1. \A i \in DOMAIN taken : taken[i].batch.id \in Nat
  <2>1. taken \in Seq([w : Workers, batch : Batch, record : Record])
    BY DEF TypeInv, TypeOK
  <2>2. \A i \in DOMAIN taken : taken[i] \in [w : Workers, batch : Batch, record : Record]
    BY <2>1, ElementOfSeq, LenProperties
  <2>3. QED BY <2>2 DEF Batch
<1>2. \A p \in Paths : ckpt[p] # None => ckpt[p].id \in Nat
  BY DEF TypeInv, TypeOK, Batch
<1>3. ASSUME NEW w \in Workers, receipt[w] # None
      PROVE  /\ receipt[w] \in Receipt /\ receipt[w].batch.id \in Nat
             /\ receipt[w].evidence # None => Left(receipt[w].evidence.before) \in Nat
  <2>1. receipt[w] \in Receipt
    BY <1>3 DEF TypeInv, TypeOK
  <2>2. receipt[w].batch.id \in Nat
    BY <2>1 DEF Receipt, Batch
  <2>3. receipt[w].evidence # None => receipt[w].evidence.before \in Seq(Line)
    BY <2>1 DEF Receipt, Version
  <2>4. QED BY <2>1, <2>2, <2>3, LeftIsNat
<1>4. nextId \in Nat /\ Left(queue) \in Nat
  BY LeftIsNat DEF TypeInv, TypeOK
<1>5. QED BY <1>1, <1>2, <1>3, <1>4

\* A step that stores, changes, removes and takes nothing only lets the queue
\* shrink.  (At "advance" and "write" a worker arrives by two steps of its own.)
LEMMA OnceQuiet ==
    ASSUME TypeInv, OnceInv,
           UNCHANGED <<taken, receipt>>, nextId' \in {nextId, nextId + 1},
           \A p \in Paths : ckpt'[p] = ckpt[p] \/ ckpt'[p] = None \/ ckpt'[p].id = nextId,
           \A p, q \in Paths : ckpt'[p] # None /\ ckpt'[q] # None /\ ckpt'[p].id = ckpt'[q].id => p = q,
           \A w \in Workers : receipt[w] # None => receipt[w].batch.id < nextId,
           \A w \in Workers : receipt'[w] # None /\ pc'[w] \in {"advance", "write"} =>
               ~Taken(taken, receipt[w].batch.id),
           Left(queue') \in Nat, Left(queue') <= Left(queue)
    PROVE  OnceInv'
<1>0. /\ nextId \in Nat
      /\ \A i \in DOMAIN taken : taken[i].batch.id \in Nat /\ taken[i].batch.id < nextId
      /\ Left(queue) \in Nat
  BY OnceTypes DEF OnceInv
<1>2. ~Taken(taken, nextId)
  BY <1>0 DEF Taken
<1>3. OneRowPerBatch' /\ \A i \in DOMAIN taken' : taken'[i].batch.id < nextId'
  BY <1>0 DEF OnceInv, OneRowPerBatch
<1>4. ASSUME NEW w \in Workers, receipt'[w] # None PROVE ReceiptOnce(w)'
  <2>1. /\ ReceiptOnce(w) /\ receipt[w] # None /\ receipt'[w] = receipt[w]
        /\ receipt[w].batch.id \in Nat /\ receipt[w].batch.id < nextId
        /\ receipt[w].evidence # None => Left(receipt[w].evidence.before) \in Nat
    BY <1>4, OnceTypes DEF OnceInv
  <2>2. \A p \in Paths : ckpt'[p] # None /\ ckpt'[p].id = receipt[w].batch.id => p = receipt[w].path
    BY <1>0, <2>1 DEF ReceiptOnce
  <2>3. \A v \in Workers : receipt'[v] # None /\ receipt'[v].batch.id = receipt[w].batch.id => v = w
    BY <2>1 DEF ReceiptOnce
  <2>4. Taken(taken, receipt[w].batch.id) =>
          receipt[w].evidence # None /\ Left(queue') < Left(receipt[w].evidence.before)
    BY <1>0, <2>1 DEF ReceiptOnce
  <2>5. pc'[w] \in {"advance", "write"} => ~Taken(taken, receipt[w].batch.id)
    BY <1>4
  <2>6. QED BY <2>1, <2>2, <2>3, <2>4, <2>5 DEF ReceiptOnce, Left
<1>5. ASSUME NEW p \in Paths, ckpt'[p] # None, Taken(taken, ckpt'[p].id)
      PROVE  \E w \in Workers : receipt'[w] # None /\ receipt'[w].path = p
  <2>1. ckpt'[p] = ckpt[p]
    BY <1>2, <1>5
  <2>2. QED BY <1>5, <2>1 DEF OnceInv
<1>6. \A p \in Paths : ckpt'[p] # None /\ Taken(taken', ckpt'[p].id) =>
          \E w \in Workers : receipt'[w] # None /\ receipt'[w].path = p
  BY <1>5
<1>7. \A w \in Workers : ReceiptOnce(w)'
  BY <1>4 DEF ReceiptOnce
<1>8. QED BY <1>3, <1>6, <1>7 DEF OnceInv

\* A worker gets to the advance by way of its finished record only.
LEMMA ToAdvance ==
    ASSUME TypeInv, NEW w \in Workers, WorkerStep(w), pc'[w] = "advance"
    PROVE  CommitRecord(w)
<1> USE DEF files, local, aux, Goto
<1>0. pc \in [Workers -> PC]
  BY DEF TypeInv, TypeOK
<1>1. ~Boot(w)
  BY <1>0 DEF Boot, Start, RepairRead, CountRows, RepairRow, RepairLost, Repaired, Die
<1>2. ~Take(w)
  BY <1>0 DEF Take, Exit, Read, MarkMalformed, Claim, ClaimLost, Die
<1>3. ~Task(w)
  BY <1>0 DEF Task, Open, OpenRefused, Seed, Persist, Stop, Fail, MarkFailed, MarkFailedLost,
              PublishSave, PublishResults, Die
<1>4. ~Crash(w)
  BY <1>0 DEF Crash, Die
<1>5. Completion(w) => CommitRecord(w)
  BY <1>0 DEF Completion, Store, CommitDone, CommitAmbiguous, WriteEvidence, AdvanceLost,
              WriteQueue, RemoveCheckpoint, Acknowledge, Die
<1>6. QED BY <1>1, <1>2, <1>3, <1>4, <1>5 DEF WorkerStep

\* No receipt changes in a step that is none of the three of ReceiptStep.
LEMMA ReceiptsKept ==
    ASSUME TypeInv, NEW w \in Workers, WorkerStep(w),
           ~Store(w), ~WriteEvidence(w), ~Acknowledge(w)
    PROVE  receipt' = receipt
<1>1. receipt \in [Workers -> Receipt \cup {None}] /\ receipt' \in [Workers -> Receipt \cup {None}]
  BY StepType DEF TypeInv, TypeOK, Next, WorkerStep
<1>2. \A v \in Workers : receipt'[v] = receipt[v]
  BY OthersKept, ReceiptStep DEF Kept
<1>3. QED BY <1>1, <1>2

LEMMA OnceOther ==
    ASSUME OwnPaths, TypeInv, HandInv, BatchInv, NoOrphanBatch, OnceInv,
           NEW w \in Workers, WorkerStep(w),
           ~Store(w), ~WriteEvidence(w), ~Acknowledge(w), ~WriteQueue(w)
    PROVE  OnceInv'
<1>1. taken' = taken /\ receipt' = receipt
  BY TakenStep, ReceiptsKept
<1>2. nextId' \in {nextId, nextId + 1} /\ Left(queue') \in Nat /\ Left(queue') <= Left(queue)
  BY NextIdStep, LeftStep
<1>3. \A p \in Paths : ckpt'[p] = ckpt[p] \/ ckpt'[p] = None \/ ckpt'[p].id = nextId
  <2>1. ckpt \in [Paths -> Batch \cup {None}]
    BY DEF TypeInv, TypeOK
  <2>2. CASE Seed(w)
    <3>1. PICK b : b.id = nextId /\ ckpt' = [ckpt EXCEPT ![Path(w)] = b]
      BY <2>2 DEF Seed
    <3>2. QED BY <2>1, <3>1
  <2>3. CASE RemoveCheckpoint(w)
    BY <2>1, <2>3 DEF RemoveCheckpoint
  <2>4. QED BY <2>2, <2>3, FilesStep
<1>4. \A p, q \in Paths : ckpt'[p] # None /\ ckpt'[q] # None /\ ckpt'[p].id = ckpt'[q].id => p = q
  BY CkptKept DEF CkptOK
<1>5. \A v \in Workers : receipt[v] # None => receipt[v].batch.id < nextId
  BY DEF BatchInv, ReceiptOK
<1>6. ASSUME NEW v \in Workers, receipt'[v] # None, pc'[v] \in {"advance", "write"}
      PROVE  ~Taken(taken, receipt[v].batch.id)
  <2>1. ReceiptOnce(v) /\ receipt[v] # None
    BY <1>1, <1>6 DEF OnceInv
  <2>2. CASE v # w
    <3>1. pc'[v] = pc[v]
      BY <2>2, OthersKept DEF Kept
    <3>2. QED BY <1>6, <2>1, <3>1 DEF ReceiptOnce
  <2>3. CASE v = w
    <3>1. CommitRecord(w)
      BY <1>6, <2>3, ToWrite, ToAdvance
    <3>2. ~HasEvidence(w) \/ AtBefore(w)
      BY <3>1 DEF CommitRecord
    <3>3. AtBefore(w) => ~(Left(queue) < Left(receipt[w].evidence.before))
      BY OnceTypes DEF AtBefore
    <3>4. QED BY <2>1, <2>3, <3>2, <3>3 DEF ReceiptOnce, HasEvidence
  <2>4. QED BY <2>2, <2>3
<1>7. UNCHANGED <<taken, receipt>>
  BY <1>1
<1>8. QED BY <1>2, <1>3, <1>4, <1>5, <1>6, <1>7, OnceQuiet

\* The new receipt's batch is that of a checkpoint no receipt names: it has
\* taken no row.
LEMMA OnceStore ==
    ASSUME OwnPaths, TypeInv, HandInv, BatchInv, OnceInv, NEW w \in Workers, Store(w)
    PROVE  OnceInv'
<1> DEFINE b == batch[w]
<1>0. /\ MemOK(w) /\ LocalOK(w) /\ pc[w] = "store" /\ receipt[w] = None
      /\ receipt \in [Workers -> Receipt \cup {None}] /\ pc \in [Workers -> PC]
  BY DEF Store, Goto, BatchInv, TypeInv, TypeOK
<1>1. /\ b \in Batch /\ b # None /\ ckpt[Path(w)] = b /\ Path(w) \in Own(w) /\ Path(w) \in Paths
  BY <1>0, OwnIsPath, NoneAssumption DEF LocalOK, MemOK, HoldsBatch, HoldsTicket
<1>2. /\ \A v \in Workers : v # w => receipt'[v] = receipt[v]
      /\ receipt'[w].batch = b /\ receipt'[w].path = Path(w) /\ receipt'[w].evidence = None
      /\ \A v \in Workers : v # w => pc'[v] = pc[v]
      /\ pc'[w] = "commit"
      /\ UNCHANGED <<taken, ckpt, nextId, queue>>
  BY <1>0 DEF Store, Goto, aux
<1>3. ASSUME NEW v \in Workers, receipt[v] # None PROVE receipt[v].path # Path(w)
  <2>1. v # w /\ receipt[v].path \in Own(v)
    BY <1>0, <1>3 DEF BatchInv, ReceiptOK
  <2>2. QED BY <1>1, <2>1, OwnDisjoint
<1>4. ~Taken(taken, b.id)
  BY <1>1, <1>3 DEF OnceInv
<1>5. ASSUME NEW v \in Workers, receipt[v] # None PROVE receipt[v].batch.id # b.id
  BY <1>1, <1>3, <1>5 DEF OnceInv, ReceiptOnce
<1>6. \A p \in Paths : ckpt[p] # None /\ ckpt[p].id = b.id => p = Path(w)
  BY <1>1 DEF BatchInv, CkptOK
<1>7. ASSUME NEW v \in Workers PROVE ReceiptOnce(v)'
  <2>1. CASE v = w
    <3>1. /\ \A p \in Paths : ckpt'[p] # None /\ ckpt'[p].id = receipt'[w].batch.id =>
                p = receipt'[w].path
          /\ \A u \in Workers :
                receipt'[u] # None /\ receipt'[u].batch.id = receipt'[w].batch.id => u = w
          /\ ~Taken(taken', receipt'[w].batch.id)
      BY <1>2, <1>4, <1>5, <1>6
    <3>2. QED BY <2>1, <3>1 DEF ReceiptOnce
  <2>2. CASE v # w /\ receipt[v] # None
    <3>1. ReceiptOnce(v) /\ receipt'[v] = receipt[v] /\ pc'[v] = pc[v]
      BY <1>2, <2>2 DEF OnceInv
    <3>2. \A u \in Workers :
             receipt'[u] # None /\ receipt'[u].batch.id = receipt[v].batch.id => u = v
      BY <1>2, <1>5, <2>2, <3>1 DEF ReceiptOnce
    <3>3. QED BY <1>2, <2>2, <3>1, <3>2 DEF ReceiptOnce, Left
  <2>3. CASE v # w /\ receipt[v] = None
    BY <1>2, <2>3 DEF ReceiptOnce
  <2>4. QED BY <2>1, <2>2, <2>3
<1>8. \A p \in Paths : ckpt'[p] # None /\ Taken(taken', ckpt'[p].id) =>
          \E v \in Workers : receipt'[v] # None /\ receipt'[v].path = p
  <2>1. \A v \in Workers : receipt[v] # None => receipt'[v] = receipt[v]
    BY <1>0, <1>2
  <2>2. QED BY <1>2, <2>1 DEF OnceInv
<1>9. OneRowPerBatch' /\ \A i \in DOMAIN taken' : taken'[i].batch.id < nextId'
  BY <1>2 DEF OnceInv, OneRowPerBatch
<1>10. QED BY <1>7, <1>8, <1>9 DEF OnceInv

\* The evidence is made at the advance: its batch has taken no row yet.
LEMMA OnceWriteEvidence ==
    ASSUME TypeInv, OnceInv, NEW w \in Workers, WriteEvidence(w)
    PROVE  OnceInv'
<1>0. /\ LocalOK(w) /\ pc[w] = "advance" /\ receipt[w] \in Receipt /\ receipt[w] # None
      /\ receipt \in [Workers -> Receipt \cup {None}] /\ pc \in [Workers -> PC]
  BY NoneAssumption DEF WriteEvidence, Goto, TypeInv, TypeOK, LocalOK, HoldsReceipt
<1>1. /\ \A v \in Workers : v # w => receipt'[v] = receipt[v] /\ pc'[v] = pc[v]
      /\ receipt'[w].batch = receipt[w].batch /\ receipt'[w].path = receipt[w].path
      /\ pc'[w] = "write"
      /\ UNCHANGED <<taken, ckpt, nextId, queue>>
  BY <1>0 DEF WriteEvidence, Goto, aux, Receipt
<1>2. ~Taken(taken, receipt[w].batch.id)
  BY <1>0 DEF OnceInv, ReceiptOnce
<1>3. \A v \in Workers : receipt'[v] # None => /\ receipt[v] # None
                               /\ receipt'[v].batch = receipt[v].batch /\ receipt'[v].path = receipt[v].path
  BY <1>0, <1>1
<1>4. ASSUME NEW v \in Workers, receipt'[v] # None PROVE ReceiptOnce(v)'
  <2>1. ReceiptOnce(v) /\ receipt[v] # None
    BY <1>3, <1>4 DEF OnceInv
  <2>2. /\ \A p \in Paths : ckpt'[p] # None /\ ckpt'[p].id = receipt'[v].batch.id =>
              p = receipt'[v].path
        /\ \A u \in Workers :
              receipt'[u] # None /\ receipt'[u].batch.id = receipt'[v].batch.id => u = v
    BY <1>1, <1>3, <1>4, <2>1 DEF ReceiptOnce
  <2>3. CASE v = w
    BY <1>1, <1>2, <2>2, <2>3 DEF ReceiptOnce
  <2>4. CASE v # w
    BY <1>1, <2>1, <2>2, <2>4 DEF ReceiptOnce, Left
  <2>5. QED BY <2>3, <2>4
<1>5. \A v \in Workers : ReceiptOnce(v)'
  BY <1>4 DEF ReceiptOnce
<1>6. \A p \in Paths : ckpt'[p] # None /\ Taken(taken', ckpt'[p].id) =>
          \E v \in Workers : receipt'[v] # None /\ receipt'[v].path = p
  <2>1. receipt'[w] # None
    BY <1>0, NoneAssumption, StepType DEF WriteEvidence, Goto, TypeInv, LocalOK, HoldsReceipt,
       Next, Completion
  <2>2. \A v \in Workers : receipt[v] # None => receipt'[v] # None /\ receipt'[v].path = receipt[v].path
    BY <1>1, <2>1
  <2>3. QED BY <1>1, <2>2 DEF OnceInv
<1>7. OneRowPerBatch' /\ \A i \in DOMAIN taken' : taken'[i].batch.id < nextId'
  BY <1>1 DEF OnceInv, OneRowPerBatch
<1>8. QED BY <1>5, <1>6, <1>7 DEF OnceInv

\* The queue write: the batch takes its row, and one row less is left than in
\* the version of its evidence.
LEMMA OnceWriteQueue ==
    ASSUME TypeInv, HandInv, BatchInv, OnceInv, NEW w \in Workers, WriteQueue(w)
    PROVE  OnceInv'
<1> DEFINE x == receipt[w].batch.id
           e == [w |-> w, batch |-> receipt[w].batch, record |-> receipt[w].record]
<1>0. /\ LocalOK(w) /\ WriteOK(w) /\ pc[w] = "write" /\ receipt[w] \in Receipt /\ receipt[w] # None
      /\ pc \in [Workers -> PC] /\ x < nextId
      /\ taken \in Seq([w : Workers, batch : Batch, record : Record])
  BY NoneAssumption DEF WriteQueue, Goto, TypeInv, TypeOK, LocalOK, HoldsReceipt, HandInv,
     BatchInv, ReceiptOK
<1>1. /\ \A v \in Workers : v # w => pc'[v] = pc[v]
      /\ pc'[w] = "cleanup" /\ taken' = Append(taken, e)
      /\ UNCHANGED <<receipt, ckpt, nextId>>
  BY <1>0 DEF WriteQueue, Goto
<1>2. e \in [w : Workers, batch : Batch, record : Record]
  BY <1>0 DEF Receipt
<1>3. ~Taken(taken, x) /\ e.batch.id = x
  BY <1>0 DEF OnceInv, ReceiptOnce
<1> HIDE DEF e
<1>4. /\ Len(taken) \in Nat /\ DOMAIN taken = 1..Len(taken) /\ DOMAIN taken' = 1..(Len(taken) + 1)
      /\ taken'[Len(taken) + 1] = e
      /\ \A i \in 1..Len(taken) : taken'[i] = taken[i]
  BY <1>0, <1>1, <1>2, AppendProperties, LenProperties
<1>5. \A i \in DOMAIN taken' : i = Len(taken) + 1 \/ i \in DOMAIN taken
  BY <1>4
<1>6. \A y : Taken(taken', y) => Taken(taken, y) \/ y = x
  BY <1>3, <1>4, <1>5 DEF Taken
<1>7. Left(queue') \in Nat /\ Left(queue') < Left(queue)
  BY LeftStep DEF WorkerStep, Completion
<1>8. receipt[w].evidence.before = queue /\ receipt[w].evidence # None
  <2>1. receipt[w].evidence.before = queue
    BY <1>0 DEF WriteOK
  <2>2. receipt[w].evidence \in Version
    BY <1>0 DEF LocalOK
  <2>3. receipt[w].evidence # None
    BY <2>2, NoneAssumption
  <2>4. QED BY <2>1, <2>3
<1>9. OneRowPerBatch'
  <2>1. \A i, j \in DOMAIN taken : taken[i].batch.id = taken[j].batch.id => i = j
    BY DEF OnceInv, OneRowPerBatch
  <2>2. \A i \in DOMAIN taken : taken[i].batch.id # x
    BY <1>3 DEF Taken
  <2>3. \A i, j \in DOMAIN taken' : taken'[i].batch.id = taken'[j].batch.id => i = j
    BY <1>3, <1>4, <1>5, <2>1, <2>2
  <2>4. QED BY <2>3 DEF OneRowPerBatch
<1>10. \A i \in DOMAIN taken' : taken'[i].batch.id < nextId'
  BY <1>0, <1>1, <1>3, <1>4, <1>5 DEF OnceInv
<1>11. ASSUME NEW v \in Workers, receipt[v] # None PROVE ReceiptOnce(v)'
  <2>1. ReceiptOnce(v)
    BY DEF OnceInv
  <2>2. /\ \A p \in Paths : ckpt'[p] # None /\ ckpt'[p].id = receipt'[v].batch.id =>
              p = receipt'[v].path
        /\ \A u \in Workers :
              receipt'[u] # None /\ receipt'[u].batch.id = receipt'[v].batch.id => u = v
    BY <1>1, <1>11, <2>1 DEF ReceiptOnce
  <2>3. CASE v = w
    BY <1>1, <1>7, <1>8, <2>2, <2>3 DEF ReceiptOnce, Left
  <2>4. CASE v # w
    <3>1. Taken(taken', receipt[v].batch.id) => Taken(taken, receipt[v].batch.id)
      BY <1>0, <1>6, <1>11, <2>1, <2>4 DEF ReceiptOnce
    <3>2. Taken(taken', receipt[v].batch.id) =>
            receipt[v].evidence # None /\ Left(queue') < Left(receipt[v].evidence.before)
      BY <1>7, <1>11, <2>1, <3>1, OnceTypes DEF ReceiptOnce
    <3>3. pc'[v] \in {"advance", "write"} => ~Taken(taken', receipt[v].batch.id)
      BY <1>1, <1>11, <2>1, <2>4, <3>1 DEF ReceiptOnce
    <3>4. QED BY <1>1, <2>2, <3>2, <3>3 DEF ReceiptOnce, Left
  <2>5. QED BY <2>3, <2>4
<1>12. \A v \in Workers : ReceiptOnce(v)'
  BY <1>1, <1>11 DEF ReceiptOnce
<1>13. ASSUME NEW p \in Paths, ckpt[p] # None, Taken(taken', ckpt[p].id)
       PROVE  \E v \in Workers : receipt[v] # None /\ receipt[v].path = p
  <2>1. CASE Taken(taken, ckpt[p].id)
    BY <1>13, <2>1 DEF OnceInv
  <2>2. CASE ckpt[p].id = x
    BY <1>0, <1>13, <2>2 DEF OnceInv, ReceiptOnce
  <2>3. QED BY <1>6, <1>13, <2>1, <2>2
<1>14. QED BY <1>1, <1>9, <1>10, <1>12, <1>13 DEF OnceInv

\* With the receipt goes the last trace of its batch: the checkpoint is gone.
LEMMA OnceAcknowledge ==
    ASSUME TypeInv, BatchInv, OnceInv, NEW w \in Workers, Acknowledge(w)
    PROVE  OnceInv'
<1>0. /\ MemOK(w) /\ pc[w] = "ack" /\ receipt \in [Workers -> Receipt \cup {None}]
      /\ pc \in [Workers -> PC]
  BY DEF Acknowledge, BatchInv, TypeInv, TypeOK
<1>1. /\ receipt'[w] = None
      /\ \A v \in Workers : v # w => receipt'[v] = receipt[v] /\ pc'[v] = pc[v]
      /\ UNCHANGED <<taken, ckpt, nextId, queue>>
  BY <1>0 DEF Acknowledge, aux
<1>2. \A v \in Workers : ReceiptOnce(v)'
  BY <1>1 DEF OnceInv, ReceiptOnce, Left
<1>3. ckpt[receipt[w].path] = None
  BY <1>0 DEF MemOK
<1>4. \A p \in Paths : ckpt'[p] # None /\ Taken(taken', ckpt'[p].id) =>
          \E v \in Workers : receipt'[v] # None /\ receipt'[v].path = p
  BY <1>1, <1>3 DEF OnceInv
<1>5. OneRowPerBatch' /\ \A i \in DOMAIN taken' : taken'[i].batch.id < nextId'
  BY <1>1 DEF OnceInv, OneRowPerBatch
<1>6. QED BY <1>2, <1>4, <1>5 DEF OnceInv

\* The environment changes nothing but the queue, which does not grow.
LEMMA OnceEnvironment ==
    ASSUME NoRowAppended, TypeInv, BatchInv, OnceInv, Stage2 \/ Editor
    PROVE  OnceInv'
<1>1. UNCHANGED <<ckpt, taken, receipt, nextId, pc>>
  BY EnvironmentKept DEF local
<1>2. /\ \A p, q \in Paths : ckpt[p] # None /\ ckpt[q] # None /\ ckpt[p].id = ckpt[q].id => p = q
      /\ \A w \in Workers : receipt[w] # None => receipt[w].batch.id < nextId
      /\ \A w \in Workers : receipt[w] # None /\ pc[w] \in {"advance", "write"} =>
            ~Taken(taken, receipt[w].batch.id)
  BY DEF BatchInv, CkptOK, ReceiptOK, OnceInv, ReceiptOnce
<1>3. Left(queue') \in Nat /\ Left(queue') <= Left(queue)
  BY LeftEnvironment
<1>4. QED BY <1>1, <1>2, <1>3, OnceQuiet

LEMMA OnceStep ==
    ASSUME OwnPaths, NoRowAppended
    PROVE  TypeInv /\ HandInv /\ BatchInv /\ NoOrphanBatch /\ OnceInv /\ [Next]_vars => OnceInv'
<1> SUFFICES ASSUME TypeInv, HandInv, BatchInv, NoOrphanBatch, OnceInv, [Next]_vars PROVE OnceInv'
  OBVIOUS
<1>1. CASE UNCHANGED vars
  <2>1. UNCHANGED <<ckpt, taken, receipt, nextId, pc, queue>>
    BY <1>1 DEF vars, files, local, aux
  <2>2. QED BY <2>1 DEF OnceInv, OneRowPerBatch, ReceiptOnce, Left
<1>2. ASSUME NEW w \in Workers, WorkerStep(w) PROVE OnceInv'
  BY <1>2, OnceOther, OnceStore, OnceWriteEvidence, OnceWriteQueue, OnceAcknowledge
<1>3. QED BY <1>1, <1>2, OnceEnvironment DEF Next, WorkerStep

LEMMA OnceInit == Init => OnceInv
<1> SUFFICES ASSUME Init PROVE OnceInv
  OBVIOUS
<1>1. DOMAIN taken = {}
  BY EmptySeq, LenProperties DEF Init
<1>2. QED BY <1>1 DEF Init, OnceInv, OneRowPerBatch, ReceiptOnce

\* No batch of curves pays for two rows, whatever the workers died between, if
\* every worker has checkpoint files of its own and nobody puts Stage1 rows
\* into a queue that is being worked on.
THEOREM OneRowCorrect == ASSUME OwnPaths, NoRowAppended PROVE Spec => []OneRowPerBatch
<1>1. OnceInv => OneRowPerBatch  BY DEF OnceInv
<1>2. QED
  BY <1>1, InitType, StepType, HandInit, HandStep, BatchInit, BatchStep, OnceInit, OnceStep, PTL
  DEF Spec

(***************************************************************************)
(* The ledger.  A row is open where a Stage1 line of its target stands in  *)
(* its worker's section; an advance changes one line, so it closes one row *)
(* at most, and no other line changes its section.                         *)
(***************************************************************************)
OpenAt(f, w, t) == {i \in Stage1Rows(f, w) : f[i].row.target = t}
ErrorMark       == {l \in Line : l.kind = "Error"}

\* Lines l that are an open row of target t.
Opens(l, t) == l.kind = "Task" /\ l.row.stage = 1 /\ l.row.target = t

\* The open rows of a worker are finitely many places of the queue: the Stage1
\* rows under the worker's own header.
LEMMA OpenIsFinite ==
    ASSUME NEW f \in Seq(Line), NEW w \in Workers, NEW t
    PROVE  /\ OpenAt(f, w, t) = {i \in Tasks(f) : Opens(f[i], t) /\ Section(f, i) = w}
           /\ OpenAt(f, w, t) \in SUBSET (1..Len(f)) /\ Len(f) \in Nat
           /\ IsFiniteSet(OpenAt(f, w, t)) /\ Cardinality(OpenAt(f, w, t)) \in Nat
<1>1. Len(f) \in Nat /\ DOMAIN f = 1..Len(f)
  BY LenProperties
<1>2. ~(w <= 0)
  BY WorkersAssumption
<1>3. OpenAt(f, w, t) = {i \in Tasks(f) : Opens(f[i], t) /\ Section(f, i) = w}
  BY <1>2 DEF OpenAt, Stage1Rows, TaskAt, WorkerMatches, Tasks, Opens
<1>4. OpenAt(f, w, t) \in SUBSET (1..Len(f))
  BY <1>1, <1>3 DEF Tasks
<1>5. QED BY <1>1, <1>3, <1>4, BelowFacts

\* Without line k.
LEMMA OpenRemoved ==
    ASSUME NEW f \in Seq(Line), NEW k \in 1..Len(f), f[k].kind = "Task",
           NEW w \in Workers, NEW t
    PROVE  Cardinality(OpenAt(RemoveAt(f, k), w, t)) =
             IF k \in OpenAt(f, w, t) THEN Cardinality(OpenAt(f, w, t)) - 1
                                      ELSE Cardinality(OpenAt(f, w, t))
<1> DEFINE g == RemoveAt(f, k)
           S == OpenAt(g, w, t)
           T == OpenAt(f, w, t) \ {k}
           up == Shifted(Tasks(g), k)
           p == [i \in S |-> up[i]]
<1>1. g \in Seq(Line) /\ f[k].kind # "Header"
  BY RemoveLine
<1>2. /\ Embeds(g, f, up)
      /\ \A i \in Tasks(f) \ {k} : \E j \in Tasks(g) : up[j] = i
  BY <1>1, RemoveEmbeds
<1>3. /\ S = {i \in Tasks(g) : Opens(g[i], t) /\ Section(g, i) = w}
      /\ S \in SUBSET (1..Len(g)) /\ Len(g) \in Nat
  BY <1>1, OpenIsFinite
<1>4. /\ OpenAt(f, w, t) = {i \in Tasks(f) : Opens(f[i], t) /\ Section(f, i) = w}
      /\ OpenAt(f, w, t) \in SUBSET Nat
      /\ IsFiniteSet(OpenAt(f, w, t)) /\ Cardinality(OpenAt(f, w, t)) \in Nat
  BY OpenIsFinite
<1>5. \A i \in Tasks(g) : i \in Nat /\ up[i] # k
  <2>1. \A i \in Tasks(g) : i \in Nat /\ up[i] = IF i < k THEN i ELSE i + 1
    BY <1>1, LenProperties DEF Shifted, Tasks
  <2>2. k \in Nat
    BY LenProperties
  <2>3. QED BY <2>1, <2>2
<1> HIDE DEF g, up
<1>6. p \in [S -> T]
  BY <1>2, <1>3, <1>4, <1>5 DEF Embeds
<1>7. /\ \A i, j \in S : i < j => p[i] < p[j]
      /\ \A i \in S : p[i] \in Nat
  BY <1>2, <1>3, <1>4, <1>6 DEF Embeds
<1>8. \A x \in T : \E i \in S : p[i] = x
  <2>1. SUFFICES ASSUME NEW x \in T PROVE \E i \in S : p[i] = x
    OBVIOUS
  <2>2. PICK j \in Tasks(g) : up[j] = x
    BY <1>2, <1>4
  <2>3. j \in S
    BY <1>2, <1>3, <1>4, <2>2 DEF Embeds
  <2>4. QED BY <2>2, <2>3
<1> HIDE DEF S, T, p
<1>9. Cardinality(T) = Cardinality(S)
  <2>1. /\ Len(g) \in Nat /\ S \in SUBSET (1..Len(g)) /\ p \in [S -> T]
        /\ \A i, j \in S : i < j => p[i] < p[j]
        /\ \A i \in S : p[i] \in Nat
        /\ \A x \in T : \E i \in S : p[i] = x
    BY <1>3, <1>6, <1>7, <1>8
  <2> HIDE DEF g
  <2>2. QED BY ONLY <2>1, SizeMapped
<1>10. Cardinality(T) = IF k \in OpenAt(f, w, t) THEN Cardinality(OpenAt(f, w, t)) - 1
                                                 ELSE Cardinality(OpenAt(f, w, t))
  <2>1. CASE k \in OpenAt(f, w, t)
    BY <1>4, <2>1, FS_RemoveElement DEF T
  <2>2. CASE k \notin OpenAt(f, w, t)
    <3>1. T = OpenAt(f, w, t)
      BY <2>2 DEF T
    <3>2. QED BY <2>2, <3>1
  <2>3. QED BY <2>1, <2>2
<1>11. QED BY <1>9, <1>10 DEF S, g

\* Another line in the place of line k.
LEMMA OpenReplaced ==
    ASSUME NEW f \in Seq(Line), NEW k \in 1..Len(f), f[k].kind = "Task",
           NEW l \in Line, l.kind # "Header", NEW w \in Workers, NEW t,
           Opens(l, t) => Opens(f[k], t)
    PROVE  Cardinality(OpenAt(ReplaceAt(f, k, l), w, t)) =
             IF k \in OpenAt(f, w, t) /\ ~Opens(l, t) THEN Cardinality(OpenAt(f, w, t)) - 1
                                                      ELSE Cardinality(OpenAt(f, w, t))
<1> DEFINE g == ReplaceAt(f, k, l)  A == OpenAt(f, w, t)
<1>1. /\ DOMAIN g = DOMAIN f /\ g[k] = l /\ k \in DOMAIN f
      /\ \A i \in DOMAIN f : i # k => g[i] = f[i]
      /\ \A i \in DOMAIN f : Section(g, i) = Section(f, i)
  BY SectionsReplaced, LenProperties
<1>2. g \in Seq(Line)
  BY ReplaceLine
<1>3. OpenAt(g, w, t) = {i \in Tasks(g) : Opens(g[i], t) /\ Section(g, i) = w}
  BY <1>2, OpenIsFinite
<1>4. A = {i \in Tasks(f) : Opens(f[i], t) /\ Section(f, i) = w} /\ IsFiniteSet(A)
  BY OpenIsFinite
<1> HIDE DEF g, A
<1>5. CASE Opens(l, t)
  <2>1. OpenAt(g, w, t) = A
    BY <1>1, <1>3, <1>4, <1>5 DEF Opens, Tasks
  <2>2. QED BY <1>5, <2>1 DEF g, A
<1>6. CASE ~Opens(l, t)
  <2>1. OpenAt(g, w, t) = A \ {k}
    BY <1>1, <1>3, <1>4, <1>6 DEF Opens, Tasks
  <2>2. k \in A => Cardinality(A \ {k}) = Cardinality(A) - 1
    BY <1>4, FS_RemoveElement
  <2>3. k \notin A => A \ {k} = A
    OBVIOUS
  <2>4. QED BY <1>6, <2>1, <2>2, <2>3 DEF g, A
<1>7. QED BY <1>5, <1>6

\* A line behind the others.
LEMMA OpenAppended ==
    ASSUME NEW f \in Seq(Line), NEW l \in Line, l \notin Stage1Line, NEW w \in Workers, NEW t
    PROVE  OpenAt(Append(f, l), w, t) = OpenAt(f, w, t)
<1> DEFINE g == Append(f, l)  n == Len(f)
<1>1. /\ n \in Nat /\ DOMAIN f = 1..n /\ DOMAIN g = 1..(n + 1)
      /\ g[n + 1] = l /\ \A i \in 1..n : g[i] = f[i]
  BY AppendProperties, LenProperties
<1>2. g \in Seq(Line)
  BY AppendProperties
<1>3. OpenAt(g, w, t) = {i \in Tasks(g) : Opens(g[i], t) /\ Section(g, i) = w}
  BY <1>2, OpenIsFinite
<1>4. OpenAt(f, w, t) = {i \in Tasks(f) : Opens(f[i], t) /\ Section(f, i) = w}
  BY OpenIsFinite
<1> HIDE DEF g, n
<1>5. ASSUME NEW i \in 1..n PROVE Section(g, i) = Section(f, i)
  <2>1. i \in Nat /\ \A j \in 1..i : g[j] = f[j]
    BY <1>1
  <2>2. QED BY <2>1, SectionOfPrefix
<1>6. ~Opens(g[n + 1], t)
  BY <1>1 DEF Opens, Stage1Line
<1>7. ASSUME NEW i PROVE i \in OpenAt(g, w, t) <=> i \in OpenAt(f, w, t)
  <2>1. i \in 1..(n + 1) <=> i \in 1..n \/ i = n + 1
    BY <1>1
  <2>2. CASE i \in 1..n
    BY <1>1, <1>3, <1>4, <1>5, <2>1, <2>2 DEF Tasks
  <2>3. CASE i \notin 1..n
    BY <1>1, <1>3, <1>4, <1>6, <2>1, <2>3 DEF Tasks
  <2>4. QED BY <2>2, <2>3
<1>8. QED BY <1>7 DEF g

\* The marked rows of a queue.
Marks(f) == Cardinality({i \in DOMAIN f : f[i].kind = "Error"})

\* They are finitely many.
LEMMA MarksAre ==
    ASSUME NEW f \in Seq(Line)
    PROVE  Marks(f) = HowMany(f, ErrorMark) /\ Marks(f) \in Nat
<1>1. \A i \in DOMAIN f : f[i] \in Line
  BY ElementOfSeq, LenProperties
<1>2. {i \in DOMAIN f : f[i].kind = "Error"} = Places(f, ErrorMark)
  BY <1>1 DEF Places, ErrorMark
<1>3. QED BY <1>2, CountIsNat DEF Marks, HowMany

\* Taking a task line out leaves the marked rows.
LEMMA MarksRemoved ==
    ASSUME NEW f \in Seq(Line), NEW k \in 1..Len(f), f[k].kind = "Task"
    PROVE  Marks(RemoveAt(f, k)) = Marks(f)
<1>1. f[k] \notin ErrorMark /\ RemoveAt(f, k) \in Seq(Line)
  BY RemoveLine DEF ErrorMark
<1>2. HowMany(RemoveAt(f, k), ErrorMark) = HowMany(f, ErrorMark)
  BY <1>1, CountRemoved
<1>3. QED BY <1>1, <1>2, MarksAre

\* A line in the place of a task line adds a marked row, or none.
LEMMA MarksReplaced ==
    ASSUME NEW f \in Seq(Line), NEW k \in 1..Len(f), f[k].kind = "Task", NEW l \in Line
    PROVE  Marks(ReplaceAt(f, k, l)) = IF l.kind = "Error" THEN Marks(f) + 1 ELSE Marks(f)
<1> DEFINE g == ReplaceAt(f, k, l)
           A == {i \in DOMAIN f : f[i].kind = "Error"}
           B == {i \in DOMAIN g : g[i].kind = "Error"}
<1>1. /\ DOMAIN g = DOMAIN f /\ g[k] = l /\ k \in DOMAIN f
      /\ \A i \in DOMAIN f : i # k => g[i] = f[i]
  BY LenProperties DEF ReplaceAt
<1>2. IsFiniteSet(A) /\ k \notin A
  <2>1. \A i \in DOMAIN f : f[i] \in Line
    BY ElementOfSeq, LenProperties
  <2>2. A = Places(f, ErrorMark)
    BY <2>1 DEF Places, ErrorMark
  <2>3. QED BY <2>2, CountIsNat
<1> HIDE DEF g
<1>3. CASE l.kind = "Error"
  <2>1. B = A \cup {k}
    BY <1>1, <1>3
  <2>2. Cardinality(B) = Cardinality(A) + 1
    BY <1>2, <2>1, FS_AddElement
  <2>3. QED BY <1>3, <2>2 DEF Marks, g
<1>4. CASE l.kind # "Error"
  <2>1. B = A
    BY <1>1, <1>2, <1>4
  <2>2. QED BY <1>4, <2>1 DEF Marks, g
<1>5. QED BY <1>3, <1>4

\* A line behind the others, if it is no marked row, adds none.
LEMMA MarksAppended ==
    ASSUME NEW f \in Seq(Line), NEW l \in Line, l.kind # "Error"
    PROVE  Marks(Append(f, l)) = Marks(f)
<1>1. l \notin ErrorMark /\ Append(f, l) \in Seq(Line)
  BY AppendProperties DEF ErrorMark
<1>2. HowMany(Append(f, l), ErrorMark) = HowMany(f, ErrorMark)
  BY <1>1, CountAppended
<1>3. QED BY <1>1, <1>2, MarksAre

\* From f to g the rows stay open, or one of target t in w's section does not.
SameRows(f, g) ==
    \A v \in Workers, u \in Targets : Cardinality(OpenAt(g, v, u)) = Cardinality(OpenAt(f, v, u))
OneClosed(f, g, w, t) ==
    /\ Cardinality(OpenAt(f, w, t)) \in Nat /\ Cardinality(OpenAt(f, w, t)) > 0
    /\ \A v \in Workers, u \in Targets :
          Cardinality(OpenAt(g, v, u)) = IF v = w /\ u = t THEN Cardinality(OpenAt(f, v, u)) - 1
                                                           ELSE Cardinality(OpenAt(f, v, u))

\* An advance of a Stage1 ticket closes its row, or rewrites it.
LEMMA LedgerAdvanced ==
    ASSUME NEW f \in Seq(Line), NEW w \in Workers, NEW r \in Row, r.stage = 1, Found(f, w, r),
           NEW n \in Row
    PROVE  /\ OneClosed(f, Advanced(f, w, r, "Remove", None), w, r.target)
           /\ Marks(Advanced(f, w, r, "Remove", None)) = Marks(f)
           /\ OneClosed(f, Advanced(f, w, r, "MarkError", None), w, r.target)
           /\ Marks(Advanced(f, w, r, "MarkError", None)) = Marks(f) + 1
           /\ n.stage = 2 => OneClosed(f, Advanced(f, w, r, "Replace", n), w, r.target)
           /\ n.stage = 1 /\ n.target = r.target => SameRows(f, Advanced(f, w, r, "Replace", n))
           /\ Marks(Advanced(f, w, r, "Replace", n)) = Marks(f)
<1> DEFINE k == Min(TicketAt(f, w, r))
<1>1. /\ k \in 1..Len(f) /\ f[k].kind = "Task" /\ f[k].row = r
  BY TicketLine
<1>2. k \in TicketAt(f, w, r)
  <2>1. TicketAt(f, w, r) \in SUBSET Nat /\ TicketAt(f, w, r) # {}
    BY LenProperties DEF Found, TicketAt, TaskAt
  <2>2. QED BY <2>1, MinOfNats
<1>3. Section(f, k) = w /\ k \in DOMAIN f
  BY <1>2, WorkersAssumption DEF TicketAt, TaskAt, WorkerMatches
<1> HIDE DEF k
<1>4. \A v \in Workers, u \in Targets : k \in OpenAt(f, v, u) <=> v = w /\ u = r.target
  <2>1. ASSUME NEW v \in Workers, NEW u \in Targets
        PROVE  k \in OpenAt(f, v, u) <=> v = w /\ u = r.target
    <3>1. OpenAt(f, v, u) = {i \in Tasks(f) : Opens(f[i], u) /\ Section(f, i) = v}
      BY OpenIsFinite
    <3>2. QED BY <1>1, <1>3, <3>1 DEF Tasks, Opens
  <2>2. QED BY <2>1
<1>5. r.target \in Targets /\ \A u : Opens(f[k], u) <=> u = r.target
  BY <1>1 DEF Row, Opens
<1>6. Cardinality(OpenAt(f, w, r.target)) \in Nat /\ Cardinality(OpenAt(f, w, r.target)) > 0
  <2>1. /\ IsFiniteSet(OpenAt(f, w, r.target)) /\ Cardinality(OpenAt(f, w, r.target)) \in Nat
        /\ OpenAt(f, w, r.target) # {}
    BY <1>4, <1>5, OpenIsFinite
  <2>2. Cardinality(OpenAt(f, w, r.target)) # 0
    BY <2>1, FS_EmptySet
  <2>3. QED BY <2>1, <2>2
<1>7. ASSUME NEW l \in Line, l.kind # "Header", \A u : ~Opens(l, u)
      PROVE  OneClosed(f, ReplaceAt(f, k, l), w, r.target)
  <2>1. ASSUME NEW v \in Workers, NEW u \in Targets
        PROVE  Cardinality(OpenAt(ReplaceAt(f, k, l), v, u)) =
                 IF k \in OpenAt(f, v, u) THEN Cardinality(OpenAt(f, v, u)) - 1
                                          ELSE Cardinality(OpenAt(f, v, u))
    BY <1>1, <1>7, OpenReplaced
  <2>2. QED BY <1>4, <1>6, <2>1 DEF OneClosed
<1>8. OneClosed(f, RemoveAt(f, k), w, r.target)
  <2>1. ASSUME NEW v \in Workers, NEW u \in Targets
        PROVE  Cardinality(OpenAt(RemoveAt(f, k), v, u)) =
                 IF k \in OpenAt(f, v, u) THEN Cardinality(OpenAt(f, v, u)) - 1
                                          ELSE Cardinality(OpenAt(f, v, u))
    BY <1>1, OpenRemoved
  <2>2. QED BY <1>4, <1>6, <2>1 DEF OneClosed
<1>9. /\ ErrorLine(r) \in Line /\ ErrorLine(r).kind = "Error" /\ \A u : ~Opens(ErrorLine(r), u)
      /\ TaskLine(n) \in Line /\ TaskLine(n).kind = "Task"
      /\ \A u : Opens(TaskLine(n), u) <=> n.stage = 1 /\ u = n.target
  BY DEF ErrorLine, TaskLine, Line, Opens
<1>10. ASSUME n.stage = 1, n.target = r.target
       PROVE  SameRows(f, ReplaceAt(f, k, TaskLine(n)))
  <2>1. ASSUME NEW v \in Workers, NEW u \in Targets
        PROVE  Cardinality(OpenAt(ReplaceAt(f, k, TaskLine(n)), v, u)) = Cardinality(OpenAt(f, v, u))
    <3>1. Opens(TaskLine(n), u) <=> Opens(f[k], u)
      BY <1>5, <1>9, <1>10
    <3>2. k \in OpenAt(f, v, u) => Opens(TaskLine(n), u)
      BY <1>4, <1>9, <1>10
    <3>3. Cardinality(OpenAt(ReplaceAt(f, k, TaskLine(n)), v, u)) =
             IF k \in OpenAt(f, v, u) /\ ~Opens(TaskLine(n), u) THEN Cardinality(OpenAt(f, v, u)) - 1
                                                      ELSE Cardinality(OpenAt(f, v, u))
      BY <1>1, <1>9, <3>1, OpenReplaced
    <3>4. QED BY <3>2, <3>3
  <2>2. QED BY <2>1 DEF SameRows
<1>11. n.stage = 2 => OneClosed(f, ReplaceAt(f, k, TaskLine(n)), w, r.target)
  BY <1>7, <1>9
<1>12. /\ Marks(RemoveAt(f, k)) = Marks(f)
       /\ Marks(ReplaceAt(f, k, ErrorLine(r))) = Marks(f) + 1
       /\ Marks(ReplaceAt(f, k, TaskLine(n))) = Marks(f)
  BY <1>1, <1>9, MarksRemoved, MarksReplaced
<1>13. /\ Advanced(f, w, r, "Remove", None) = RemoveAt(f, k)
       /\ Advanced(f, w, r, "MarkError", None) = ReplaceAt(f, k, ErrorLine(r))
       /\ Advanced(f, w, r, "Replace", n) = ReplaceAt(f, k, TaskLine(n))
  BY DEF Advanced, RemoveTicket, ReplaceTicket, k
<1>14. QED BY <1>7, <1>8, <1>9, <1>10, <1>11, <1>12, <1>13

\* The rows of the queue are left to the workers: nobody else deletes one, puts
\* one in, or quotes one as an error.
RowsUntouched == ~Deletes /\ \A l \in Edits : l \notin Stage1Line /\ l.kind # "Error"

\* The state of the ledger, by the names used below.
LedgerOpen     == [w \in Workers |-> [t \in Targets |-> Cardinality(OpenAt(queue, w, t))]]
LedgerMarked   == Marks(queue)
LedgerCredited == {[w |-> taken[i].w, batch |-> taken[i].batch.id] : i \in DOMAIN taken}
LedgerState    == <<LedgerOpen, LedgerMarked, LedgerCredited>>

\* Every batch has a number below the bound of the instance.
NumberInv == nextId <= MaxBatch

\* Only a seed takes a number, and only below the bound.
LEMMA NumberStep == TypeInv /\ NumberInv /\ [Next]_vars => NumberInv'
<1> SUFFICES ASSUME TypeInv, NumberInv, [Next]_vars PROVE NumberInv'
  OBVIOUS
<1>1. CASE UNCHANGED vars
  BY <1>1 DEF vars, aux, NumberInv
<1>2. ASSUME NEW w \in Workers, WorkerStep(w) PROVE NumberInv'
  <2>1. CASE Seed(w)
    <3>1. nextId < MaxBatch /\ nextId' = nextId + 1 /\ nextId \in Nat
      BY <2>1 DEF Seed, TypeInv, TypeOK
    <3>2. QED BY <3>1, BoundsAssumption DEF NumberInv
  <2>2. CASE ~Seed(w)
    <3>1. nextId' = nextId
      BY <1>2, <2>2 DEF WorkerStep, Boot, Take, Task, Completion, Crash, aux,
         Start, RepairRead, CountRows, RepairRow, RepairLost, Repaired,
         Exit, Read, MarkMalformed, Claim, ClaimLost,
         Open, OpenRefused, Persist, Stop, Fail, MarkFailed, MarkFailedLost, PublishSave, PublishResults,
         Store, CommitDone, CommitAmbiguous, CommitRecord, WriteEvidence, AdvanceLost, WriteQueue,
         RemoveCheckpoint, Acknowledge
    <3>2. QED BY <3>1 DEF NumberInv
  <2>3. QED BY <2>1, <2>2
<1>3. CASE Stage2 \/ Editor
  BY <1>3, EnvironmentKept DEF NumberInv
<1>4. QED BY <1>1, <1>2, <1>3 DEF Next, WorkerStep

\* A step that leaves the queue and the payments is invisible to the ledger.
LEMMA SameLedger ==
    ASSUME queue' = queue, taken' = taken
    PROVE  LedgerState' = LedgerState
BY DEF LedgerState, LedgerOpen, LedgerMarked, LedgerCredited, OpenAt, Stage1Rows, Marks

\* So is one that leaves the counts of the open and of the marked rows.
LEMMA RowsKept ==
    ASSUME SameRows(queue, queue'), Marks(queue') = Marks(queue), taken' = taken
    PROVE  LedgerState' = LedgerState
<1>1. LedgerOpen' = LedgerOpen
  BY DEF LedgerOpen, SameRows, OpenAt
<1>2. QED BY <1>1 DEF LedgerState, LedgerMarked, LedgerCredited, Marks

\* A queue with one row closed is the ledger after Take.
LEMMA RowTaken ==
    ASSUME NEW w \in Workers, NEW t \in Targets, OneClosed(queue, queue', w, t)
    PROVE  LedgerOpen[w][t] > 0 /\ LedgerOpen' = [LedgerOpen EXCEPT ![w][t] = @ - 1]
<1> DEFINE n(v, u) == Cardinality(OpenAt(queue, v, u))
           m(v, u) == Cardinality(OpenAt(queue', v, u))
           one == [u \in Targets |-> IF u = t THEN n(w, u) - 1 ELSE n(w, u)]
<1>1. LedgerOpen = [v \in Workers |-> [u \in Targets |-> n(v, u)]]
  BY DEF LedgerOpen
<1>2. LedgerOpen' = [v \in Workers |-> [u \in Targets |-> m(v, u)]]
  BY DEF LedgerOpen, OpenAt, Stage1Rows
<1>3. \A v \in Workers, u \in Targets : m(v, u) = IF v = w /\ u = t THEN n(v, u) - 1 ELSE n(v, u)
  BY DEF OneClosed
<1>4. n(w, t) > 0
  BY DEF OneClosed
<1> HIDE DEF n, m
<1>5. [LedgerOpen[w] EXCEPT ![t] = @ - 1] = one
  BY <1>1
<1>6. [LedgerOpen EXCEPT ![w][t] = @ - 1] = [v \in Workers |-> IF v = w THEN one ELSE LedgerOpen[v]]
  BY <1>1, <1>5
<1>7. ASSUME NEW v \in Workers
      PROVE  LedgerOpen'[v] = IF v = w THEN one ELSE LedgerOpen[v]
  BY <1>1, <1>2, <1>3
<1>8. LedgerOpen' = [v \in Workers |-> LedgerOpen'[v]]
  BY <1>2
<1>9. QED BY <1>1, <1>4, <1>6, <1>7, <1>8

\* A row that cannot be parsed, or whose run failed, is marked.
LEMMA MarkedRow ==
    ASSUME TypeInv, NEW w \in Workers, NEW r \in Row, r.stage = 1, Found(queue, w, r),
           queue' = Advanced(queue, w, r, "MarkError", None), taken' = taken
    PROVE  Ledger!Next
<1>0. queue \in Seq(Line) /\ r.target \in Targets
  BY DEF TypeInv, TypeOK, Row
<1>1. OneClosed(queue, queue', w, r.target) /\ Marks(queue') = Marks(queue) + 1
  BY <1>0, LedgerAdvanced
<1>2. LedgerOpen[w][r.target] > 0 /\ LedgerOpen' = [LedgerOpen EXCEPT ![w][r.target] = @ - 1]
  BY <1>0, <1>1, RowTaken
<1>3. LedgerMarked' = LedgerMarked + 1 /\ LedgerCredited' = LedgerCredited
  BY <1>1 DEF LedgerMarked, LedgerCredited, Marks
<1>4. Ledger!Mark(w, r.target)
  BY <1>2, <1>3 DEF Ledger!Mark, Ledger!Take, LedgerOpen, LedgerMarked, LedgerCredited,
     OpenAt, OpenRows, Marks
<1>5. QED BY <1>0, <1>4 DEF Ledger!Next

\* A row that the claim, or the repair at startup, rewrites stays open.
LEMMA RewrittenRow ==
    ASSUME TypeInv, NEW w \in Workers, NEW r \in Row, r.stage = 1, Found(queue, w, r),
           NEW n \in Row, n.stage = 1, n.target = r.target,
           queue' = Advanced(queue, w, r, "Replace", n), taken' = taken
    PROVE  LedgerState' = LedgerState
<1>0. queue \in Seq(Line)
  BY DEF TypeInv, TypeOK
<1>1. SameRows(queue, queue') /\ Marks(queue') = Marks(queue)
  BY <1>0, LedgerAdvanced
<1>2. QED BY <1>1, RowsKept

\* The queue write of a completion credits a batch that was not paid before.
LEMMA CreditedRow ==
    ASSUME TypeInv, HandInv, BatchInv, OnceInv, NumberInv, NEW w \in Workers, WriteQueue(w)
    PROVE  Ledger!Next
<1> DEFINE r == receipt[w]
           e == [w |-> w, batch |-> r.batch, record |-> r.record]
           c == [w |-> w, batch |-> r.batch.id]
<1>0. /\ pc[w] = "write" /\ r \in Receipt /\ r # None /\ queue \in Seq(Line)
      /\ taken \in Seq([w : Workers, batch : Batch, record : Record])
  BY NoneAssumption DEF WriteQueue, Goto, TypeInv, TypeOK, LocalOK, HoldsReceipt
<1>1. queue' = After(w) /\ Found(queue, w, r.ticket)
  <2>1. WriteOK(w) /\ queue' = r.evidence.after
    BY DEF HandInv, WriteQueue
  <2>2. r.evidence.after = After(w)
    BY <1>0, <2>1 DEF WriteOK
  <2>3. QED BY <1>0, <2>1, <2>2 DEF WriteOK
<1>2. /\ r.ticket.stage = 1 /\ r.ticket \in Row /\ r.ticket.target \in Targets
      /\ r.replacement # None => r.replacement \in Row /\ r.replacement.stage = 2
  BY <1>0 DEF HandInv, TicketOK, HandoffOK, Receipt, Row
<1>3. OneClosed(queue, queue', w, r.ticket.target) /\ Marks(queue') = Marks(queue)
  <2>1. CASE r.replacement = None
    BY <1>0, <1>1, <1>2, <2>1, LedgerAdvanced DEF After
  <2>2. CASE r.replacement # None
    BY <1>0, <1>1, <1>2, <2>2, LedgerAdvanced DEF After
  <2>3. QED BY <2>1, <2>2
<1>4. ~Taken(taken, r.batch.id) /\ r.batch.id \in 0..MaxBatch
  <2>1. ~Taken(taken, r.batch.id)
    BY <1>0 DEF OnceInv, ReceiptOnce
  <2>2. r.batch.id < nextId /\ nextId <= MaxBatch /\ nextId \in Nat
    BY <1>0 DEF BatchInv, ReceiptOK, NumberInv, TypeInv, TypeOK
  <2>3. r.batch.id \in Nat
    BY <1>0 DEF Receipt, Batch
  <2>4. QED BY <2>1, <2>2, <2>3, BoundsAssumption
<1>5. LedgerCredited' = LedgerCredited \cup {c}
  <2>1. taken' = Append(taken, e) /\ e \in [w : Workers, batch : Batch, record : Record]
    BY <1>0 DEF WriteQueue, Receipt
  <2>2. e.w = c.w /\ e.batch.id = c.batch
    OBVIOUS
  <2> HIDE DEF e
  <2>3. /\ Len(taken) \in Nat /\ DOMAIN taken = 1..Len(taken) /\ DOMAIN taken' = 1..(Len(taken) + 1)
        /\ taken'[Len(taken) + 1] = e
        /\ \A i \in 1..Len(taken) : taken'[i] = taken[i]
    BY <1>0, <2>1, AppendProperties, LenProperties
  <2>4. c = [w |-> e.w, batch |-> e.batch.id]
    BY <2>2
  <2> HIDE DEF c
  <2>5. LedgerCredited' = {[w |-> taken'[i].w, batch |-> taken'[i].batch.id] : i \in DOMAIN taken'}
    BY DEF LedgerCredited
  <2>6. DOMAIN taken' = DOMAIN taken \cup {Len(taken) + 1} /\ \A i \in DOMAIN taken : taken'[i] = taken[i]
    BY <2>3
  <2>7. QED BY <2>3, <2>4, <2>5, <2>6 DEF LedgerCredited
<1>6. \A d \in LedgerCredited : d.batch # r.batch.id
  BY <1>4 DEF LedgerCredited, Taken
<1>7. LedgerOpen[w][r.ticket.target] > 0 /\ LedgerOpen' = [LedgerOpen EXCEPT ![w][r.ticket.target] = @ - 1]
  BY <1>2, <1>3, RowTaken
<1>8. LedgerMarked' = LedgerMarked
  BY <1>3 DEF LedgerMarked, Marks
<1> HIDE DEF r, e, c
<1>9. ASSUME NEW t, NEW b, t = r.ticket.target, b = r.batch.id
      PROVE  t \in Targets /\ b \in 0..MaxBatch /\ Ledger!Credit(w, t, b)
  <2>1. c = [w |-> w, batch |-> b]
    BY <1>9 DEF c
  <2>2. QED
    BY <1>2, <1>4, <1>5, <1>6, <1>7, <1>8, <1>9, <2>1 DEF Ledger!Credit, Ledger!Take, LedgerOpen,
       LedgerMarked, LedgerCredited, OpenAt, OpenRows, Marks
<1>10. \E t, b : t = r.ticket.target /\ b = r.batch.id
  OBVIOUS
<1>11. \E t \in Targets, b \in 0..MaxBatch : Ledger!Credit(w, t, b)
  BY <1>9, <1>10
<1>12. QED BY <1>11 DEF Ledger!Next

\* Each step of a worker is a step of the ledger or invisible to it.
LEMMA WorkerLedger ==
    ASSUME TypeInv, HandInv, BatchInv, OnceInv, NumberInv, NEW w \in Workers, WorkerStep(w)
    PROVE  Ledger!Next \/ LedgerState' = LedgerState
<1> USE DEF files, local, aux, Goto
<1>0. /\ TicketOK(w) /\ LocalOK(w) /\ queue \in Seq(Line)
      /\ rows \in [Workers -> SUBSET Repair]
      /\ save \in [Targets -> Seq(Nat)]
  BY DEF TypeInv, TypeOK, HandInv
<1>1. ASSUME ~WriteQueue(w) PROVE taken' = taken
  BY <1>1, TakenStep
<1>2. CASE queue' = queue /\ ~WriteQueue(w)
  BY <1>1, <1>2, SameLedger
<1>3. CASE RepairRow(w)
  <2> DEFINE x == NextRepair(w)  r == x.row  n == [r EXCEPT !.skip = x.count]
  <2>1. x \in rows[w] /\ x \in Repair /\ x.count # None
    BY <1>0, <1>3, NextRepairIsRow DEF RepairRow
  <2>2. r.stage = 1 /\ r \in Row
    BY <1>0, <2>1 DEF TicketOK, Repair
  <2>3. n \in Row /\ n.stage = 1 /\ n.target = r.target
    BY <2>1, <2>2 DEF Row, Repair
  <2>4. Found(queue, w, r) /\ queue' = Advanced(queue, w, r, "Replace", n) /\ taken' = taken
    BY <1>3 DEF RepairRow
  <2> HIDE DEF r, n
  <2>5. QED BY <2>2, <2>3, <2>4, RewrittenRow
<1>4. CASE MarkMalformed(w)
  <2>1. /\ queue[NextRow(w)].row.stage = 1 /\ Found(queue, w, queue[NextRow(w)].row)
        /\ queue[NextRow(w)].row \in Row
    BY <1>0, <1>4, NextRowIsTask DEF MarkMalformed, NextRow, ReadNext
  <2>2. taken' = taken /\ queue' = Advanced(queue, w, queue[NextRow(w)].row, "MarkError", None)
    BY <1>4 DEF MarkMalformed
  <2>3. QED BY <2>1, <2>2, MarkedRow
<1>5. CASE Claim(w)
  <2>1. ticket[w].stage = 1 /\ ticket[w] \in Row
    BY <1>0, <1>5 DEF Claim, TicketOK, LocalOK, HoldsTicket
  <2>2. Claimed(w) \in Row /\ Claimed(w).stage = 1 /\ Claimed(w).target = ticket[w].target
    <3>1. Len(save[ticket[w].target]) \in Nat
      BY <1>0, <2>1, LenProperties DEF Row
    <3>2. QED BY <2>1, <3>1 DEF Row, Claimed
  <2>3. taken' = taken
    BY <1>5 DEF Claim
  <2>4. CASE queue' = queue
    BY <2>3, <2>4, SameLedger
  <2>5. CASE Found(queue, w, ticket[w]) /\ queue' = Advanced(queue, w, ticket[w], "Replace", Claimed(w))
    BY <2>1, <2>2, <2>3, <2>5, RewrittenRow
  <2>6. QED BY <1>5, <2>4, <2>5 DEF Claim
<1>6. CASE MarkFailed(w)
  <2>1. ticket[w].stage = 1 /\ ticket[w] \in Row
    BY <1>0, <1>6 DEF MarkFailed, TicketOK, LocalOK, HoldsTicket
  <2>2. /\ taken' = taken /\ Found(queue, w, ticket[w])
        /\ queue' = Advanced(queue, w, ticket[w], "MarkError", None)
    BY <1>6 DEF MarkFailed
  <2>3. QED BY <2>1, <2>2, MarkedRow
<1>7. CASE WriteQueue(w)
  BY <1>7, CreditedRow
<1>9. Boot(w) => (queue' = queue /\ ~WriteQueue(w)) \/ RepairRow(w)
  BY DEF Boot, Start, RepairRead, CountRows, RepairLost, Repaired, Die, WriteQueue
<1>10. Take(w) => (queue' = queue /\ ~WriteQueue(w)) \/ MarkMalformed(w) \/ Claim(w)
  BY DEF Take, Exit, Read, ClaimLost, Die, WriteQueue
<1>11. Task(w) => (queue' = queue /\ ~WriteQueue(w)) \/ MarkFailed(w)
  BY DEF Task, Open, OpenRefused, Seed, Persist, Stop, Fail, MarkFailedLost,
         PublishSave, PublishResults, Die, WriteQueue
<1>12. Completion(w) => (queue' = queue /\ ~WriteQueue(w)) \/ WriteQueue(w)
  BY DEF Completion, Store, CommitDone, CommitAmbiguous, CommitRecord, AdvanceLost,
         WriteEvidence, RemoveCheckpoint, Acknowledge, Die
<1>13. Crash(w) => (queue' = queue /\ ~WriteQueue(w)) \/ WriteQueue(w)
  BY DEF Crash, Die
<1>14. QED
  BY <1>2, <1>3, <1>4, <1>5, <1>6, <1>7, <1>9, <1>10, <1>11, <1>12, <1>13 DEF WorkerStep

\* The Stage2 consumer takes Stage2 rows, the editor nothing that counts.
LEMMA EnvironmentLedger ==
    ASSUME RowsUntouched, TypeInv, Stage2 \/ Editor
    PROVE  LedgerState' = LedgerState
<1>0. queue \in Seq(Line) /\ taken' = taken
  BY EnvironmentKept DEF TypeInv, TypeOK
<1>1. ASSUME NEW i \in DOMAIN queue, ConsumeStage2(i) PROVE LedgerState' = LedgerState
  <2>1. i \in 1..Len(queue) /\ queue[i].kind = "Task" /\ queue[i].row.stage = 2 /\ queue' = RemoveAt(queue, i)
    BY <1>0, <1>1, LenProperties DEF ConsumeStage2
  <2>2. \A v \in Workers, u \in Targets : i \notin OpenAt(queue, v, u)
    BY <2>1 DEF OpenAt, Stage1Rows
  <2>3. SameRows(queue, queue')
    BY <1>0, <2>1, <2>2, OpenRemoved DEF SameRows
  <2>4. Marks(queue') = Marks(queue)
    BY <1>0, <2>1, MarksRemoved
  <2>5. QED BY <1>0, <2>3, <2>4, RowsKept
<1>2. ASSUME NEW l \in Edits, EditAppend(l) PROVE LedgerState' = LedgerState
  <2>1. l \in Line /\ l \notin Stage1Line /\ l.kind # "Error" /\ queue' = Append(queue, l)
    BY <1>2, QueueAssumption DEF EditAppend, RowsUntouched
  <2>2. SameRows(queue, queue') /\ Marks(queue') = Marks(queue)
    BY <1>0, <2>1, OpenAppended, MarksAppended DEF SameRows
  <2>3. QED BY <1>0, <2>2, RowsKept
<1>3. ASSUME NEW i, EditDelete(i) PROVE FALSE
  BY <1>3 DEF EditDelete, RowsUntouched
<1>4. QED BY <1>1, <1>2, <1>3 DEF Stage2, Editor

\* So is each step of the specification.
LEMMA LedgerStep ==
    ASSUME RowsUntouched
    PROVE  TypeInv /\ HandInv /\ BatchInv /\ OnceInv /\ NumberInv /\ [Next]_vars =>
             [Ledger!Next]_LedgerState
<1> SUFFICES ASSUME TypeInv, HandInv, BatchInv, OnceInv, NumberInv, [Next]_vars
             PROVE  Ledger!Next \/ LedgerState' = LedgerState
  OBVIOUS
<1>1. CASE UNCHANGED vars
  BY <1>1, SameLedger DEF vars, files, aux
<1>2. QED BY <1>1, WorkerLedger, EnvironmentLedger DEF Next, WorkerStep

\* The queue that the run starts with is a ledger without credits.
LEMMA LedgerInit == Init => Ledger!Init
<1> SUFFICES ASSUME Init PROVE Ledger!Init
  OBVIOUS
<1>1. queue \in Seq(Line) /\ DOMAIN taken = {}
  BY QueueAssumption, EmptySeq, LenProperties DEF Init
<1>2. LedgerOpen \in [Workers -> [Targets -> Nat]]
  BY <1>1, OpenIsFinite DEF LedgerOpen
<1>3. LedgerMarked \in Nat /\ LedgerCredited = {}
  BY <1>1, MarksAre DEF LedgerMarked, LedgerCredited
<1>4. QED BY <1>2, <1>3 DEF Ledger!Init, LedgerOpen, LedgerMarked, LedgerCredited, OpenAt, OpenRows, Marks

\* Whatever the workers died between, each row of the queue goes once: with the
\* credit of one batch that was never credited before, or marked as an error.
THEOREM LedgerCorrect == ASSUME OwnPaths, RowsUntouched PROVE Spec => RefinesLedger
<1>1. NoRowAppended
  BY DEF NoRowAppended, RowsUntouched
<1>2. Init => NumberInv
  BY BoundsAssumption DEF Init, NumberInv
<1>3. Spec => Ledger!Init /\ [][Ledger!Next]_LedgerState
  BY <1>1, <1>2, InitType, StepType, HandInit, HandStep, BatchInit, BatchStep, OnceInit, OnceStep,
     NumberStep, LedgerInit, LedgerStep, PTL
  DEF Spec
<1>4. QED
  BY <1>3, PTL DEF RefinesLedger, Ledger!Spec, Ledger!vars, LedgerState, LedgerOpen, LedgerMarked,
     LedgerCredited, OpenAt, OpenRows, Marks
=============================================================================
