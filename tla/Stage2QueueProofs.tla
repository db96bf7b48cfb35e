-------------------------- MODULE Stage2QueueProofs -------------------------
(***************************************************************************)
(* Theorems about Stage2Queue, for every queue text, save, policy, set of  *)
(* hits, configuration, and any number of crashes, stops and edits.        *)
(***************************************************************************)
EXTENDS Stage2Queue, WorktodoFileProofs

Line == [kind : {"Task", "Error"}, w : {0}, row : Variants]

(***************************************************************************)
(* What the process holds depends on where it is.  From Reconfigure on,    *)
(* the checkpoint on disk is the one in memory; before it, a fresh state   *)
(* may stand for a checkpoint that does not exist.                         *)
(***************************************************************************)
HasRow  == pc \notin {"down", "head"}
HasTask == HasRow /\ pc # "load"
Running == HasTask /\ pc # "resume"

MemOK ==
    /\ HasRow  => row \in Variants
    /\ HasTask => id \in Ids /\ id.skip = row.skip /\ state \in State
    /\ pc = "resume" => state = Fresh \/ state = progress[id]
    /\ Running => state = progress[id] /\ plan <= state.total

TypeInv == TypeOK /\ MemOK

\* What State::load asks of a checkpoint.
Sound(s) ==
    /\ s.run # 0
    /\ s.done <= s.total
    /\ s.pending # 0 => s.done < s.total

LEMMA MaxOfTwo ==
    ASSUME NEW a \in Nat, NEW b \in Nat
    PROVE  Max({a, b}) \in {a, b} /\ Max({a, b}) >= a /\ Max({a, b}) >= b
<1>1. \E x \in {a, b} : \A y \in {a, b} : x >= y
  OBVIOUS
<1>2. QED BY <1>1 DEF Max

LEMMA VariantFields ==
    ASSUME NEW r \in Variants
    PROVE  r.skip \in Nat /\ r.count \in Nat /\ r.b2 \in Nat
BY VariantAssumption DEF Row

LEMMA AvailableIsNat ==
    ASSUME saved \in Nat, NEW r \in Variants
    PROVE  Available(r) \in Nat
<1> DEFINE left == IF r.skip < saved THEN saved - r.skip ELSE 0
<1>1. left \in Nat /\ r.count \in Nat
  BY VariantFields
<1>2. Min({r.count, left}) \in {r.count, left}
  <2>1. {r.count, left} \in SUBSET Nat /\ {r.count, left} # {}
    BY <1>1
  <2> HIDE DEF left
  <2>2. QED BY <2>1, MinOfNats
<1>3. QED BY <1>1, <1>2 DEF Available

\* The line a Stage2 worker reads holds one of the rows.
LEMMA NextRowIsVariant ==
    ASSUME queue \in Seq(Line), NextRow # 0
    PROVE  queue[NextRow].row \in Variants
<1>1. queue[NextRow] \in Line
  BY ReadIsTask DEF NextRow
<1>2. QED BY <1>1 DEF Line

\* ecm_worktodo_advance on the worker's section.
LEMMA AdvancedIsQueue ==
    ASSUME queue \in Seq(Line), NEW r \in Variants, Found(queue, Me, r),
           NEW a \in {"Remove", "MarkError"}
    PROVE  Advanced(queue, Me, r, a, None) \in Seq(Line)
<1>1. ErrorLine(r) \in Line  BY DEF ErrorLine, Line
<1>2. QED BY <1>1, AdvancedIsFile

LEMMA FreshIsState == Fresh \in State
BY DEF Fresh, State

\* A state is a record, and one with these fields.
StateFields == [done : Nat, total : Nat, run : Nat, pending : Nat,
                path : Paths \cup {None}, b2 : Nat]

LEMMA StateIsRecord ==
    ASSUME NEW s \in State
    PROVE  /\ s \in StateFields
           /\ s.pending = 0 <=> s.path = None
           /\ s = [done |-> s.done, total |-> s.total, run |-> s.run,
                   pending |-> s.pending, path |-> s.path, b2 |-> s.b2]
BY DEF State, StateFields

\* What a curve that is counted leaves in the checkpoint.
LEMMA CountedIsState ==
    ASSUME state \in State
    PROVE  /\ Counted(state) \in State
           /\ Counted(state).run = state.run /\ Counted(state).total = state.total
           /\ Counted(state).done = state.done + 1 /\ Counted(state).pending = 0
<1> DEFINE d == [state EXCEPT !.done = state.done + 1]
           s == [d EXCEPT !.pending = 0, !.path = None]
<1>1. state \in StateFields
  BY StateIsRecord
<1>2. d \in StateFields /\ d.done = state.done + 1
  BY <1>1 DEF StateFields
<1>3. d.total = state.total /\ d.run = state.run
  BY <1>1 DEF StateFields
<1>4. Counted(state) = s
  BY <1>1 DEF Counted, StateFields
<1> HIDE DEF d
<1>5. s \in StateFields
  BY <1>2 DEF StateFields
<1>6. s.pending = 0
  BY <1>2 DEF StateFields
<1>7. s.path = None
  BY <1>2 DEF StateFields
<1>8. s.done = d.done /\ s.total = d.total /\ s.run = d.run
  BY <1>2 DEF StateFields
<1> HIDE DEF s
<1>9. s \in State
  BY <1>5, <1>6, <1>7 DEF State, StateFields
<1>10. QED BY <1>2, <1>3, <1>4, <1>6, <1>8, <1>9

\* What an intent leaves in it.
LEMMA LaunchedIsState ==
    ASSUME state \in State, token \in Nat, path \in Paths,
           NEW s, s = [state EXCEPT !.pending = token + 1, !.path = path]
    PROVE  /\ s \in State
           /\ s.run = state.run /\ s.done = state.done /\ s.total = state.total
           /\ s.b2 = state.b2 /\ s.pending = token + 1
<1>1. state \in StateFields
  BY StateIsRecord
<1>2. s = [done |-> s.done, total |-> s.total, run |-> s.run,
           pending |-> s.pending, path |-> s.path, b2 |-> s.b2]
  BY <1>1 DEF StateFields
<1>3. s.total = state.total /\ s.run = state.run
  BY <1>1 DEF StateFields
<1>4. s.done = state.done
  BY <1>1 DEF StateFields
<1>5. s.pending = token + 1
  BY <1>1 DEF StateFields
<1>6. s.path = path
  BY <1>1 DEF StateFields
<1>7. s.b2 = state.b2
  BY <1>1 DEF StateFields
<1>8. s \in StateFields
  BY <1>1, <1>2, <1>3, <1>4, <1>5, <1>6, <1>7 DEF StateFields
<1>9. s \in State
  <2>1. s.pending # 0 /\ s.path # None
    BY <1>5, <1>6, PathAssumption
  <2>2. QED BY <1>8, <2>1 DEF State, StateFields
<1>10. QED BY <1>3, <1>4, <1>5, <1>7, <1>9

\* What a new policy leaves in it: an attempt survives only under its own.
Reconfigured ==
    LET s == IF state.pending # 0 /\ ~SamePolicy
             THEN [state EXCEPT !.pending = 0, !.path = None] ELSE state
    IN  [s EXCEPT !.total = Total(s), !.b2 = row.b2, !.run = IF @ = 0 THEN token + 1 ELSE @]

LEMMA ReconfiguredIsState ==
    ASSUME state \in State, token \in Nat, plan \in Nat, row \in Variants,
           NEW s, s = Reconfigured
    PROVE  /\ s \in State
           /\ s.run = IF state.run = 0 THEN token + 1 ELSE state.run
           /\ s.done = state.done /\ s.done <= s.total /\ plan <= s.total
           /\ s.pending \in {0, state.pending}
           /\ s.pending # 0 => s.total = Max({state.done, plan}) /\ state.total = plan
           /\ s.b2 = row.b2 /\ (SamePolicy => s.pending = state.pending)
<1> DEFINE r == IF state.pending # 0 /\ ~SamePolicy
                THEN [state EXCEPT !.pending = 0, !.path = None] ELSE state
<1>1. state \in StateFields /\ (state.pending = 0 <=> state.path = None)
  BY StateIsRecord
<1>2. /\ r \in StateFields /\ (r.pending = 0 <=> r.path = None)
      /\ r.done = state.done /\ r.run = state.run /\ r.pending \in {0, state.pending}
      /\ r.pending # 0 => SamePolicy
      /\ SamePolicy => r.pending = state.pending
  <2>1. CASE state.pending # 0 /\ ~SamePolicy
    <3> DEFINE q == [state EXCEPT !.pending = 0, !.path = None]
    <3>1. q \in StateFields
      BY <1>1 DEF StateFields
    <3>2. q.pending = 0
      BY <1>1 DEF StateFields
    <3>3. q.path = None
      BY <1>1 DEF StateFields
    <3>4. q.done = state.done /\ q.run = state.run
      BY <1>1 DEF StateFields
    <3>5. r = q
      BY <2>1
    <3> HIDE DEF q, r
    <3>6. QED BY <2>1, <3>1, <3>2, <3>3, <3>4, <3>5
  <2>2. CASE ~(state.pending # 0 /\ ~SamePolicy)
    BY <1>1, <2>2
  <2>3. QED BY <2>1, <2>2
<1>3. s = [r EXCEPT !.total = Total(r), !.b2 = row.b2, !.run = IF @ = 0 THEN token + 1 ELSE @]
  BY DEF Reconfigured
<1> HIDE DEF r
<1>4. s = [done |-> s.done, total |-> s.total, run |-> s.run,
           pending |-> s.pending, path |-> s.path, b2 |-> s.b2]
  BY <1>2, <1>3 DEF StateFields
<1>5. s.done = r.done
  BY <1>2, <1>3 DEF StateFields
<1>6. s.pending = r.pending
  BY <1>2, <1>3 DEF StateFields
<1>7. s.path = r.path
  BY <1>2, <1>3 DEF StateFields
<1>8. s.b2 = row.b2
  BY <1>2, <1>3 DEF StateFields
<1>9. s.total = Total(r)
  BY <1>2, <1>3 DEF StateFields
<1>10. s.run = IF r.run = 0 THEN token + 1 ELSE r.run
  BY <1>2, <1>3 DEF StateFields
<1>11. r.done \in Nat /\ r.run \in Nat /\ r.pending \in Nat /\ r.path \in Paths \cup {None}
  BY <1>2 DEF StateFields
<1>12. Total(r) \in Nat /\ r.done <= Total(r) /\ plan <= Total(r)
       /\ Total(r) = Max({r.done, plan})
  BY <1>11, MaxOfTwo DEF Total
<1>13. s \in StateFields
  BY <1>4, <1>5, <1>6, <1>7, <1>8, <1>9, <1>10, <1>11, <1>12, VariantFields DEF StateFields
<1>14. s \in State
  BY <1>2, <1>6, <1>7, <1>13 DEF State, StateFields
<1>15. QED
  BY <1>2, <1>5, <1>6, <1>8, <1>9, <1>10, <1>12, <1>14 DEF SamePolicy

(***************************************************************************)
(* Types.                                                                  *)
(***************************************************************************)
LEMMA TaskId ==
    ASSUME TypeOK, NEW r \in Variants
    PROVE  [save |-> saved, skip |-> r.skip] \in Ids
BY DEF TypeOK, Ids, Skips

LEMMA DieType ==
    ASSUME TypeInv, Die, removed' = removed, token' = token, faults' \in Nat, edits' = edits
    PROVE  TypeInv'
BY DEF TypeInv, TypeOK, MemOK, HasRow, HasTask, Running, Die, disk, PC

USE DEF HasRow, HasTask, Running

LEMMA TakeType ==
    ASSUME TypeInv, Take
    PROVE  TypeInv'
<1> USE DEF Goto, disk, mem, aux, PC
<1>1. CASE Start
  BY <1>1 DEF Start, TypeInv, TypeOK, MemOK
<1>2. CASE Exit
  BY <1>2 DEF Exit, TypeInv, TypeOK, MemOK
<1>3. CASE ReadRow
  <2>1. queue[NextRow].row \in Variants
    BY <1>3, NextRowIsVariant DEF ReadRow, TypeInv, TypeOK, Line
  <2>2. row' \in Variants /\ plan' \in Nat
    BY <1>3, <2>1, AvailableIsNat, BoundAssumption DEF ReadRow, TypeInv, TypeOK
  <2>3. QED BY <1>3, <2>2 DEF ReadRow, TypeInv, TypeOK, MemOK
<1>4. CASE RejectRow
  <2>1. CASE Found(queue, Me, row)
    <3>1. queue' \in Seq(Line)
      BY <1>4, <2>1, AdvancedIsQueue DEF RejectRow, TypeInv, TypeOK, MemOK, Line
    <3>2. QED BY <1>4, <2>1, <3>1 DEF RejectRow, TypeInv, TypeOK, MemOK, Line
  <2>2. CASE ~Found(queue, Me, row)
    BY <1>4, <2>2, DieType DEF RejectRow, TypeInv, TypeOK
  <2>3. QED BY <2>1, <2>2
<1>5. CASE Load
  <2>1. row \in Variants
    BY <1>5 DEF Load, TypeInv, MemOK
  <2>2. id' \in Ids /\ id'.skip = row.skip
    BY <1>5, <2>1, TaskId DEF Load, TypeInv
  <2>3. state' \in State /\ (state' = Fresh \/ state' = progress[id'])
    BY <1>5, <2>2, FreshIsState DEF Load, TypeInv, TypeOK
  <2>4. /\ pc' = "resume"
        /\ UNCHANGED <<disk, row, plan, aux>>
    BY <1>5 DEF Load
  <2>5. QED BY <2>1, <2>2, <2>3, <2>4 DEF TypeInv, TypeOK, MemOK
<1>6. CASE Recover
  <2>1. id \in Ids /\ state \in State
    BY <1>6 DEF Recover, TypeInv, MemOK
  <2>2. state' \in State /\ progress' = [progress EXCEPT ![id] = state']
    BY <1>6, <2>1, CountedIsState DEF Recover
  <2>3. progress' \in [Ids -> State \cup {None}] /\ progress'[id] = state'
    BY <2>1, <2>2 DEF TypeInv, TypeOK
  <2>4. UNCHANGED <<queue, saved, path, results, ledger, batches, output, finished,
                    pc, row, plan, id, aux>> /\ pc = "resume"
    BY <1>6 DEF Recover
  <2>5. QED BY <2>1, <2>2, <2>3, <2>4 DEF TypeInv, TypeOK, MemOK
<1>7. CASE Reconfigure
  <2>1. id \in Ids /\ state \in State /\ row \in Variants /\ token \in Nat /\ plan \in Nat
    BY <1>7 DEF Reconfigure, TypeInv, TypeOK, MemOK
  <2>2. state' = Reconfigured /\ progress' = [progress EXCEPT ![id] = state']
    BY <1>7 DEF Reconfigure, Reconfigured
  <2>3. state' \in State /\ plan <= state'.total
    BY <2>1, <2>2, ReconfiguredIsState
  <2>4. progress' \in [Ids -> State \cup {None}] /\ progress'[id] = state'
    BY <2>1, <2>2, <2>3 DEF TypeInv, TypeOK
  <2>5. /\ UNCHANGED <<queue, saved, path, results, ledger, batches, output, finished,
                       row, plan, id, removed, faults, edits>>
        /\ pc = "resume" /\ pc' = "curve" /\ token' \in Nat
    BY <1>7, <2>1 DEF Reconfigure
  <2>6. QED BY <2>1, <2>3, <2>4, <2>5 DEF TypeInv, TypeOK, MemOK
<1>8. CASE Refuse
  BY <1>8, DieType DEF Refuse, TypeInv, TypeOK
<1>9. QED BY <1>1, <1>2, <1>3, <1>4, <1>5, <1>6, <1>7, <1>8 DEF Take

LEMMA RenderedIsTyped ==
    ASSUME TypeOK
    PROVE  Rendered \subseteq SUBSET ledger
BY DEF TypeOK, Rendered

LEMMA CurveType ==
    ASSUME TypeInv, Curve
    PROVE  TypeInv'
<1> USE DEF Goto, disk, mem, aux, PC
<1>1. CASE Launch
  <2>1. id \in Ids /\ state \in State /\ token \in Nat /\ path \in Paths
    BY <1>1 DEF Launch, TypeInv, TypeOK, MemOK
  <2>2. /\ state' = [state EXCEPT !.pending = token + 1, !.path = path]
        /\ progress' = [progress EXCEPT ![id] = state']
    BY <1>1 DEF Launch
  <2>3. state' \in State /\ state'.total = state.total
    BY <2>1, <2>2, LaunchedIsState
  <2>4. progress' \in [Ids -> State \cup {None}] /\ progress'[id] = state'
    BY <2>1, <2>2, <2>3 DEF TypeInv, TypeOK
  <2>5. /\ UNCHANGED <<queue, saved, path, results, ledger, batches, output, finished,
                       row, plan, id, removed, faults, edits>>
        /\ pc = "curve" /\ pc' = "child" /\ token' \in Nat
    BY <1>1, <2>1 DEF Launch
  <2>6. QED BY <2>1, <2>3, <2>4, <2>5 DEF TypeInv, TypeOK, MemOK
<1>2. CASE Publish
  <2>1. row \in Variants /\ id \in Ids /\ state \in StateFields
    BY <1>2, StateIsRecord DEF Publish, TypeInv, MemOK
  <2>2. [curve |-> NextCurve, b2 |-> state.b2, task |-> id] \in Receipt
    BY <2>1, VariantFields DEF Receipt, NextCurve, StateFields
  <2>3. ledger' \subseteq Receipt /\ ledger \subseteq ledger'
    BY <1>2, <2>2 DEF Publish, TypeInv, TypeOK
  <2>4. batches' \subseteq SUBSET ledger' /\ output' \subseteq SUBSET ledger'
    BY <1>2, <2>3 DEF Publish, TypeInv, TypeOK
  <2>5. pc' \in {"export", "answer"} /\ pc = "child"
        /\ UNCHANGED <<queue, saved, path, progress, results, finished, mem, aux>>
    BY <1>2 DEF Publish
  <2>6. QED BY <2>3, <2>4, <2>5 DEF TypeInv, TypeOK, MemOK
<1>3. CASE ExportFactor
  BY <1>3, RenderedIsTyped DEF ExportFactor, TypeInv, TypeOK, MemOK
<1>4. CASE Answer
  <2>1. row \in Variants /\ state \in StateFields /\ path \in Paths
    BY <1>4, StateIsRecord DEF Answer, TypeInv, TypeOK, MemOK
  <2>2. NextCurve \in Nat /\ state.pending \in Nat /\ state.b2 \in Nat
    BY <2>1, VariantFields DEF NextCurve, StateFields
  <2>3. QED BY <1>4, <2>1, <2>2 DEF Answer, TypeInv, TypeOK, MemOK
<1>5. CASE Count
  <2>1. id \in Ids /\ state \in State
    BY <1>5 DEF Count, TypeInv, MemOK
  <2>2. /\ state' \in State /\ state'.total = state.total
        /\ progress' = [progress EXCEPT ![id] = state']
    BY <1>5, <2>1, CountedIsState DEF Count
  <2>3. progress' \in [Ids -> State \cup {None}] /\ progress'[id] = state'
    BY <2>1, <2>2 DEF TypeInv, TypeOK
  <2>4. /\ UNCHANGED <<queue, saved, path, results, ledger, batches, output, finished,
                       row, plan, id, aux>>
        /\ pc = "count" /\ pc' = "curve"
    BY <1>5 DEF Count
  <2>5. QED BY <2>1, <2>2, <2>3, <2>4 DEF TypeInv, TypeOK, MemOK
<1>6. QED BY <1>1, <1>2, <1>3, <1>4, <1>5 DEF Curve

LEMMA FinishType ==
    ASSUME TypeInv, Finish
    PROVE  TypeInv'
<1> USE DEF Goto, disk, mem, aux, PC
<1>0. HasTask => row \in Variants /\ id \in Ids /\ state \in StateFields
  BY StateIsRecord DEF TypeInv, MemOK
<1>1. CASE Seal
  BY <1>1 DEF Seal, Unsealed, TypeInv, TypeOK, MemOK
<1>2. CASE Render
  BY <1>2, RenderedIsTyped DEF Render, TypeInv, TypeOK, MemOK
<1>3. CASE Check
  <2>1. CASE NextRow # 0 /\ queue[NextRow].row = row
    BY <1>3, <2>1 DEF Check, TypeInv, TypeOK, MemOK
  <2>2. CASE ~(NextRow # 0 /\ queue[NextRow].row = row)
    BY <1>3, <2>2, DieType DEF Check, TypeInv, TypeOK
  <2>3. QED BY <2>1, <2>2
<1>4. CASE Record
  <2>1. [run |-> state.run, row |-> row] \in [run : Nat, row : Variants]
    BY <1>0, <1>4 DEF Record, StateFields
  <2>2. finished' \in Seq([run : Nat, row : Variants])
    BY <1>4, <2>1, AppendProperties DEF Record, TypeInv, TypeOK
  <2>3. QED BY <1>4, <2>2 DEF Record, TypeInv, TypeOK, MemOK
<1>5. CASE RemoveRow
  <2>1. CASE Found(queue, Me, row)
    <3>1. queue' \in Seq(Line)
      BY <1>0, <1>5, <2>1, AdvancedIsQueue DEF RemoveRow, TypeInv, TypeOK, Line
    <3>2. [id |-> id, run |-> state.run, row |-> row, done |-> state.done]
             \in [id : Ids, run : Nat, row : Variants, done : Nat]
      BY <1>0, <1>5 DEF RemoveRow, StateFields
    <3>3. removed' \in Seq([id : Ids, run : Nat, row : Variants, done : Nat])
      <4>1. removed \in Seq([id : Ids, run : Nat, row : Variants, done : Nat])
        BY DEF TypeInv, TypeOK
      <4>2. removed' = Append(removed, [id |-> id, run |-> state.run, row |-> row,
                                        done |-> state.done])
        BY <1>5, <2>1 DEF RemoveRow
      <4>3. QED BY <3>2, <4>1, <4>2, AppendProperties
    <3>4. QED BY <1>5, <2>1, <3>1, <3>3 DEF RemoveRow, TypeInv, TypeOK, MemOK, Line
  <2>2. CASE ~Found(queue, Me, row)
    BY <1>5, <2>2, DieType DEF RemoveRow, TypeInv, TypeOK
  <2>3. QED BY <2>1, <2>2
<1>6. CASE Clean
  BY <1>6 DEF Clean, TypeInv, TypeOK, MemOK
<1>7. QED BY <1>1, <1>2, <1>3, <1>4, <1>5, <1>6 DEF Finish

LEMMA AroundType ==
    ASSUME TypeInv, Around
    PROVE  TypeInv'
<1> USE DEF mem, disk, aux
<1>1. CASE Crash \/ Stop
  BY <1>1, DieType DEF Crash, Stop, TypeInv, TypeOK
<1>2. CASE Grow
  BY <1>2, BoundAssumption DEF Grow, TypeInv, TypeOK, MemOK
<1>3. ASSUME NEW i \in DOMAIN queue, NEW r \in Variants, EditRow(i, r) PROVE TypeInv'
  <2>1. TaskLine(r) \in Line
    BY DEF TaskLine, Line
  <2>2. queue' \in Seq(Line)
    BY <1>3, <2>1, ReplaceLine, LenProperties DEF EditRow, TypeInv, TypeOK, Line
  <2>3. QED BY <1>3, <2>2 DEF EditRow, TypeInv, TypeOK, MemOK, Line
<1>4. ASSUME NEW p \in Paths, ChangePath(p) PROVE TypeInv'
  BY <1>4 DEF ChangePath, TypeInv, TypeOK, MemOK
<1>5. QED BY <1>1, <1>2, <1>3, <1>4 DEF Around

LEMMA InitType == Init => TypeInv
<1> SUFFICES ASSUME Init PROVE TypeInv
  OBVIOUS
<1>1. saved \in InitSaved..MaxSaved
  BY BoundAssumption DEF Init
<1>2. QED BY <1>1, QueueAssumption, PathAssumption, EmptySeq
         DEF Init, TypeInv, TypeOK, MemOK, PC

LEMMA StepType == TypeInv /\ [Next]_vars => TypeInv'
<1> SUFFICES ASSUME TypeInv, [Next]_vars PROVE TypeInv'
  OBVIOUS
<1>1. CASE UNCHANGED vars
  BY <1>1 DEF vars, disk, mem, aux, TypeInv, TypeOK, MemOK
<1>2. CASE Next
  BY <1>2, TakeType, CurveType, FinishType, AroundType DEF Next
<1>3. QED BY <1>1, <1>2

\* The variables have their types in every reachable state.
THEOREM TypeCorrect == Spec => []TypeOK
<1>1. TypeInv => TypeOK  BY DEF TypeInv
<1>2. QED BY <1>1, InitType, StepType, PTL DEF Spec

(***************************************************************************)
(* A checkpoint on disk can be loaded again.                               *)
(***************************************************************************)
SoundInv ==
    /\ CheckpointLoadable
    /\ HasTask => state = Fresh \/ Sound(state)
    /\ Running => Sound(state)

\* The checkpoint and its copy in memory stay as they are, or the copy is lost.
Steady ==
    /\ progress' = progress
    /\ HasTask' => HasTask /\ id' = id /\ state' = state /\ row' = row
    /\ Running' => Running

\* The steps that leave checkpoint, results and receipts alone.
Quiet ==
    \/ Start \/ Exit \/ ReadRow \/ RejectRow \/ Refuse
    \/ ExportFactor \/ Seal \/ Render \/ Check \/ Record \/ RemoveRow
    \/ Around \/ UNCHANGED vars

LEMMA QuietIsSteady ==
    ASSUME Quiet
    PROVE  /\ Steady /\ UNCHANGED <<results, ledger, token>>
           /\ pc' = "child" => pc = "child"
           /\ pc' \in {"export", "answer"} => pc \in {"export", "answer"}
<1> USE DEF Steady, Goto, Die, disk, mem, aux
<1>1. CASE Start \/ Exit \/ ReadRow \/ RejectRow \/ Refuse
  BY <1>1 DEF Start, Exit, ReadRow, RejectRow, Refuse
<1>2. CASE ExportFactor \/ Seal \/ Render \/ Check \/ Record \/ RemoveRow
  BY <1>2 DEF ExportFactor, Seal, Render, Check, Record, RemoveRow
<1>3. CASE Around
  BY <1>3 DEF Around, Crash, Stop, Grow, EditRow, ChangePath
<1>4. CASE UNCHANGED vars
  BY <1>4 DEF vars
<1>5. QED BY <1>1, <1>2, <1>3, <1>4 DEF Quiet

LEMMA SoundSteady ==
    ASSUME SoundInv, Steady
    PROVE  SoundInv'
BY DEF SoundInv, Steady, CheckpointLoadable, Sound, Fresh

\* A sound state written to the disk keeps all checkpoints sound.
LEMMA SoundPut ==
    ASSUME SoundInv, TypeInv, HasTask, id' = id,
           progress' = [progress EXCEPT ![id] = state'], Sound(state')
    PROVE  SoundInv'
<1>1. CheckpointLoadable'
  BY DEF SoundInv, TypeInv, TypeOK, MemOK, CheckpointLoadable, Sound
<1>2. QED BY <1>1 DEF SoundInv, Sound

LEMMA SoundStep == TypeInv /\ SoundInv /\ [Next]_vars => SoundInv'
<1> SUFFICES ASSUME TypeInv, SoundInv, [Next]_vars PROVE SoundInv'
  OBVIOUS
<1> USE DEF Goto
<1>0. /\ HasTask => id \in Ids /\ state \in State /\ row \in Variants
      /\ HasTask => state \in StateFields
      /\ token \in Nat /\ plan \in Nat /\ path \in Paths
  BY StateIsRecord DEF TypeInv, TypeOK, MemOK
<1>1. CASE Quiet
  BY <1>1, QuietIsSteady, SoundSteady
<1>2. CASE Publish \/ Answer
  BY <1>2, SoundSteady DEF Publish, Answer, Steady, mem, aux
<1>3. CASE Load
  <2>1. id' \in Ids
    BY <1>3, TaskId DEF Load, TypeInv, MemOK
  <2>2. state' = Fresh \/ Sound(state')
    BY <1>3, <2>1 DEF Load, SoundInv, CheckpointLoadable, Sound
  <2>3. progress' = progress /\ pc' = "resume"
    BY <1>3 DEF Load, disk
  <2>4. QED BY <2>2, <2>3 DEF SoundInv, CheckpointLoadable, Sound, Fresh
<1>4. CASE Recover \/ Count
  <2>1. /\ HasTask /\ id' = id /\ state.pending # 0 /\ state' = Counted(state)
        /\ progress' = [progress EXCEPT ![id] = state']
    BY <1>4 DEF Recover, Count, Answered
  <2>2. Sound(state)
    BY <2>1 DEF SoundInv, Fresh
  <2>3. Sound(state')
    BY <1>0, <2>1, <2>2, CountedIsState DEF Sound, StateFields
  <2>4. QED BY <2>1, <2>3, SoundPut
<1>5. CASE Reconfigure
  <2>1. /\ HasTask /\ id' = id /\ state' = Reconfigured
        /\ progress' = [progress EXCEPT ![id] = state']
    BY <1>5 DEF Reconfigure, Reconfigured
  <2>2. /\ state'.run = IF state.run = 0 THEN token + 1 ELSE state.run
        /\ state'.done = state.done /\ state'.done <= state'.total
        /\ state'.pending \in {0, state.pending}
        /\ state'.pending # 0 => state'.total = Max({state.done, plan}) /\ state.total = plan
    BY <1>0, <2>1, ReconfiguredIsState
  <2>3. ASSUME state'.pending # 0 PROVE state'.done < state'.total
    <3>1. Sound(state) /\ state.pending # 0
      BY <2>1, <2>2, <2>3 DEF SoundInv, Fresh
    <3>2. state.done \in Nat /\ state.done < plan
      BY <1>0, <2>1, <2>2, <2>3, <3>1 DEF Sound, StateFields
    <3>3. Max({state.done, plan}) >= plan /\ Max({state.done, plan}) \in Nat
      BY <1>0, <3>2, MaxOfTwo
    <3>4. QED BY <1>0, <2>2, <2>3, <3>2, <3>3
  <2>4. state'.run # 0
    BY <1>0, <2>2
  <2>5. QED BY <2>1, <2>2, <2>3, <2>4, SoundPut DEF Sound
<1>6. CASE Launch
  <2>1. /\ HasTask /\ Running /\ id' = id /\ state.done < plan
        /\ state' = [state EXCEPT !.pending = token + 1, !.path = path]
        /\ progress' = [progress EXCEPT ![id] = state']
    BY <1>6 DEF Launch
  <2>2. state'.run = state.run /\ state'.done = state.done /\ state'.total = state.total
    BY <1>0, <2>1, LaunchedIsState
  <2>3. Sound(state) /\ plan <= state.total /\ state.done \in Nat /\ state.total \in Nat
    BY <1>0, <2>1 DEF SoundInv, TypeInv, MemOK, StateFields
  <2>4. Sound(state')
    BY <1>0, <2>1, <2>2, <2>3 DEF Sound
  <2>5. QED BY <2>1, <2>4, SoundPut
<1>7. CASE Clean
  <2>1. /\ progress' = [progress EXCEPT ![id] = None] /\ pc' = "head"
    BY <1>7 DEF Clean
  <2>2. QED BY <2>1 DEF SoundInv, CheckpointLoadable, TypeInv, TypeOK
<1>8. QED
  BY <1>1, <1>2, <1>3, <1>4, <1>5, <1>6, <1>7
  DEF Next, Take, Curve, Finish, Quiet

LEMMA SoundInit == Init => SoundInv
BY DEF Init, SoundInv, CheckpointLoadable

\* State::load never refuses a checkpoint that this program wrote, whatever
\* crashed and however the policy of the task changed in between.
THEOREM LoadableCorrect == Spec => []CheckpointLoadable
<1>1. SoundInv => CheckpointLoadable  BY DEF SoundInv
<1>2. QED BY <1>1, InitType, StepType, SoundInit, SoundStep, PTL DEF Spec

(***************************************************************************)
(* A counted curve is durable.  The token of an attempt is drawn once, so  *)
(* a result line that carries the pending token of a checkpoint is the     *)
(* answer to the very next curve of that task; and no line is written      *)
(* before the receipt of its curve and bound.                              *)
(***************************************************************************)
ReceiptFirst == \A l \in results : \E r \in ledger : r.curve = l.curve /\ r.b2 = l.b2

TokensDrawn == \A l \in results : l.token <= token

\* What a checkpoint s of task i says about the result lines.
Owns(i, s) ==
    /\ s.pending <= token
    /\ \A n \in 1..s.done : \E l \in results : l.curve = i.skip + n
    /\ s.pending # 0 =>
          \A l \in results : l.token = s.pending => l.curve = i.skip + s.done + 1

\* No other checkpoint than that of task i waits for the token of s.
Alone(i, s) ==
    s.pending # 0 =>
        \A j \in Ids \ {i} : progress[j] # None => progress[j].pending # s.pending

DurableInv ==
    /\ ReceiptFirst /\ TokensDrawn
    /\ \A i \in Ids : progress[i] # None => Owns(i, progress[i]) /\ Alone(i, progress[i])
    /\ HasTask => Owns(id, state) /\ Alone(id, state)
    /\ pc \in {"child", "export", "answer"} => state.pending # 0
    /\ pc \in {"export", "answer"} =>
          \E r \in ledger : r.curve = NextCurve /\ r.b2 = state.b2

LEMMA DurableQuiet ==
    ASSUME DurableInv, Quiet
    PROVE  DurableInv'
<1>1. /\ Steady /\ UNCHANGED <<results, ledger, token>>
      /\ pc' = "child" => pc = "child"
      /\ pc' \in {"export", "answer"} => pc \in {"export", "answer"}
  BY QuietIsSteady
<1>2. ReceiptFirst' /\ TokensDrawn'
  BY <1>1 DEF DurableInv, ReceiptFirst, TokensDrawn
<1>3. \A i \in Ids : progress'[i] # None => Owns(i, progress[i])' /\ Alone(i, progress[i])'
  BY <1>1 DEF DurableInv, Steady, Owns, Alone
<1>4. HasTask' => Owns(id, state)' /\ Alone(id, state)'
  BY <1>1 DEF DurableInv, Steady, Owns, Alone
<1>5. /\ pc' \in {"child", "export", "answer"} => state'.pending # 0
      /\ pc' \in {"export", "answer"} =>
            \E r \in ledger' : r.curve = NextCurve' /\ r.b2 = state'.b2
  BY <1>1 DEF DurableInv, Steady, NextCurve
<1>6. QED BY <1>2, <1>3, <1>4, <1>5 DEF DurableInv

\* A state that owns its lines, alone with its token, may be written to disk.
LEMMA DurablePut ==
    ASSUME DurableInv, TypeInv, id \in Ids, id' = id,
           progress' = [progress EXCEPT ![id] = state'],
           results' = results, ledger' = ledger,
           token \in Nat, token' \in Nat, token <= token',
           Owns(id, state)', Alone(id, state)',
           pc' \notin {"export", "answer"}, pc' = "child" => state'.pending # 0
    PROVE  DurableInv'
<1>1. ReceiptFirst'
  BY DEF DurableInv, ReceiptFirst
<1>2. TokensDrawn'
  <2>1. ASSUME NEW l \in results PROVE l.token <= token'
    <3>1. l.token \in Nat /\ l.token <= token
      BY DEF DurableInv, TokensDrawn, TypeInv, TypeOK
    <3>2. QED BY <3>1
  <2>2. QED BY <2>1 DEF TokensDrawn
<1>3. progress \in [Ids -> State \cup {None}]
  BY DEF TypeInv, TypeOK
<1>4. ASSUME NEW i \in Ids, progress'[i] # None
      PROVE  Owns(i, progress[i])' /\ Alone(i, progress[i])'
  <2>1. CASE i = id
    BY <1>3, <2>1
  <2>2. CASE i # id
    <3>1. progress'[i] = progress[i] /\ progress[i] \in State /\ progress[i] \in StateFields
      BY <1>3, <1>4, <2>2, StateIsRecord
    <3>2. Owns(i, progress[i]) /\ Alone(i, progress[i])
      BY <1>4, <3>1 DEF DurableInv
    <3>3. Owns(i, progress[i])'
      BY <3>1, <3>2 DEF Owns, StateFields
    <3>4. Alone(i, progress[i])'
      <4>1. state'.pending # 0 => progress'[i].pending # state'.pending
        BY <1>4, <2>2 DEF Alone
      <4>2. ASSUME progress'[i].pending # 0, NEW j \in Ids \ {i}, progress'[j] # None
            PROVE  progress'[j].pending # progress'[i].pending
        <5>1. CASE j = id
          BY <1>3, <4>1, <4>2, <5>1
        <5>2. CASE j # id
          BY <1>3, <3>1, <3>2, <4>2, <5>2 DEF Alone
        <5>3. QED BY <5>1, <5>2
      <4>3. QED BY <4>2 DEF Alone
    <3>5. QED BY <3>3, <3>4
  <2>3. QED BY <2>1, <2>2
<1>5. QED BY <1>1, <1>2, <1>4 DEF DurableInv

LEMMA DurableLoad ==
    ASSUME DurableInv, TypeInv, Load
    PROVE  DurableInv'
<1>1. /\ id' \in Ids /\ pc' = "resume" /\ token \in Nat
      /\ state' = IF progress[id'] = None THEN Fresh ELSE progress[id']
      /\ UNCHANGED <<progress, results, ledger, token>>
  BY TaskId DEF Load, Goto, disk, aux, TypeInv, TypeOK, MemOK
<1>2. Owns(id, state)' /\ Alone(id, state)'
  <2>1. CASE progress[id'] = None
    BY <1>1, <2>1 DEF Fresh, Owns, Alone
  <2>2. CASE progress[id'] # None
    <3>1. Owns(id', progress[id']) /\ Alone(id', progress[id'])
      BY <1>1, <2>2 DEF DurableInv
    <3>2. QED BY <1>1, <2>2, <3>1 DEF Owns, Alone
  <2>3. QED BY <2>1, <2>2
<1>3. \A i \in Ids : progress'[i] # None => Owns(i, progress[i])' /\ Alone(i, progress[i])'
  BY <1>1 DEF DurableInv, Owns, Alone
<1>4. QED BY <1>1, <1>2, <1>3 DEF DurableInv, ReceiptFirst, TokensDrawn

\* Counting the answered curve.
LEMMA DurableCount ==
    ASSUME DurableInv, TypeInv, Recover \/ Count
    PROVE  DurableInv'
<1>1. /\ HasTask /\ id' = id /\ state' = Counted(state) /\ Answered
      /\ progress' = [progress EXCEPT ![id] = state']
      /\ pc' \in {"resume", "curve"}
      /\ UNCHANGED <<results, ledger, token>>
  BY DEF Recover, Count, Goto, aux
<1>2. id \in Ids /\ state \in State /\ state \in StateFields /\ token \in Nat
  BY <1>1, StateIsRecord DEF TypeInv, TypeOK, MemOK
<1>3. state'.done = state.done + 1 /\ state'.pending = 0
  BY <1>1, <1>2, CountedIsState
<1>4. \E l \in results : l.curve = id.skip + state.done + 1
  BY <1>1 DEF Answered, ResultWritten, DurableInv, Owns
<1>5. ASSUME NEW n \in 1..state'.done PROVE \E l \in results : l.curve = id.skip + n
  <2>1. state.done \in Nat /\ id.skip \in Nat
    BY <1>1, <1>2, VariantFields DEF StateFields, TypeInv, MemOK
  <2>2. n \in 1..state.done \/ n = state.done + 1
    BY <1>3, <2>1
  <2>3. id.skip + (state.done + 1) = id.skip + state.done + 1
    BY <2>1
  <2>4. CASE n \in 1..state.done
    BY <1>1, <2>4 DEF DurableInv, Owns
  <2>5. CASE n = state.done + 1
    BY <1>4, <2>3, <2>5
  <2>6. QED BY <2>2, <2>4, <2>5
<1>6. Owns(id, state)' /\ Alone(id, state)'
  BY <1>1, <1>2, <1>3, <1>5 DEF Owns, Alone
<1>7. QED BY <1>1, <1>2, <1>6, DurablePut

\* A new policy keeps the count, and the attempt or none.
LEMMA DurableReconfigure ==
    ASSUME DurableInv, TypeInv, Reconfigure
    PROVE  DurableInv'
<1>1. /\ HasTask /\ id' = id /\ state' = Reconfigured
      /\ progress' = [progress EXCEPT ![id] = state']
      /\ pc' = "curve" /\ token' \in {token, token + 1}
      /\ UNCHANGED <<results, ledger>>
  BY DEF Reconfigure, Reconfigured, Goto
<1>2. /\ id \in Ids /\ state \in State /\ state \in StateFields /\ token \in Nat
      /\ plan \in Nat /\ row \in Variants
  BY <1>1, StateIsRecord DEF TypeInv, TypeOK, MemOK
<1>3. state'.done = state.done /\ state'.pending \in {0, state.pending}
  BY <1>1, <1>2, ReconfiguredIsState
<1>4. Owns(id, state) /\ Alone(id, state) /\ state.pending \in Nat /\ state.done \in Nat
  BY <1>1, <1>2 DEF DurableInv, StateFields
<1>5. Owns(id, state)'
  BY <1>1, <1>2, <1>3, <1>4 DEF Owns
<1>6. Alone(id, state)'
  <2>1. \A j \in Ids \ {id} : progress'[j] = progress[j]
    BY <1>1, <1>2 DEF TypeInv, TypeOK
  <2>2. QED BY <1>1, <1>3, <1>4, <2>1 DEF Alone
<1>7. token' \in Nat /\ token <= token'
  BY <1>1, <1>2
<1>8. QED BY <1>1, <1>2, <1>5, <1>6, <1>7, DurablePut

\* A fresh token is nobody else's, and no line carries it yet.
LEMMA DurableLaunch ==
    ASSUME DurableInv, TypeInv, Launch
    PROVE  DurableInv'
<1>1. /\ HasTask /\ id' = id /\ pc' = "child" /\ token' = token + 1
      /\ state' = [state EXCEPT !.pending = token + 1, !.path = path]
      /\ progress' = [progress EXCEPT ![id] = state']
      /\ UNCHANGED <<results, ledger>>
  BY DEF Launch, Goto
<1>2. /\ id \in Ids /\ state \in State /\ token \in Nat /\ path \in Paths
      /\ progress \in [Ids -> State \cup {None}]
      /\ \A l \in results : l.token \in Nat
  BY <1>1 DEF TypeInv, TypeOK, MemOK
<1>3. state'.done = state.done /\ state'.pending = token + 1
  BY <1>1, <1>2, LaunchedIsState
<1>4. \A l \in results : l.token # token + 1
  BY <1>2 DEF DurableInv, TokensDrawn
<1>5. Owns(id, state)'
  BY <1>1, <1>2, <1>3, <1>4 DEF DurableInv, Owns
<1>6. Alone(id, state)'
  <2>1. ASSUME NEW j \in Ids \ {id}, progress'[j] # None
        PROVE  progress'[j].pending # token + 1
    <3>1. progress'[j] = progress[j] /\ progress[j] \in StateFields
      BY <1>1, <1>2, <2>1, StateIsRecord
    <3>2. progress[j].pending <= token /\ progress[j].pending \in Nat
      BY <2>1, <3>1 DEF DurableInv, Owns, StateFields
    <3>3. QED BY <1>2, <3>1, <3>2
  <2>2. QED BY <1>1, <1>3, <2>1 DEF Alone
<1>7. state'.pending # 0 /\ token' \in Nat /\ token <= token'
  BY <1>1, <1>2, <1>3
<1>8. QED BY <1>1, <1>2, <1>5, <1>6, <1>7, DurablePut

LEMMA DurablePublish ==
    ASSUME DurableInv, TypeInv, Publish
    PROVE  DurableInv'
<1>1. /\ pc = "child" /\ pc' \in {"export", "answer"}
      /\ UNCHANGED <<progress, results, token, id, state, row>>
      /\ ledger \subseteq ledger'
  BY DEF Publish, Goto, mem, aux
<1>2. \E r \in ledger' : r.curve = NextCurve /\ r.b2 = state.b2
  <2>1. CASE \E r \in ledger : r.curve = NextCurve /\ r.b2 = state.b2
    BY <1>1, <2>1
  <2>2. CASE ~\E r \in ledger : r.curve = NextCurve /\ r.b2 = state.b2
    <3>1. [curve |-> NextCurve, b2 |-> state.b2, task |-> id] \in ledger'
      BY <2>2 DEF Publish
    <3>2. QED BY <3>1
  <2>3. QED BY <2>1, <2>2
<1>3. ReceiptFirst' /\ TokensDrawn'
  BY <1>1 DEF DurableInv, ReceiptFirst, TokensDrawn
<1>4. \A i \in Ids : progress'[i] # None => Owns(i, progress[i])' /\ Alone(i, progress[i])'
  BY <1>1 DEF DurableInv, Owns, Alone
<1>5. Owns(id, state)' /\ Alone(id, state)' /\ state'.pending # 0 /\ NextCurve' = NextCurve
  BY <1>1 DEF DurableInv, Owns, Alone, NextCurve
<1>6. QED BY <1>1, <1>2, <1>3, <1>4, <1>5 DEF DurableInv

\* The answer is the line its own checkpoint waits for, and no other does.
LEMMA DurableAnswer ==
    ASSUME DurableInv, TypeInv, Answer
    PROVE  DurableInv'
<1> DEFINE new == [path |-> path, token |-> state.pending, curve |-> NextCurve, b2 |-> state.b2]
<1>1. /\ pc = "answer" /\ pc' = "count"
      /\ results' = results \cup {new}
      /\ UNCHANGED <<progress, ledger, token, id, state, row>>
  BY DEF Answer, Goto, mem, aux
<1>2. /\ id \in Ids /\ state = progress[id] /\ id.skip = row.skip
      /\ Owns(id, state) /\ Alone(id, state) /\ state.pending # 0
      /\ state.pending <= token
  BY <1>1 DEF DurableInv, TypeInv, MemOK, Owns
<1>3. new.token = state.pending /\ new.curve = id.skip + state.done + 1 /\ new.b2 = state.b2
  BY <1>2 DEF NextCurve
<1>4. \E r \in ledger : r.curve = new.curve /\ r.b2 = new.b2
  BY <1>1 DEF DurableInv
<1> HIDE DEF new
<1>5. ReceiptFirst'
  BY <1>1, <1>4 DEF DurableInv, ReceiptFirst
<1>6. TokensDrawn'
  BY <1>1, <1>2, <1>3 DEF DurableInv, TokensDrawn
<1>7. Owns(id, state)' /\ Alone(id, state)'
  BY <1>1, <1>2, <1>3 DEF Owns, Alone
<1>8. ASSUME NEW i \in Ids, progress'[i] # None
      PROVE  Owns(i, progress[i])' /\ Alone(i, progress[i])'
  <2>1. CASE i = id
    BY <1>1, <1>2, <1>7, <2>1
  <2>2. CASE i # id
    <3>1. Owns(i, progress[i]) /\ Alone(i, progress[i])
      BY <1>1, <1>8 DEF DurableInv
    <3>2. progress[i].pending # new.token
      BY <1>1, <1>2, <1>3, <1>8, <2>2 DEF Alone
    <3>3. QED BY <1>1, <3>1, <3>2 DEF Owns, Alone
  <2>3. QED BY <2>1, <2>2
<1>9. QED BY <1>1, <1>5, <1>6, <1>7, <1>8 DEF DurableInv

LEMMA DurableClean ==
    ASSUME DurableInv, TypeInv, Clean
    PROVE  DurableInv'
<1>1. /\ pc' = "head" /\ UNCHANGED <<results, ledger, token>>
      /\ progress \in [Ids -> State \cup {None}]
      /\ progress' = [progress EXCEPT ![id] = None]
  BY DEF Clean, Goto, aux, TypeInv, TypeOK
<1>2. ASSUME NEW i \in Ids, progress'[i] # None
      PROVE  progress'[i] = progress[i]
  BY <1>1, <1>2
<1>3. \A i \in Ids : progress'[i] # None => Owns(i, progress[i])' /\ Alone(i, progress[i])'
  BY <1>1, <1>2 DEF DurableInv, Owns, Alone
<1>4. QED BY <1>1, <1>3 DEF DurableInv, ReceiptFirst, TokensDrawn

LEMMA DurableInit == Init => DurableInv
BY DEF Init, DurableInv, ReceiptFirst, TokensDrawn

LEMMA DurableStep == TypeInv /\ DurableInv /\ [Next]_vars => DurableInv'
<1> SUFFICES ASSUME TypeInv, DurableInv, [Next]_vars PROVE DurableInv'
  OBVIOUS
<1>1. CASE Quiet
  BY <1>1, DurableQuiet
<1>2. CASE Load \/ Recover \/ Reconfigure \/ Launch \/ Publish \/ Answer \/ Count \/ Clean
  BY <1>2, DurableLoad, DurableCount, DurableReconfigure, DurableLaunch, DurablePublish,
     DurableAnswer, DurableClean
<1>3. QED BY <1>1, <1>2 DEF Next, Take, Curve, Finish, Quiet

LEMMA DurableImplies == DurableInv => CountedIsDurable
<1> SUFFICES ASSUME DurableInv, NEW i \in Ids, progress[i] # None, NEW n \in 1..progress[i].done
             PROVE  \E r \in ledger, l \in results :
                       r.curve = i.skip + n /\ l.curve = r.curve /\ l.b2 = r.b2
  BY DEF CountedIsDurable
<1>1. PICK l \in results : l.curve = i.skip + n
  BY DEF DurableInv, Owns
<1>2. PICK r \in ledger : r.curve = l.curve /\ r.b2 = l.b2
  BY DEF DurableInv, ReceiptFirst
<1>3. QED BY <1>1, <1>2

\* Every curve a checkpoint counts as done has its receipt and its result line,
\* under every interruption, policy, result file and growth of the save.
THEOREM DurableCorrect == Spec => []CountedIsDurable
BY DurableImplies, InitType, StepType, DurableInit, DurableStep, PTL DEF Spec

(***************************************************************************)
(* The finished record has each task run and row once, and a row that left *)
(* the queue is in it: append_unique_line comes before the removal.        *)
(***************************************************************************)
RecordInv == RecordedOnce /\ (pc = "remove" => FinishedWritten)

LEMMA RecordOther ==
    ASSUME RecordInv,
           UNCHANGED <<finished, removed>>,
           pc' = "remove" => pc = "remove" /\ state' = state /\ row' = row
    PROVE  RecordInv'
<1>1. RecordedOnce'
  BY DEF RecordInv, RecordedOnce
<1>2. pc' = "remove" => FinishedWritten'
  BY DEF RecordInv, FinishedWritten
<1>3. QED BY <1>1, <1>2 DEF RecordInv

LEMMA RecordRecord ==
    ASSUME RecordInv, TypeInv, Record
    PROVE  RecordInv'
<1> DEFINE e == [run |-> state.run, row |-> row]
<1>1. /\ finished' = IF FinishedWritten THEN finished ELSE Append(finished, e)
      /\ UNCHANGED <<removed, state, row>>
  BY DEF Record, mem, aux
<1>2. e \in [run : Nat, row : Variants] /\ finished \in Seq([run : Nat, row : Variants])
  <2>1. row \in Variants /\ state \in StateFields
    BY StateIsRecord DEF Record, Goto, TypeInv, MemOK
  <2>2. QED BY <2>1 DEF StateFields, TypeInv, TypeOK
<1>3. CASE FinishedWritten
  BY <1>1, <1>3 DEF RecordInv, RecordedOnce, FinishedWritten
<1>4. CASE ~FinishedWritten
  <2>1. /\ finished' = Append(finished, e) /\ \A i \in DOMAIN finished : finished[i] # e
    BY <1>1, <1>4 DEF FinishedWritten
  <2> HIDE DEF e
  <2>2. /\ DOMAIN finished = 1..Len(finished) /\ DOMAIN finished' = 1..(Len(finished) + 1)
        /\ Len(finished) \in Nat
        /\ \A i \in 1..Len(finished) : finished'[i] = finished[i]
        /\ finished'[Len(finished) + 1] = e
    BY <1>2, <2>1, AppendProperties, LenProperties
  <2>3. \A i \in DOMAIN finished' : i \in DOMAIN finished \/ i = Len(finished) + 1
    BY <2>2
  <2>4. \A i, j \in DOMAIN finished' : finished'[i] = finished'[j] => i = j
    BY <2>1, <2>2, <2>3 DEF RecordInv, RecordedOnce
  <2>5. \A i \in DOMAIN finished : i \in DOMAIN finished' /\ finished'[i] = finished[i]
    BY <2>2
  <2>6. \A k \in DOMAIN removed' : \E i \in DOMAIN finished' :
           finished'[i] = [run |-> removed'[k].run, row |-> removed'[k].row]
    BY <1>1, <2>5 DEF RecordInv, RecordedOnce
  <2>7. Len(finished) + 1 \in DOMAIN finished'
    BY <2>2
  <2>8. FinishedWritten'
    BY <1>1, <2>2, <2>7 DEF FinishedWritten, e
  <2>9. QED BY <2>4, <2>6, <2>8 DEF RecordInv, RecordedOnce
<1>5. QED BY <1>3, <1>4

LEMMA RecordRemove ==
    ASSUME RecordInv, TypeInv, RemoveRow, Found(queue, Me, row)
    PROVE  RecordInv'
<1> DEFINE e == [id |-> id, run |-> state.run, row |-> row, done |-> state.done]
<1>1. removed' = Append(removed, e) /\ finished' = finished /\ pc' = "clean" /\ pc = "remove"
  BY DEF RemoveRow
<1>2. /\ e \in [id : Ids, run : Nat, row : Variants, done : Nat]
      /\ removed \in Seq([id : Ids, run : Nat, row : Variants, done : Nat])
  <2>1. row \in Variants /\ id \in Ids /\ state \in StateFields
    BY <1>1, StateIsRecord DEF TypeInv, MemOK
  <2>2. e \in [id : Ids, run : Nat, row : Variants, done : Nat]
    BY <2>1 DEF StateFields
  <2>3. QED BY <2>2 DEF TypeInv, TypeOK
<1>3. \E i \in DOMAIN finished : finished[i] = [run |-> e.run, row |-> e.row]
  BY <1>1 DEF RecordInv, FinishedWritten
<1> HIDE DEF e
<1>4. /\ DOMAIN removed = 1..Len(removed) /\ DOMAIN removed' = 1..(Len(removed) + 1)
      /\ Len(removed) \in Nat
      /\ \A k \in 1..Len(removed) : removed'[k] = removed[k]
      /\ removed'[Len(removed) + 1] = e
  BY <1>1, <1>2, AppendProperties, LenProperties
<1>5. ASSUME NEW k \in DOMAIN removed'
      PROVE  \E i \in DOMAIN finished' :
                finished'[i] = [run |-> removed'[k].run, row |-> removed'[k].row]
  <2>1. k \in DOMAIN removed \/ k = Len(removed) + 1
    BY <1>4
  <2>2. CASE k \in DOMAIN removed
    BY <1>1, <1>4, <2>2 DEF RecordInv, RecordedOnce
  <2>3. CASE k = Len(removed) + 1
    BY <1>1, <1>3, <1>4, <2>3
  <2>4. QED BY <2>1, <2>2, <2>3
<1>6. QED BY <1>1, <1>5 DEF RecordInv, RecordedOnce

LEMMA RecordStep == TypeInv /\ RecordInv /\ [Next]_vars => RecordInv'
<1> SUFFICES ASSUME TypeInv, RecordInv, [Next]_vars PROVE RecordInv'
  OBVIOUS
<1> USE DEF Goto, Die, disk, mem, aux
<1>1. CASE Start \/ Exit \/ ReadRow \/ RejectRow \/ Load \/ Recover \/ Reconfigure \/ Refuse
  BY <1>1, RecordOther
  DEF Start, Exit, ReadRow, RejectRow, Load, Recover, Reconfigure, Refuse
<1>2. CASE Launch \/ Publish \/ ExportFactor \/ Answer \/ Count
  BY <1>2, RecordOther DEF Launch, Publish, ExportFactor, Answer, Count
<1>3. CASE Seal \/ Render \/ Check \/ Clean
  BY <1>3, RecordOther DEF Seal, Render, Check, Clean
<1>4. CASE Record
  BY <1>4, RecordRecord
<1>5. CASE RemoveRow
  BY <1>5, RecordRemove, RecordOther DEF RemoveRow
<1>6. CASE Around
  BY <1>6, RecordOther DEF Around, Crash, Stop, Grow, EditRow, ChangePath
<1>7. CASE UNCHANGED vars
  BY <1>7, RecordOther DEF vars
<1>8. QED BY <1>1, <1>2, <1>3, <1>4, <1>5, <1>6, <1>7 DEF Next, Take, Curve, Finish

LEMMA RecordInit == Init => RecordInv
<1> SUFFICES ASSUME Init PROVE RecordInv
  OBVIOUS
<1>1. DOMAIN removed = {} /\ DOMAIN finished = {}
  BY EmptySeq, LenProperties DEF Init
<1>2. QED BY <1>1 DEF Init, RecordInv, RecordedOnce

\* No row leaves the queue unrecorded, and a repetition after a crash between
\* record and removal does not record it again.
THEOREM RecordCorrect == Spec => []RecordedOnce
<1>1. RecordInv => RecordedOnce  BY DEF RecordInv
<1>2. QED BY <1>1, InitType, StepType, RecordInit, RecordStep, PTL DEF Spec

(***************************************************************************)
(* Reported once.  A receipt that no batch holds yet belongs to a curve    *)
(* its checkpoint counts, or to the one attempt that is pending, under     *)
(* that attempt's bound; so a task has no two of them for one curve, and   *)
(* none when its checkpoint is gone.                                       *)
(***************************************************************************)
Open(i) == {r \in ledger : r.task = i /\ ~Hit(r.curve, r.b2) /\ \A b \in batches : r \notin b}

Covers(i, s) ==
    \A r \in Open(i) :
        \/ r.curve <= i.skip + s.done
        \/ s.pending # 0 /\ r.curve = i.skip + s.done + 1 /\ r.b2 = s.b2

Sealed   == pc \in {"render", "check", "record", "remove", "clean"}
Shown == pc \in {"check", "record", "remove"}

OpenOK(i) ==
    /\ \A r, q \in Open(i) : r.curve = q.curve => r = q
    /\ progress[i] = None => Open(i) = {}
    /\ progress[i] # None => Covers(i, progress[i])

ReportInv ==
    /\ ReportedOnce
    /\ \A i \in Ids : OpenOK(i)
    /\ HasTask => IF progress[id] = None THEN state = Fresh ELSE state = progress[id]
    /\ Running => progress[id] # None
    /\ Sealed => Open(id) = {}
    /\ Shown => \A r \in ledger : r.task = id => \E b \in output : r \in b

LEMMA ReportKeep ==
    ASSUME ReportInv, Steady, UNCHANGED <<ledger, batches>>,
           Sealed' => Sealed, Shown' => Shown /\ output' = output
    PROVE  ReportInv'
<1>1. ReportedOnce'
  BY DEF ReportInv, ReportedOnce
<1>2. \A i \in Ids : OpenOK(i)'
  BY DEF ReportInv, OpenOK, Open, Covers, Steady
<1>3. HasTask' => IF progress'[id'] = None THEN state' = Fresh ELSE state' = progress'[id']
  BY DEF ReportInv, Steady
<1>4. Running' => progress'[id'] # None
  BY DEF ReportInv, Steady, Running
<1>5. Sealed' => Open(id)' = {}
  <2>1. Sealed' => id' = id
    BY DEF Sealed, Steady, HasTask, HasRow
  <2>2. QED BY <2>1 DEF ReportInv, Open
<1>6. Shown' => \A r \in ledger' : r.task = id' => \E b \in output' : r \in b
  <2>1. Shown' => id' = id
    BY DEF Shown, Steady, HasTask, HasRow
  <2>2. QED BY <2>1 DEF ReportInv
<1>7. QED BY <1>1, <1>2, <1>3, <1>4, <1>5, <1>6 DEF ReportInv, Fresh

\* A checkpoint that covers the open receipts may be written.
LEMMA ReportPut ==
    ASSUME TypeInv, ReportInv, id \in Ids, id' = id, UNCHANGED <<ledger, batches>>,
           progress' = [progress EXCEPT ![id] = state'], state' \in State,
           NEW s, s = state', Covers(id, s), ~Sealed'
    PROVE  ReportInv'
<1>0. progress \in [Ids -> State \cup {None}] /\ state' # None
  BY NoneAssumption DEF TypeInv, TypeOK
<1>1. ReportedOnce'
  BY DEF ReportInv, ReportedOnce
<1>2. ASSUME NEW i \in Ids PROVE OpenOK(i)'
  <2>1. Open(i)' = Open(i)
    BY DEF Open
  <2>2. CASE i = id
    <3>1. progress'[i] = s /\ progress'[i] # None
      BY <1>0, <2>2
    <3>2. Covers(i, progress[i])'
      BY <2>1, <2>2, <3>1 DEF Covers
    <3>3. QED BY <2>1, <3>1, <3>2 DEF ReportInv, OpenOK
  <2>3. CASE i # id
    <3>1. progress'[i] = progress[i]
      BY <1>0, <2>3
    <3>2. QED BY <2>1, <3>1 DEF ReportInv, OpenOK, Covers
  <2>4. QED BY <2>2, <2>3
<1>3. progress'[id'] = state'
  BY <1>0
<1>4. ~Shown'
  BY DEF Shown, Sealed
<1>5. QED BY <1>0, <1>1, <1>2, <1>3, <1>4 DEF ReportInv

LEMMA ReportStep == TypeInv /\ DurableInv /\ ReportInv /\ [Next]_vars => ReportInv'
<1> SUFFICES ASSUME TypeInv, DurableInv, ReportInv, [Next]_vars PROVE ReportInv'
  OBVIOUS
<1>0. /\ HasTask => id \in Ids /\ id.skip = row.skip /\ state \in State /\ row \in Variants
      /\ HasTask => state \in StateFields
      /\ token \in Nat /\ plan \in Nat /\ path \in Paths
      /\ ledger \subseteq Receipt /\ progress \in [Ids -> State \cup {None}]
  BY StateIsRecord DEF TypeInv, TypeOK, MemOK
<1>1. HasTask => NextCurve = id.skip + state.done + 1 /\ id.skip \in Nat /\ state.done \in Nat
  BY <1>0, VariantFields DEF NextCurve, StateFields
<1>2. HasTask => Covers(id, state)
  <2>1. ASSUME HasTask, progress[id] = None PROVE Covers(id, state)
    BY <1>0, <2>1 DEF ReportInv, OpenOK, Covers
  <2>2. ASSUME HasTask, progress[id] # None PROVE Covers(id, state)
    BY <1>0, <2>2 DEF ReportInv, OpenOK
  <2>3. QED BY <2>1, <2>2
<1>3. CASE Start \/ Exit \/ ReadRow \/ RejectRow \/ Refuse \/ ExportFactor \/ Check \/ Record
           \/ RemoveRow \/ Around \/ UNCHANGED vars
  <2>1. Quiet
    BY <1>3 DEF Quiet
  <2>2. /\ UNCHANGED batches
        /\ Sealed' => Sealed
        /\ Shown' => Shown /\ output' = output
    <3> USE DEF Goto, Die, disk, mem, aux, Sealed, Shown
    <3>1. CASE Start \/ Exit \/ ReadRow \/ RejectRow \/ Refuse
      BY <3>1 DEF Start, Exit, ReadRow, RejectRow, Refuse
    <3>2. CASE ExportFactor \/ Check \/ Record \/ RemoveRow
      BY <3>2 DEF ExportFactor, Check, Record, RemoveRow
    <3>3. CASE Around
      BY <3>3 DEF Around, Crash, Stop, Grow, EditRow, ChangePath
    <3>4. QED BY <1>3, <3>1, <3>2, <3>3 DEF vars
  <2>3. QED BY <2>1, <2>2, QuietIsSteady, ReportKeep
<1>4. CASE Answer
  <2>1. Steady /\ UNCHANGED <<ledger, batches>> /\ ~Sealed' /\ ~Shown'
    BY <1>4 DEF Answer, Goto, Steady, mem, aux, HasTask, HasRow, Running, Sealed, Shown
  <2>2. QED BY <2>1, ReportKeep
<1>5. CASE Load
  <2>1. /\ UNCHANGED <<ledger, batches, progress>> /\ pc' = "resume" /\ id' \in Ids
        /\ state' = IF progress[id'] = None THEN Fresh ELSE progress[id']
    BY <1>5, TaskId DEF Load, Goto, disk, TypeInv, MemOK, HasRow
  <2>2. \A i \in Ids : OpenOK(i)'
    BY <2>1 DEF ReportInv, OpenOK, Open, Covers
  <2>3. ReportedOnce'
    BY <2>1 DEF ReportInv, ReportedOnce
  <2>4. ~Running' /\ ~Sealed' /\ ~Shown'
    BY <2>1 DEF Running, Sealed, Shown
  <2>5. QED BY <2>1, <2>2, <2>3, <2>4 DEF ReportInv, Fresh
<1>6. CASE Recover \/ Count
  <2>1. /\ HasTask /\ id' = id /\ state' = Counted(state) /\ UNCHANGED <<ledger, batches>>
        /\ progress' = [progress EXCEPT ![id] = state'] /\ ~Sealed'
    BY <1>6 DEF Recover, Count, Goto, HasTask, HasRow, Sealed
  <2>2. state' \in State /\ state'.done = state.done + 1
    BY <1>0, <2>1, CountedIsState
  <2>3. ASSUME NEW s, s = state' PROVE Covers(id, s)
    <3>1. ASSUME NEW r \in Open(id) PROVE r.curve <= id.skip + s.done
      <4>1. r.curve \in Nat
        BY <1>0 DEF Open, Receipt
      <4>2. r.curve <= id.skip + state.done \/ r.curve = id.skip + state.done + 1
        BY <1>2, <2>1 DEF Covers
      <4>3. QED BY <1>1, <2>1, <2>2, <2>3, <4>1, <4>2
    <3>2. QED BY <3>1 DEF Covers
  <2>4. QED BY <1>0, <2>1, <2>2, <2>3, ReportPut
<1>7. CASE Reconfigure
  <2>1. /\ HasTask /\ id' = id /\ state' = Reconfigured /\ UNCHANGED <<ledger, batches>>
        /\ progress' = [progress EXCEPT ![id] = state'] /\ ~Sealed' /\ ~Unresolved
    BY <1>7 DEF Reconfigure, Reconfigured, Goto, HasTask, HasRow, Sealed
  <2>2. /\ state' \in State /\ state'.done = state.done
        /\ SamePolicy => state'.pending = state.pending
        /\ state'.b2 = row.b2
    BY <1>0, <2>1, ReconfiguredIsState
  <2>3. ASSUME NEW s, s = state' PROVE Covers(id, s)
    <3>1. ASSUME NEW r \in Open(id)
          PROVE  \/ r.curve <= id.skip + s.done
                 \/ s.pending # 0 /\ r.curve = id.skip + s.done + 1 /\ r.b2 = s.b2
      <4>1. CASE r.curve <= id.skip + state.done
        BY <2>2, <2>3, <4>1
      <4>2. CASE state.pending # 0 /\ r.curve = id.skip + state.done + 1 /\ r.b2 = state.b2
        <5>1. Attempted(NextCurve)
          BY <1>1, <2>1, <4>2 DEF Attempted, AttemptedFor, Open
        <5>2. SamePolicy
          BY <2>1, <4>2, <5>1 DEF Unresolved
        <5>3. QED BY <2>2, <2>3, <4>2, <5>2 DEF SamePolicy
      <4>3. QED BY <1>2, <2>1, <4>1, <4>2 DEF Covers
    <3>2. QED BY <3>1 DEF Covers
  <2>4. QED BY <1>0, <2>1, <2>2, <2>3, ReportPut
<1>8. CASE Launch
  <2>1. /\ HasTask /\ id' = id /\ UNCHANGED <<ledger, batches>>
        /\ state' = [state EXCEPT !.pending = token + 1, !.path = path]
        /\ progress' = [progress EXCEPT ![id] = state'] /\ ~Sealed'
    BY <1>8 DEF Launch, Goto, HasTask, HasRow, Sealed
  <2>2. /\ state' \in State /\ state'.done = state.done /\ state'.b2 = state.b2
        /\ state'.pending # 0
    BY <1>0, <2>1, LaunchedIsState
  <2>3. ASSUME NEW s, s = state' PROVE Covers(id, s)
    BY <1>2, <2>1, <2>2, <2>3 DEF Covers
  <2>4. QED BY <1>0, <2>1, <2>2, <2>3, ReportPut
<1>9. CASE Publish
  <2> DEFINE new == [curve |-> NextCurve, b2 |-> state.b2, task |-> id]
  <2>1. /\ HasTask /\ Running /\ UNCHANGED <<progress, batches, output, id, state, row>>
        /\ HasTask' /\ ~Sealed' /\ ~Shown' /\ state.pending # 0
        /\ \/ ledger' = ledger
           \/ /\ ledger' = ledger \cup {new}
              /\ ~\E r \in ledger : r.curve = NextCurve /\ r.b2 = state.b2
    BY <1>9 DEF Publish, Goto, HasTask, HasRow, Running, Sealed, Shown, mem, aux, DurableInv
  <2>2. new.curve = id.skip + state.done + 1 /\ new.b2 = state.b2 /\ new.task = id
    BY <1>1, <2>1
  <2>3. progress[id] # None /\ state = progress[id]
    BY <2>1 DEF ReportInv
  <2>4. ReportedOnce'
    BY <2>1 DEF ReportInv, ReportedOnce
  <2>5. ASSUME NEW i \in Ids PROVE OpenOK(i)'
    <3>1. CASE ledger' = ledger
      BY <2>1, <3>1 DEF ReportInv, OpenOK, Open, Covers
    <3>2. CASE /\ ledger' = ledger \cup {new}
               /\ ~\E r \in ledger : r.curve = NextCurve /\ r.b2 = state.b2
      <4>1. \A r \in Open(i)' : r \in Open(i) \/ r = new
        BY <2>1, <3>2 DEF Open, Hit
      <4>2. CASE i # id
        <5>1. Open(i)' = Open(i)
          BY <2>1, <2>2, <3>2, <4>2 DEF Open, Hit
        <5>2. QED BY <2>1, <5>1 DEF ReportInv, OpenOK, Covers
      <4>3. CASE i = id
        <5>1. \A r \in Open(id) : r.curve # NextCurve
          <6>1. ASSUME NEW r \in Open(id), r.curve = NextCurve PROVE FALSE
            <7>1. ~(r.curve <= id.skip + state.done)
              BY <1>1, <2>1, <6>1
            <7>2. r.b2 = state.b2 /\ r \in ledger
              BY <1>2, <2>1, <7>1 DEF Covers, Open
            <7>3. QED BY <3>2, <6>1, <7>2
          <6>2. QED BY <6>1
        <5>2. new.curve = NextCurve
          OBVIOUS
        <5> HIDE DEF new
        <5>3. \A r, q \in Open(i)' : r.curve = q.curve => r = q
          BY <4>1, <4>3, <5>1, <5>2 DEF ReportInv, OpenOK
        <5>4. \A r \in Open(i)' :
                 \/ r.curve <= i.skip + state.done
                 \/ state.pending # 0 /\ r.curve = i.skip + state.done + 1 /\ r.b2 = state.b2
          BY <1>2, <2>1, <2>2, <4>1, <4>3 DEF Covers
        <5>5. Covers(i, progress[i])'
          BY <2>1, <2>3, <4>3, <5>4 DEF Covers
        <5>6. QED BY <2>1, <2>3, <4>3, <5>3, <5>5 DEF OpenOK
      <4>4. QED BY <4>2, <4>3
    <3>3. QED BY <2>1, <3>1, <3>2
  <2>6. QED BY <2>1, <2>3, <2>4, <2>5 DEF ReportInv
<1>10. CASE Seal
  <2>1. /\ HasTask /\ UNCHANGED <<progress, ledger, id, state>> /\ pc' = "render" /\ Running
        /\ batches' = IF Open(id) = {} THEN batches ELSE batches \cup {Open(id)}
    BY <1>10 DEF Seal, Goto, HasTask, HasRow, Running, mem, Open, Unsealed
  <2>2. batches \subseteq batches' /\ \A b \in batches' : b \in batches \/ b = Open(id)
    BY <2>1
  <2>3. \A r \in Open(id) : \E b \in batches' : r \in b
    BY <2>1
  <2>4. \A i : Open(i)' \subseteq Open(i)
    BY <2>1, <2>2 DEF Open, Hit
  <2>5. Open(id)' = {}
    BY <2>1, <2>2, <2>3 DEF Open, Hit
  <2>6. \A b \in batches : b \cap Open(id) = {}
    BY DEF Open
  <2>7. ReportedOnce'
    <3>1. \A b, c \in batches' : b # c => b \cap c = {}
      BY <2>2, <2>6 DEF ReportInv, ReportedOnce
    <3>2. \A b \in batches' : \A r, q \in b : r.curve = q.curve => r = q
      BY <1>0, <2>1, <2>2 DEF ReportInv, ReportedOnce, OpenOK
    <3>3. QED BY <3>1, <3>2 DEF ReportedOnce
  <2>8. \A i \in Ids : OpenOK(i)'
    <3>1. ASSUME NEW i \in Ids PROVE OpenOK(i)'
      <4>1. \A r \in Open(i)' : r \in Open(i)
        BY <2>4
      <4>2. \A r, q \in Open(i)' : r.curve = q.curve => r = q
        BY <4>1 DEF ReportInv, OpenOK
      <4>3. progress'[i] = None => Open(i)' = {}
        BY <2>1, <4>1 DEF ReportInv, OpenOK
      <4>4. progress'[i] # None => Covers(i, progress[i])'
        BY <2>1, <4>1 DEF ReportInv, OpenOK, Covers
      <4>5. QED BY <4>2, <4>3, <4>4 DEF OpenOK
    <3>2. QED BY <3>1
  <2>9. HasTask' /\ Running' /\ ~Shown'
    BY <2>1 DEF HasTask, HasRow, Running, Shown
  <2>10. QED BY <2>1, <2>5, <2>7, <2>8, <2>9 DEF ReportInv
<1>11. CASE Render
  <2>1. /\ HasTask /\ Running /\ Sealed /\ pc' = "check" /\ output' = Rendered
        /\ UNCHANGED <<progress, ledger, batches, id, state>>
    BY <1>11 DEF Render, Goto, HasTask, HasRow, Running, Sealed, mem
  <2>2. Open(id) = {}
    BY <2>1 DEF ReportInv
  <2>3. ASSUME NEW r \in ledger, r.task = id PROVE \E b \in output' : r \in b
    <3>1. CASE Hit(r.curve, r.b2)
      BY <2>1, <3>1 DEF Rendered
    <3>2. CASE ~Hit(r.curve, r.b2)
      <4>1. PICK b \in batches : r \in b
        BY <2>2, <2>3, <3>2 DEF Open
      <4>2. QED BY <2>1, <4>1 DEF Rendered
    <3>3. QED BY <3>1, <3>2
  <2>4. \A i \in Ids : OpenOK(i)'
    BY <2>1 DEF ReportInv, OpenOK, Open, Covers
  <2>5. ReportedOnce'
    BY <2>1 DEF ReportInv, ReportedOnce
  <2>6. Open(id)' = {}
    BY <2>1, <2>2 DEF Open
  <2>7. QED BY <2>1, <2>3, <2>4, <2>5, <2>6 DEF ReportInv, Fresh
<1>12. CASE Clean
  <2>1. /\ HasTask /\ Sealed /\ pc' = "head" /\ UNCHANGED <<ledger, batches>>
        /\ progress' = [progress EXCEPT ![id] = None]
    BY <1>12 DEF Clean, Goto, HasTask, HasRow, Sealed
  <2>2. ASSUME NEW i \in Ids PROVE OpenOK(i)'
    <3>1. Open(i)' = Open(i)
      BY <2>1 DEF Open
    <3>2. CASE i = id
      <4>1. Open(i) = {} /\ progress'[i] = None
        BY <1>0, <2>1, <3>2 DEF ReportInv
      <4>2. QED BY <3>1, <4>1 DEF OpenOK
    <3>3. CASE i # id
      <4>1. progress'[i] = progress[i]
        BY <1>0, <2>1, <3>3
      <4>2. QED BY <3>1, <4>1 DEF ReportInv, OpenOK, Covers
    <3>4. QED BY <3>2, <3>3
  <2>3. ReportedOnce'
    BY <2>1 DEF ReportInv, ReportedOnce
  <2>4. ~HasTask' /\ ~Running' /\ ~Sealed' /\ ~Shown'
    BY <2>1 DEF HasTask, HasRow, Running, Sealed, Shown
  <2>5. QED BY <2>2, <2>3, <2>4 DEF ReportInv
<1>13. QED
  BY <1>3, <1>4, <1>5, <1>6, <1>7, <1>8, <1>9, <1>10, <1>11, <1>12
  DEF Next, Take, Curve, Finish

LEMMA ReportInit == Init => ReportInv
BY DEF Init, ReportInv, ReportedOnce, OpenOK, Open, Covers, HasTask, HasRow, Running, Sealed, Shown

LEMMA ReportAlways == Spec => [](TypeInv /\ DurableInv /\ ReportInv)
BY InitType, StepType, DurableInit, DurableStep, ReportInit, ReportStep, PTL DEF Spec

\* No receipt is in two batches, and no batch reports a curve under two bounds,
\* however often a task is interrupted, repeated and given another policy.
THEOREM ReportedOnceCorrect == Spec => []ReportedOnce
<1>1. ReportInv => ReportedOnce  BY DEF ReportInv
<1>2. QED BY <1>1, ReportAlways, PTL

\* When a row leaves the queue, the output shows every receipt of its task.
THEOREM RemovedIsReportedCorrect == Spec => RemovedIsReported
<1>1. TypeInv /\ DurableInv /\ ReportInv /\ [Next]_vars
        => [removed' # removed =>
               \A r \in ledger : r.task = id => \E b \in output : r \in b]_vars
  <2> SUFFICES ASSUME ReportInv, Next, removed' # removed
               PROVE  \A r \in ledger : r.task = id => \E b \in output : r \in b
    BY DEF vars, aux
  <2>1. CASE RemoveRow
    BY <2>1 DEF RemoveRow, ReportInv, Shown
  <2>2. CASE ~RemoveRow
    <3> USE DEF aux
    <3>1. ~Take
      BY DEF Take, Start, Exit, ReadRow, RejectRow, Load, Recover, Reconfigure, Refuse
    <3>2. ~Curve
      BY DEF Curve, Launch, Publish, ExportFactor, Answer, Count
    <3>3. ~(Finish /\ ~RemoveRow)
      BY DEF Finish, Seal, Render, Check, Record, Clean
    <3>4. ~Around
      BY DEF Around, Crash, Stop, Grow, EditRow, ChangePath
    <3>5. QED BY <2>2, <3>1, <3>2, <3>3, <3>4 DEF Next
  <2>3. QED BY <2>1, <2>2
<1>2. QED BY <1>1, ReportAlways, PTL DEF Spec, RemovedIsReported

\* A checkpoint on disk keeps its run and its count, or counts the curve whose
\* result line has appeared; only its removal ends it.
THEOREM ProgressKeptCorrect == Spec => ProgressKept
<1> DEFINE Kept(i) ==
      progress[i] # None /\ progress'[i] # None =>
          /\ progress'[i].run = progress[i].run
          /\ \/ progress'[i].done = progress[i].done
             \/ /\ progress'[i].done = progress[i].done + 1
                /\ ResultWritten(progress[i].path, progress[i].pending)
<1>1. TypeInv /\ SoundInv /\ ReportInv /\ [Next]_vars => \A i \in Ids : Kept(i)
  <2> SUFFICES ASSUME TypeInv, SoundInv, ReportInv, [Next]_vars, NEW i \in Ids,
                      progress[i] # None, progress'[i] # None
               PROVE  /\ progress'[i].run = progress[i].run
                      /\ \/ progress'[i].done = progress[i].done
                         \/ /\ progress'[i].done = progress[i].done + 1
                            /\ ResultWritten(progress[i].path, progress[i].pending)
    OBVIOUS
  <2>0. /\ HasTask => id \in Ids /\ state \in State /\ row \in Variants
        /\ token \in Nat /\ plan \in Nat /\ path \in Paths
        /\ progress \in [Ids -> State \cup {None}]
    BY DEF TypeInv, TypeOK, MemOK
  <2>1. ASSUME progress' = [progress EXCEPT ![id] = state'], i # id
        PROVE  progress'[i] = progress[i]
    BY <2>0, <2>1
  <2>2. ASSUME HasTask, progress' = [progress EXCEPT ![id] = state'], i = id
        PROVE  progress'[i] = state' /\ progress[i] = state /\ progress[i].run # 0
    BY <2>0, <2>2 DEF ReportInv, SoundInv, CheckpointLoadable
  <2>3. CASE Quiet \/ Load \/ Publish \/ Answer
    <3>1. progress' = progress
      BY <2>3, QuietIsSteady DEF Steady, Load, Publish, Answer, disk
    <3>2. QED BY <3>1
  <2>4. CASE Recover \/ Count
    <3>1. /\ HasTask /\ state' = Counted(state) /\ Answered
          /\ progress' = [progress EXCEPT ![id] = state']
      BY <2>4 DEF Recover, Count, Goto, HasTask, HasRow
    <3>2. CASE i # id  BY <2>1, <3>1, <3>2
    <3>3. CASE i = id
      <4>1. state'.run = state.run /\ state'.done = state.done + 1
        BY <2>0, <3>1, CountedIsState
      <4>2. QED BY <2>2, <3>1, <3>3, <4>1 DEF Answered
    <3>4. QED BY <3>2, <3>3
  <2>5. CASE Reconfigure
    <3>1. HasTask /\ state' = Reconfigured /\ progress' = [progress EXCEPT ![id] = state']
      BY <2>5 DEF Reconfigure, Reconfigured, Goto, HasTask, HasRow
    <3>2. CASE i # id  BY <2>1, <3>1, <3>2
    <3>3. CASE i = id
      <4>1. /\ state'.run = IF state.run = 0 THEN token + 1 ELSE state.run
            /\ state'.done = state.done
        BY <2>0, <3>1, ReconfiguredIsState
      <4>2. QED BY <2>2, <3>1, <3>3, <4>1
    <3>4. QED BY <3>2, <3>3
  <2>6. CASE Launch
    <3>1. /\ HasTask /\ state' = [state EXCEPT !.pending = token + 1, !.path = path]
          /\ progress' = [progress EXCEPT ![id] = state']
      BY <2>6 DEF Launch, Goto, HasTask, HasRow
    <3>2. CASE i # id  BY <2>1, <3>1, <3>2
    <3>3. CASE i = id
      <4>1. state'.run = state.run /\ state'.done = state.done
        BY <2>0, <3>1, LaunchedIsState
      <4>2. QED BY <2>2, <3>1, <3>3, <4>1
    <3>4. QED BY <3>2, <3>3
  <2>7. CASE Clean
    BY <2>0, <2>7 DEF Clean
  <2>8. QED
    BY <2>3, <2>4, <2>5, <2>6, <2>7 DEF Next, Take, Curve, Finish, Quiet
<1>2. TypeInv /\ SoundInv /\ ReportInv /\ [Next]_vars
        => [\A i \in Ids : progress[i] # None /\ progress'[i] # None =>
              /\ progress'[i].run = progress[i].run
              /\ \/ progress'[i].done = progress[i].done
                 \/ /\ progress'[i].done = progress[i].done + 1
                    /\ ResultWritten(progress[i].path, progress[i].pending)]_vars
  BY <1>1
<1>3. QED
  BY <1>2, ReportAlways, InitType, StepType, SoundInit, SoundStep, PTL DEF Spec, ProgressKept
=============================================================================
