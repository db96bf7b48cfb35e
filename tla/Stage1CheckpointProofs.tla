----------------------- MODULE Stage1CheckpointProofs -----------------------
(***************************************************************************)
(* Theorems about Stage1Checkpoint, for every number of backups, setting,  *)
(* length of a batch, number of batches and number of faults.              *)
(***************************************************************************)
EXTENDS Stage1Checkpoint, WellFoundedInduction, FiniteSetTheorems, TLAPS

USE MaxBackupsAssumption, LimitsAssumption, BoundsAssumption

\* Which generation a session opens is one of the files it can use.
LEMMA FirstOfSlots ==
  ASSUME NEW S \in SUBSET Slots, S # {}
  PROVE  First(S) \in S /\ \A t \in S : First(S) <= t
<1>1. PICK R : /\ IsWellFoundedOn(R, Nat)
               /\ \A x, y \in Nat : y < x => <<y, x>> \in R
  <2>1. IsWellFoundedOn(OpToRel(<, Nat), Nat)
    BY NatLessThanWellFounded
  <2>2. \A x, y \in Nat : y < x => <<y, x>> \in OpToRel(<, Nat)
    BY DEF OpToRel
  <2>3. QED BY <2>1, <2>2, Zenon
<1>2. S \in SUBSET Nat
  BY DEF Slots
<1>3. PICK x \in S : \A y \in S : ~(<<y, x>> \in R)
  BY <1>1, <1>2, WFMin
<1>4. ASSUME NEW y \in S PROVE x <= y
  <2>1. x \in Nat /\ y \in Nat
    BY <1>2
  <2>2. ~(y < x)
    BY <1>1, <1>3, <2>1
  <2>3. QED BY <2>1, <2>2
<1>5. QED BY <1>4 DEF First

LEMMA SelectedIsGeneration ==
  ASSUME NEW l \in Slots, NEW u, NEW s \in Selected(l, u)
  PROVE  s \in Slots /\ file[s] \in Generation
<1> DEFINE accepted == {t \in 0..l : Accepted(t)} \cap ({t \in 0..l : Decoded(t)} \ u)
<1>1. accepted \in SUBSET Slots
  BY DEF Slots
<1>2. {t \in {r \in 0..l : Decoded(r)} \ u : Accepted(t)} = accepted
  OBVIOUS
<1>3. accepted # {} /\ s = First(accepted)
  BY <1>2 DEF Selected
<1>4. s \in accepted
  BY <1>1, <1>3, FirstOfSlots
<1>5. QED BY <1>1, <1>4 DEF Accepted

LEMMA UnreadIsNat ==
  ASSUME NEW u \in SUBSET Slots
  PROVE  Cardinality(u) \in Nat
<1>1. MaxBackups \in Int /\ 0 \in Int
  OBVIOUS
<1>2. IsFiniteSet(Slots)
  BY <1>1, FS_Interval DEF Slots
<1>3. IsFiniteSet(u)
  BY <1>2, FS_Subset
<1>4. QED BY <1>3, FS_CardinalityType

-----------------------------------------------------------------------------
(* Type correctness, one lemma per group of steps.                          *)

LEMMA TypeBegin ==
  ASSUME TypeOK, NEW l \in Limits, NEW u \in SUBSET Slots,
         BeginFresh(l) \/ BeginResumed(l, u) \/ BeginRefused(l, u)
  PROVE  TypeOK'
<1>1. l \in Slots /\ Cardinality(u) \in Nat
  BY UnreadIsNat DEF Slots
<1>2. CASE BeginFresh(l)
  <2>1. Cardinality({}) = 0
    BY FS_EmptySet
  <2>2. faults' = faults + 0
    BY <1>2, <2>1 DEF BeginFresh, Open
  <2>3. /\ pc' = "run" /\ memory' = 0 /\ badPrimary' = FALSE /\ limit' = l
        /\ least' = IF l < least THEN l ELSE least
        /\ UNCHANGED <<file, temp, slot, receipt, batch, peak>> /\ ~receipt
    BY <1>2 DEF BeginFresh, Open
  <2>4. least' \in Slots /\ faults' \in 0..MaxFault
    BY <1>1, <2>2, <2>3 DEF TypeOK, Slots
  <2>5. limit' \in Slots /\ memory' \in -1..MaxProgress /\ memory' # -1 /\ InSession'
    BY <1>1, <2>3 DEF InSession
  <2>6. QED BY <2>3, <2>4, <2>5 DEF TypeOK, Places
<1>3. CASE BeginResumed(l, u)
  <2>1. PICK s \in Selected(l, u) : Open(l, u, file[s].progress, s # 0)
    BY <1>3 DEF BeginResumed
  <2>2. file[s].progress \in 1..MaxProgress
    BY <1>1, SelectedIsGeneration DEF Generation
  <2>3. QED BY <1>1, <1>3, <2>1, <2>2 DEF TypeOK, BeginResumed, Open, InSession, Places
<1>4. CASE BeginRefused(l, u)
  BY <1>1, <1>4 DEF TypeOK, BeginRefused, InSession, Places
<1>5. QED BY <1>2, <1>3, <1>4

LEMMA TypeFlush ==
  ASSUME TypeOK, WriteTemp \/ Rotate \/ Copy \/ Replace \/ Prune \/ FlushFails
  PROVE  TypeOK'
<1> USE DEF TypeOK, InSession, Places, Slots
<1>1. CASE WriteTemp
  <2>1. temp' \in Generation
    BY <1>1 DEF WriteTemp, Generation
  <2>2. QED BY <1>1, <2>1 DEF WriteTemp, AfterTemp
<1>2. CASE Rotate
  <2>1. slot \in 2..MaxBackups
    BY <1>2 DEF Rotate
  <2>2. file' \in [Slots -> Content]
    BY <1>2, <2>1 DEF Rotate, Content
  <2>3. QED BY <1>2, <2>1, <2>2 DEF Rotate
<1>3. CASE Copy
  <2>1. file' \in [Slots -> Content]
    BY <1>3 DEF Copy
  <2>2. QED BY <1>3, <2>1 DEF Copy
<1>4. CASE Replace
  <2>1. file' \in [Slots -> Content]
    BY <1>4 DEF Replace, Content, Generation
  <2>2. /\ memory \in 0..MaxProgress /\ memory < MaxProgress /\ memory' = memory + 1
        /\ peak' = IF memory + 1 > peak THEN memory + 1 ELSE peak
    BY <1>4 DEF Replace
  <2>3. memory' \in 1..MaxProgress /\ peak' \in 0..MaxProgress
    BY <2>2
  <2>4. pc' = "prune" /\ temp' = NoFile /\ badPrimary' = FALSE /\ memory' # -1
        /\ UNCHANGED <<slot, limit, receipt, batch, faults, least>>
    BY <1>4, <2>3 DEF Replace
  <2>5. memory' \in -1..MaxProgress
    BY <2>3
  <2>6. QED BY <2>1, <2>3, <2>4, <2>5
<1>5. CASE Prune
  <2>1. file' \in [Slots -> Content]
    BY <1>5 DEF Prune, Content
  <2>2. QED BY <1>5, <2>1 DEF Prune
<1>6. CASE FlushFails
  <2>1. file' \in [Slots -> Content]
    BY <1>6 DEF FlushFails, Content
  <2>2. temp' \in Generation \union {NoFile, Bad}
    BY <1>6 DEF FlushFails
  <2>3. QED BY <1>6, <2>1, <2>2 DEF FlushFails, CanFail
<1>7. QED BY <1>1, <1>2, <1>3, <1>4, <1>5, <1>6

LEMMA TypeEnd ==
  ASSUME TypeOK, Close \/ Publish \/ RemoveFile \/ Acknowledge \/ Recover \/ Rerun \/ Crash
                 \/ \E s \in Slots : Damage(s)
  PROVE  TypeOK'
<1> USE DEF TypeOK, InSession, Places, Slots
<1>1. CASE Close
  <2>1. memory' = -1 /\ memory' \in -1..MaxProgress
    BY <1>1 DEF Close
  <2>2. QED BY <1>1, <2>1 DEF Close
<1>2. CASE Publish
  <2>1. memory' = -1 /\ memory' \in -1..MaxProgress
    BY <1>2 DEF Publish
  <2>2. /\ receipt' = TRUE /\ pc' = "remove" /\ slot' = 0 /\ badPrimary' = FALSE /\ peak' = 0
        /\ UNCHANGED <<file, temp, limit, batch, faults, least>> /\ batch < MaxBatch
    BY <1>2 DEF Publish
  <2>3. slot' \in 0..MaxBackups /\ peak' \in 0..MaxProgress
    BY <2>2
  <2>4. QED BY <2>1, <2>2, <2>3
<1>3. CASE RemoveFile
  <2>1. file' \in [Slots -> Content]
    BY <1>3 DEF RemoveFile, Content
  <2>2. QED BY <1>3, <2>1 DEF RemoveFile
<1>4. CASE Acknowledge
  <2>1. receipt /\ batch < MaxBatch /\ batch' = batch + 1
    BY <1>4 DEF Acknowledge
  <2>2. batch' \in 1..MaxBatch
    BY <2>1
  <2>3. QED BY <1>4, <2>2 DEF Acknowledge
<1>5. CASE Recover
  BY <1>5 DEF Recover
<1>6. CASE Rerun
  BY <1>6 DEF Rerun
<1>7. CASE Crash
  <2>1. file' \in [Slots -> Content]
    BY <1>7 DEF Crash, Content
  <2>2. temp' \in Generation \union {NoFile, Bad}
    BY <1>7 DEF Crash
  <2>3. memory' = -1 /\ memory' \in -1..MaxProgress /\ faults' \in 0..MaxFault
    BY <1>7 DEF Crash, CanFail
  <2>4. QED BY <1>7, <2>1, <2>2, <2>3 DEF Crash
<1>8. ASSUME NEW s \in Slots, Damage(s)
      PROVE  TypeOK'
  <2>1. file' \in [Slots -> Content]
    <3>1. [file EXCEPT ![s] = Bad] \in [Slots -> Content]
      BY DEF Content
    <3>2. [file[s] EXCEPT !.sound = FALSE] \in Generation
      BY <1>8 DEF Damage, Generation
    <3>3. [file EXCEPT ![s].sound = FALSE] \in [Slots -> Content]
      BY <3>2 DEF Content
    <3>4. QED BY <1>8, <3>1, <3>3 DEF Damage
  <2>2. QED BY <1>8, <2>1 DEF Damage, CanFail
<1>9. QED BY <1>1, <1>2, <1>3, <1>4, <1>5, <1>6, <1>7, <1>8

LEMMA TypeStep ==
  ASSUME TypeOK, [Next]_vars
  PROVE  TypeOK'
<1>1. CASE UNCHANGED vars
  BY <1>1 DEF TypeOK, vars, InSession
<1>2. CASE Next
  <2>1. {} \in SUBSET Slots
    OBVIOUS
  <2>2. QED BY <1>2, <2>1, TypeBegin, TypeFlush, TypeEnd DEF Next
<1>3. QED BY <1>1, <1>2

LEMMA TypeInit == Init => TypeOK
<1> SUFFICES ASSUME Init PROVE TypeOK
  OBVIOUS
<1>1. file \in [Slots -> Content]
  BY DEF Init, Content
<1>2. memory = -1 /\ memory \in -1..MaxProgress /\ batch \in 1..MaxBatch
  BY DEF Init
<1>3. /\ slot \in Slots /\ limit \in Slots /\ least \in Slots
      /\ peak \in 0..MaxProgress /\ faults \in 0..MaxFault
  BY DEF Init, Slots
<1>4. QED BY <1>1, <1>2, <1>3 DEF Init, TypeOK, InSession, Places

\* Every reachable state of a batch file is well typed: the rotation stays
\* within the backups of the session, and ".new" holds the generation to be.
THEOREM TypeCorrect == Spec => []TypeOK
<1>1. Init => TypeOK
  BY TypeInit
<1>2. TypeOK /\ [Next]_vars => TypeOK'
  BY TypeStep
<1>3. QED BY <1>1, <1>2, PTL DEF Spec

-----------------------------------------------------------------------------
(* The files of a batch end with it.                                        *)

NoGeneration(s) == file[s] \notin Generation

\* OwnBatch at a state without a receipt rests on what the removal has done
\* under the receipt: it goes through the files in order and leaves none.
BatchInv ==
  /\ \A s \in Slots : file[s] \in Generation => file[s].batch = batch
  /\ pc = "remove" => \A s \in Slots : s < slot => NoGeneration(s)
  /\ pc = "acknowledge" => \A s \in Slots : NoGeneration(s)

LEMMA NotAGeneration == NoFile \notin Generation /\ Bad \notin Generation /\ Foreign \notin Generation
BY ContentAssumption DEF Generation

\* Steps that write no file of the batch and do not end it.
LEMMA BatchQuiet ==
  ASSUME TypeOK, BatchInv, UNCHANGED <<file, batch>>,
         pc' \notin {"remove", "acknowledge"} \/ (pc' = "remove" /\ slot' = 0)
  PROVE  BatchInv'
<1>1. \A s \in Slots : ~(s < 0)
  BY DEF Slots
<1>2. QED BY <1>1 DEF BatchInv, NoGeneration, Generation

\* Steps that write files from the contents there are.
LEMMA BatchFlush ==
  ASSUME TypeOK, BatchInv, UNCHANGED batch, pc' \notin {"remove", "acknowledge"},
         \A s \in Slots : file'[s] \in Generation =>
           \/ \E t \in Slots : file[t] \in Generation /\ file'[s].batch = file[t].batch
           \/ file'[s].batch = batch
  PROVE  BatchInv'
<1>1. \A s \in Slots : file'[s] \in Generation => file'[s].batch = batch
  BY DEF BatchInv
<1>2. QED BY <1>1 DEF BatchInv, Generation

LEMMA BatchWrite ==
  ASSUME TypeOK, BatchInv, Rotate \/ Copy \/ Replace \/ Prune \/ FlushFails \/ Crash
  PROVE  BatchInv'
<1> USE NotAGeneration DEF Slots
<1> file \in [Slots -> Content]
  BY DEF TypeOK
<1>1. CASE Rotate
  <2>1. slot \in 2..MaxBackups
    BY <1>1 DEF Rotate, TypeOK
  <2>2. pc' \notin {"remove", "acknowledge"} /\ UNCHANGED batch
    BY <1>1 DEF Rotate
  <2>3. \A s \in Slots : file'[s] = NoFile \/ \E t \in Slots : file'[s] = file[t]
    BY <1>1, <2>1 DEF Rotate
  <2>4. QED BY <2>2, <2>3, BatchFlush
<1>2. CASE Copy
  <2>1. \A s \in Slots : \E t \in Slots : file'[s] = file[t]
    BY <1>2 DEF Copy
  <2>2. QED BY <1>2, <2>1, BatchFlush DEF Copy
<1>3. CASE Replace
  <2>1. temp.batch = batch
    BY <1>3 DEF Replace, TypeOK
  <2>2. \A s \in Slots : file'[s] = temp \/ file'[s] = file[s]
    BY <1>3 DEF Replace
  <2>3. QED BY <1>3, <2>1, <2>2, BatchFlush DEF Replace
<1>4. CASE Prune
  <2>1. \A s \in Slots : file'[s] = NoFile \/ file'[s] = file[s]
    BY <1>4 DEF Prune
  <2>2. QED BY <1>4, <2>1, BatchFlush DEF Prune
<1>5. CASE FlushFails
  <2>1. \A s \in Slots : file'[s] = Bad \/ file'[s] = file[s]
    BY <1>5 DEF FlushFails
  <2>2. QED BY <1>5, <2>1, BatchFlush DEF FlushFails
<1>6. CASE Crash
  <2>1. \A s \in Slots : file'[s] = Bad \/ file'[s] = file[s]
    BY <1>6 DEF Crash
  <2>2. QED BY <1>6, <2>1, BatchFlush DEF Crash
<1>7. QED BY <1>1, <1>2, <1>3, <1>4, <1>5, <1>6

\* Damage makes no generation where there was none, and changes no batch.
LEMMA BatchDamage ==
  ASSUME TypeOK, BatchInv, NEW d \in Slots, Damage(d)
  PROVE  BatchInv'
<1>1. file \in [Slots -> Content] /\ file[d] \in Generation
  BY DEF TypeOK, Damage
<1>2. \A s \in Slots : s # d => file'[s] = file[s]
  BY <1>1 DEF Damage
<1>3. file'[d] = Bad \/ file'[d] = [file[d] EXCEPT !.sound = FALSE]
  BY <1>1 DEF Damage
<1>4. file'[d] \in Generation => file'[d].batch = file[d].batch
  BY <1>1, <1>3, NotAGeneration DEF Generation
<1>5. UNCHANGED <<pc, slot, batch>>
  BY DEF Damage
<1>6. \A s \in Slots : file'[s] \in Generation =>
        file[s] \in Generation /\ file'[s].batch = file[s].batch
  BY <1>1, <1>2, <1>4
<1>7. QED BY <1>5, <1>6 DEF BatchInv, NoGeneration, Generation

\* The loop of the removal: one more file is gone, at its end all are.
LEMMA BatchRemove ==
  ASSUME TypeOK, BatchInv, RemoveFile
  PROVE  BatchInv'
<1>1. file \in [Slots -> Content] /\ slot \in Slots
  BY DEF TypeOK
<1>2. /\ \A s \in Slots : s # slot => file'[s] = file[s]
      /\ file'[slot] = NoFile
  BY <1>1 DEF RemoveFile
<1>3. \A s \in Slots : s <= slot => file'[s] \notin Generation
  BY <1>1, <1>2, NotAGeneration DEF RemoveFile, BatchInv, NoGeneration, Slots
<1>4. CASE slot = MaxBackups
  <2>1. \A s \in Slots : file'[s] \notin Generation
    BY <1>3, <1>4 DEF Slots
  <2>2. QED BY <1>4, <2>1 DEF RemoveFile, BatchInv, NoGeneration, Generation
<1>5. CASE slot # MaxBackups
  <2>1. pc' = "remove" /\ slot' = slot + 1 /\ batch' = batch
    BY <1>5 DEF RemoveFile
  <2>2. \A s \in Slots : s < slot + 1 => s <= slot
    BY <1>1 DEF Slots
  <2>3. \A s \in Slots : file'[s] \in Generation => file'[s].batch = batch
    BY <1>2, NotAGeneration DEF BatchInv
  <2>4. QED BY <1>3, <2>1, <2>2, <2>3 DEF BatchInv, NoGeneration, Generation
<1>6. QED BY <1>4, <1>5

LEMMA BatchStep ==
  ASSUME TypeOK, BatchInv, [Next]_vars
  PROVE  BatchInv'
<1>1. CASE UNCHANGED vars
  BY <1>1 DEF BatchInv, vars, NoGeneration, Generation
<1>2. ASSUME NEW l \in Limits, NEW u \in SUBSET Slots,
             BeginFresh(l) \/ BeginResumed(l, u) \/ BeginRefused(l, u)
      PROVE  BatchInv'
  BY <1>2, BatchQuiet DEF BeginFresh, BeginResumed, BeginRefused, Open
<1>3. CASE Rerun \/ WriteTemp \/ Close \/ Publish \/ Recover
  BY <1>3, BatchQuiet DEF Rerun, WriteTemp, AfterTemp, Close, Publish, Recover
<1>4. CASE Rotate \/ Copy \/ Replace \/ Prune \/ FlushFails \/ Crash
  BY <1>4, BatchWrite
<1>5. CASE RemoveFile
  BY <1>5, BatchRemove
<1>6. CASE Acknowledge
  BY <1>6 DEF Acknowledge, BatchInv, NoGeneration, Generation
<1>7. CASE \E s \in Slots : Damage(s)
  BY <1>7, BatchDamage
<1>8. CASE Next
  <2>1. {} \in SUBSET Slots
    OBVIOUS
  <2>2. QED BY <1>2, <1>3, <1>4, <1>5, <1>6, <1>7, <1>8, <2>1 DEF Next
<1>9. QED BY <1>1, <1>8

\* No generation of a published batch is resumed as a new task, however often
\* the removal is cut off and whatever settings the sessions had.
THEOREM OwnBatchCorrect == Spec => []OwnBatch
<1>1. Init => TypeOK /\ BatchInv
  <2> SUFFICES ASSUME Init PROVE BatchInv
    BY TypeInit
  <2>1. \A s \in Slots : file[s] \notin Generation
    BY NotAGeneration DEF Init
  <2>2. QED BY <2>1 DEF Init, BatchInv
<1>2. TypeOK /\ BatchInv /\ [Next]_vars => (TypeOK /\ BatchInv)'
  BY TypeStep, BatchStep
<1>3. BatchInv => OwnBatch
  BY DEF BatchInv, OwnBatch
<1>4. QED BY <1>1, <1>2, <1>3, PTL DEF Spec
-----------------------------------------------------------------------------
(* What a session rests on.                                                 *)

LEMMA FirstIsPrimary ==
  ASSUME NEW S \in SUBSET Slots, 0 \in S
  PROVE  First(S) = 0
<1>1. \A s \in S : 0 <= s
  BY DEF Slots
<1>2. \A t \in S : (\A s \in S : t <= s) => t = 0
  BY <1>1 DEF Slots
<1>3. QED BY <1>1, <1>2 DEF First

\* A good primary is what the next session would find.
LEMMA BestIsPrimary ==
  /\ Usable(0) => Best = file[0].progress
  /\ Usable(0)' => Best' = file'[0].progress
<1>0. 0 \in Slots
  BY DEF Slots
<1>1. ASSUME Usable(0) PROVE Best = file[0].progress
  <2> DEFINE usable == {s \in Slots : Usable(s)}
  <2>1. usable \in SUBSET Slots /\ 0 \in usable
    BY <1>0, <1>1
  <2>2. First(usable) = 0
    BY <2>1, FirstIsPrimary
  <2>3. QED BY <2>1, <2>2 DEF Best
<1>2. ASSUME Usable(0)' PROVE Best' = file'[0].progress
  <2> DEFINE usable == {s \in Slots : Usable(s)'}
  <2>1. usable \in SUBSET Slots /\ 0 \in usable
    BY <1>0, <1>2
  <2>2. First(usable) = 0
    BY <2>1, FirstIsPrimary
  <2>3. Best' = file'[First(usable)].progress
    BY <2>1 DEF Best, Usable, First
  <2>4. QED BY <2>2, <2>3
<1>3. QED BY <1>1, <1>2

\* A primary found bad is replaced before any backup is touched.
PrimaryInv == pc \in {"rotate", "copy", "prune"} => ~badPrimary

LEMMA PrimaryStep == PrimaryInv /\ [Next]_vars => PrimaryInv'
<1> SUFFICES ASSUME PrimaryInv, [Next]_vars PROVE PrimaryInv'
  OBVIOUS
<1> USE DEF PrimaryInv
<1>1. CASE UNCHANGED vars
  BY <1>1 DEF vars
<1>2. ASSUME NEW l \in Limits, NEW u \in SUBSET Slots,
             BeginFresh(l) \/ BeginResumed(l, u) \/ BeginRefused(l, u)
      PROVE  PrimaryInv'
  BY <1>2 DEF BeginFresh, BeginResumed, BeginRefused, Open
<1>3. CASE WriteTemp \/ Rotate \/ Copy \/ Replace \/ Prune \/ FlushFails
  BY <1>3 DEF WriteTemp, AfterTemp, Rotate, Copy, Replace, Prune, FlushFails
<1>4. CASE Rerun \/ Close \/ Publish \/ RemoveFile \/ Acknowledge \/ Recover \/ Crash
  BY <1>4 DEF Rerun, Close, Publish, RemoveFile, Acknowledge, Recover, Crash
<1>5. ASSUME NEW s \in Slots, Damage(s) PROVE PrimaryInv'
  BY <1>5 DEF Damage
<1>6. QED
  <2>1. {} \in SUBSET Slots
    OBVIOUS
  <2>2. QED BY <1>1, <1>2, <1>3, <1>4, <1>5, <2>1 DEF Next

\* A step of a session that rests on its files leaves it as much, or is damage.
LEMMA SessionKeeps ==
  ASSUME TypeOK, PrimaryInv, Next, ~\E s \in Slots : Damage(s),
         InSession, Best >= memory, badPrimary \/ Usable(0)
  PROVE  Best' >= memory
<1>0. /\ file \in [Slots -> Content] /\ 0 \in Slots /\ memory \in -1..MaxProgress
      /\ pc = "rotate" => slot \in 2..limit /\ limit \in Slots
  BY DEF TypeOK, Slots
<1>1. ASSUME file' = file PROVE Best' >= memory
  <2>1. Best' = Best
    BY <1>1 DEF Best, Usable, First
  <2>2. QED BY <2>1
<1>2. ASSUME file'[0] = file[0], Usable(0) PROVE Best' >= memory
  <2>1. Usable(0)' /\ Best' = file'[0].progress /\ Best = file[0].progress
    BY <1>2, BestIsPrimary DEF Usable, Generation
  <2>2. QED BY <1>2, <2>1
<1>3. CASE Replace
  <2>1. file'[0] = temp /\ temp = [batch |-> batch, progress |-> memory + 1, sound |-> TRUE]
        /\ temp \in Generation
    <3>1. file'[0] = temp /\ temp = [batch |-> batch, progress |-> memory + 1, sound |-> TRUE]
          /\ memory < MaxProgress /\ batch \in 1..MaxBatch /\ memory # -1
      BY <1>0, <1>3 DEF Replace, TypeOK, InSession
    <3>2. memory + 1 \in 1..MaxProgress
      BY <1>0, <3>1
    <3>3. QED BY <3>1, <3>2 DEF Generation
  <2>2. Usable(0)'
    BY <2>1 DEF Usable, Generation
  <2>3. Best' = memory + 1
    BY <2>1, <2>2, BestIsPrimary
  <2>4. QED BY <1>0, <2>3
<1>4. CASE Rotate
  <2>1. ~badPrimary /\ slot \in 2..limit /\ limit \in Slots
    BY <1>0, <1>4 DEF Rotate, PrimaryInv
  <2>2. slot # 0 /\ slot - 1 # 0
    BY <2>1 DEF Slots
  <2>3. file'[0] = file[0]
    BY <1>0, <1>4, <2>2 DEF Rotate
  <2>4. QED BY <1>2, <2>1, <2>3
<1>5. CASE Copy \/ FlushFails \/ Crash
  <2>1. file' = file \/ (pc = "copy" /\ file'[0] = file[0])
    BY <1>0, <1>5 DEF Copy, FlushFails, Crash
  <2>2. QED BY <1>1, <1>2, <2>1 DEF PrimaryInv
<1>6. CASE Prune
  <2>1. ~badPrimary /\ file'[0] = file[0]
    <3>1. ~(0 > limit)
      BY DEF TypeOK, Slots
    <3>2. QED BY <1>0, <1>6, <3>1 DEF Prune, PrimaryInv
  <2>2. QED BY <1>2, <2>1
<1>7. CASE WriteTemp \/ Close \/ Publish
  BY <1>1, <1>7 DEF WriteTemp, Close, Publish
<1>8. ~(Rerun \/ RemoveFile \/ Acknowledge \/ Recover)
  BY DEF Rerun, RemoveFile, Acknowledge, Recover, InSession
<1>9. ASSUME NEW l, NEW u PROVE ~(BeginFresh(l) \/ BeginResumed(l, u) \/ BeginRefused(l, u))
  BY DEF BeginFresh, BeginResumed, BeginRefused, InSession
<1>10. QED BY <1>3, <1>4, <1>5, <1>6, <1>7, <1>8, <1>9 DEF Next

\* As long as the primary is good, or known to be bad, nothing but damage takes
\* the files below what the session holds: not a rename, a copy, a replacement,
\* a failed call or a crash between any two of them.
THEOREM OnlyDamageLosesCorrect == Spec => OnlyDamageLoses
<1>1. TypeOK /\ PrimaryInv /\ [Next]_vars =>
        [InSession /\ Best >= memory /\ (badPrimary \/ Usable(0)) =>
           Best' >= memory \/ \E s \in Slots : Damage(s)]_vars
  BY SessionKeeps
<1>2. Init => TypeOK /\ PrimaryInv
  BY TypeInit DEF Init, PrimaryInv
<1>3. TypeOK /\ PrimaryInv /\ [Next]_vars => (TypeOK /\ PrimaryInv)'
  BY TypeStep, PrimaryStep
<1>4. QED BY <1>1, <1>2, <1>3, PTL DEF Spec, OnlyDamageLoses

-----------------------------------------------------------------------------
(***************************************************************************)
(* The register.  Its value is the progress of the first usable file; what *)
(* the next files are worth is needed to know what it may fall back to, so *)
(* the usable generations below a file are counted.                        *)
(***************************************************************************)
Good(x) == x \in Generation /\ x.sound
One(x) == IF Good(x) THEN 1 ELSE 0
GoodBelow(f, t) == {s \in Slots : s < t /\ Good(f[s])}
Below(f, t) == Cardinality(GoodBelow(f, t))
All(f) == Below(f, MaxBackups + 1)

\* How many usable files lie below t.
LEMMA SomeBelow ==
  ASSUME NEW f, NEW t \in Nat
  PROVE  /\ Below(f, t) \in Nat /\ IsFiniteSet(GoodBelow(f, t))
         /\ Below(f, t) = 0 <=> \A s \in Slots : s < t => ~Good(f[s])
<1>1. IsFiniteSet(Slots)
  BY FS_Interval DEF Slots
<1>2. IsFiniteSet(GoodBelow(f, t))
  BY <1>1, FS_Subset DEF GoodBelow
<1>3. Below(f, t) \in Nat
  BY <1>2, FS_CardinalityType DEF Below
<1>4. Below(f, t) = 0 <=> GoodBelow(f, t) = {}
  BY <1>2, FS_EmptySet DEF Below
<1>5. QED BY <1>2, <1>3, <1>4 DEF GoodBelow

\* No file is counted twice.
LEMMA BelowSteps ==
  ASSUME NEW f, NEW a \in Nat, NEW b \in Nat, a <= b
  PROVE  Below(f, a) <= Below(f, b) /\ Below(f, b) <= Below(f, a) + (b - a)
<1> DEFINE m == {s \in Slots : a <= s /\ s < b /\ Good(f[s])}
<1>1. /\ GoodBelow(f, b) = GoodBelow(f, a) \cup m /\ GoodBelow(f, a) \cap m = {}
  BY DEF GoodBelow, Slots
<1>2. IsFiniteSet(m) /\ Cardinality(m) \in Nat /\ Cardinality(m) <= b - a
  <2>1. m \in SUBSET (a..(b - 1))
    BY DEF Slots
  <2>2. IsFiniteSet(a..(b - 1)) /\ Cardinality(a..(b - 1)) = b - a
    <3>1. a \in Int /\ b - 1 \in Int /\ (b - 1) - a + 1 = b - a /\ (a > b - 1 => b - a = 0)
      OBVIOUS
    <3>2. IsFiniteSet(a..(b - 1)) /\ Cardinality(a..(b - 1)) = IF a > b - 1 THEN 0 ELSE (b - 1) - a + 1
      BY ONLY <3>1, FS_Interval
    <3>3. QED BY <3>1, <3>2
  <2>3. QED BY <2>1, <2>2, FS_Subset, FS_CardinalityType
<1> HIDE DEF m
<1>3. /\ IsFiniteSet(GoodBelow(f, a)) /\ Below(f, a) \in Nat /\ Cardinality({}) = 0
  BY SomeBelow, FS_EmptySet
<1>4. Cardinality(GoodBelow(f, a) \cup m) = Cardinality(GoodBelow(f, a)) + Cardinality(m) - Cardinality({})
  BY <1>1, <1>2, <1>3, FS_Union
<1>5. Below(f, b) = Below(f, a) + Cardinality(m)
  BY <1>1, <1>2, <1>3, <1>4 DEF Below
<1>6. QED BY <1>2, <1>3, <1>5

\* One file more: it counts if it is usable.
LEMMA BelowNext ==
  ASSUME NEW f, NEW t \in Slots
  PROVE  Below(f, t + 1) = Below(f, t) + One(f[t])
<1>0. t \in Nat /\ IsFiniteSet(GoodBelow(f, t)) /\ Below(f, t) \in Nat
  BY SomeBelow DEF Slots
<1>1. GoodBelow(f, t + 1) = IF Good(f[t]) THEN GoodBelow(f, t) \cup {t} ELSE GoodBelow(f, t)
  BY DEF GoodBelow, Slots
<1>2. t \notin GoodBelow(f, t)
  BY <1>0 DEF GoodBelow
<1>3. Cardinality(GoodBelow(f, t) \cup {t}) = Cardinality(GoodBelow(f, t)) + 1
  BY <1>0, <1>2, FS_AddElement
<1>4. QED BY <1>0, <1>1, <1>3 DEF Below, One

\* Files that are the same count the same.
LEMMA BelowSame ==
  ASSUME NEW f, NEW g, NEW t \in Nat, \A s \in Slots : s < t => g[s] = f[s]
  PROVE  Below(g, t) = Below(f, t)
<1>1. GoodBelow(g, t) = GoodBelow(f, t)
  BY DEF GoodBelow
<1>2. QED BY <1>1 DEF Below

\* A change of one file.
LEMMA BelowChange ==
  ASSUME NEW f, NEW g, NEW d \in Slots, NEW t \in Nat, \A s \in Slots : s # d => g[s] = f[s]
  PROVE  Below(g, t) = IF d < t THEN Below(f, t) + One(g[d]) - One(f[d]) ELSE Below(f, t)
<1>1. CASE ~(d < t)
  BY <1>1, BelowSame DEF Slots
<1>2. CASE d < t
  <2> DEFINE R == {s \in Slots : s < t /\ s # d /\ Good(f[s])}
  <2>1. /\ GoodBelow(f, t) = IF Good(f[d]) THEN R \cup {d} ELSE R
        /\ GoodBelow(g, t) = IF Good(g[d]) THEN R \cup {d} ELSE R
    BY <1>2 DEF GoodBelow
  <2>2. d \notin R /\ R \in SUBSET GoodBelow(f, t)
    BY DEF GoodBelow
  <2> HIDE DEF R
  <2>3. IsFiniteSet(R)
    BY <2>2, SomeBelow, FS_Subset
  <2>4. Cardinality(R) \in Nat /\ Cardinality(R \cup {d}) = Cardinality(R) + 1
    BY <2>2, <2>3, FS_AddElement, FS_CardinalityType
  <2>5. Below(f, t) = Cardinality(R) + One(f[d]) /\ Below(g, t) = Cardinality(R) + One(g[d])
    BY <2>1, <2>4 DEF Below, One
  <2>6. QED BY <1>2, <2>4, <2>5 DEF One
<1>3. QED BY <1>1, <1>2

-----------------------------------------------------------------------------
(* What the files are worth.                                               *)

BestIn(f) == LET usable == {s \in Slots : Good(f[s])}
             IN  IF usable = {} THEN 0 ELSE f[First(usable)].progress

\* Best, now and after a step, as a function of the files.
LEMMA BestIsBestIn == Best = BestIn(file) /\ Best' = BestIn(file')
<1>1. Best = BestIn(file)
  BY DEF Best, BestIn, Usable, Good
<1>2. Best' = BestIn(file')
  BY DEF Best, BestIn, Usable, Good, First
<1>3. QED BY <1>1, <1>2

\* The first usable file is the best one.
LEMMA BestInIs ==
  ASSUME NEW f, NEW s \in Slots, Good(f[s]), Below(f, s) = 0
  PROVE  BestIn(f) = f[s].progress
<1> DEFINE usable == {u \in Slots : Good(f[u])}
<1>1. usable \in SUBSET Slots /\ s \in usable
  OBVIOUS
<1>2. \A u \in usable : s <= u
  <2>1. s \in Nat
    BY DEF Slots
  <2>2. QED BY <2>1, SomeBelow DEF Slots
<1>3. First(usable) \in usable /\ First(usable) <= s /\ s <= First(usable)
  BY <1>1, <1>2, FirstOfSlots
<1>4. First(usable) = s
  BY <1>1, <1>3 DEF Slots
<1>5. QED BY <1>1, <1>4 DEF BestIn

\* Without a usable file nothing is found.
LEMMA BestInNone ==
  ASSUME NEW f, \A s \in Slots : ~Good(f[s])
  PROVE  BestIn(f) = 0 /\ All(f) = 0
<1>1. MaxBackups + 1 \in Nat
  OBVIOUS
<1>2. QED BY <1>1, SomeBelow DEF BestIn, All

\* There is no usable file, or a first one.
LEMMA FirstGood ==
  ASSUME NEW f
  PROVE  (\A s \in Slots : ~Good(f[s])) \/ (\E s \in Slots : Good(f[s]) /\ Below(f, s) = 0)
<1> DEFINE usable == {u \in Slots : Good(f[u])}
<1>1. SUFFICES ASSUME usable # {} PROVE \E s \in Slots : Good(f[s]) /\ Below(f, s) = 0
  OBVIOUS
<1>2. First(usable) \in usable /\ \A u \in usable : First(usable) <= u
  BY <1>1, FirstOfSlots
<1>3. \A u \in Slots : u < First(usable) => ~Good(f[u])
  BY <1>2 DEF Slots
<1>4. Below(f, First(usable)) = 0
  BY <1>2, <1>3, SomeBelow DEF Slots
<1>5. QED BY <1>2, <1>4

-----------------------------------------------------------------------------
(* What files f are worth that a batch has confirmed p generations to, with *)
(* n faults and b backups kept by every session.                           *)

Gap(f) == 1 - One(f[0])
Occupied(f, t) == t \in Slots /\ f[t] # NoFile
GoodAt(f, t) == t \in Slots /\ Good(f[t])
UpTo(f, p) == \A t \in Slots : Good(f[t]) => f[t].progress <= p

\* Between two flushes: as many files without a usable generation as faults, at
\* most; each file is as far behind the peak as usable files are newer, plus
\* the faults; and b + 1 usable files, or as many as were written, less the faults.
Plain(f, p, n, b) ==
  /\ UpTo(f, p)
  /\ \A t \in Slots : f[t] # NoFile => t <= Below(f, t) + n
  /\ n < b => /\ \A t \in Slots : Good(f[t]) => p <= f[t].progress + Below(f, t) + n
              /\ p <= All(f) + n \/ b < All(f) + n

\* The rotation has reached slot s of l: the files behind it have moved by one.
Moving(f, p, n, b, s, l) ==
  /\ UpTo(f, p)
  /\ \A t \in Slots : f[t] # NoFile => t <= Below(f, t) + n + (IF t > s THEN 1 ELSE 0)
  /\ n < b => /\ \A t \in Slots : Good(f[t]) =>
                   p <= f[t].progress + Below(f, t) + n + (IF t > l THEN 1 ELSE 0)
              /\ p <= All(f) + n \/ b <= All(f) + n

\* A new generation is about to take the place of the primary.
Replacing(f, p, n, b, l) ==
  /\ UpTo(f, p)
  /\ \A t \in Slots : f[t] # NoFile => t <= Below(f, t) + n + (IF t > 0 THEN Gap(f) ELSE 0)
  /\ n < b =>
       /\ \A t \in Slots : Good(f[t]) =>
            IF t = 0 THEN p <= f[t].progress + n
            ELSE p + (IF t > l THEN 0 ELSE 1) <= f[t].progress + Below(f, t) + n + Gap(f)
       /\ p < All(f) + n + Gap(f) \/ b < All(f) + n + Gap(f)

\* The files beyond the setting l are one generation further behind.
Pruning(f, p, n, b, l) ==
  /\ UpTo(f, p)
  /\ \A t \in Slots : f[t] # NoFile => t <= Below(f, t) + n
  /\ n < b => /\ \A t \in Slots : Good(f[t]) =>
                   p <= f[t].progress + Below(f, t) + n + (IF t > l THEN 1 ELSE 0)
              /\ p <= All(f) + n \/ b < All(f) + n

\* The kinds of the numbers that are counted.
LEMMA Numbers ==
  ASSUME NEW f, NEW t \in Slots
  PROVE  /\ t \in Nat /\ t <= MaxBackups /\ Below(f, t) \in Nat /\ All(f) \in Nat
         /\ One(f[t]) \in {0, 1} /\ Gap(f) \in {0, 1} /\ One(f[0]) = 1 - Gap(f)
         /\ Good(f[t]) => f[t].progress \in Nat /\ f[t] # NoFile
         /\ t = 0 => Below(f, t) = 0
<1>1. t \in Nat /\ t <= MaxBackups /\ MaxBackups + 1 \in Nat
  BY DEF Slots
<1>2. Below(f, t) \in Nat /\ All(f) \in Nat
  BY <1>1, SomeBelow DEF All
<1>3. Good(f[t]) => f[t].progress \in Nat /\ f[t] # NoFile
  BY NotAGeneration DEF Good, Generation
<1>4. t = 0 => Below(f, t) = 0
  <2>1. \A s \in Slots : ~(s < 0)
    BY DEF Slots
  <2>2. QED BY <1>1, <2>1, SomeBelow
<1>5. QED BY <1>1, <1>2, <1>3, <1>4 DEF One, Gap

\* Faults and smaller settings promise less.
LEMMA PlainLess ==
  ASSUME NEW f, NEW p \in Nat, NEW n \in Nat, NEW b \in Nat, NEW m \in Nat, NEW c \in Nat,
         Plain(f, p, n, b), n <= m, c <= b
  PROVE  Plain(f, p, m, c)
<1>1. ASSUME NEW t \in Slots
      PROVE  /\ f[t] # NoFile => t <= Below(f, t) + m
             /\ m < c /\ Good(f[t]) => p <= f[t].progress + Below(f, t) + m
  BY Numbers DEF Plain
<1>2. m < c => p <= All(f) + m \/ c < All(f) + m
  <2>1. 0 \in Slots
    BY DEF Slots
  <2>2. All(f) \in Nat
    BY <2>1, Numbers
  <2>3. QED BY <2>2 DEF Plain
<1>3. QED BY <1>1, <1>2 DEF Plain

\* A session with a primary it cannot use replaces it.
LEMMA PlainReplaced ==
  ASSUME NEW f, NEW p \in Nat, NEW n \in Nat, NEW b \in Nat, NEW m \in Nat, NEW c \in Nat,
         NEW l \in Slots,
         Plain(f, p, n, b), n <= m, c <= b, n < m \/ ~Good(f[0]) \/ c <= m
  PROVE  Replacing(f, p, m, c, l)
<1>0. 0 \in Slots
  BY DEF Slots
<1>1. All(f) \in Nat /\ Gap(f) \in {0, 1} /\ (~Good(f[0]) => Gap(f) = 1)
  BY <1>0, Numbers DEF Gap, One
<1>2. ASSUME NEW t \in Slots
      PROVE  /\ f[t] # NoFile => t <= Below(f, t) + m + (IF t > 0 THEN Gap(f) ELSE 0)
             /\ m < c /\ Good(f[t]) =>
                  IF t = 0 THEN p <= f[t].progress + m
                  ELSE p + (IF t > l THEN 0 ELSE 1) <= f[t].progress + Below(f, t) + m + Gap(f)
  <2>1. /\ t \in Nat /\ Below(f, t) \in Nat
        /\ Good(f[t]) => f[t].progress \in Nat
        /\ t = 0 => Below(f, t) = 0
    BY Numbers
  <2>2. /\ f[t] # NoFile => t <= Below(f, t) + n
        /\ n < b /\ Good(f[t]) => p <= f[t].progress + Below(f, t) + n
    BY DEF Plain
  <2>3. QED BY <1>1, <2>1, <2>2
<1>3. m < c => p < All(f) + m + Gap(f) \/ c < All(f) + m + Gap(f)
  BY <1>1 DEF Plain
<1>4. QED BY <1>2, <1>3 DEF Plain, Replacing

-----------------------------------------------------------------------------
(* The rotation.                                                            *)

Rotated(f, s) == IF f[s - 1] = NoFile THEN f ELSE [f EXCEPT ![s] = f[s - 1], ![s - 1] = NoFile]

\* The files, and the counts, after one rename.
LEMMA RotatedFiles ==
  ASSUME NEW f \in [Slots -> Content], NEW s \in 2..MaxBackups, f[s - 1] # NoFile
  PROVE  LET g == Rotated(f, s) IN
         /\ s \in Slots /\ s - 1 \in Slots
         /\ g[s] = f[s - 1] /\ g[s - 1] = NoFile
         /\ \A t \in Slots : t # s /\ t # s - 1 => g[t] = f[t]
         /\ \A t \in Nat : Below(g, t) = Below(f, t)
                                         - (IF t = s THEN One(f[s - 1]) ELSE 0)
                                         - (IF t > s THEN One(f[s]) ELSE 0)
         /\ Below(f, s) = Below(f, s - 1) + One(f[s - 1])
<1> DEFINE g == Rotated(f, s)  h == [f EXCEPT ![s] = f[s - 1]]
<1>1. s \in Slots /\ s - 1 \in Slots /\ s \in Nat /\ s - 1 # s
  BY DEF Slots
<1>2. g[s] = f[s - 1] /\ g[s - 1] = NoFile /\ \A t \in Slots : t # s /\ t # s - 1 => g[t] = f[t]
  BY <1>1 DEF Rotated
<1>3. h[s] = f[s - 1] /\ \A t \in Slots : t # s => h[t] = f[t]
  BY <1>1
<1>4. h[s - 1] = f[s - 1] /\ \A t \in Slots : t # s - 1 => g[t] = h[t]
  BY <1>1, <1>2, <1>3
<1> HIDE DEF g, h
<1>5. One(NoFile) = 0
  BY NotAGeneration DEF One, Good
<1>6. ASSUME NEW t \in Nat
      PROVE  Below(g, t) = Below(f, t) - (IF t = s THEN One(f[s - 1]) ELSE 0)
                                       - (IF t > s THEN One(f[s]) ELSE 0)
  <2>1. Below(h, t) = IF s < t THEN Below(f, t) + One(f[s - 1]) - One(f[s]) ELSE Below(f, t)
    BY <1>1, <1>3, BelowChange
  <2>2. Below(g, t) = IF s - 1 < t THEN Below(h, t) + 0 - One(f[s - 1]) ELSE Below(h, t)
    <3>1. Below(g, t) = IF s - 1 < t THEN Below(h, t) + One(g[s - 1]) - One(h[s - 1]) ELSE Below(h, t)
      <4>1. s - 1 \in Slots /\ t \in Nat /\ \A u \in Slots : u # s - 1 => g[u] = h[u]
        BY <1>1, <1>4
      <4>2. QED BY ONLY <4>1, BelowChange
    <3>2. QED BY <1>2, <1>4, <1>5, <3>1
  <2>3. Below(f, t) \in Nat /\ One(f[s - 1]) \in {0, 1} /\ One(f[s]) \in {0, 1}
    BY SomeBelow DEF One
  <2>4. QED BY <1>1, <2>1, <2>2, <2>3
<1>7. Below(f, s) = Below(f, s - 1) + One(f[s - 1])
  BY <1>1, BelowNext
<1>8. QED BY <1>1, <1>2, <1>6, <1>7 DEF g

\* The first file moved: the backup at the setting goes, the others are kept.
LEMMA PlainRotated ==
  ASSUME NEW f \in [Slots -> Content], NEW p \in Nat, NEW n \in Nat, NEW b \in Nat,
         NEW l \in 2..MaxBackups, Plain(f, p, n, b), b <= l, f[l - 1] # NoFile
  PROVE  Moving(Rotated(f, l), p, n, b, l - 1, l)
<1> DEFINE g == Rotated(f, l)
<1>1. /\ l \in Slots /\ l - 1 \in Slots /\ l \in Nat /\ MaxBackups + 1 \in Nat
      /\ g[l] = f[l - 1] /\ g[l - 1] = NoFile
      /\ \A t \in Slots : t # l /\ t # l - 1 => g[t] = f[t]
      /\ Below(f, l) = Below(f, l - 1) + One(f[l - 1])
  BY RotatedFiles DEF Slots
<1>2. \A t \in Nat : Below(g, t) = Below(f, t) - (IF t = l THEN One(f[l - 1]) ELSE 0)
                                               - (IF t > l THEN One(f[l]) ELSE 0)
  BY RotatedFiles
<1> HIDE DEF g
<1>3. ASSUME NEW t \in Slots
      PROVE  /\ Good(g[t]) => g[t].progress <= p
             /\ g[t] # NoFile => t <= Below(g, t) + n + (IF t > l - 1 THEN 1 ELSE 0)
             /\ n < b /\ Good(g[t]) => p <= g[t].progress + Below(g, t) + n + (IF t > l THEN 1 ELSE 0)
  <2>1. CASE t = l
    <3>1. Below(g, t) = Below(f, l - 1) /\ Below(f, l - 1) \in Nat /\ (Good(f[l - 1]) => f[l - 1].progress \in Nat)
      <4>2. Below(f, l - 1) \in Nat /\ One(f[l - 1]) \in {0, 1} /\ (Good(f[l - 1]) => f[l - 1].progress \in Nat)
        BY <1>1, Numbers
      <4>1. Below(g, l) = Below(f, l) - One(f[l - 1])
        <5>1. Below(f, l) \in Nat /\ ~(l > l)
          BY <1>1, SomeBelow
        <5>2. Below(g, l) = Below(f, l) - (IF l = l THEN One(f[l - 1]) ELSE 0) - (IF l > l THEN One(f[l]) ELSE 0)
          BY <1>1, <1>2
        <5>3. QED BY <4>2, <5>1, <5>2
      <4>3. QED BY <1>1, <2>1, <4>1, <4>2
    <3>2. /\ f[l - 1] # NoFile => l - 1 <= Below(f, l - 1) + n
          /\ Good(f[l - 1]) => f[l - 1].progress <= p
          /\ n < b /\ Good(f[l - 1]) => p <= f[l - 1].progress + Below(f, l - 1) + n
      BY <1>1 DEF Plain, UpTo
    <3>3. QED BY <1>1, <2>1, <3>1, <3>2
  <2>2. CASE t = l - 1
    BY <1>1, <2>2, NotAGeneration DEF Good
  <2>3. CASE t # l /\ t # l - 1
    <3>2. t \in Nat /\ Below(f, t) \in Nat /\ One(f[l]) \in {0, 1} /\ (Good(f[t]) => f[t].progress \in Nat)
      BY <1>1, Numbers
    <3>1. g[t] = f[t] /\ Below(g, t) = Below(f, t) - (IF t > l THEN One(f[l]) ELSE 0)
      <4>1. Below(g, t) = Below(f, t) - (IF t = l THEN One(f[l - 1]) ELSE 0) - (IF t > l THEN One(f[l]) ELSE 0)
        BY <1>2, <3>2
      <4>2. QED BY <1>1, <2>3, <3>2, <4>1
    <3>3. /\ f[t] # NoFile => t <= Below(f, t) + n
          /\ Good(f[t]) => f[t].progress <= p
          /\ n < b /\ Good(f[t]) => p <= f[t].progress + Below(f, t) + n
      BY DEF Plain, UpTo
    <3>4. QED BY <1>1, <2>3, <3>1, <3>2, <3>3
  <2>4. QED BY <2>1, <2>2, <2>3
<1>4. n < b => p <= All(g) + n \/ b <= All(g) + n
  <2>1. /\ All(g) = All(f) - One(f[l]) /\ All(f) \in Nat /\ One(f[l]) \in {0, 1}
    <3>1. MaxBackups + 1 > l /\ MaxBackups + 1 # l
      BY DEF Slots
    <3>2. QED BY <1>1, <1>2, <3>1, Numbers DEF All
  <2>2. CASE One(f[l]) = 0
    BY <2>1, <2>2 DEF Plain
  <2>3. CASE One(f[l]) = 1
    <3>1. f[l] # NoFile /\ l <= Below(f, l) + n
      BY <1>1, <2>3, Numbers DEF Plain, One
    <3>2. Below(f, l + 1) = Below(f, l) + 1 /\ Below(f, l + 1) <= All(f)
      BY <1>1, <2>3, BelowNext, BelowSteps DEF All
    <3>3. Below(f, l) \in Nat
      BY <1>1, SomeBelow
    <3>4. QED BY <1>1, <2>1, <2>3, <3>1, <3>2, <3>3
  <2>4. QED BY <2>1, <2>2, <2>3
<1>5. QED BY <1>3, <1>4 DEF Moving, UpTo, g

\* The next file moved: it goes where the last one came from.
LEMMA MovingRotated ==
  ASSUME NEW f \in [Slots -> Content], NEW p \in Nat, NEW n \in Nat, NEW b \in Nat,
         NEW l \in Slots, NEW s \in 2..MaxBackups, Moving(f, p, n, b, s, l), s < l,
         f[s] = NoFile, f[s - 1] # NoFile
  PROVE  Moving(Rotated(f, s), p, n, b, s - 1, l)
<1> DEFINE g == Rotated(f, s)
<1>1. /\ s \in Slots /\ s - 1 \in Slots /\ s \in Nat /\ l \in Nat /\ MaxBackups + 1 \in Nat
      /\ g[s] = f[s - 1] /\ g[s - 1] = NoFile
      /\ \A t \in Slots : t # s /\ t # s - 1 => g[t] = f[t]
      /\ Below(f, s) = Below(f, s - 1) + One(f[s - 1])
  BY RotatedFiles DEF Slots
<1>2. \A t \in Nat : Below(g, t) = Below(f, t) - (IF t = s THEN One(f[s - 1]) ELSE 0)
  <2>1. One(f[s]) = 0
    BY NotAGeneration DEF One, Good
  <2>2. \A t \in Nat : Below(g, t) = Below(f, t) - (IF t = s THEN One(f[s - 1]) ELSE 0)
                                                 - (IF t > s THEN One(f[s]) ELSE 0)
    BY RotatedFiles
  <2>3. \A t \in Nat : Below(f, t) \in Nat /\ One(f[s - 1]) \in {0, 1}
    BY SomeBelow DEF One
  <2>4. QED BY <2>1, <2>2, <2>3
<1> HIDE DEF g
<1>3. ASSUME NEW t \in Slots
      PROVE  /\ Good(g[t]) => g[t].progress <= p
             /\ g[t] # NoFile => t <= Below(g, t) + n + (IF t > s - 1 THEN 1 ELSE 0)
             /\ n < b /\ Good(g[t]) => p <= g[t].progress + Below(g, t) + n + (IF t > l THEN 1 ELSE 0)
  <2>1. CASE t = s
    <3>1. Below(g, t) = Below(f, s - 1) /\ Below(f, s - 1) \in Nat /\ (Good(f[s - 1]) => f[s - 1].progress \in Nat)
      <4>1. Below(g, s) = Below(f, s) - One(f[s - 1])
        BY <1>1, <1>2
      <4>2. Below(f, s - 1) \in Nat /\ One(f[s - 1]) \in {0, 1} /\ (Good(f[s - 1]) => f[s - 1].progress \in Nat)
        BY <1>1, Numbers
      <4>3. QED BY <1>1, <2>1, <4>1, <4>2
    <3>2. /\ f[s - 1] # NoFile => s - 1 <= Below(f, s - 1) + n + (IF s - 1 > s THEN 1 ELSE 0)
          /\ Good(f[s - 1]) => f[s - 1].progress <= p
          /\ n < b /\ Good(f[s - 1]) => p <= f[s - 1].progress + Below(f, s - 1) + n + (IF s - 1 > l THEN 1 ELSE 0)
      BY <1>1 DEF Moving, UpTo
    <3>3. QED BY <1>1, <2>1, <3>1, <3>2
  <2>2. CASE t = s - 1
    BY <1>1, <2>2, NotAGeneration DEF Good
  <2>3. CASE t # s /\ t # s - 1
    <3>2. t \in Nat /\ Below(f, t) \in Nat
      BY Numbers
    <3>1. g[t] = f[t] /\ Below(g, t) = Below(f, t)
      <4>1. Below(g, t) = Below(f, t) - (IF t = s THEN One(f[s - 1]) ELSE 0)
        BY <1>2, <3>2
      <4>2. QED BY <1>1, <2>3, <3>2, <4>1
    <3>3. /\ f[t] # NoFile => t <= Below(f, t) + n + (IF t > s THEN 1 ELSE 0)
          /\ Good(f[t]) => f[t].progress <= p
          /\ n < b /\ Good(f[t]) => p <= f[t].progress + Below(f, t) + n + (IF t > l THEN 1 ELSE 0)
      BY DEF Moving, UpTo
    <3>4. QED BY <1>1, <2>3, <3>1, <3>2, <3>3
  <2>4. QED BY <2>1, <2>2, <2>3
<1>4. All(g) = All(f)
  BY <1>1, <1>2, SomeBelow DEF All
<1>5. QED BY <1>3, <1>4 DEF Moving, UpTo, g

\* No file is there to be moved.
LEMMA NothingRotated ==
  ASSUME NEW f, NEW p \in Nat, NEW n \in Nat, NEW b \in Nat,
         NEW l \in Slots, NEW s \in 2..MaxBackups, s <= l,
         (Plain(f, p, n, b) /\ s = l) \/ Moving(f, p, n, b, s, l)
  PROVE  Moving(f, p, n, b, s - 1, l)
<1>0. s \in Nat /\ l \in Nat /\ 0 \in Slots
  BY DEF Slots
<1>1. ASSUME NEW t \in Slots
      PROVE  /\ f[t] # NoFile => t <= Below(f, t) + n + (IF t > s - 1 THEN 1 ELSE 0)
             /\ n < b /\ Good(f[t]) => p <= f[t].progress + Below(f, t) + n + (IF t > l THEN 1 ELSE 0)
  <2>1. t \in Nat /\ Below(f, t) \in Nat /\ (Good(f[t]) => f[t].progress \in Nat)
    BY Numbers
  <2>2. CASE Plain(f, p, n, b)
    BY <1>0, <2>1, <2>2 DEF Plain
  <2>3. CASE Moving(f, p, n, b, s, l)
    BY <1>0, <2>1, <2>3 DEF Moving
  <2>4. QED BY <2>2, <2>3
<1>2. UpTo(f, p) /\ (n < b => p <= All(f) + n \/ b <= All(f) + n)
  <2>1. All(f) \in Nat
    BY <1>0, Numbers
  <2>2. QED BY <2>1 DEF Plain, Moving
<1>3. QED BY <1>1, <1>2 DEF Moving

\* What is written over the first backup.
LEMMA Overwritten ==
  ASSUME NEW f \in [Slots -> Content], NEW x, f[0] # NoFile
  PROVE  LET g == [f EXCEPT ![1] = x] IN
         /\ 1 \in Slots /\ g[1] = x /\ g[0] = f[0] /\ \A t \in Slots : t # 1 => g[t] = f[t]
         /\ Gap(g) = Gap(f) /\ Gap(f) \in {0, 1}
         /\ One(f[1]) \in {0, 1} /\ One(x) \in {0, 1}
         /\ Below(g, 1) = 1 - Gap(f) /\ Below(f, 1) = 1 - Gap(f)
         /\ \A t \in Slots : t > 1 => Below(g, t) = Below(f, t) + One(x) - One(f[1])
         /\ All(g) = All(f) + One(x) - One(f[1])
<1> DEFINE g == [f EXCEPT ![1] = x]
<1>1. 0 \in Slots /\ 1 \in Slots /\ MaxBackups + 1 \in Nat /\ 1 < MaxBackups + 1 /\ \A t \in Slots : t \in Nat
  BY DEF Slots
<1>2. g[1] = x /\ g[0] = f[0] /\ \A t \in Slots : t # 1 => g[t] = f[t]
  BY <1>1
<1> HIDE DEF g
<1>3. Gap(g) = Gap(f) /\ Gap(f) \in {0, 1} /\ One(f[0]) = 1 - Gap(f)
  BY <1>1, <1>2, Numbers DEF Gap
<1>4. \A t \in Nat : Below(g, t) = IF 1 < t THEN Below(f, t) + One(x) - One(f[1]) ELSE Below(f, t)
  <2>1. ASSUME NEW t \in Nat
        PROVE  Below(g, t) = IF 1 < t THEN Below(f, t) + One(g[1]) - One(f[1]) ELSE Below(f, t)
    <3>1. 1 \in Slots /\ \A u \in Slots : u # 1 => g[u] = f[u]
      BY <1>1, <1>2
    <3>2. QED BY ONLY <3>1, t \in Nat, BelowChange
  <2>2. QED BY <1>2, <2>1
<1>5. Below(f, 1) = 1 - Gap(f)
  <2>1. Below(f, 0) = 0
    BY <1>1, Numbers
  <2>2. Below(f, 0 + 1) = Below(f, 0) + One(f[0])
    BY <1>1, BelowNext
  <2>3. QED BY <1>3, <2>1, <2>2
<1>6. One(f[1]) \in {0, 1} /\ One(x) \in {0, 1}
  BY DEF One
<1>7. \A t \in Slots : t > 1 => Below(g, t) = Below(f, t) + One(x) - One(f[1])
  BY <1>1, <1>4
<1>8. Below(g, 1) = 1 - Gap(f)
  BY <1>4, <1>5
<1>9. All(g) = All(f) + One(x) - One(f[1])
  BY <1>1, <1>4 DEF All
<1>10. QED BY <1>1, <1>2, <1>3, <1>5, <1>6, <1>7, <1>8, <1>9 DEF g

\* The copy of the primary with one backup, which it overwrites.
LEMMA PlainCopied ==
  ASSUME NEW f \in [Slots -> Content], NEW p \in Nat, NEW n \in Nat, NEW b \in Nat,
         Plain(f, p, n, b), b <= 1, f[0] # NoFile
  PROVE  Replacing([f EXCEPT ![1] = f[0]], p, n, b, 1)
<1> DEFINE x == f[0]  g == [f EXCEPT ![1] = x]
<1>1. /\ 1 \in Slots /\ g[1] = x /\ g[0] = x /\ \A t \in Slots : t # 1 => g[t] = f[t]
      /\ Gap(g) = Gap(f) /\ Gap(f) \in {0, 1}
      /\ One(f[1]) \in {0, 1} /\ One(x) = 1 - Gap(f)
      /\ Below(g, 1) = 1 - Gap(f) /\ Below(f, 1) = 1 - Gap(f)
  <2>1. One(x) = 1 - Gap(f)
    BY DEF Gap, One
  <2>2. QED BY <2>1, Overwritten
<1>2. /\ \A t \in Slots : t > 1 => Below(g, t) = Below(f, t) + One(x) - One(f[1])
      /\ All(g) = All(f) + One(x) - One(f[1])
  BY Overwritten
<1>3. 0 \in Slots
  BY DEF Slots
<1> HIDE DEF g, x
<1>4. /\ Good(x) => x.progress <= p /\ x.progress \in Nat /\ (n < b => p <= x.progress + n)
  BY <1>3, Numbers DEF Plain, UpTo, x
<1>5. Good(x) => Gap(f) = 0
  BY <1>1 DEF One
<1>6. ASSUME NEW t \in Slots
      PROVE  /\ Good(g[t]) => g[t].progress <= p
             /\ g[t] # NoFile => t <= Below(g, t) + n + (IF t > 0 THEN Gap(g) ELSE 0)
             /\ n < b /\ Good(g[t]) =>
                  IF t = 0 THEN p <= g[t].progress + n
                  ELSE p + (IF t > 1 THEN 0 ELSE 1) <= g[t].progress + Below(g, t) + n + Gap(g)
  <2>1. /\ t \in Nat /\ Below(f, t) \in Nat /\ (Good(f[t]) => f[t].progress \in Nat)
        /\ Below(g, t) \in Nat
    BY Numbers
  <2>2. /\ f[t] # NoFile => t <= Below(f, t) + n
        /\ Good(f[t]) => f[t].progress <= p
        /\ n < b /\ Good(f[t]) => p <= f[t].progress + Below(f, t) + n
    BY DEF Plain, UpTo
  <2>3. CASE t = 0
    BY <1>1, <1>4, <2>1, <2>3
  <2>4. CASE t = 1
    BY <1>1, <1>4, <1>5, <2>1, <2>4
  <2>5. CASE t > 1
    <3>1. g[t] = f[t] /\ t # 0 /\ Below(g, t) = Below(f, t) + One(x) - One(f[1])
      BY <1>1, <1>2, <2>5
    <3>2. QED BY <1>1, <2>1, <2>2, <2>5, <3>1
  <2>6. QED BY <2>1, <2>3, <2>4, <2>5
<1>7. n < b => p < All(g) + n + Gap(g) \/ b < All(g) + n + Gap(g)
  <2>1. All(f) \in Nat
    BY <1>3, Numbers
  <2>2. CASE One(f[1]) = 0
    BY <1>1, <1>2, <2>1, <2>2 DEF Plain
  <2>3. CASE One(f[1]) = 1
    <3>1. 1 <= Below(f, 1) + n
      BY <1>1, <2>3, Numbers DEF Plain, One
    <3>2. Below(f, 1 + 1) = Below(f, 1) + 1 /\ Below(f, 1 + 1) <= All(f)
      <4>1. 1 + 1 \in Nat /\ MaxBackups + 1 \in Nat /\ 1 + 1 <= MaxBackups + 1
        BY <1>1
      <4>2. QED BY <1>1, <2>3, <4>1, BelowNext, BelowSteps DEF All
    <3>3. QED BY <1>1, <1>2, <2>1, <2>3, <3>1, <3>2
  <2>4. QED BY <1>1, <2>2, <2>3
<1>8. QED BY <1>6, <1>7 DEF Replacing, UpTo, g, x

\* The copy of the primary after the rotation.
LEMMA MovingCopied ==
  ASSUME NEW f \in [Slots -> Content], NEW p \in Nat, NEW n \in Nat, NEW b \in Nat,
         NEW l \in Slots, 1 < l, Moving(f, p, n, b, 1, l), f[1] = NoFile, f[0] # NoFile
  PROVE  Replacing([f EXCEPT ![1] = f[0]], p, n, b, l)
<1> DEFINE x == f[0]  g == [f EXCEPT ![1] = x]
<1>0. l \in Nat
  BY DEF Slots
<1>1. /\ 1 \in Slots /\ g[1] = x /\ g[0] = x /\ \A t \in Slots : t # 1 => g[t] = f[t]
      /\ Gap(g) = Gap(f) /\ Gap(f) \in {0, 1}
      /\ One(f[1]) = 0 /\ One(x) = 1 - Gap(f)
      /\ Below(g, 1) = 1 - Gap(f) /\ Below(f, 1) = 1 - Gap(f)
  <2>1. One(x) = 1 - Gap(f)
    BY DEF Gap, One
  <2>2. One(f[1]) = 0
    BY NotAGeneration DEF One, Good
  <2>3. QED BY <2>1, <2>2, Overwritten
<1>2. /\ \A t \in Slots : t > 1 => Below(g, t) = Below(f, t) + One(x) - One(f[1])
      /\ All(g) = All(f) + One(x) - One(f[1])
  BY Overwritten
<1>3. 0 \in Slots
  BY DEF Slots
<1> HIDE DEF g, x
<1>4. /\ Good(x) => x.progress <= p /\ x.progress \in Nat /\ (n < b => p <= x.progress + n)
  BY <1>0, <1>3, Numbers DEF Moving, UpTo, x
<1>5. Good(x) => Gap(f) = 0
  BY <1>1 DEF One
<1>6. ASSUME NEW t \in Slots
      PROVE  /\ Good(g[t]) => g[t].progress <= p
             /\ g[t] # NoFile => t <= Below(g, t) + n + (IF t > 0 THEN Gap(g) ELSE 0)
             /\ n < b /\ Good(g[t]) =>
                  IF t = 0 THEN p <= g[t].progress + n
                  ELSE p + (IF t > l THEN 0 ELSE 1) <= g[t].progress + Below(g, t) + n + Gap(g)
  <2>1. /\ t \in Nat /\ Below(f, t) \in Nat /\ (Good(f[t]) => f[t].progress \in Nat)
        /\ Below(g, t) \in Nat
    BY Numbers
  <2>2. /\ f[t] # NoFile => t <= Below(f, t) + n + (IF t > 1 THEN 1 ELSE 0)
        /\ Good(f[t]) => f[t].progress <= p
        /\ n < b /\ Good(f[t]) => p <= f[t].progress + Below(f, t) + n + (IF t > l THEN 1 ELSE 0)
    BY DEF Moving, UpTo
  <2>3. CASE t = 0
    BY <1>1, <1>4, <2>1, <2>3
  <2>4. CASE t = 1
    BY <1>0, <1>1, <1>4, <1>5, <2>1, <2>4
  <2>5. CASE t > 1
    <3>1. g[t] = f[t] /\ t # 0 /\ Below(g, t) = Below(f, t) + One(x) - One(f[1])
      BY <1>1, <1>2, <2>5
    <3>2. QED BY <1>0, <1>1, <2>1, <2>2, <2>5, <3>1
  <2>6. QED BY <2>1, <2>3, <2>4, <2>5
<1>7. n < b => p < All(g) + n + Gap(g) \/ b < All(g) + n + Gap(g)
  <2>1. All(f) \in Nat
    BY <1>3, Numbers
  <2>2. QED BY <1>1, <1>2, <2>1 DEF Moving
<1>8. QED BY <1>6, <1>7 DEF Replacing, UpTo, g, x

\* There is nothing to be copied in a new batch.
LEMMA NothingCopied ==
  ASSUME NEW f, NEW p \in Nat, NEW n \in Nat, NEW b \in Nat, NEW l \in Slots, NEW s,
         \A t \in Slots : f[t] = NoFile, Plain(f, p, n, b) \/ Moving(f, p, n, b, s, l)
  PROVE  Replacing(f, p, n, b, l)
<1>1. \A t \in Slots : ~Good(f[t])
  BY NotAGeneration DEF Good
<1>2. All(f) = 0 /\ 0 \in Slots
  BY <1>1, BestInNone DEF Slots
<1>3. Gap(f) = 1
  BY <1>1, <1>2 DEF Gap, One
<1>4. n < b => p <= n \/ b <= n
  BY <1>2 DEF Plain, Moving
<1>5. QED BY <1>1, <1>2, <1>3, <1>4 DEF Replacing, UpTo

\* The new generation in place of the primary.
LEMMA Replaced ==
  ASSUME NEW f \in [Slots -> Content], NEW p \in Nat, NEW n \in Nat, NEW b \in Nat,
         NEW l \in Slots, NEW k \in Slots, l <= k, Replacing(f, p, n, b, k),
         NEW x, Good(x), NEW m \in Nat, x.progress = m + 1, m <= p, n < b => p <= m + n,
         NEW q \in Nat, q = IF m + 1 > p THEN m + 1 ELSE p
  PROVE  Pruning([f EXCEPT ![0] = x], q, n, b, l)
<1> DEFINE g == [f EXCEPT ![0] = x]
<1>0. l \in Nat /\ k \in Nat /\ 0 \in Slots /\ MaxBackups + 1 \in Nat /\ 0 < MaxBackups + 1
  BY DEF Slots
<1>1. g[0] = x /\ \A t \in Slots : t # 0 => g[t] = f[t]
  BY <1>0
<1> HIDE DEF g
<1>2. \A t \in Nat : Below(g, t) = IF 0 < t THEN Below(f, t) + One(x) - One(f[0]) ELSE Below(f, t)
  <2>1. ASSUME NEW t \in Nat
        PROVE  Below(g, t) = IF 0 < t THEN Below(f, t) + One(g[0]) - One(f[0]) ELSE Below(f, t)
    <3>1. 0 \in Slots /\ \A u \in Slots : u # 0 => g[u] = f[u]
      BY <1>0, <1>1
    <3>2. QED BY ONLY <3>1, t \in Nat, BelowChange
  <2>2. QED BY <1>1, <2>1
<1>3. One(x) = 1 /\ One(f[0]) = 1 - Gap(f) /\ Gap(f) \in {0, 1} /\ All(f) \in Nat
  BY <1>0, Numbers DEF One
<1>4. q \in Nat /\ m + 1 <= q /\ p <= q /\ q <= p + 1
  OBVIOUS
<1>5. ASSUME NEW t \in Slots
      PROVE  /\ Good(g[t]) => g[t].progress <= q
             /\ g[t] # NoFile => t <= Below(g, t) + n
             /\ n < b /\ Good(g[t]) => q <= g[t].progress + Below(g, t) + n + (IF t > l THEN 1 ELSE 0)
  <2>1. /\ t \in Nat /\ Below(f, t) \in Nat /\ (Good(f[t]) => f[t].progress \in Nat)
        /\ Below(g, t) \in Nat /\ (t = 0 => Below(g, t) = 0)
    BY Numbers
  <2>2. CASE t = 0
    BY <1>0, <1>1, <1>4, <2>1, <2>2
  <2>3. CASE t # 0
    <3>1. g[t] = f[t] /\ Below(g, t) = Below(f, t) + Gap(f)
      BY <1>1, <1>2, <1>3, <2>1, <2>3
    <3>2. /\ f[t] # NoFile => t <= Below(f, t) + n + Gap(f)
          /\ Good(f[t]) => f[t].progress <= p
          /\ n < b /\ Good(f[t]) => p + (IF t > k THEN 0 ELSE 1) <= f[t].progress + Below(f, t) + n + Gap(f)
      BY <2>1, <2>3 DEF Replacing, UpTo
    <3>3. QED BY <1>0, <1>3, <1>4, <2>1, <3>1, <3>2
  <2>4. QED BY <2>2, <2>3
<1>6. n < b => q <= All(g) + n \/ b < All(g) + n
  <2>1. All(g) = All(f) + Gap(f)
    BY <1>0, <1>2, <1>3 DEF All
  <2>2. QED BY <1>3, <1>4, <2>1 DEF Replacing
<1>7. QED BY <1>5, <1>6 DEF Pruning, UpTo, g

Pruned(f, l) == [s \in Slots |-> IF s > l THEN NoFile ELSE f[s]]

\* Without the files beyond the setting.
LEMMA PlainPruned ==
  ASSUME NEW f \in [Slots -> Content], NEW p \in Nat, NEW n \in Nat, NEW b \in Nat,
         NEW l \in Slots, b <= l, Pruning(f, p, n, b, l)
  PROVE  Plain(Pruned(f, l), p, n, b)
<1> DEFINE g == Pruned(f, l)
<1>0. l \in Nat /\ 0 \in Slots /\ MaxBackups + 1 \in Nat /\ l + 1 <= MaxBackups + 1
  BY DEF Slots
<1>1. /\ \A t \in Slots : t <= l => g[t] = f[t]
      /\ \A t \in Slots : t > l => g[t] = NoFile
  BY DEF Pruned, Slots
<1> HIDE DEF g
<1>2. \A t \in Slots : t <= l => Below(g, t) = Below(f, t)
  <2>1. ASSUME NEW t \in Slots, t <= l PROVE Below(g, t) = Below(f, t)
    <3>1. t \in Nat /\ \A s \in Slots : s < t => g[s] = f[s]
      BY <1>0, <1>1, <2>1 DEF Slots
    <3>2. QED BY <3>1, BelowSame
  <2>2. QED BY <2>1
<1>3. ASSUME NEW t \in Slots
      PROVE  /\ Good(g[t]) => g[t].progress <= p
             /\ g[t] # NoFile => t <= Below(g, t) + n
             /\ n < b /\ Good(g[t]) => p <= g[t].progress + Below(g, t) + n
  <2>1. t \in Nat
    BY Numbers
  <2>2. CASE t <= l
    BY <1>0, <1>1, <1>2, <2>1, <2>2, Numbers DEF Pruning, UpTo
  <2>3. CASE t > l
    BY <1>1, <2>3, NotAGeneration DEF Good
  <2>4. QED BY <1>0, <2>1, <2>2, <2>3
<1>4. n < b => p <= All(g) + n \/ b < All(g) + n
  <2>1. Below(g, l + 1) = Below(f, l + 1)
    <3>1. \A s \in Slots : s < l + 1 => g[s] = f[s]
      BY <1>0, <1>1 DEF Slots
    <3>2. l + 1 \in Nat
      BY <1>0
    <3>3. QED BY ONLY <3>1, <3>2, BelowSame
  <2>2. Below(g, l + 1) <= All(g) /\ All(g) \in Nat /\ All(f) \in Nat /\ Below(f, l + 1) \in Nat
    <3>1. l + 1 \in Nat /\ MaxBackups + 1 \in Nat /\ l + 1 <= MaxBackups + 1
      BY <1>0
    <3>2. Below(g, l + 1) <= Below(g, MaxBackups + 1)
      BY <3>1, BelowSteps
    <3>3. QED BY <1>0, <3>1, <3>2, Numbers, SomeBelow DEF All
  <2>3. CASE \E t \in Slots : t > l /\ Good(f[t])
    <3>1. PICK t \in Slots : t > l /\ Good(f[t])
      BY <2>3
    <3>2. f[t] # NoFile /\ t \in Nat /\ Below(f, t) \in Nat
      BY <3>1, Numbers
    <3>3. t <= Below(f, t) + n
      BY <3>2 DEF Pruning
    <3>4. Below(f, t) <= Below(f, l + 1) + (t - (l + 1))
      BY <1>0, <3>1, <3>2, BelowSteps
    <3>5. QED BY <1>0, <2>1, <2>2, <3>1, <3>2, <3>3, <3>4
  <2>4. CASE \A t \in Slots : t > l => ~Good(f[t])
    <3>1. \A s \in Slots : Good(g[s]) <=> Good(f[s])
      BY <1>0, <1>1, <2>4, NotAGeneration DEF Good, Slots
    <3>2. GoodBelow(g, MaxBackups + 1) = GoodBelow(f, MaxBackups + 1)
      BY <3>1 DEF GoodBelow
    <3>3. All(g) = All(f)
      BY <3>2 DEF All, Below
    <3>4. QED BY <3>3 DEF Pruning
  <2>5. QED BY <2>3, <2>4
<1>5. QED BY <1>3, <1>4 DEF Plain, UpTo, g

-----------------------------------------------------------------------------
(* A fault costs one generation.                                            *)

\* A flush that was cut off leaves what counts as one between two flushes.
LEMMA CutOff ==
  ASSUME NEW f, NEW p \in Nat, NEW n \in Nat, NEW b \in Nat, NEW l \in Slots, NEW s,
         Plain(f, p, n, b) \/ Moving(f, p, n, b, s, l) \/ Replacing(f, p, n, b, l) \/ Pruning(f, p, n, b, l)
  PROVE  Plain(f, p, n + 1, b)
<1>0. 0 \in Slots
  BY DEF Slots
<1>1. ASSUME NEW t \in Slots
      PROVE  /\ f[t] # NoFile => t <= Below(f, t) + (n + 1)
             /\ n < b /\ Good(f[t]) => p <= f[t].progress + Below(f, t) + (n + 1)
  <2>1. /\ t \in Nat /\ Below(f, t) \in Nat /\ (Good(f[t]) => f[t].progress \in Nat)
        /\ Gap(f) \in {0, 1} /\ (t = 0 => Below(f, t) = 0)
    BY Numbers
  <2>2. CASE Plain(f, p, n, b)
    BY <2>1, <2>2 DEF Plain
  <2>3. CASE Moving(f, p, n, b, s, l)
    BY <2>1, <2>3 DEF Moving
  <2>4. CASE Replacing(f, p, n, b, l)
    BY <2>1, <2>4 DEF Replacing
  <2>5. CASE Pruning(f, p, n, b, l)
    BY <2>1, <2>5 DEF Pruning
  <2>6. QED BY <2>2, <2>3, <2>4, <2>5
<1>2. UpTo(f, p) /\ (n < b => p <= All(f) + (n + 1) \/ b < All(f) + (n + 1))
  <2>1. All(f) \in Nat /\ Gap(f) \in {0, 1}
    BY <1>0, Numbers
  <2>2. QED BY <2>1 DEF Plain, Moving, Replacing, Pruning
<1>3. QED BY <1>1, <1>2 DEF Plain

\* The copy that failed leaves a part of a file.
LEMMA CopyCutOff ==
  ASSUME NEW f \in [Slots -> Content], NEW p \in Nat, NEW n \in Nat, NEW b \in Nat, NEW l \in Slots,
         f[0] # NoFile, Plain(f, p, n, b) \/ (Moving(f, p, n, b, 1, l) /\ f[1] = NoFile)
  PROVE  Plain([f EXCEPT ![1] = Bad], p, n + 1, b)
<1> DEFINE g == [f EXCEPT ![1] = Bad]
<1>0. 0 \in Slots /\ One(Bad) = 0 /\ ~Good(Bad) /\ ~Good(NoFile)
  BY NotAGeneration DEF Slots, One, Good
<1>1. /\ 1 \in Slots /\ g[1] = Bad /\ \A t \in Slots : t # 1 => g[t] = f[t]
      /\ Gap(f) \in {0, 1} /\ One(f[1]) \in {0, 1}
      /\ Below(g, 1) = 1 - Gap(f)
  BY Overwritten
<1>2. /\ \A t \in Slots : t > 1 => Below(g, t) = Below(f, t) + One(Bad) - One(f[1])
      /\ All(g) = All(f) + One(Bad) - One(f[1])
  BY Overwritten
<1>3. f[1] = NoFile => One(f[1]) = 0
  BY <1>0 DEF One
<1> HIDE DEF g
<1>4. ASSUME NEW t \in Slots
      PROVE  /\ Good(g[t]) => g[t].progress <= p
             /\ g[t] # NoFile => t <= Below(g, t) + (n + 1)
             /\ n < b /\ Good(g[t]) => p <= g[t].progress + Below(g, t) + (n + 1)
  <2>1. /\ t \in Nat /\ Below(f, t) \in Nat /\ (Good(f[t]) => f[t].progress \in Nat)
        /\ Below(g, t) \in Nat /\ (t = 0 => Below(f, t) = 0 /\ Below(g, t) = 0)
    BY Numbers
  <2>2. CASE t = 1
    BY <1>0, <1>1, <2>1, <2>2
  <2>3. CASE t # 1
    <3>1. g[t] = f[t] /\ (t > 1 => Below(g, t) = Below(f, t) - One(f[1]))
      BY <1>0, <1>1, <1>2, <2>1, <2>3
    <3>2. CASE Plain(f, p, n, b)
      <4>1. /\ Good(f[t]) => f[t].progress <= p
            /\ f[t] # NoFile => t <= Below(f, t) + n
            /\ n < b /\ Good(f[t]) => p <= f[t].progress + Below(f, t) + n
        BY <3>2 DEF Plain, UpTo
      <4>2. QED BY <1>1, <2>1, <2>3, <3>1, <4>1
    <3>3. CASE Moving(f, p, n, b, 1, l) /\ f[1] = NoFile
      <4>1. /\ Good(f[t]) => f[t].progress <= p
            /\ f[t] # NoFile => t <= Below(f, t) + n + (IF t > 1 THEN 1 ELSE 0)
            /\ n < b /\ Good(f[t]) => p <= f[t].progress + Below(f, t) + n + (IF t > l THEN 1 ELSE 0)
        BY <3>3 DEF Moving, UpTo
      <4>2. QED BY <1>3, <2>1, <2>3, <3>1, <3>3, <4>1
    <3>4. QED BY <3>2, <3>3
  <2>4. QED BY <2>2, <2>3
<1>5. n < b => p <= All(g) + (n + 1) \/ b < All(g) + (n + 1)
  <2>1. All(f) \in Nat /\ All(g) = All(f) - One(f[1])
    BY <1>0, <1>1, <1>2, Numbers
  <2>2. QED BY <1>1, <1>3, <2>1 DEF Plain, Moving
<1>6. Plain(g, p, n + 1, b)
  BY ONLY <1>4, <1>5, n \in Nat, b \in Nat DEF Plain, UpTo
<1>7. QED BY <1>6 DEF g

\* One more fault under a session that replaces its primary.
LEMMA ReplacingLess ==
  ASSUME NEW f, NEW p \in Nat, NEW n \in Nat, NEW b \in Nat, NEW l \in Slots,
         Replacing(f, p, n, b, l)
  PROVE  Replacing(f, p, n + 1, b, l)
<1>0. 0 \in Slots
  BY DEF Slots
<1>1. ASSUME NEW t \in Slots
      PROVE  /\ f[t] # NoFile => t <= Below(f, t) + (n + 1) + (IF t > 0 THEN Gap(f) ELSE 0)
             /\ n < b /\ Good(f[t]) =>
                  IF t = 0 THEN p <= f[t].progress + (n + 1)
                  ELSE p + (IF t > l THEN 0 ELSE 1) <= f[t].progress + Below(f, t) + (n + 1) + Gap(f)
  <2>1. /\ t \in Nat /\ Below(f, t) \in Nat /\ (Good(f[t]) => f[t].progress \in Nat)
        /\ Gap(f) \in {0, 1} /\ (t = 0 => Below(f, t) = 0)
    BY Numbers
  <2>2. QED BY <2>1 DEF Replacing
<1>2. n < b => p < All(f) + (n + 1) + Gap(f) \/ b < All(f) + (n + 1) + Gap(f)
  <2>1. All(f) \in Nat /\ Gap(f) \in {0, 1}
    BY <1>0, Numbers
  <2>2. QED BY <2>1 DEF Replacing
<1>3. QED BY <1>1, <1>2 DEF Replacing

\* Files g are files f of which d is damaged.
Spoiled(f, g, d) ==
  /\ d \in Slots /\ f[d] # NoFile /\ ~Good(g[d])
  /\ \A t \in Slots : t # d => g[t] = f[t]

\* A file that is spoiled counts once at most.
LEMMA SpoiledCount ==
  ASSUME NEW f, NEW g, NEW d, Spoiled(f, g, d), NEW t \in Slots
  PROVE  /\ Good(g[t]) => g[t] = f[t] /\ Good(f[t])
         /\ g[t] # NoFile => f[t] # NoFile
         /\ Below(f, t) <= Below(g, t) + 1 /\ Below(g, t) <= Below(f, t)
         /\ All(f) <= All(g) + 1 /\ All(g) <= All(f)
         /\ t > 0 => Below(f, t) + Gap(f) <= Below(g, t) + Gap(g) + 1
         /\ d = 0 /\ t > 0 => Below(f, t) + Gap(f) = Below(g, t) + Gap(g)
         /\ d = 0 => All(f) + Gap(f) = All(g) + Gap(g)
         /\ d # 0 => Gap(g) = Gap(f)
<1>0. t \in Nat /\ d \in Nat /\ d \in Slots /\ MaxBackups + 1 \in Nat /\ d < MaxBackups + 1 /\ 0 \in Slots
  BY DEF Slots, Spoiled
<1>1. \A u \in Slots : u # d => g[u] = f[u]
  BY DEF Spoiled
<1>2. One(g[d]) = 0 /\ One(f[d]) \in {0, 1}
  BY DEF Spoiled, One
<1>3. Below(g, t) = IF d < t THEN Below(f, t) + One(g[d]) - One(f[d]) ELSE Below(f, t)
  BY ONLY <1>0, <1>1, BelowChange
<1>4. Below(g, MaxBackups + 1) = IF d < MaxBackups + 1 THEN Below(f, MaxBackups + 1) + One(g[d]) - One(f[d])
                                 ELSE Below(f, MaxBackups + 1)
  <2>1. d \in Slots /\ MaxBackups + 1 \in Nat
    BY <1>0
  <2>2. QED BY ONLY <1>1, <2>1, BelowChange
<1>5. All(g) = All(f) - One(f[d]) /\ All(f) \in Nat /\ Below(f, t) \in Nat
  BY <1>0, <1>2, <1>4, Numbers DEF All
<1>6. /\ d = 0 => Gap(g) = 1 /\ Gap(f) = 1 - One(f[d])
      /\ d # 0 => Gap(g) = Gap(f) /\ Gap(f) \in {0, 1}
  BY <1>0, <1>1, <1>2 DEF Gap, One
<1>7. /\ Good(g[t]) => g[t] = f[t] /\ Good(f[t])
      /\ g[t] # NoFile => f[t] # NoFile
  BY <1>1 DEF Spoiled
<1>8. QED BY <1>0, <1>2, <1>3, <1>5, <1>6, <1>7

\* A spoiled file costs one fault, at each place.
LEMMA SpoiledLess ==
  ASSUME NEW f, NEW g, NEW d, Spoiled(f, g, d),
         NEW p \in Nat, NEW n \in Nat, NEW b \in Nat, NEW s, NEW l \in Slots
  PROVE  /\ Plain(f, p, n, b) => Plain(g, p, n + 1, b)
         /\ Moving(f, p, n, b, s, l) => Moving(g, p, n + 1, b, s, l)
         /\ Replacing(f, p, n, b, l) => Replacing(g, p, n + 1, b, l)
         /\ Pruning(f, p, n, b, l) => Pruning(g, p, n + 1, b, l)
<1>0. 0 \in Slots
  BY DEF Slots
<1>1. ASSUME NEW t \in Slots
      PROVE  /\ t \in Nat /\ Below(f, t) \in Nat /\ Below(g, t) \in Nat /\ (Good(f[t]) => f[t].progress \in Nat)
             /\ Gap(f) \in {0, 1} /\ Gap(g) \in {0, 1} /\ (t = 0 => Below(g, t) = 0 /\ Below(f, t) = 0)
             /\ Good(g[t]) => g[t] = f[t] /\ Good(f[t])
             /\ g[t] # NoFile => f[t] # NoFile
             /\ Below(f, t) <= Below(g, t) + 1
             /\ t > 0 => Below(f, t) + Gap(f) <= Below(g, t) + Gap(g) + 1
  BY Numbers, SpoiledCount
<1>2. /\ All(f) \in Nat /\ All(g) \in Nat /\ All(f) <= All(g) + 1
      /\ Gap(f) \in {0, 1} /\ Gap(g) \in {0, 1} /\ All(f) + Gap(f) <= All(g) + Gap(g) + 1
  BY <1>0, Numbers, SpoiledCount
<1>3. ASSUME Plain(f, p, n, b) PROVE Plain(g, p, n + 1, b)
  <2>1. ASSUME NEW t \in Slots
        PROVE  /\ Good(g[t]) => g[t].progress <= p
               /\ g[t] # NoFile => t <= Below(g, t) + (n + 1)
               /\ n < b /\ Good(g[t]) => p <= g[t].progress + Below(g, t) + (n + 1)
    BY <1>1, <1>3 DEF Plain, UpTo
  <2>2. n < b => p <= All(g) + (n + 1) \/ b < All(g) + (n + 1)
    BY <1>2, <1>3 DEF Plain
  <2>3. QED BY <2>1, <2>2 DEF Plain, UpTo
<1>4. ASSUME Moving(f, p, n, b, s, l) PROVE Moving(g, p, n + 1, b, s, l)
  <2>1. ASSUME NEW t \in Slots
        PROVE  /\ Good(g[t]) => g[t].progress <= p
               /\ g[t] # NoFile => t <= Below(g, t) + (n + 1) + (IF t > s THEN 1 ELSE 0)
               /\ n < b /\ Good(g[t]) => p <= g[t].progress + Below(g, t) + (n + 1) + (IF t > l THEN 1 ELSE 0)
    BY <1>1, <1>4 DEF Moving, UpTo
  <2>2. n < b => p <= All(g) + (n + 1) \/ b <= All(g) + (n + 1)
    BY <1>2, <1>4 DEF Moving
  <2>3. QED BY <2>1, <2>2 DEF Moving, UpTo
<1>5. ASSUME Replacing(f, p, n, b, l) PROVE Replacing(g, p, n + 1, b, l)
  <2>1. ASSUME NEW t \in Slots
        PROVE  /\ Good(g[t]) => g[t].progress <= p
               /\ g[t] # NoFile => t <= Below(g, t) + (n + 1) + (IF t > 0 THEN Gap(g) ELSE 0)
               /\ n < b /\ Good(g[t]) =>
                    IF t = 0 THEN p <= g[t].progress + (n + 1)
                    ELSE p + (IF t > l THEN 0 ELSE 1) <= g[t].progress + Below(g, t) + (n + 1) + Gap(g)
    <3>1. /\ Good(f[t]) => f[t].progress <= p
          /\ f[t] # NoFile => t <= Below(f, t) + n + (IF t > 0 THEN Gap(f) ELSE 0)
          /\ n < b /\ Good(f[t]) =>
               IF t = 0 THEN p <= f[t].progress + n
               ELSE p + (IF t > l THEN 0 ELSE 1) <= f[t].progress + Below(f, t) + n + Gap(f)
      BY <1>5 DEF Replacing, UpTo
    <3>2. QED BY <1>1, <3>1
  <2>2. n < b => p < All(g) + (n + 1) + Gap(g) \/ b < All(g) + (n + 1) + Gap(g)
    BY <1>2, <1>5 DEF Replacing
  <2>3. QED BY <2>1, <2>2 DEF Replacing, UpTo
<1>6. ASSUME Pruning(f, p, n, b, l) PROVE Pruning(g, p, n + 1, b, l)
  <2>1. ASSUME NEW t \in Slots
        PROVE  /\ Good(g[t]) => g[t].progress <= p
               /\ g[t] # NoFile => t <= Below(g, t) + (n + 1)
               /\ n < b /\ Good(g[t]) => p <= g[t].progress + Below(g, t) + (n + 1) + (IF t > l THEN 1 ELSE 0)
    BY <1>1, <1>6 DEF Pruning, UpTo
  <2>2. n < b => p <= All(g) + (n + 1) \/ b < All(g) + (n + 1)
    BY <1>2, <1>6 DEF Pruning
  <2>3. QED BY <2>1, <2>2 DEF Pruning, UpTo
<1>7. QED BY <1>3, <1>4, <1>5, <1>6

-----------------------------------------------------------------------------
(* What the next session finds.                                             *)

\* Whatever a flush was doing, a session finds what was confirmed, less the faults.
LEMMA KeptValue ==
  ASSUME NEW f, NEW p \in Nat, NEW n \in Nat, NEW b \in Nat, NEW s \in Slots, NEW l \in Slots,
         \/ Plain(f, p, n, b)
         \/ Moving(f, p, n, b, s, l) /\ s < l /\ b <= l
         \/ Replacing(f, p, n, b, l) /\ b <= l
         \/ Pruning(f, p, n, b, l) /\ b <= l
  PROVE  /\ BestIn(f) \in Nat /\ BestIn(f) <= p
         /\ n < b => p <= BestIn(f) + n
<1>0. 0 \in Slots /\ l \in Nat /\ s \in Nat /\ Gap(f) \in {0, 1} /\ UpTo(f, p)
  BY Numbers DEF Slots, Plain, Moving, Replacing, Pruning
<1>1. CASE \A t \in Slots : ~Good(f[t])
  <2>1. BestIn(f) = 0 /\ All(f) = 0
    BY <1>1, BestInNone
  <2>2. n < b => p <= n
    BY <1>0, <2>1 DEF Plain, Moving, Replacing, Pruning
  <2>3. QED BY <2>1, <2>2
<1>2. ASSUME NEW t \in Slots, Good(f[t]), Below(f, t) = 0
      PROVE  /\ BestIn(f) \in Nat /\ BestIn(f) <= p
             /\ n < b => p <= BestIn(f) + n
  <2>1. BestIn(f) = f[t].progress
    BY <1>2, BestInIs
  <2>2. t \in Nat /\ f[t].progress \in Nat /\ f[t] # NoFile /\ f[t].progress <= p
    BY <1>0, <1>2, Numbers DEF UpTo
  <2>3. CASE Plain(f, p, n, b)
    BY <1>2, <2>1, <2>2, <2>3 DEF Plain
  <2>4. CASE Moving(f, p, n, b, s, l) /\ s < l /\ b <= l
    <3>1. /\ t <= 0 + n + (IF t > s THEN 1 ELSE 0)
          /\ n < b => p <= f[t].progress + 0 + n + (IF t > l THEN 1 ELSE 0)
      BY <1>2, <2>2, <2>4 DEF Moving
    <3>2. QED BY <1>0, <2>1, <2>2, <2>4, <3>1
  <2>5. CASE Replacing(f, p, n, b, l) /\ b <= l
    <3>1. /\ t <= 0 + n + (IF t > 0 THEN Gap(f) ELSE 0)
          /\ n < b => IF t = 0 THEN p <= f[t].progress + n
                      ELSE p + (IF t > l THEN 0 ELSE 1) <= f[t].progress + 0 + n + Gap(f)
      BY <1>2, <2>2, <2>5 DEF Replacing
    <3>2. QED BY <1>0, <2>1, <2>2, <2>5, <3>1
  <2>6. CASE Pruning(f, p, n, b, l) /\ b <= l
    <3>1. /\ t <= 0 + n
          /\ n < b => p <= f[t].progress + 0 + n + (IF t > l THEN 1 ELSE 0)
      BY <1>2, <2>2, <2>6 DEF Pruning
    <3>2. QED BY <1>0, <2>1, <2>2, <2>6, <3>1
  <2>7. QED BY <2>3, <2>4, <2>5, <2>6
<1>3. QED BY <1>1, <1>2, FirstGood

\* What a rename, a copy or the removal of old backups can take away is the last
\* usable file, and only after as many faults as there are backups.
LEMMA RotatedValue ==
  ASSUME NEW f \in [Slots -> Content], NEW p, NEW n \in Nat, NEW b \in Nat,
         NEW s \in 2..MaxBackups, f[s - 1] # NoFile,
         f[s] = NoFile \/ (Plain(f, p, n, b) /\ b <= s)
  PROVE  BestIn(Rotated(f, s)) = BestIn(f) \/ b <= n
<1> DEFINE g == Rotated(f, s)
<1>1. /\ s \in Slots /\ s - 1 \in Slots /\ s \in Nat
      /\ g[s] = f[s - 1] /\ g[s - 1] = NoFile
      /\ \A t \in Slots : t # s /\ t # s - 1 => g[t] = f[t]
      /\ Below(f, s) = Below(f, s - 1) + One(f[s - 1])
  BY RotatedFiles DEF Slots
<1>2. \A t \in Nat : Below(g, t) = Below(f, t) - (IF t = s THEN One(f[s - 1]) ELSE 0)
                                               - (IF t > s THEN One(f[s]) ELSE 0)
  BY RotatedFiles
<1> HIDE DEF g
<1>3. ~Good(NoFile) /\ One(f[s]) \in {0, 1} /\ One(f[s - 1]) \in {0, 1}
  BY NotAGeneration DEF Good, One
<1>4. CASE \A t \in Slots : ~Good(f[t])
  <2>1. \A t \in Slots : ~Good(g[t])
    BY <1>1, <1>3, <1>4
  <2>2. QED
    <3>1. BestIn(f) = 0
      BY <1>4, BestInNone
    <3>2. BestIn(g) = 0
      BY <2>1, BestInNone
    <3>3. QED BY <3>1, <3>2 DEF g
<1>5. ASSUME NEW t \in Slots, Good(f[t]), Below(f, t) = 0
      PROVE  BestIn(g) = BestIn(f) \/ b <= n
  <2>1. BestIn(f) = f[t].progress /\ t \in Nat /\ f[t] # NoFile
    BY <1>5, BestInIs, Numbers
  <2>2. Below(g, t) = 0 - (IF t = s THEN One(f[s - 1]) ELSE 0) - (IF t > s THEN One(f[s]) ELSE 0)
    BY <1>2, <1>5, <2>1
  <2>3. CASE t = s
    <3>1. Plain(f, p, n, b) /\ b <= s
      BY <2>1, <2>3
    <3>2. s <= 0 + n
      BY <1>5, <2>1, <2>3, <3>1 DEF Plain
    <3>3. QED BY <1>1, <3>1, <3>2
  <2>4. CASE t = s - 1
    <3>1. Below(g, s) = Below(f, s) - One(f[s - 1])
      <4>1. Below(f, s) \in Nat /\ ~(s > s)
        BY <1>1, SomeBelow
      <4>2. Below(g, s) = Below(f, s) - (IF s = s THEN One(f[s - 1]) ELSE 0) - (IF s > s THEN One(f[s]) ELSE 0)
        BY <1>1, <1>2
      <4>3. QED BY <1>3, <4>1, <4>2
    <3>2. Below(g, s) = 0 /\ Good(g[s])
      BY <1>1, <1>3, <1>5, <2>4, <3>1
    <3>3. QED BY <1>1, <2>1, <2>4, <3>2, BestInIs
  <2>5. CASE t # s /\ t # s - 1
    <3>1. Below(g, t) \in Nat
      BY <2>1, SomeBelow
    <3>2. Below(g, t) = 0 /\ Good(g[t]) /\ g[t] = f[t]
      BY <1>1, <1>3, <1>5, <2>2, <2>5, <3>1
    <3>3. QED BY <2>1, <3>2, BestInIs
  <2>6. QED BY <2>3, <2>4, <2>5
<1>6. QED BY <1>4, <1>5, FirstGood DEF g

\* The copy loses the first usable file only in the same way.
LEMMA CopiedValue ==
  ASSUME NEW f \in [Slots -> Content], NEW p, NEW n \in Nat, NEW b \in Nat, f[0] # NoFile,
         f[1] = NoFile \/ (Plain(f, p, n, b) /\ b <= 1)
  PROVE  BestIn([f EXCEPT ![1] = f[0]]) = BestIn(f) \/ b <= n
<1> DEFINE g == [f EXCEPT ![1] = f[0]]
<1>1. /\ 1 \in Slots /\ g[1] = f[0] /\ g[0] = f[0] /\ \A t \in Slots : t # 1 => g[t] = f[t]
      /\ Gap(f) \in {0, 1} /\ One(f[1]) \in {0, 1} /\ One(f[0]) \in {0, 1} /\ Below(f, 1) = 1 - Gap(f)
  BY Overwritten
<1>2. \A t \in Slots : t > 1 => Below(g, t) = Below(f, t) + One(f[0]) - One(f[1])
  BY Overwritten
<1>3. 0 \in Slots /\ ~Good(NoFile)
  BY NotAGeneration DEF Slots, Good
<1> HIDE DEF g
<1>4. CASE \A t \in Slots : ~Good(f[t])
  <2>1. \A t \in Slots : ~Good(g[t])
    BY <1>1, <1>3, <1>4
  <2>2. QED
    <3>1. BestIn(f) = 0
      BY <1>4, BestInNone
    <3>2. BestIn(g) = 0
      BY <2>1, BestInNone
    <3>3. QED BY <3>1, <3>2 DEF g
<1>5. ASSUME NEW t \in Slots, Good(f[t]), Below(f, t) = 0
      PROVE  BestIn(g) = BestIn(f) \/ b <= n
  <2>1. BestIn(f) = f[t].progress /\ t \in Nat /\ f[t] # NoFile /\ Below(g, t) \in Nat /\ (t = 0 => Below(g, t) = 0)
    BY <1>5, BestInIs, Numbers
  <2>2. CASE t = 0
    <3>1. Good(g[t]) /\ g[t] = f[t] /\ Below(g, t) = 0
      BY <1>1, <1>5, <2>1, <2>2
    <3>2. QED BY <2>1, <3>1, BestInIs
  <2>3. CASE t = 1
    <3>1. Plain(f, p, n, b) /\ b <= 1
      BY <2>1, <2>3
    <3>2. 1 <= 0 + n
      BY <1>5, <2>1, <2>3, <3>1 DEF Plain
    <3>3. QED BY <3>1, <3>2
  <2>4. CASE t > 1
    <3>1. ~Good(f[0])
      BY <1>3, <1>5, <2>1, <2>4, SomeBelow
    <3>2. Good(g[t]) /\ g[t] = f[t] /\ Below(g, t) = 0
      <4>1. One(f[0]) = 0
        BY <3>1 DEF One
      <4>2. Below(g, t) = 0 + One(f[0]) - One(f[1])
        BY <1>2, <1>5, <2>4
      <4>3. QED BY <1>1, <1>5, <2>1, <2>4, <4>1, <4>2
    <3>3. QED BY <2>1, <3>2, BestInIs
  <2>5. QED BY <2>1, <2>2, <2>3, <2>4
<1>6. QED BY <1>4, <1>5, FirstGood DEF g

\* So does the removal of the files beyond the setting.
LEMMA PrunedValue ==
  ASSUME NEW f \in [Slots -> Content], NEW p, NEW n \in Nat, NEW b \in Nat, NEW l \in Slots,
         Pruning(f, p, n, b, l), b <= l
  PROVE  BestIn(Pruned(f, l)) = BestIn(f) \/ b <= n
<1> DEFINE g == Pruned(f, l)
<1>1. /\ \A t \in Slots : t <= l => g[t] = f[t]
      /\ \A t \in Slots : t > l => g[t] = NoFile
  BY DEF Pruned, Slots
<1> HIDE DEF g
<1>2. l \in Nat /\ ~Good(NoFile)
  BY NotAGeneration DEF Slots, Good
<1>3. CASE \A t \in Slots : ~Good(f[t])
  <2>1. \A t \in Slots : t \in Nat
    BY DEF Slots
  <2>2. \A t \in Slots : ~Good(g[t])
    BY <1>1, <1>2, <1>3, <2>1
  <2>3. QED
    <3>1. BestIn(f) = 0
      BY <1>3, BestInNone
    <3>2. BestIn(g) = 0
      BY <2>2, BestInNone
    <3>3. QED BY <3>1, <3>2 DEF g
<1>4. ASSUME NEW t \in Slots, Good(f[t]), Below(f, t) = 0
      PROVE  BestIn(g) = BestIn(f) \/ b <= n
  <2>1. BestIn(f) = f[t].progress /\ t \in Nat /\ f[t] # NoFile
    BY <1>4, BestInIs, Numbers
  <2>2. CASE t <= l
    <3>1. \A u \in Slots : u < t => g[u] = f[u]
      BY <1>1, <1>2, <2>1, <2>2 DEF Slots
    <3>2. Below(g, t) = 0 /\ g[t] = f[t] /\ Good(g[t])
      BY <1>1, <1>4, <2>1, <2>2, <3>1, BelowSame
    <3>3. QED BY <2>1, <3>2, BestInIs
  <2>3. CASE t > l
    <3>1. t <= 0 + n
      BY <1>4, <2>1 DEF Pruning
    <3>2. QED BY <1>2, <2>1, <2>3, <3>1
  <2>4. QED BY <1>2, <2>1, <2>2, <2>3
<1>5. QED BY <1>3, <1>4, FirstGood DEF g

-----------------------------------------------------------------------------
(* The invariant of the register.                                           *)

\* The rotation has moved backups away from slot, which is free for the next.
Moved == pc \in {"rotate", "copy"} /\ slot < limit
AtRest == pc \in {"closed", "refused", "run"} \/ (pc \in {"rotate", "copy"} /\ slot = limit)

\* The next write replaces a primary that nothing keeps.
Due == pc = "replace" \/ (pc = "run" /\ badPrimary)
Reach == IF badPrimary THEN MaxBackups ELSE limit

\* Which files there are, at the places of a session and of the removal.
Layout ==
  /\ pc = "remove" => \A s \in Slots : s < slot => file[s] = NoFile
  /\ pc = "acknowledge" => \A s \in Slots : file[s] = NoFile
  /\ receipt => peak = 0 /\ ~InSession
  /\ ~receipt /\ file[0] = NoFile => \A s \in Slots : file[s] = NoFile
  /\ InSession => least <= limit
  /\ pc = "copy" => slot = 1
  /\ Moved => file[slot] = NoFile
  /\ PrimaryInv

\* What they are worth there.
Worth ==
  /\ AtRest => Plain(file, peak, faults, least)
  /\ Moved => Moving(file, peak, faults, least, slot, limit)
  /\ Due => Replacing(file, peak, faults, least, Reach)
  /\ pc = "prune" => Pruning(file, peak, faults, least, limit)
  /\ InSession => memory <= peak /\ (faults < least => peak <= memory + faults)

RegInv == Layout /\ (~receipt => Worth)

\* A session is opened.
LEMMA LayoutBegin ==
  ASSUME TypeOK, Layout, NEW l \in Limits, NEW u,
         BeginFresh(l) \/ BeginResumed(l, u) \/ BeginRefused(l, u), PrimaryInv'
  PROVE  Layout'
<1>1. CASE BeginRefused(l, u)
  BY <1>1 DEF BeginRefused, Layout, InSession, Moved
<1>2. CASE BeginFresh(l) \/ BeginResumed(l, u)
  <2>1. /\ pc' = "run" /\ limit' = l /\ least' = (IF l < least THEN l ELSE least) /\ ~receipt
        /\ UNCHANGED <<file, slot, receipt, peak>>
    BY <1>2 DEF BeginFresh, BeginResumed, Open
  <2>2. least' <= limit'
    <3>1. l \in Nat /\ least \in Nat
      BY DEF TypeOK, Slots
    <3>2. QED BY <2>1, <3>1
  <2>3. QED BY <2>1, <2>2 DEF Layout, InSession, Moved
<1>3. QED BY <1>1, <1>2

\* The steps of a flush.
LEMMA LayoutFlush ==
  ASSUME TypeOK, Layout, WriteTemp \/ Rotate \/ Copy \/ Replace \/ Prune \/ FlushFails, PrimaryInv'
  PROVE  Layout'
<1>0. /\ file \in [Slots -> Content] /\ 0 \in Slots /\ limit \in Nat /\ slot \in Nat
      /\ InSession' => InSession /\ UNCHANGED <<least, limit, receipt>>
      /\ InSession /\ ~receipt
  BY DEF TypeOK, Slots, Layout, InSession, WriteTemp, AfterTemp, Rotate, Copy, Replace, Prune, FlushFails
<1>1. CASE WriteTemp
  <2>1. /\ pc' = AfterTemp /\ slot' = limit /\ UNCHANGED <<file, limit, receipt, peak, least>>
    BY <1>1 DEF WriteTemp
  <2>2. pc' \in {"replace", "rotate", "copy"} /\ (pc' = "copy" => limit = 1)
    BY <1>0, <2>1 DEF AfterTemp
  <2>3. ~Moved'
    BY <1>0, <2>1 DEF Moved
  <2>4. QED BY <1>0, <2>1, <2>2, <2>3 DEF Layout, InSession
<1>2. CASE Rotate
  <2>1. /\ slot \in 2..limit /\ limit \in Slots /\ slot - 1 \in Slots /\ slot \in Slots
        /\ slot - 1 # 0 /\ slot # 0
    BY <1>2 DEF Rotate, TypeOK, Slots
  <2>2. /\ slot' = slot - 1 /\ pc' = (IF slot = 2 THEN "copy" ELSE "rotate")
        /\ UNCHANGED <<limit, receipt, peak, least>>
        /\ file' = Rotated(file, slot)
    BY <1>2 DEF Rotate, Rotated
  <2>3. file'[slot - 1] = NoFile /\ file'[0] = file[0]
    BY <1>0, <2>1, <2>2 DEF Rotated
  <2>4. file[0] = NoFile => \A s \in Slots : file'[s] = NoFile
    BY <1>0, <2>1, <2>2 DEF Rotated, Layout
  <2>5. pc' = "copy" => slot' = 1
    BY <2>1, <2>2
  <2>6. QED BY <1>0, <2>2, <2>3, <2>4, <2>5 DEF Layout, InSession
<1>3. CASE Copy
  <2>1. /\ pc' = "replace" /\ UNCHANGED <<limit, receipt, peak, least>>
        /\ file'[0] = file[0] /\ (file[0] = NoFile => file' = file)
    BY <1>0, <1>3 DEF Copy
  <2>2. QED BY <1>0, <2>1 DEF Layout, InSession, Moved
<1>4. CASE Replace
  <2>1. /\ pc' = "prune" /\ UNCHANGED <<limit, receipt, least>> /\ file'[0] = temp /\ pc = "replace"
    BY <1>0, <1>4 DEF Replace
  <2>2. temp # NoFile
    <3>1. temp = [batch |-> batch, progress |-> memory + 1, sound |-> TRUE] /\ memory < MaxProgress
          /\ batch \in 1..MaxBatch /\ memory \in -1..MaxProgress /\ memory # -1
      BY <1>0, <2>1 DEF TypeOK
    <3>2. memory + 1 \in 1..MaxProgress
      BY <3>1
    <3>3. temp \in Generation
      BY <3>1, <3>2 DEF Generation
    <3>4. QED BY <3>3, NotAGeneration
  <2>3. QED BY <1>0, <2>1, <2>2 DEF Layout, InSession, Moved
<1>5. CASE Prune
  <2>1. /\ pc' = "run" /\ UNCHANGED <<limit, receipt, peak, least>> /\ file' = Pruned(file, limit)
    BY <1>5 DEF Prune, Pruned
  <2>2. file'[0] = file[0] /\ (file[0] = NoFile => \A s \in Slots : file'[s] = NoFile)
    BY <1>0, <2>1 DEF Pruned, Layout
  <2>3. QED BY <1>0, <2>1, <2>2 DEF Layout, InSession, Moved
<1>6. CASE FlushFails
  <2>1. /\ pc' = "run" /\ UNCHANGED <<limit, receipt, peak, least>> /\ file'[0] = file[0]
        /\ file[0] = NoFile => file' = file
    BY <1>0, <1>6 DEF FlushFails
  <2>2. QED BY <1>0, <2>1 DEF Layout, InSession, Moved
<1>7. QED BY <1>1, <1>2, <1>3, <1>4, <1>5, <1>6

\* The end of a session and of a batch, and faults.
LEMMA LayoutEnd ==
  ASSUME TypeOK, Layout, Close \/ Publish \/ RemoveFile \/ Acknowledge \/ Recover \/ Rerun \/ Crash, PrimaryInv'
  PROVE  Layout'
<1>0. /\ file \in [Slots -> Content] /\ 0 \in Slots /\ limit \in Nat /\ slot \in Nat /\ slot \in Slots
      /\ \A s \in Slots : ~(s < 0)
      /\ pc \in {"remove", "acknowledge"} => receipt
  BY DEF TypeOK, Slots
<1>1. CASE Close \/ Rerun
  <2>1. /\ pc' = "closed" /\ UNCHANGED <<file, limit, receipt, peak, least>>
    BY <1>1 DEF Close, Rerun
  <2>2. QED BY <2>1 DEF Layout, InSession, Moved
<1>2. CASE Publish
  <2>1. /\ pc' = "remove" /\ slot' = 0 /\ peak' = 0 /\ receipt'
    BY <1>2 DEF Publish
  <2>2. QED BY <1>0, <2>1 DEF Layout, InSession, Moved
<1>3. CASE RemoveFile
  <2>1. /\ UNCHANGED <<receipt, peak>> /\ pc = "remove"
        /\ file'[slot] = NoFile /\ \A s \in Slots : s # slot => file'[s] = file[s]
        /\ IF slot = MaxBackups THEN pc' = "acknowledge" ELSE pc' = "remove" /\ slot' = slot + 1
    BY <1>0, <1>3 DEF RemoveFile
  <2>2. \A s \in Slots : s <= slot => file'[s] = NoFile
    BY <1>0, <2>1 DEF Layout, Slots
  <2>3. pc' = "acknowledge" => \A s \in Slots : file'[s] = NoFile
    BY <2>1, <2>2 DEF Slots
  <2>4. pc' = "remove" => \A s \in Slots : s < slot' => file'[s] = NoFile
    BY <1>0, <2>1, <2>2 DEF Slots
  <2>5. receipt' /\ peak' = 0 /\ pc' \in {"remove", "acknowledge"}
    BY <1>0, <2>1 DEF Layout
  <2>6. QED BY <2>3, <2>4, <2>5 DEF Layout, InSession, Moved
<1>4. CASE Acknowledge
  <2>1. /\ pc' = "closed" /\ UNCHANGED <<file, limit, peak, least>> /\ ~receipt' /\ \A s \in Slots : file[s] = NoFile
    BY <1>4 DEF Acknowledge, Layout
  <2>2. QED BY <2>1 DEF Layout, InSession, Moved
<1>5. CASE Recover
  <2>1. /\ pc' = "remove" /\ slot' = 0 /\ receipt' /\ receipt /\ UNCHANGED peak
    BY <1>5 DEF Recover
  <2>2. QED BY <1>0, <2>1 DEF Layout, InSession, Moved
<1>6. CASE Crash
  <2>1. /\ pc' = "closed" /\ UNCHANGED <<limit, receipt, peak, least>> /\ file'[0] = file[0]
        /\ file[0] = NoFile => file' = file
    BY <1>0, <1>6 DEF Crash
  <2>2. QED BY <2>1 DEF Layout, InSession, Moved
<1>7. QED BY <1>1, <1>2, <1>3, <1>4, <1>5, <1>6

\* Damage changes a file that is there.
LEMMA DamageFacts ==
  ASSUME TypeOK, NEW d \in Slots, Damage(d)
  PROVE  /\ Spoiled(file, file', d) /\ file'[d] # NoFile
         /\ faults' = faults + 1
         /\ UNCHANGED <<temp, pc, slot, memory, limit, badPrimary, receipt, batch, peak, least>>
<1>0. file \in [Slots -> Content] /\ file[d] \in Generation
  BY DEF TypeOK, Damage
<1>1. file' = [file EXCEPT ![d] = Bad] \/ file' = [file EXCEPT ![d].sound = FALSE]
  BY DEF Damage
<1>2. \A t \in Slots : t # d => file'[t] = file[t]
  BY <1>0, <1>1
<1>3. file'[d] = Bad \/ file'[d] = [file[d] EXCEPT !.sound = FALSE]
  BY <1>0, <1>1
<1>4. ~Good(file'[d]) /\ file'[d] # NoFile
  <2>1. CASE file'[d] = Bad
    BY <2>1, NotAGeneration, ContentAssumption DEF Good
  <2>2. CASE file'[d] = [file[d] EXCEPT !.sound = FALSE]
    <3>1. file'[d] \in Generation /\ file'[d].sound = FALSE
      BY <1>0, <2>2 DEF Generation
    <3>2. QED BY <3>1, NotAGeneration DEF Good
  <2>3. QED BY <1>3, <2>1, <2>2
<1>5. file[d] # NoFile
  BY <1>0, NotAGeneration
<1>6. QED BY <1>2, <1>4, <1>5 DEF Spoiled, Damage

\* A file that decays is still there.
LEMMA LayoutDamage ==
  ASSUME TypeOK, Layout, NEW d \in Slots, Damage(d), PrimaryInv'
  PROVE  Layout'
<1>1. /\ file[d] # NoFile /\ file'[d] # NoFile /\ \A t \in Slots : t # d => file'[t] = file[t]
      /\ UNCHANGED <<pc, slot, limit, receipt, peak, least>>
  BY DamageFacts DEF Spoiled
<1>2. \A t \in Slots : file'[t] = NoFile <=> file[t] = NoFile
  BY <1>1
<1>3. 0 \in Slots /\ slot \in Slots
  BY DEF Slots, TypeOK
<1>4. QED BY <1>1, <1>2, <1>3 DEF Layout, InSession, Moved

\* Every step keeps the layout.
LEMMA LayoutStep == TypeOK /\ Layout /\ [Next]_vars => Layout'
<1> SUFFICES ASSUME TypeOK, Layout, [Next]_vars PROVE Layout'
  OBVIOUS
<1>0. PrimaryInv'
  BY PrimaryStep DEF Layout
<1>1. CASE UNCHANGED vars
  BY <1>0, <1>1 DEF Layout, vars, InSession, Moved
<1>2. CASE Next
  <2>1. {} \in SUBSET Slots
    OBVIOUS
  <2>2. QED BY <1>0, <1>2, <2>1, LayoutBegin, LayoutFlush, LayoutEnd, LayoutDamage DEF Next
<1>3. QED BY <1>1, <1>2

\* The kinds of the numbers of a state.
LEMMA StateNumbers ==
  ASSUME TypeOK
  PROVE  /\ file \in [Slots -> Content] /\ 0 \in Slots /\ MaxBackups \in Slots
         /\ peak \in Nat /\ faults \in Nat /\ least \in Nat /\ least <= MaxBackups
         /\ limit \in Slots /\ limit \in Nat /\ slot \in Slots /\ slot \in Nat /\ limit <= MaxBackups
         /\ memory \in Int /\ (InSession => memory \in Nat)
         /\ Reach \in Slots /\ limit <= Reach
BY DEF TypeOK, Slots, Reach

\* The generation a session resumes is the first usable one it could read, if it
\* validates payloads.
LEMMA SelectedIsFirst ==
  ASSUME Deferred, NEW l \in Slots, NEW u, NEW s \in Selected(l, u)
  PROVE  /\ s \in Slots /\ s <= l /\ Good(file[s])
         /\ \A t \in Slots : t < s /\ Good(file[t]) => t \in u
<1> DEFINE accepted == {t \in 0..l : Accepted(t)} \cap ({t \in 0..l : Decoded(t)} \ u)
<1>1. accepted \in SUBSET Slots
  BY DEF Slots
<1>2. {t \in {r \in 0..l : Decoded(r)} \ u : Accepted(t)} = accepted
  OBVIOUS
<1>3. accepted # {} /\ s = First(accepted)
  BY <1>2 DEF Selected
<1>4. s \in accepted /\ \A t \in accepted : s <= t
  BY <1>1, <1>3, FirstOfSlots
<1>5. ASSUME NEW t \in Slots, t < s, Good(file[t]) PROVE t \in u
  <2>1. t \in 0..l /\ Accepted(t) /\ Decoded(t)
    BY <1>4, <1>5 DEF Slots, Accepted, Decoded, Good
  <2>2. t \notin accepted
    BY <1>1, <1>4, <1>5 DEF Slots
  <2>3. QED BY <2>1, <2>2
<1>6. QED BY <1>1, <1>4, <1>5 DEF Accepted, Good

\* A session opens: what it passes over was a fault each.
LEMMA WorthBegin ==
  ASSUME Deferred, TypeOK, RegInv, NEW l \in Limits, NEW u \in SUBSET Slots,
         BeginFresh(l) \/ BeginResumed(l, u) \/ BeginRefused(l, u)
  PROVE  Worth'
<1>0. /\ l \in Slots /\ l \in Nat /\ Cardinality(u) \in Nat /\ ~receipt /\ pc = "closed"
      /\ Plain(file, peak, faults, least)
  <2>1. l \in Slots /\ l \in Nat
    BY DEF Slots
  <2>2. ~receipt /\ pc = "closed"
    BY DEF BeginFresh, BeginResumed, BeginRefused
  <2>3. Plain(file, peak, faults, least)
    BY <2>2 DEF RegInv, Worth, AtRest
  <2>4. QED BY <2>1, <2>2, <2>3, UnreadIsNat
<1>1. CASE BeginRefused(l, u)
  <2>1. pc' = "refused" /\ faults' = faults + Cardinality(u) /\ UNCHANGED <<file, peak, least>>
    BY <1>1 DEF BeginRefused
  <2>2. Plain(file, peak, faults + Cardinality(u), least)
    BY <1>0, StateNumbers, PlainLess
  <2>3. QED BY <2>1, <2>2 DEF Worth, AtRest, Moved, Due, InSession
<1>2. CASE BeginFresh(l)
  <2>1. /\ pc' = "run" /\ memory' = 0 /\ badPrimary' = FALSE /\ UNCHANGED <<file, peak>>
        /\ faults' = faults + 0 /\ least' = (IF l < least THEN l ELSE least)
    BY <1>2, FS_EmptySet DEF BeginFresh, Open
  <2>2. faults' = faults /\ least' \in Nat /\ least' <= least
    BY <1>0, <2>1, StateNumbers
  <2>3. Plain(file, peak, faults, least')
    BY <1>0, <2>2, StateNumbers, PlainLess
  <2>4. \A s \in Slots : file[s] = NoFile
    <3>1. 0 \in 0..l /\ file[0] = NoFile
      BY <1>0, <1>2 DEF BeginFresh, Existing
    <3>2. QED BY <1>0, <3>1 DEF RegInv, Layout
  <2>5. All(file) = 0
    BY <2>4, BestInNone, NotAGeneration DEF Good
  <2>6. faults < least' => peak <= faults
    BY <2>2, <2>3, <2>5, StateNumbers DEF Plain
  <2>7. QED BY <2>1, <2>2, <2>3, <2>6, StateNumbers DEF Worth, AtRest, Moved, Due, InSession
<1>3. CASE BeginResumed(l, u)
  <2>1. PICK s \in Selected(l, u) : Open(l, u, file[s].progress, s # 0)
    BY <1>3 DEF BeginResumed
  <2>2. /\ s \in Slots /\ Good(file[s])
        /\ \A t \in Slots : t < s /\ Good(file[t]) => t \in u
    BY <1>0, SelectedIsFirst
  <2>3. /\ pc' = "run" /\ memory' = file[s].progress /\ badPrimary' = (s # 0) /\ UNCHANGED <<file, peak>>
        /\ faults' = faults + Cardinality(u) /\ least' = (IF l < least THEN l ELSE least)
    BY <2>1 DEF Open
  <2>4. faults' \in Nat /\ faults <= faults' /\ least' \in Nat /\ least' <= least
    BY <1>0, <2>3, StateNumbers
  <2>5. Plain(file, peak, faults', least')
    BY <1>0, <2>4, StateNumbers, PlainLess
  <2>6. Below(file, s) <= Cardinality(u) /\ s \in Nat /\ Below(file, s) \in Nat /\ file[s].progress \in Nat
    <3>1. GoodBelow(file, s) \in SUBSET u /\ IsFiniteSet(u)
      <4>1. IsFiniteSet(Slots)
        BY FS_Interval DEF Slots
      <4>2. QED BY <2>2, <4>1, FS_Subset DEF GoodBelow
    <3>2. Cardinality(GoodBelow(file, s)) <= Cardinality(u)
      BY <3>1, FS_Subset
    <3>3. QED BY <2>2, <3>2, Numbers DEF Below
  <2>7. memory' <= peak /\ (faults' < least' => peak <= memory' + faults')
    <3>1. file[s].progress <= peak
      BY <1>0, <2>2 DEF Plain, UpTo
    <3>2. faults < least => peak <= file[s].progress + Below(file, s) + faults
      BY <1>0, <2>2 DEF Plain
    <3>3. QED BY <1>0, <2>3, <2>4, <2>6, <3>1, <3>2, StateNumbers
  <2>8. badPrimary' => Replacing(file, peak, faults', least', MaxBackups)
    <3>1. SUFFICES ASSUME s # 0 PROVE Replacing(file, peak, faults', least', MaxBackups)
      BY <2>3
    <3>2. faults < faults' \/ ~Good(file[0])
      <4>1. ASSUME Good(file[0]) PROVE faults < faults'
        <5>1. 0 \in u
          BY <2>2, <2>6, <3>1, <4>1, StateNumbers
        <5>2. Cardinality(u) # 0
          <6>1. IsFiniteSet(u)
            <7>1. IsFiniteSet(Slots)
              BY FS_Interval DEF Slots
            <7>2. QED BY <7>1, FS_Subset
          <6>2. QED BY <5>1, <6>1, FS_EmptySet
        <5>3. QED BY <1>0, <2>3, <5>2, StateNumbers
      <4>2. QED BY <4>1
    <3>3. peak \in Nat /\ faults \in Nat /\ least \in Nat /\ MaxBackups \in Slots
      BY StateNumbers
    <3>4. QED BY <1>0, <2>4, <3>2, <3>3, PlainReplaced
  <2>9. QED BY <2>3, <2>5, <2>7, <2>8 DEF Worth, AtRest, Moved, Due, Reach, InSession
<1>4. QED BY <1>1, <1>2, <1>3

\* A flush starts with the rename, the copy or the replacement.
LEMMA WorthWrite ==
  ASSUME TypeOK, RegInv, ~receipt, WriteTemp
  PROVE  Worth'
<1>0. /\ pc = "run" /\ pc' = AfterTemp /\ slot' = limit /\ UNCHANGED <<file, memory, limit, badPrimary, peak, faults, least>>
      /\ Plain(file, peak, faults, least) /\ (badPrimary => Replacing(file, peak, faults, least, MaxBackups))
      /\ memory <= peak /\ (faults < least => peak <= memory + faults) /\ least <= limit
  BY DEF WriteTemp, RegInv, Worth, AtRest, Due, Reach, InSession, Layout
<1>1. CASE badPrimary
  <2>1. pc' = "replace"
    BY <1>0, <1>1 DEF AfterTemp
  <2>2. QED BY <1>0, <1>1, <2>1 DEF Worth, AtRest, Moved, Due, Reach
<1>2. CASE ~badPrimary /\ limit = 0
  <2>1. pc' = "replace" /\ least <= faults
    BY <1>0, <1>2, StateNumbers DEF AfterTemp
  <2>2. Replacing(file, peak, faults, least, limit)
    <3>1. peak \in Nat /\ faults \in Nat /\ least \in Nat /\ limit \in Slots /\ least <= least /\ faults <= faults
      BY StateNumbers
    <3>2. QED BY <1>0, <2>1, <3>1, PlainReplaced
  <2>3. QED BY <1>0, <1>2, <2>1, <2>2 DEF Worth, AtRest, Moved, Due, Reach
<1>3. CASE ~badPrimary /\ limit # 0
  <2>1. pc' \in {"rotate", "copy"}
    BY <1>0, <1>3, StateNumbers DEF AfterTemp
  <2>2. ~(limit < limit)
    BY StateNumbers
  <2>3. QED BY <1>0, <2>1, <2>2 DEF Worth, AtRest, Moved, Due
<1>4. QED BY <1>1, <1>2, <1>3

\* A rename of the rotation.
LEMMA WorthRotate ==
  ASSUME TypeOK, RegInv, ~receipt, Rotate
  PROVE  Worth'
<1>0. /\ pc = "rotate" /\ slot \in 2..MaxBackups /\ slot <= limit /\ slot \in Nat /\ limit \in Nat
      /\ pc' \in {"rotate", "copy"} /\ slot' = slot - 1 /\ UNCHANGED <<memory, limit, peak, faults, least>>
      /\ file' = IF file[slot - 1] = NoFile THEN file ELSE Rotated(file, slot)
      /\ file \in [Slots -> Content]
  BY DEF Rotate, Rotated, TypeOK, Slots
<1>1. /\ slot = limit => Plain(file, peak, faults, least)
      /\ slot < limit => Moving(file, peak, faults, least, slot, limit) /\ file[slot] = NoFile
      /\ memory <= peak /\ (faults < least => peak <= memory + faults) /\ least <= limit
  BY <1>0 DEF RegInv, Worth, Layout, AtRest, Moved, InSession
<1>2. Moving(file', peak, faults, least, slot - 1, limit)
  <2>1. CASE file[slot - 1] = NoFile
    <3>1. (Plain(file, peak, faults, least) /\ slot = limit) \/ Moving(file, peak, faults, least, slot, limit)
      BY <1>0, <1>1
    <3>2. QED BY <1>0, <2>1, <3>1, StateNumbers, NothingRotated
  <2>2. CASE file[slot - 1] # NoFile /\ slot = limit
    <3>1. limit \in 2..MaxBackups /\ file[limit - 1] # NoFile
      BY <1>0, <2>2
    <3>2. Moving(Rotated(file, limit), peak, faults, least, limit - 1, limit)
      BY <1>1, <2>2, <3>1, StateNumbers, PlainRotated
    <3>3. QED BY <1>0, <2>2, <3>2
  <2>3. CASE file[slot - 1] # NoFile /\ slot < limit
    <3>1. Moving(Rotated(file, slot), peak, faults, least, slot - 1, limit)
      BY <1>0, <1>1, <2>3, StateNumbers, MovingRotated
    <3>2. QED BY <1>0, <2>3, <3>1
  <2>4. QED BY <1>0, <2>1, <2>2, <2>3
<1>3. ~(slot - 1 = limit)
  BY <1>0
<1>4. QED BY <1>0, <1>1, <1>2, <1>3 DEF Worth, AtRest, Moved, Due

\* The copy of the primary.
LEMMA WorthCopy ==
  ASSUME TypeOK, RegInv, ~receipt, Copy
  PROVE  Worth'
<1>0. /\ pc = "copy" /\ slot = 1 /\ 1 <= limit /\ limit \in Nat /\ ~badPrimary
      /\ pc' = "replace" /\ UNCHANGED <<memory, limit, badPrimary, peak, faults, least>>
      /\ file' = IF file[0] = NoFile THEN file ELSE [file EXCEPT ![1] = file[0]]
      /\ file \in [Slots -> Content]
  BY DEF Copy, TypeOK, Slots, RegInv, Layout, PrimaryInv
<1>1. /\ limit = 1 => Plain(file, peak, faults, least)
      /\ 1 < limit => Moving(file, peak, faults, least, 1, limit) /\ file[1] = NoFile
      /\ memory <= peak /\ (faults < least => peak <= memory + faults) /\ least <= limit
      /\ file[0] = NoFile => \A s \in Slots : file[s] = NoFile
  BY <1>0 DEF RegInv, Worth, Layout, AtRest, Moved, InSession
<1>2. Replacing(file', peak, faults, least, limit)
  <2>1. CASE file[0] = NoFile
    <3>1. Plain(file, peak, faults, least) \/ Moving(file, peak, faults, least, 1, limit)
      BY <1>0, <1>1
    <3>2. Replacing(file, peak, faults, least, limit)
      BY <1>1, <2>1, <3>1, StateNumbers, NothingCopied
    <3>3. QED BY <1>0, <2>1, <3>2
  <2>2. CASE file[0] # NoFile /\ limit = 1
    <3>1. Replacing([file EXCEPT ![1] = file[0]], peak, faults, least, 1)
      BY <1>1, <2>2, StateNumbers, PlainCopied
    <3>2. QED BY <1>0, <2>2, <3>1
  <2>3. CASE file[0] # NoFile /\ 1 < limit
    <3>1. Replacing([file EXCEPT ![1] = file[0]], peak, faults, least, limit)
      BY <1>1, <2>3, StateNumbers, MovingCopied
    <3>2. QED BY <1>0, <2>3, <3>1
  <2>4. QED BY <1>0, <2>1, <2>2, <2>3
<1>3. QED BY <1>0, <1>1, <1>2 DEF Worth, AtRest, Moved, Due, Reach

\* The generation in ".new".
LEMMA TempIsGood ==
  ASSUME TypeOK, pc = "replace"
  PROVE  Good(temp) /\ temp.progress = memory + 1 /\ memory \in Nat
<1>1. /\ temp = [batch |-> batch, progress |-> memory + 1, sound |-> TRUE] /\ memory < MaxProgress
      /\ batch \in 1..MaxBatch /\ memory \in -1..MaxProgress /\ memory # -1
  BY DEF TypeOK, InSession
<1>2. memory + 1 \in 1..MaxProgress /\ memory \in Nat
  BY <1>1
<1>3. temp \in Generation
  BY <1>1, <1>2 DEF Generation
<1>4. QED BY <1>1, <1>2, <1>3 DEF Good

\* The replacement, which confirms one more generation.
LEMMA WorthReplace ==
  ASSUME TypeOK, RegInv, ~receipt, Replace
  PROVE  Worth'
<1>0. /\ pc = "replace" /\ pc' = "prune" /\ memory' = memory + 1
      /\ peak' = (IF memory + 1 > peak THEN memory + 1 ELSE peak)
      /\ UNCHANGED <<limit, faults, least>> /\ file' = [file EXCEPT ![0] = temp]
  BY DEF Replace
<1>1. /\ Replacing(file, peak, faults, least, Reach)
      /\ memory <= peak /\ (faults < least => peak <= memory + faults)
  BY <1>0 DEF RegInv, Worth, Due, InSession
<1>2. Good(temp) /\ temp.progress = memory + 1 /\ memory \in Nat
  BY <1>0, TempIsGood
<1>3. peak' \in Nat /\ peak \in Nat
  BY <1>0, <1>2, StateNumbers
<1>4. Pruning([file EXCEPT ![0] = temp], peak', faults, least, limit)
  BY <1>0, <1>1, <1>2, <1>3, StateNumbers, Replaced
<1>5. memory' <= peak' /\ (faults < least => peak' <= memory' + faults)
  BY <1>0, <1>1, <1>2, <1>3, StateNumbers
<1>6. QED BY <1>0, <1>4, <1>5 DEF Worth, AtRest, Moved, Due

\* The end of a flush.
LEMMA WorthPrune ==
  ASSUME TypeOK, RegInv, ~receipt, Prune
  PROVE  Worth'
<1>0. /\ pc = "prune" /\ pc' = "run" /\ UNCHANGED <<memory, limit, badPrimary, peak, faults, least>>
      /\ file' = Pruned(file, limit)
  BY DEF Prune, Pruned
<1>1. /\ Pruning(file, peak, faults, least, limit) /\ ~badPrimary /\ least <= limit
      /\ memory <= peak /\ (faults < least => peak <= memory + faults)
  BY <1>0 DEF RegInv, Worth, Layout, PrimaryInv, InSession
<1>2. Plain(Pruned(file, limit), peak, faults, least)
  BY <1>1, StateNumbers, PlainPruned
<1>3. QED BY <1>0, <1>1, <1>2 DEF Worth, AtRest, Moved, Due

\* Wherever a session is, it is in one of the four cases.
LEMMA SomeWorth ==
  ASSUME TypeOK, RegInv, ~receipt
  PROVE  \/ Plain(file, peak, faults, least) /\ (AtRest \/ pc = "copy")
         \/ Moving(file, peak, faults, least, slot, limit) /\ Moved /\ least <= limit
         \/ Replacing(file, peak, faults, least, Reach) /\ pc = "replace" /\ least <= Reach
         \/ Pruning(file, peak, faults, least, limit) /\ pc = "prune" /\ least <= limit
<1>0. limit \in Nat /\ slot \in Nat /\ limit <= Reach /\ Reach \in Nat /\ least \in Nat
  BY StateNumbers DEF Slots
<1>1. AtRest \/ Moved \/ pc \in {"replace", "prune"}
  <2>1. pc \in Places /\ (pc = "rotate" => slot <= limit) /\ pc \notin {"remove", "acknowledge"}
    BY <1>0 DEF TypeOK
  <2>2. pc = "copy" => slot <= limit
    BY <1>0 DEF TypeOK, RegInv, Layout
  <2>3. QED BY <1>0, <2>1, <2>2 DEF AtRest, Moved, Places
<1>2. InSession => least <= limit
  BY DEF RegInv, Layout
<1>3. CASE AtRest
  BY <1>3 DEF RegInv, Worth
<1>4. CASE Moved
  BY <1>2, <1>4 DEF RegInv, Worth, Moved, InSession
<1>5. CASE pc = "replace"
  <2>1. Replacing(file, peak, faults, least, Reach) /\ least <= limit
    BY <1>2, <1>5 DEF RegInv, Worth, Due, InSession
  <2>2. QED BY <1>0, <1>5, <2>1
<1>6. CASE pc = "prune"
  BY <1>2, <1>6 DEF RegInv, Worth, InSession
<1>7. QED BY <1>1, <1>3, <1>4, <1>5, <1>6

\* After a fault that ends a flush.
LEMMA WorthCutOff ==
  ASSUME TypeOK, RegInv, ~receipt
  PROVE  Plain(file, peak, faults + 1, least)
BY SomeWorth, StateNumbers, CutOff

\* A copy cut off leaves a part of the first backup.
LEMMA WorthHalfCopied ==
  ASSUME TypeOK, RegInv, ~receipt, pc = "copy", file[0] # NoFile
  PROVE  Plain([file EXCEPT ![1] = Bad], peak, faults + 1, least)
<1>1. slot = 1 /\ 1 <= limit /\ limit \in Nat
  BY StateNumbers DEF RegInv, Layout, TypeOK
<1>2. Plain(file, peak, faults, least) \/ (Moving(file, peak, faults, least, 1, limit) /\ file[1] = NoFile)
  BY <1>1 DEF RegInv, Worth, Layout, AtRest, Moved
<1>3. QED BY <1>2, StateNumbers, CopyCutOff

\* A call of the flush fails.
LEMMA WorthFails ==
  ASSUME TypeOK, RegInv, ~receipt, FlushFails
  PROVE  Worth'
<1>0. /\ pc' = "run" /\ faults' = faults + 1 /\ UNCHANGED <<memory, limit, badPrimary, peak, least>>
      /\ InSession
      /\ file' = file \/ (pc = "copy" /\ file[0] # NoFile /\ file' = [file EXCEPT ![1] = Bad])
  BY DEF FlushFails, InSession
<1>1. Plain(file', peak, faults + 1, least)
  BY <1>0, WorthCutOff, WorthHalfCopied
<1>2. memory <= peak /\ (faults + 1 < least => peak <= memory + (faults + 1))
  BY <1>0, StateNumbers DEF RegInv, Worth
<1>3. badPrimary => Replacing(file', peak, faults + 1, least, MaxBackups)
  <2>1. SUFFICES ASSUME badPrimary PROVE Replacing(file', peak, faults + 1, least, MaxBackups)
    OBVIOUS
  <2>2. pc \in {"run", "replace"}
    BY <1>0, <2>1 DEF FlushFails, RegInv, Layout, PrimaryInv
  <2>3. file' = file /\ Replacing(file, peak, faults, least, MaxBackups)
    BY <1>0, <2>1, <2>2 DEF RegInv, Worth, Due, Reach
  <2>4. QED BY <2>3, StateNumbers, ReplacingLess
<1>4. QED BY <1>0, <1>1, <1>2, <1>3 DEF Worth, AtRest, Moved, Due, Reach

\* The process dies.
LEMMA WorthCrash ==
  ASSUME TypeOK, RegInv, ~receipt, Crash
  PROVE  Worth'
<1>0. /\ pc' = "closed" /\ faults' = faults + 1 /\ UNCHANGED <<peak, least>>
      /\ file' = file \/ (pc = "copy" /\ file[0] # NoFile /\ file' = [file EXCEPT ![1] = Bad])
  BY DEF Crash
<1>1. Plain(file', peak, faults + 1, least)
  BY <1>0, WorthCutOff, WorthHalfCopied
<1>2. QED BY <1>0, <1>1 DEF Worth, AtRest, Moved, Due, InSession

\* A file decays.
LEMMA WorthDamage ==
  ASSUME TypeOK, RegInv, ~receipt, NEW d \in Slots, Damage(d)
  PROVE  Worth'
<1>0. /\ Spoiled(file, file', d) /\ faults' = faults + 1
      /\ UNCHANGED <<pc, slot, memory, limit, badPrimary, peak, least>>
  BY DamageFacts
<1>1. /\ Plain(file, peak, faults, least) => Plain(file', peak, faults + 1, least)
      /\ Moving(file, peak, faults, least, slot, limit) => Moving(file', peak, faults + 1, least, slot, limit)
      /\ Replacing(file, peak, faults, least, Reach) => Replacing(file', peak, faults + 1, least, Reach)
      /\ Pruning(file, peak, faults, least, limit) => Pruning(file', peak, faults + 1, least, limit)
  BY <1>0, StateNumbers, SpoiledLess
<1>2. InSession => memory <= peak /\ (faults + 1 < least => peak <= memory + (faults + 1))
  BY StateNumbers DEF RegInv, Worth
<1>3. QED BY <1>0, <1>1, <1>2 DEF RegInv, Worth, AtRest, Moved, Due, Reach, InSession

\* The next batch starts with no file at all.
LEMMA WorthAcknowledged ==
  ASSUME TypeOK, RegInv, Acknowledge
  PROVE  Worth'
<1>1. /\ \A s \in Slots : file[s] = NoFile
      /\ peak = 0 /\ pc' = "closed" /\ UNCHANGED <<file, peak, faults, least>>
  BY DEF Acknowledge, TypeOK, RegInv, Layout
<1>2. \A s \in Slots : ~Good(file[s])
  BY <1>1, NotAGeneration DEF Good
<1>3. Plain(file, 0, faults, least)
  <2>1. All(file) = 0
    BY <1>2, BestInNone
  <2>2. QED BY <1>1, <1>2, <2>1, StateNumbers DEF Plain, UpTo
<1>4. QED BY <1>1, <1>3 DEF Worth, AtRest, Moved, Due, InSession

\* Every step keeps the invariant of the register.
LEMMA RegStep ==
  ASSUME Deferred PROVE TypeOK /\ RegInv /\ [Next]_vars => RegInv'
<1> SUFFICES ASSUME TypeOK, RegInv, [Next]_vars PROVE RegInv'
  OBVIOUS
<1>1. Layout'
  BY LayoutStep DEF RegInv
<1>2. SUFFICES ASSUME ~receipt' PROVE Worth'
  BY <1>1 DEF RegInv
<1>3. CASE UNCHANGED vars
  BY <1>2, <1>3 DEF RegInv, Worth, vars, AtRest, Moved, Due, Reach, InSession
<1>4. ASSUME NEW l \in Limits, NEW u \in SUBSET Slots,
             BeginFresh(l) \/ BeginResumed(l, u) \/ BeginRefused(l, u)
      PROVE  Worth'
  BY <1>4, WorthBegin
<1>5. CASE WriteTemp \/ Rotate \/ Copy \/ Replace \/ Prune \/ FlushFails
  <2>1. ~receipt
    BY <1>2, <1>5 DEF WriteTemp, Rotate, Copy, Replace, Prune, FlushFails
  <2>2. QED BY <1>5, <2>1, WorthWrite, WorthRotate, WorthCopy, WorthReplace, WorthPrune, WorthFails
<1>6. CASE Close \/ Rerun
  <2>1. /\ pc' = "closed" /\ UNCHANGED <<file, receipt, peak, faults, least>> /\ AtRest
    BY <1>6 DEF Close, Rerun, AtRest
  <2>2. QED BY <1>2, <2>1 DEF RegInv, Worth, AtRest, Moved, Due, InSession
<1>7. CASE Publish \/ RemoveFile \/ Recover
  BY <1>2, <1>7 DEF Publish, RemoveFile, Recover, TypeOK
<1>8. CASE Acknowledge
  BY <1>8, WorthAcknowledged
<1>9. CASE Crash
  BY <1>2, <1>9, WorthCrash DEF Crash
<1>10. ASSUME NEW s \in Slots, Damage(s) PROVE Worth'
  <2>1. ~receipt
    BY <1>2, <1>10 DEF Damage
  <2>2. QED BY <1>10, <2>1, WorthDamage
<1>11. CASE Next
  <2>1. {} \in SUBSET Slots
    OBVIOUS
  <2>2. QED BY <1>4, <1>5, <1>6, <1>7, <1>8, <1>9, <1>10, <1>11, <2>1 DEF Next
<1>12. QED BY <1>3, <1>11

\* It holds at the start.
LEMMA RegInit == Init => RegInv
<1> SUFFICES ASSUME Init PROVE RegInv
  OBVIOUS
<1>1. /\ pc = "closed" /\ peak = 0 /\ faults = 0 /\ ~receipt /\ least = MaxBackups
      /\ \A s \in Slots : ~Good(file[s])
      /\ \A s \in Slots : file[s] # NoFile => s = 0
      /\ 0 \in Slots /\ (file[0] = NoFile => \A s \in Slots : file[s] = NoFile)
  BY NotAGeneration DEF Init, Good, Slots
<1>2. Plain(file, 0, 0, MaxBackups)
  <2>1. All(file) = 0 /\ Below(file, 0) = 0
    BY <1>1, BestInNone, Numbers
  <2>2. QED BY <1>1, <2>1 DEF Plain, UpTo
<1>3. QED BY <1>1, <1>2 DEF RegInv, Layout, Worth, AtRest, Moved, Due, InSession, PrimaryInv

-----------------------------------------------------------------------------
(* The refinement.                                                          *)

\* What a session finds, at any place.
LEMMA ValueKept ==
  ASSUME TypeOK, RegInv, ~receipt
  PROVE  /\ BestIn(file) \in Nat /\ BestIn(file) <= peak
         /\ faults < least => peak <= BestIn(file) + faults
<1>1. CASE Plain(file, peak, faults, least)
  BY <1>1, StateNumbers, KeptValue
<1>2. CASE Moving(file, peak, faults, least, slot, limit) /\ Moved /\ least <= limit
  <2>1. slot < limit
    BY <1>2 DEF Moved
  <2>2. QED BY <1>2, <2>1, StateNumbers, KeptValue
<1>3. CASE Replacing(file, peak, faults, least, Reach) /\ least <= Reach
  BY <1>3, StateNumbers, KeptValue
<1>4. CASE Pruning(file, peak, faults, least, limit) /\ least <= limit
  BY <1>4, StateNumbers, KeptValue
<1>5. QED BY <1>1, <1>2, <1>3, <1>4, SomeWorth

\* What the register holds, and that it is as close to the peak as promised.
Value == IF receipt THEN 0 ELSE Best
ValueInv == /\ Value \in Nat /\ Value <= peak
            /\ faults < least => peak <= Value + faults

\* The register holds what a session finds, and nothing under a receipt.
LEMMA ValueHolds == TypeOK /\ RegInv => ValueInv
<1> SUFFICES ASSUME TypeOK, RegInv PROVE ValueInv
  OBVIOUS
<1>1. CASE receipt
  BY <1>1, StateNumbers DEF RegInv, Layout, Value, ValueInv
<1>2. CASE ~receipt
  BY <1>2, ValueKept, BestIsBestIn DEF Value, ValueInv
<1>3. QED BY <1>1, <1>2

LEMMA ValueHoldsAfter == TypeOK' /\ RegInv' => ValueInv'
BY ValueHolds, PTL

\* The register changes only when the files or the receipt do.
LEMMA ValueSame ==
  ASSUME UNCHANGED <<file, receipt>>
  PROVE  Value' = Value
BY BestIsBestIn DEF Value

\* A session that opens loads the register, or finds no usable file.
LEMMA BeginLoads ==
  ASSUME Deferred, TypeOK, RegInv, RegInv', NEW l \in Limits, NEW u \in SUBSET Slots,
         BeginFresh(l) \/ BeginResumed(l, u) \/ BeginRefused(l, u)
  PROVE  Register!Load
<1>0. /\ ~receipt /\ pc = "closed" /\ UNCHANGED <<file, receipt, peak>> /\ Value' = Value
      /\ Cardinality(u) \in Nat /\ l \in Nat /\ l \in Slots
  <2>1. ~receipt /\ pc = "closed" /\ UNCHANGED <<file, receipt, peak>>
    BY DEF BeginFresh, BeginResumed, BeginRefused, Open
  <2>2. QED BY <2>1, ValueSame, UnreadIsNat DEF Slots
<1>1. memory = -1
  BY <1>0 DEF TypeOK, InSession
<1>2. Value = BestIn(file) /\ ValueInv
  BY <1>0, BestIsBestIn, ValueHolds DEF Value
<1>3. CASE BeginRefused(l, u)
  <2>1. memory' = memory /\ least' = least /\ faults' = faults + Cardinality(u)
    BY <1>3 DEF BeginRefused
  <2>2. QED BY <1>0, <1>1, <2>1, StateNumbers DEF Register!Load, Register!Kept, Value
<1>4. CASE BeginFresh(l)
  <2>1. memory' = 0 /\ faults' = faults + 0 /\ least' = (IF l < least THEN l ELSE least)
    BY <1>4, FS_EmptySet DEF BeginFresh, Open
  <2>2. faults' = faults /\ least' \in 0..least
    BY <1>0, <2>1, StateNumbers
  <2>3. \A s \in Slots : file[s] = NoFile
    <3>1. 0 \in 0..l /\ file[0] = NoFile
      BY <1>0, <1>4 DEF BeginFresh, Existing
    <3>2. QED BY <1>0, <3>1 DEF RegInv, Layout
  <2>4. Value = 0
    BY <1>2, <2>3, BestInNone, NotAGeneration DEF Good
  <2>5. 0 <= peak /\ (faults < least' => 0 >= peak - faults) /\ 0 \in -1..peak
    BY <1>2, <2>2, <2>4, StateNumbers DEF ValueInv
  <2>6. QED BY <1>0, <1>1, <2>1, <2>2, <2>4, <2>5, StateNumbers DEF Register!Load, Register!Kept, Value
<1>5. CASE BeginResumed(l, u)
  <2>1. PICK s \in Selected(l, u) : Open(l, u, file[s].progress, s # 0)
    BY <1>5 DEF BeginResumed
  <2>2. /\ s \in Slots /\ Good(file[s])
        /\ \A t \in Slots : t < s /\ Good(file[t]) => t \in u
    BY <1>0, SelectedIsFirst
  <2>3. /\ pc' = "run" /\ memory' = file[s].progress
        /\ faults' = faults + Cardinality(u) /\ least' = (IF l < least THEN l ELSE least)
    BY <2>1 DEF Open
  <2>4. faults' \in Nat /\ faults <= faults' /\ least' \in 0..least
    BY <1>0, <2>3, StateNumbers
  <2>5. memory' \in Nat /\ memory' <= peak /\ (faults' < least' => peak <= memory' + faults')
    <3>1. memory' <= peak' /\ (faults' < least' => peak' <= memory' + faults')
      BY <1>0, <2>3 DEF RegInv, Worth, InSession
    <3>2. QED BY <1>0, <2>2, <2>3, <3>1, Numbers
  <2>6. faults = faults' => memory' = Value
    <3>1. SUFFICES ASSUME faults = faults' PROVE file[s].progress = BestIn(file)
      BY <1>2, <2>3
    <3>2. u = {}
      <4>1. Cardinality(u) = 0
        BY <1>0, <2>3, <3>1, StateNumbers
      <4>2. IsFiniteSet(u)
        <5>1. IsFiniteSet(Slots)
          BY FS_Interval DEF Slots
        <5>2. QED BY <5>1, FS_Subset
      <4>3. QED BY <4>1, <4>2, FS_EmptySet
    <3>3. \A t \in Slots : t < s => ~Good(file[t])
      BY <2>2, <3>2
    <3>4. Below(file, s) = 0
      BY <2>2, <3>3, SomeBelow, Numbers
    <3>5. QED BY <2>2, <3>4, BestInIs
  <2>7. memory' \in -1..peak /\ (faults' < least' => memory' >= peak - faults')
    BY <2>4, <2>5, StateNumbers
  <2>8. QED BY <1>0, <1>1, <2>4, <2>5, <2>6, <2>7 DEF Register!Load, Register!Kept, Value
<1>6. QED BY <1>3, <1>4, <1>5

\* A rename, a copy or a removed backup leaves the first usable generation, or
\* there have been as many faults as backups.
LEMMA WriteKeepsOrDecays ==
  ASSUME TypeOK, RegInv, TypeOK', RegInv', Rotate \/ Copy \/ Prune
  PROVE  Register!Decay \/ UNCHANGED <<Value, memory, peak, faults, least>>
<1>0. /\ ~receipt /\ ~receipt' /\ UNCHANGED <<memory, peak, faults, least>>
      /\ InSession /\ file \in [Slots -> Content]
  <2>1. InSession /\ UNCHANGED <<memory, peak, faults, least, receipt>>
    BY DEF Rotate, Copy, Prune, InSession
  <2>2. QED BY <2>1, StateNumbers DEF RegInv, Layout
<1>1. Value = BestIn(file) /\ Value' = BestIn(file')
  BY <1>0, BestIsBestIn DEF Value
<1>2. BestIn(file') = BestIn(file) \/ least <= faults
  <2>1. CASE Rotate
    <3>0. /\ pc = "rotate" /\ slot \in 2..MaxBackups /\ slot <= limit /\ slot \in Nat /\ limit \in Nat
          /\ file' = IF file[slot - 1] = NoFile THEN file ELSE Rotated(file, slot)
      BY <2>1 DEF Rotate, Rotated, TypeOK, Slots
    <3>1. CASE file[slot - 1] = NoFile
      BY <3>0, <3>1
    <3>2. CASE file[slot - 1] # NoFile
      <4>1. file[slot] = NoFile \/ (Plain(file, peak, faults, least) /\ least <= slot)
        BY <1>0, <3>0 DEF RegInv, Worth, Layout, AtRest, Moved
      <4>2. faults \in Nat /\ least \in Nat
        BY StateNumbers
      <4>3. BestIn(Rotated(file, slot)) = BestIn(file) \/ least <= faults
        BY ONLY <1>0, <3>0, <3>2, <4>1, <4>2, RotatedValue
      <4>4. QED BY <3>0, <3>2, <4>3
    <3>3. QED BY <3>1, <3>2
  <2>2. CASE Copy
    <3>0. /\ pc = "copy" /\ slot = 1 /\ 1 <= limit /\ limit \in Nat
          /\ file' = IF file[0] = NoFile THEN file ELSE [file EXCEPT ![1] = file[0]]
      BY <2>2 DEF Copy, TypeOK, Slots, RegInv, Layout
    <3>1. CASE file[0] = NoFile
      BY <3>0, <3>1
    <3>2. CASE file[0] # NoFile
      <4>1. file[1] = NoFile \/ (Plain(file, peak, faults, least) /\ least <= 1)
        BY <1>0, <3>0 DEF RegInv, Worth, Layout, AtRest, Moved
      <4>2. faults \in Nat /\ least \in Nat
        BY StateNumbers
      <4>3. BestIn([file EXCEPT ![1] = file[0]]) = BestIn(file) \/ least <= faults
        BY ONLY <1>0, <3>2, <4>1, <4>2, CopiedValue
      <4>4. QED BY <3>0, <3>2, <4>3
    <3>3. QED BY <3>1, <3>2
  <2>3. CASE Prune
    <3>1. file' = Pruned(file, limit) /\ pc = "prune"
      BY <2>3 DEF Prune, Pruned
    <3>2. Pruning(file, peak, faults, least, limit) /\ least <= limit
      BY <1>0, <3>1 DEF RegInv, Worth, Layout
    <3>3. faults \in Nat /\ least \in Nat /\ limit \in Slots
      BY StateNumbers
    <3>4. BestIn(Pruned(file, limit)) = BestIn(file) \/ least <= faults
      BY ONLY <1>0, <3>2, <3>3, PrunedValue
    <3>5. QED BY <3>1, <3>4
  <2>4. QED BY <2>1, <2>2, <2>3
<1>3. Value' \in 0..peak
  <2>1. Value' \in Nat /\ Value' <= peak'
    BY ValueHoldsAfter DEF ValueInv
  <2>2. QED BY <1>0, <2>1, StateNumbers
<1>4. least <= faults => faults >= least
  BY StateNumbers
<1>5. QED BY <1>0, <1>1, <1>2, <1>3, <1>4 DEF Register!Decay, Value

\* A flush that replaced the primary has raised the register by one.
LEMMA ReplaceRaises ==
  ASSUME TypeOK, RegInv, Replace
  PROVE  Register!Raise
<1>0. /\ pc = "replace" /\ memory' = memory + 1
      /\ peak' = (IF memory + 1 > peak THEN memory + 1 ELSE peak)
      /\ UNCHANGED <<faults, least, receipt>> /\ file' = [file EXCEPT ![0] = temp]
  BY DEF Replace
<1>1. Good(temp) /\ temp.progress = memory + 1 /\ memory \in Nat
  BY <1>0, TempIsGood
<1>2. ~receipt
  BY <1>0 DEF RegInv, Layout, InSession
<1>3. file'[0] = temp /\ 0 \in Slots
  BY <1>0, StateNumbers
<1>4. Below(file', 0) = 0
  BY <1>3, Numbers
<1>5. BestIn(file') = memory + 1
  BY <1>1, <1>3, <1>4, BestInIs
<1>6. Value' = memory + 1
  BY <1>0, <1>2, <1>5, BestIsBestIn DEF Value
<1>7. memory # -1
  BY <1>1
<1>8. /\ memory' = memory + 1 /\ Value' = memory + 1
      /\ peak' = (IF memory + 1 > peak THEN memory + 1 ELSE peak)
      /\ faults' = faults /\ least' = least
  BY ONLY <1>0, <1>6
<1>9. QED BY ONLY <1>7, <1>8, Zenon DEF Register!Raise, Value

\* A fault costs one confirmed step at most.
LEMMA FaultIsFault ==
  ASSUME TypeOK, RegInv, TypeOK', RegInv',
         FlushFails \/ Crash \/ \E s \in Slots : Damage(s)
  PROVE  Register!Fault
<1>1. faults' = faults + 1 /\ memory' \in {memory, -1} /\ UNCHANGED <<peak, least>>
  BY DEF FlushFails, Crash, Damage
<1>2. ValueInv'
  BY ValueHoldsAfter
<1>3. /\ peak \in Nat /\ faults \in Nat /\ least \in Nat /\ Value' \in Nat
      /\ Value' <= peak /\ (faults' < least => peak <= Value' + faults')
  BY <1>1, <1>2, StateNumbers DEF ValueInv
<1>4. faults' > faults /\ (faults' < least => Value' >= peak - faults')
  <2>1. faults' \in Nat /\ faults' > faults
    BY <1>1, <1>3
  <2>2. ASSUME NEW v \in Nat, NEW p \in Nat, NEW n \in Nat, p <= v + n PROVE v >= p - n
    BY <2>2
  <2>3. faults' < least => Value' >= peak - faults'
    BY ONLY <1>3, <2>1, <2>2
  <2>4. QED BY <2>1, <2>3
<1>5. QED BY <1>1, <1>3, <1>4 DEF Register!Fault, Register!Kept, Value

\* The register starts empty.
LEMMA RegisterInit == Init => Register!Init
<1> SUFFICES ASSUME Init PROVE Register!Init
  OBVIOUS
<1>1. \A s \in Slots : ~Good(file[s])
  BY NotAGeneration DEF Init, Good, Slots
<1>2. Best = 0
  BY <1>1, BestInNone, BestIsBestIn
<1>3. QED BY <1>2 DEF Init, Register!Init

\* Every step is a step of the register, or changes nothing of it.
LEMMA RegisterStep ==
  ASSUME Deferred
  PROVE  TypeOK /\ RegInv /\ TypeOK' /\ RegInv' /\ [Next]_vars =>
           [Register!Next]_(<<Value, memory, peak, faults, least>>)
<1> SUFFICES ASSUME TypeOK, RegInv, TypeOK', RegInv', [Next]_vars
             PROVE  Register!Next \/ UNCHANGED <<Value, memory, peak, faults, least>>
  OBVIOUS
<1>1. CASE UNCHANGED vars
  BY <1>1, ValueSame DEF vars
<1>2. ASSUME NEW l \in Limits, NEW u \in SUBSET Slots,
             BeginFresh(l) \/ BeginResumed(l, u) \/ BeginRefused(l, u)
      PROVE  Register!Next
  BY <1>2, BeginLoads DEF Register!Next
<1>3. CASE WriteTemp \/ Rerun \/ Recover
  BY <1>3, ValueSame DEF WriteTemp, Rerun, Recover
<1>4. CASE Rotate \/ Copy \/ Prune
  BY <1>4, WriteKeepsOrDecays DEF Register!Next
<1>5. CASE Replace
  BY <1>5, ReplaceRaises DEF Register!Next
<1>6. CASE FlushFails \/ Crash \/ \E s \in Slots : Damage(s)
  BY <1>6, FaultIsFault DEF Register!Next
<1>7. CASE Close
  <2>1. memory' = -1 /\ UNCHANGED <<file, receipt, peak, faults, least>>
    BY <1>7 DEF Close
  <2>2. Value' = Value
    BY <2>1, ValueSame
  <2>3. QED BY <2>1, <2>2 DEF Register!Leave, Register!Next, Value
<1>8. CASE Publish
  <2>1. pc = "run" /\ receipt' = TRUE /\ memory' = -1 /\ peak' = 0 /\ UNCHANGED <<faults, least>>
    BY <1>8 DEF Publish
  <2>2. memory # -1 /\ Value' = 0
    BY <2>1 DEF TypeOK, InSession, Value
  <2>3. QED BY <2>1, <2>2 DEF Register!Clear, Register!Next, Value
<1>9. CASE RemoveFile
  <2>1. receipt /\ receipt' /\ UNCHANGED <<memory, peak, faults, least>>
    BY <1>9 DEF RemoveFile, TypeOK
  <2>2. QED BY <2>1 DEF Value
<1>10. CASE Acknowledge
  <2>1. receipt /\ ~receipt' /\ pc = "acknowledge" /\ UNCHANGED <<file, memory, peak, faults, least>>
    BY <1>10 DEF Acknowledge, TypeOK
  <2>2. \A s \in Slots : ~Good(file[s])
    BY <2>1, NotAGeneration DEF RegInv, Layout, Good
  <2>3. Value = 0 /\ Value' = 0
    BY <2>1, <2>2, BestInNone, BestIsBestIn DEF Value
  <2>4. QED BY <2>1, <2>3
<1>11. CASE Next
  <2>1. {} \in SUBSET Slots
    OBVIOUS
  <2>2. QED BY <1>2, <1>3, <1>4, <1>5, <1>6, <1>7, <1>8, <1>9, <1>10, <1>11, <2>1 DEF Next
<1>12. QED BY <1>1, <1>11

\* The files of a batch are one register: a flush that returned is found again
\* by the next session, however the renames, copies and removals were cut off;
\* each fault costs at most one of the flushes while there are fewer faults than
\* backups, and a batch that is acknowledged leaves nothing behind.  Sessions
\* are those of the GPU, which look at the payload before they go on from it.
THEOREM RegisterCorrect == ASSUME Deferred PROVE Spec => ImplementsRegister
<1>1. Init => TypeOK /\ RegInv
  BY TypeInit, RegInit
<1>2. TypeOK /\ RegInv /\ [Next]_vars => TypeOK' /\ RegInv'
  BY TypeStep, RegStep
<1>3. Spec => Register!Init /\ [][Register!Next]_(<<Value, memory, peak, faults, least>>)
  BY <1>1, <1>2, RegisterInit, RegisterStep, PTL DEF Spec
<1>4. <<Value, memory, peak, faults, least>> = Register!vars
  BY DEF Register!vars, Value
<1>5. QED BY <1>3, <1>4 DEF ImplementsRegister, Register!Spec, Register!vars, Value
=============================================================================
