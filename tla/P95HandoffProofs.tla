-------------------------- MODULE P95HandoffProofs --------------------------
(***************************************************************************)
(* Theorems about P95Handoff, for every set of batches and keys, every     *)
(* behaviour of Prime95 and any number of faults.                          *)
(***************************************************************************)
EXTENDS P95Handoff, WellFoundedInduction, SequenceTheorems, TLAPS

\* The next intent of a flush is one of those it has listed.
LEMMA MinOfLeft ==
  ASSUME NEW S \in SUBSET Tasks, S # {}
  PROVE  Min(S) \in S
<1>1. PICK R : /\ IsWellFoundedOn(R, Nat)
               /\ \A x, y \in Nat : y < x => <<y, x>> \in R
  <2>1. IsWellFoundedOn(OpToRel(<, Nat), Nat)
    BY NatLessThanWellFounded
  <2>2. \A x, y \in Nat : y < x => <<y, x>> \in OpToRel(<, Nat)
    BY DEF OpToRel
  <2>3. QED BY <2>1, <2>2, Zenon
<1>2. S \in SUBSET Nat /\ S # {}
  BY TasksAssumption
<1>3. PICK x \in S : \A y \in S : ~(<<y, x>> \in R)
  BY <1>1, <1>2, WFMin
<1>4. ASSUME NEW y \in S PROVE x <= y
  <2>1. x \in Nat /\ y \in Nat
    BY <1>2
  <2>2. ~(y < x)
    BY <1>1, <1>3, <2>1
  <2>3. QED BY <2>1, <2>2
<1>5. QED BY <1>4 DEF Min

USE TasksAssumption, KeysAssumption, SettingsAssumption, MaxFaultAssumption

LEMMA StripIsLine == \A l \in Line : Strip(l) \in Line /\ Strip(l).task = l.task
BY DEF Strip, Line

LEMMA OwnIsLine == \A t \in Tasks : Own(t) \in Line /\ Own(t).task = t
BY DEF Own, Line

LEMMA OutgoingIsLine == \A t \in Tasks : Outgoing(t) \in Line /\ Outgoing(t).task = t
BY OwnIsLine, StripIsLine DEF Outgoing

LEMMA ActualIsLine == \A l \in Line : Actual(l) \in Line /\ Actual(l).task = l.task
BY StripIsLine DEF Actual

LEMMA RecordIsRecord == \A l \in Line : Sent(l) \in Record /\ Recovered(l) \in Record
BY DEF Sent, Recovered, Record

-----------------------------------------------------------------------------
(* Type correctness, one lemma per group of steps.                          *)

\* The steps before a flush has a delivery of its own, and its ends.
LEMMA TypeWorker ==
  ASSUME TypeOK, NEW t \in Tasks, Park(t) \/ Consume(t) \/ WorkerCrash(t)
  PROVE  TypeOK'
<1> USE DEF TypeOK, Places
<1>1. CASE Park(t)
  <2>1. source' \in Seq(Tasks) /\ Len(source') >= Len(source)
    BY <1>1 DEF Park
  <2>2. target' \in 0..Len(source')
    BY <1>1, <2>1 DEF Park
  <2>3. config' \in [Tasks -> Settings \union {None}] /\ \A u \in intent' : config'[u] # None
    BY <1>1 DEF Park
  <2>4. QED BY <1>1, <2>1, <2>2, <2>3 DEF Park, files, prime, memory
<1>2. CASE Consume(t)
  BY <1>2 DEF Consume, files, prime, memory
<1>3. CASE WorkerCrash(t)
  <2>1. faults' \in 0..MaxFault
    BY <1>3 DEF WorkerCrash, CanFail
  <2>2. QED BY <1>3, <2>1 DEF WorkerCrash, files, prime, memory
<1>4. QED BY <1>1, <1>2, <1>3

LEMMA TypeSelect ==
  ASSUME TypeOK, FlushStart \/ FlushEnd \/ Stale \/ Take \/ Copy
  PROVE  TypeOK'
<1> USE DEF TypeOK, Places, Goto, files, prime, memory, saves
<1>1. left # {} => Min(left) \in left
  BY MinOfLeft
<1>2. CASE FlushStart
  BY <1>2 DEF FlushStart
<1>3. CASE FlushEnd
  BY <1>3 DEF FlushEnd, EndFlush
<1>4. CASE Stale
  BY <1>1, <1>4 DEF Stale
<1>5. CASE Take
  BY <1>1, <1>5 DEF Take
<1>6. CASE Copy
  <2>1. target' \in 0..Len(source)
    BY <1>6, LenProperties DEF Copy
  <2>2. QED BY <1>6, <2>1 DEF Copy
<1>7. QED BY <1>2, <1>3, <1>4, <1>5, <1>6

LEMMA TypeReconcile ==
  ASSUME TypeOK, Reconcile \/ Ambiguous \/ (\E l \in Line : Ack(l)) \/ AckEnd
  PROVE  TypeOK'
<1> USE DEF TypeOK, Places, Goto, files, prime, memory, saves
<1>1. CASE Reconcile
  <2>1. Attempted(cur) \subseteq Line
    BY <1>1, OwnIsLine DEF Reconcile, Attempted
  <2>2. QED BY <1>1, <2>1 DEF Reconcile
<1>2. CASE Ambiguous
  BY <1>2 DEF Ambiguous, EndFlush
<1>3. ASSUME NEW l \in Line, Ack(l)
      PROVE  TypeOK'
  <2>1. Sent(Actual(l)) \in Record /\ Recovered(Actual(l)) \in Record
    BY ActualIsLine, RecordIsRecord
  <2>2. ledger' \subseteq Record
    BY <1>3, <2>1 DEF Ack
  <2>3. QED BY <1>3, <2>2 DEF Ack
<1>4. CASE AckEnd
  BY <1>4 DEF AckEnd
<1>5. QED BY <1>1, <1>2, <1>3, <1>4

LEMMA TypeSend ==
  ASSUME TypeOK, Claim \/ Look \/ Prepare \/ ReadAdd \/ WriteAdd \/ SendFails
  PROVE  TypeOK'
<1> USE DEF TypeOK, Places, Goto, files, prime, memory, saves
<1>1. CASE Claim
  BY <1>1 DEF Claim
<1>2. CASE Look
  <2>1. lines' \subseteq Line
    BY <1>2, StripIsLine DEF Look
  <2>2. QED BY <1>2, <2>1 DEF Look
<1>3. CASE Prepare
  <2>1. cur \in Tasks
    BY <1>3 DEF Prepare
  <2>2. line' \in Line /\ line'.task = cur /\ lines' \subseteq Line
    BY <1>3, <2>1, OutgoingIsLine DEF Prepare
  <2>3. ready'[cur] \in SUBSET Line /\ line' \in ready'[cur]
    BY <1>3, <2>1, <2>2 DEF Prepare
  <2>4. ready' \in [Tasks -> {None} \union SUBSET Line]
    BY <1>3, <2>1, <2>3 DEF Prepare
  <2>5. /\ pc' = "read" /\ pc = "prepare"
        /\ UNCHANGED <<saves, intent, done, sending, ledger, add, prime, left, cur, old, sends, faults>>
    BY <1>3 DEF Prepare
  <2>6. cur' \in Tasks \ left' /\ cur' \in intent' /\ cur' \in sending' /\ ready'[cur'] \subseteq Line
    BY <1>3, <2>1, <2>3, <2>5
  <2>7. QED BY <2>2, <2>3, <2>4, <2>5, <2>6
<1>4. CASE ReadAdd
  BY <1>4 DEF ReadAdd
<1>5. CASE WriteAdd
  <2>1. cur \in Tasks /\ line \in ready[cur]
    BY <1>5 DEF WriteAdd
  <2>2. ready[cur] \subseteq Line
    BY <1>5, <2>1 DEF WriteAdd
  <2>3. QED BY <1>5, <2>1, <2>2 DEF WriteAdd
<1>6. CASE SendFails
  BY <1>6 DEF SendFails, EndFlush, CanFail
<1>7. QED BY <1>1, <1>2, <1>3, <1>4, <1>5, <1>6

LEMMA TypeFinish ==
  ASSUME TypeOK, (\E l \in Line : RecordRecovered(l)) \/ RecordSent \/ Unready
                 \/ Finish \/ Drop \/ Clear \/ Crash
  PROVE  TypeOK'
<1> USE DEF TypeOK, Places, Goto, files, prime, memory, saves
<1>1. ASSUME NEW l \in Line, RecordRecovered(l)
      PROVE  TypeOK'
  <2>1. ledger' \subseteq Record
    BY <1>1, RecordIsRecord DEF RecordRecovered
  <2>2. QED BY <1>1, <2>1 DEF RecordRecovered
<1>2. CASE RecordSent
  <2>1. line \in Line
    BY <1>2 DEF RecordSent
  <2>2. QED BY <1>2, <2>1, RecordIsRecord DEF RecordSent
<1>3. CASE Unready
  BY <1>3 DEF Unready
<1>4. CASE Finish
  BY <1>4 DEF Finish
<1>5. CASE Drop
  BY <1>5 DEF Drop
<1>6. CASE Clear
  BY <1>6 DEF Clear
<1>7. CASE Crash
  <2>1. \A l \in Line : Sent(Actual(l)) \in Record
    BY ActualIsLine, RecordIsRecord
  <2>2. ledger' \subseteq Record
    BY <1>7, <2>1 DEF Crash
  <2>3. QED BY <1>7, <2>2 DEF Crash, EndFlush, CanFail
<1>8. QED BY <1>1, <1>2, <1>3, <1>4, <1>5, <1>6, <1>7

LEMMA TypePrime95 ==
  ASSUME TypeOK, Prime95
  PROVE  TypeOK'
<1> USE DEF TypeOK, files, memory, saves
<1>1. CASE Incorporate
  BY <1>1 DEF Incorporate
<1>2. ASSUME NEW l \in Line, Run(l)
      PROVE  TypeOK'
  BY <1>2 DEF Run, Line
<1>3. ASSUME NEW l \in Line, Reject(l)
      PROVE  TypeOK'
  BY <1>3 DEF Reject, Rejectable
<1>4. QED BY <1>1, <1>2, <1>3 DEF Prime95

LEMMA TypeStep ==
  ASSUME TypeOK, [Next]_vars
  PROVE  TypeOK'
<1>1. CASE UNCHANGED vars
  BY <1>1 DEF TypeOK, vars, files, prime, memory, saves
<1>2. CASE Next
  BY <1>2, TypeWorker, TypeSelect, TypeReconcile, TypeSend, TypeFinish, TypePrime95 DEF Next, Flush
<1>3. QED BY <1>1, <1>2

LEMMA TypeInit == Init => TypeOK
BY DEF Init, TypeOK, Places

\* Every reachable state of the handoff is well typed: an intent is there for
\* as long as a flush works on it, and .sending from the claim to its end.
THEOREM TypeCorrect == Spec => []TypeOK
<1>1. Init => TypeOK
  BY TypeInit
<1>2. TypeOK /\ [Next]_vars => TypeOK'
  BY TypeStep
<1>3. QED BY <1>1, <1>2, PTL DEF Spec

-----------------------------------------------------------------------------
(* A delivery is published once.                                            *)

\* SentOnce rests on the files that remember a publication: .sending from the
\* claim on, .done before .sending goes; and a claim is made, or taken back,
\* for a batch that has not been sent only.
SentInv ==
  /\ \A t \in Tasks : sends[t] <= 1 /\ (sends[t] > 0 => t \in sending \/ t \in done)
  /\ pc \in {"claim", "look", "prepare", "read", "write"} => sends[cur] = 0
  /\ pc = "copy" => cur \notin done
  /\ pc \in {"drop", "clear"} => cur \in done

LEMMA SentStep ==
  ASSUME TypeOK, SentInv, [Next]_vars
  PROVE  SentInv'
<1> USE DEF SentInv, Goto, files, prime, memory, saves
<1>1. sends \in [Tasks -> Nat] /\ (pc \notin {"idle", "next"} => cur \in Tasks)
  BY DEF TypeOK
<1>2. CASE UNCHANGED vars
  BY <1>2 DEF vars
<1>3. ASSUME NEW t \in Tasks, Park(t) \/ Consume(t) \/ WorkerCrash(t)
      PROVE  SentInv'
  BY <1>1, <1>3 DEF Park, Consume, WorkerCrash
<1>4. CASE FlushStart \/ FlushEnd \/ Stale \/ Take
  BY <1>1, <1>4 DEF FlushStart, FlushEnd, EndFlush, Stale, Take
<1>5. CASE Copy
  <2>1. cur \notin sending => sends[cur] = 0
    <3>1. cur \in Tasks /\ cur \notin done /\ sends[cur] \in Nat
      BY <1>1, <1>5 DEF Copy
    <3>2. sends[cur] > 0 => cur \in sending
      BY <3>1
    <3>3. QED BY <3>1, <3>2
  <2>2. QED BY <1>1, <1>5, <2>1 DEF Copy
<1>6. CASE Reconcile \/ Ambiguous \/ AckEnd
  BY <1>1, <1>6 DEF Reconcile, Ambiguous, AckEnd, EndFlush
<1>7. ASSUME NEW l \in Line, Ack(l) \/ RecordRecovered(l)
      PROVE  SentInv'
  BY <1>1, <1>7 DEF Ack, RecordRecovered
<1>8. CASE Claim \/ Look \/ Prepare \/ ReadAdd
  BY <1>1, <1>8 DEF Claim, Look, Prepare, ReadAdd
<1>9. CASE WriteAdd
  <2>1. cur \in sending /\ sends[cur] = 0 /\ cur \in Tasks
    BY <1>1, <1>9 DEF WriteAdd, TypeOK
  <2>2. sends' = [sends EXCEPT ![cur] = sends[cur] + 1] /\ UNCHANGED <<sending, done>>
    BY <1>9 DEF WriteAdd
  <2>3. sends'[cur] = 1 /\ \A t \in Tasks : t # cur => sends'[t] = sends[t]
    BY <1>1, <2>1, <2>2
  <2>4. \A t \in Tasks : sends'[t] <= 1 /\ (sends'[t] > 0 => t \in sending' \/ t \in done')
    BY <2>1, <2>2, <2>3
  <2>5. pc' = "recover"
    BY <1>9 DEF WriteAdd
  <2>6. QED BY <2>4, <2>5
<1>10. CASE SendFails
  BY <1>1, <1>10 DEF SendFails, EndFlush
<1>11. CASE RecordSent \/ Unready \/ Finish \/ Drop \/ Clear
  BY <1>1, <1>11 DEF RecordSent, Unready, Finish, Drop, Clear
<1>12. CASE Crash
  BY <1>1, <1>12 DEF Crash, EndFlush
<1>13. CASE Prime95
  BY <1>1, <1>13 DEF Prime95, Incorporate, Run, Reject
<1>14. QED
  BY <1>2, <1>3, <1>4, <1>5, <1>6, <1>7, <1>8, <1>9, <1>10, <1>11, <1>12, <1>13 DEF Next, Flush

\* No delivery is published twice, whatever fails and whenever Prime95 takes
\* worktodo.add.
THEOREM SentCorrect == Spec => []SentOnce
<1>1. Init => TypeOK /\ SentInv
  <2> SUFFICES ASSUME Init PROVE SentInv
    BY TypeInit
  <2>1. QED BY DEF Init, SentInv
<1>2. TypeOK /\ SentInv /\ [Next]_vars => (TypeOK /\ SentInv)'
  BY TypeStep, SentStep
<1>3. SentInv => SentOnce
  BY DEF SentInv, SentOnce
<1>4. QED BY <1>1, <1>2, <1>3, PTL DEF Spec

-----------------------------------------------------------------------------
(* Prime95 never sees a line before its curves.                             *)

Covered(t) == \E i \in 1..target : source[i] = t

\* The lines that may come to worktodo.add later: those in memory, in .ready
\* files and in the ledger, from which rejected lines are recovered.
SavedInv ==
  /\ \A t \in intent : t \in Range(source)
  /\ \A l \in add \union todo \union lines \union old : Covered(l.task)
  /\ \A t \in Tasks : ready[t] # None => \A l \in ready[t] : Covered(l.task)
  /\ pc \in {"read", "write"} => \A l \in ready[cur] : Covered(l.task)
  /\ \A r \in ledger : Covered(r.line.task)
  /\ pc \notin {"idle", "next", "copy"} => Covered(cur)

\* The copy never shrinks and the save only grows at its end.
LEMMA CoveredStays ==
  ASSUME TypeOK, NEW t, Covered(t), \/ UNCHANGED <<source, target>>
                                    \/ \E s \in Tasks : Park(s)
                                    \/ Copy
  PROVE  Covered(t)'
<1>1. source \in Seq(Tasks) /\ target \in 0..Len(source)
  BY DEF TypeOK
<1>2. PICK i \in 1..target : source[i] = t
  BY DEF Covered
<1>3. CASE UNCHANGED <<source, target>>
  BY <1>3 DEF Covered
<1>4. CASE \E s \in Tasks : Park(s)
  <2>1. target' = target /\ source'[i] = source[i]
    BY <1>1, <1>2, <1>4 DEF Park
  <2>2. QED BY <1>2, <2>1 DEF Covered
<1>5. CASE Copy
  <2>1. i \in 1..target' /\ source' = source
    BY <1>1, <1>2, <1>5 DEF Copy
  <2>2. QED BY <1>2, <2>1 DEF Covered
<1>6. QED BY <1>3, <1>4, <1>5

LEMMA SavedWorker ==
  ASSUME TypeOK, SavedInv, NEW t \in Tasks, Park(t) \/ Consume(t) \/ WorkerCrash(t)
  PROVE  SavedInv'
<1> USE DEF files, prime, memory
<1>1. CASE Park(t)
  <2>1. \A x : Covered(x) => Covered(x)'
    BY <1>1, CoveredStays
  <2>2. /\ source \in Seq(Tasks) /\ intent' \subseteq intent \union {t}
        /\ source' = IF t \in Range(source) THEN source ELSE Append(source, t)
    BY <1>1 DEF Park, TypeOK
  <2>3. \A x \in Range(source) \union {t} : x \in Range(source')
    <3>1. CASE t \in Range(source)
      BY <2>2, <3>1
    <3>2. CASE t \notin Range(source)
      <4>1. source' = Append(source, t)
        BY <2>2, <3>2
      <4>2. /\ DOMAIN source = 1..Len(source) /\ DOMAIN source' = 1..(Len(source) + 1)
            /\ \A i \in 1..Len(source) : source'[i] = source[i]
            /\ source'[Len(source) + 1] = t /\ Len(source) \in Nat
        BY <2>2, <4>1
      <4>3. QED BY <4>2 DEF Range
    <3>3. QED BY <3>1, <3>2
  <2>4. \A x \in intent' : x \in Range(source')
    BY <2>2, <2>3 DEF SavedInv
  <2>5. UNCHANGED <<add, todo, lines, old, ready, ledger, pc, cur>>
    BY <1>1 DEF Park
  <2>6. QED BY <2>1, <2>4, <2>5 DEF SavedInv
<1>2. CASE Consume(t) \/ WorkerCrash(t)
  BY <1>2 DEF Consume, WorkerCrash, SavedInv, Covered
<1>3. QED BY <1>1, <1>2

\* Every step of a flush but Copy leaves save and copy alone, so that the
\* covered batches stay the same.
LEMMA SavedFlush ==
  ASSUME TypeOK, SavedInv, Flush \/ SendFails \/ Crash, ~Copy
  PROVE  SavedInv'
<1> USE DEF Goto, files, prime, memory, saves
<1>1. UNCHANGED <<source, target>>
  BY DEF Flush, SendFails, Crash, FlushStart, FlushEnd, Stale, Take, Reconcile, Ambiguous, Ack,
         AckEnd, Claim, Look, Prepare, ReadAdd, WriteAdd, RecordRecovered, RecordSent, Unready,
         Finish, Drop, Clear
<1>2. \A x : Covered(x)' <=> Covered(x)
  BY <1>1 DEF Covered
<1>3. pc \notin {"idle", "next"} => cur \in Tasks
  BY DEF TypeOK
<1>4. CASE FlushStart \/ FlushEnd \/ Stale \/ Take
  BY <1>1, <1>2, <1>3, <1>4 DEF SavedInv, FlushStart, FlushEnd, EndFlush, Stale, Take
<1>5. CASE Reconcile
  <2>1. \A l \in Attempted(cur) : Covered(l.task)
    BY <1>3, <1>5, OwnIsLine DEF Reconcile, Attempted, SavedInv
  <2>2. QED BY <1>1, <1>2, <1>3, <1>5, <2>1 DEF SavedInv, Reconcile
<1>6. CASE Ambiguous \/ AckEnd
  BY <1>1, <1>2, <1>3, <1>6 DEF SavedInv, Ambiguous, AckEnd, EndFlush
<1>7. ASSUME NEW l \in Line, Ack(l)
      PROVE  SavedInv'
  <2>1. Covered(Actual(l).task)
    BY <1>7, ActualIsLine DEF Ack, SavedInv
  <2>2. Sent(Actual(l)).line = Actual(l) /\ Recovered(Actual(l)).line = Actual(l)
    BY DEF Sent, Recovered
  <2>3. \A r \in ledger' : Covered(r.line.task)
    BY <1>7, <2>1, <2>2 DEF Ack, SavedInv
  <2>4. QED BY <1>1, <1>2, <1>3, <1>7, <2>3 DEF SavedInv, Ack
<1>8. CASE Claim \/ ReadAdd
  BY <1>1, <1>2, <1>3, <1>8 DEF SavedInv, Claim, ReadAdd
<1>9. CASE Look
  <2>1. \A m \in Line : Sent(m) \in ledger => Covered(Strip(m).task)
    BY StripIsLine DEF SavedInv, Sent
  <2>2. \A l \in lines' : Covered(l.task)
    BY <1>9, <2>1 DEF Look
  <2>3. QED BY <1>1, <1>2, <1>3, <1>9, <2>2 DEF SavedInv, Look
<1>10. CASE Prepare
  <2>1. Covered(line'.task) /\ lines' \subseteq lines
    BY <1>3, <1>10, OutgoingIsLine DEF Prepare, SavedInv
  <2>2. /\ \A l \in ready'[cur] : Covered(l.task)
        /\ \A t \in Tasks : t # cur => ready'[t] = ready[t]
    BY <1>3, <1>10, <2>1 DEF Prepare, SavedInv, TypeOK
  <2>3. QED BY <1>1, <1>2, <1>3, <1>10, <2>1, <2>2 DEF SavedInv, Prepare
<1>11. CASE WriteAdd
  BY <1>1, <1>2, <1>3, <1>11 DEF SavedInv, WriteAdd
<1>12. CASE SendFails
  BY <1>1, <1>2, <1>3, <1>12 DEF SavedInv, SendFails, EndFlush
<1>13. ASSUME NEW l \in Line, RecordRecovered(l)
       PROVE  SavedInv'
  BY <1>1, <1>2, <1>3, <1>13 DEF SavedInv, RecordRecovered, Recovered
<1>14. CASE RecordSent
  <2>1. line.task = cur
    BY <1>14 DEF RecordSent, TypeOK
  <2>2. QED BY <1>1, <1>2, <1>3, <1>14, <2>1 DEF SavedInv, RecordSent, Sent
<1>15. CASE Unready \/ Clear
  <2>1. \A t \in Tasks : ready'[t] # None => ready'[t] = ready[t]
    BY <1>3, <1>15 DEF Unready, Clear, TypeOK
  <2>2. QED BY <1>1, <1>2, <1>3, <1>15, <2>1 DEF SavedInv, Unready, Clear
<1>16. CASE Finish \/ Drop
  BY <1>1, <1>2, <1>3, <1>16 DEF SavedInv, Finish, Drop
<1>17. CASE Crash
  <2>1. \A l \in lines : l \in Line /\ Covered(Actual(l).task)
    BY ActualIsLine DEF SavedInv, TypeOK
  <2>2. \A r \in ledger' : Covered(r.line.task)
    BY <1>17, <2>1 DEF Crash, SavedInv, Sent
  <2>3. QED BY <1>1, <1>2, <1>3, <1>17, <2>2 DEF SavedInv, Crash, EndFlush
<1>18. QED
  BY <1>4, <1>5, <1>6, <1>7, <1>8, <1>9, <1>10, <1>11, <1>12, <1>13, <1>14, <1>15, <1>16, <1>17 DEF Flush

\* A flush reaches a line of its own only behind a copy that holds its batch.
LEMMA SavedCopy ==
  ASSUME TypeOK, SavedInv, Copy
  PROVE  SavedInv'
<1>1. \A x : Covered(x) => Covered(x)'
  BY CoveredStays
<1>2. /\ UNCHANGED <<source, intent, add, todo, lines, old, ready, ledger, cur>>
      /\ target' = Len(source) /\ pc' \in {"known", "claim"}
  BY DEF Copy, Goto, files, prime, memory
<1>3. cur \in Range(source) /\ source \in Seq(Tasks)
  BY DEF SavedInv, TypeOK, Copy, Goto
<1>4. Covered(cur)'
  BY <1>2, <1>3 DEF Covered, Range
<1>5. QED BY <1>1, <1>2, <1>4 DEF SavedInv

LEMMA SavedPrime95 ==
  ASSUME TypeOK, SavedInv, Prime95
  PROVE  SavedInv'
BY DEF Prime95, Incorporate, Run, Reject, SavedInv, Covered, files, memory, saves

\* Every line that Prime95 can read is about curves that its copy of the save
\* holds, also lines that come out of a .ready file or the ledger much later.
THEOREM SavedCorrect == Spec => []SavedFirst
<1>1. Init => TypeOK /\ SavedInv
  <2> SUFFICES ASSUME Init PROVE SavedInv
    BY TypeInit
  <2>1. QED BY DEF Init, SavedInv
<1>2. TypeOK /\ SavedInv /\ [Next]_vars => (TypeOK /\ SavedInv)'
  <2> SUFFICES ASSUME TypeOK, SavedInv, [Next]_vars PROVE SavedInv'
    BY TypeStep
  <2>1. CASE UNCHANGED vars
    BY <2>1 DEF vars, SavedInv, Covered, files, memory, saves, prime
  <2>2. CASE Next
    BY <2>2, SavedWorker, SavedFlush, SavedCopy, SavedPrime95 DEF Next
  <2>3. QED BY <2>1, <2>2
<1>3. SavedInv => SavedFirst
  BY DEF SavedInv, SavedFirst, Covered
<1>4. QED BY <1>1, <1>2, <1>3, PTL DEF Spec

-----------------------------------------------------------------------------
(* No batch is lost.                                                        *)

Published(l) == l \in add \union todo \/ l.task \in ran
Kept(l) == Published(l) \/ (l.aid /\ KeyOf[l.task] \in rejected)
Forms(t) == {Own(t), Strip(Own(t))}
Logged(t) == \E l \in Forms(t) : Sent(l) \in ledger

\* A batch passes from its intent to the ledger. What the ledger calls sent was
\* published and may have been rejected, what it calls recovered has no key and
\* is with Prime95 for good.
LedgerInv ==
  /\ \A t \in Tasks : row[t] \in {"parked", "gone"} => t \in intent \union done
  /\ \A t \in done : Logged(t)
  /\ \A l \in Line : Sent(l) \in ledger => Kept(l)
  /\ \A l \in Line : Recovered(l) \in ledger => ~l.aid /\ Published(l)

\* How a flush gets there: one form of its line is in .ready and is written or
\* acknowledged, and worktodo.add is replaced by a text that contains it.
FlushInv ==
  /\ \A t \in Tasks : ready[t] # None => \E l \in Forms(t) : l \in ready[t]
  /\ pc = "ack" => Logged(cur) \/ \E l \in Forms(cur) : l \in lines
  /\ pc \in {"unready", "done"} => Logged(cur)
  /\ pc \in {"drop", "clear"} => cur \in done
  /\ pc = "write" => add \subseteq old
  /\ pc \in {"read", "write", "recover"} => line \in Forms(cur) /\ lines \subseteq ready[cur]
  /\ pc \in {"prepare", "read", "write", "recover"} => \A l \in lines : ~l.aid
  /\ pc = "recover" => \A l \in ready[cur] : Kept(l)

LostInv == LedgerInv /\ FlushInv

LEMMA FormsAreLines == \A t \in Tasks : Forms(t) \subseteq Line /\ \A l \in Forms(t) : l.task = t
BY OwnIsLine, StripIsLine DEF Forms

LEMMA StripTwice == \A l \in Line : Strip(Strip(l)) = Strip(l) /\ ~Strip(l).aid
BY DEF Strip, Line

LEMMA ActualForm == \A t \in Tasks : \A l \in Forms(t) : Actual(l) \in Forms(t)
BY OwnIsLine, StripTwice DEF Forms, Actual

LEMMA RecordsDiffer ==
  \A l, m \in Line : /\ Sent(l) # Recovered(m)
                     /\ Sent(l) = Sent(m) => l = m
                     /\ Recovered(l) = Recovered(m) => l = m
BY DEF Sent, Recovered

\* What is observed was published, and a line without a key stays with Prime95.
LEMMA ObservedIsKept ==
  ASSUME LedgerInv, NEW l \in Line, Observed(l)
  PROVE  Kept(l) /\ (~l.aid => Published(l))
BY DEF Observed, Seen, LedgerInv, Kept, Published

\* Only Prime95 takes lines away, and it runs or rejects them.
LEMMA KeptStays ==
  ASSUME NEW l \in Line,
         \/ UNCHANGED <<add, todo, ran, rejected>>
         \/ Prime95
         \/ FlushInv /\ WriteAdd
  PROVE  (Kept(l) => Kept(l)') /\ (~l.aid /\ Published(l) => Published(l)')
<1>1. CASE UNCHANGED <<add, todo, ran, rejected>>
  BY <1>1 DEF Kept, Published
<1>2. CASE Incorporate
  BY <1>2 DEF Incorporate, Kept, Published
<1>3. ASSUME NEW m \in Line, Run(m)
      PROVE  (Kept(l) => Kept(l)') /\ (~l.aid /\ Published(l) => Published(l)')
  BY <1>3 DEF Run, Kept, Published
<1>4. ASSUME NEW m \in Line, Reject(m)
      PROVE  (Kept(l) => Kept(l)') /\ (~l.aid /\ Published(l) => Published(l)')
  BY <1>4 DEF Reject, Rejectable, Kept, Published
<1>5. CASE FlushInv /\ WriteAdd
  BY <1>5 DEF FlushInv, WriteAdd, Goto, prime, Kept, Published
<1>6. QED BY <1>1, <1>2, <1>3, <1>4, <1>5 DEF Prime95

\* Steps of the workers and of Prime95 leave the flush where it is.
LEMMA LostOutside ==
  ASSUME TypeOK, LostInv,
         Prime95 \/ \E t \in Tasks : Park(t) \/ Consume(t) \/ WorkerCrash(t)
  PROVE  LostInv'
<1> USE DEF files, prime, memory, saves
<1>1. CASE Prime95
  <2>1. /\ UNCHANGED <<row, intent, done, ready, ledger, pc, cur, line, lines, old>>
        /\ add' \subseteq add
    BY <1>1 DEF Prime95, Incorporate, Run, Reject
  <2>2. \A l \in Line : (Kept(l) => Kept(l)') /\ (~l.aid /\ Published(l) => Published(l)')
    BY <1>1, KeptStays
  <2>3. LedgerInv'
    BY <2>1, <2>2 DEF LostInv, LedgerInv, Logged, Forms, Own, Strip, Sent, Recovered
  <2>4. pc = "recover" => ready[cur] \subseteq Line
    BY DEF TypeOK
  <2>5. FlushInv'
    BY <2>1, <2>2, <2>4 DEF LostInv, FlushInv, Logged, Forms, Own, Strip, Sent
  <2>6. QED BY <2>3, <2>5 DEF LostInv
<1>2. ASSUME NEW t \in Tasks, Park(t) \/ Consume(t) \/ WorkerCrash(t)
      PROVE  LostInv'
  <2>1. UNCHANGED <<done, ready, ledger, pc, cur, line, lines, old, add, todo, ran, rejected>>
    BY <1>2 DEF Park, Consume, WorkerCrash
  <2>2. FlushInv'
    BY <2>1 DEF LostInv, FlushInv, Logged, Kept, Published, Forms, Own, Strip, Sent
  <2>3. \A u \in Tasks : row'[u] \in {"parked", "gone"} => u \in intent' \union done
    BY <1>2 DEF Park, Consume, WorkerCrash, LostInv, LedgerInv, TypeOK
  <2>4. LedgerInv'
    BY <2>1, <2>3 DEF LostInv, LedgerInv, Logged, Kept, Published, Forms, Own, Strip, Sent, Recovered
  <2>5. QED BY <2>2, <2>4 DEF LostInv
<1>3. QED BY <1>1, <1>2

\* Flush steps that write neither ledger nor worktodo.add.
LEMMA LostQuiet ==
  ASSUME TypeOK, LostInv,
         \/ FlushStart \/ FlushEnd \/ Stale \/ Take \/ Copy \/ Reconcile \/ Ambiguous \/ AckEnd
         \/ Claim \/ Look \/ Prepare \/ ReadAdd \/ SendFails \/ Unready \/ Finish \/ Drop \/ Clear
  PROVE  LostInv'
<1> USE DEF Goto, files, prime, memory, saves
<1>1. UNCHANGED <<row, ledger, add, todo, ran, rejected>>
  BY DEF FlushStart, FlushEnd, Stale, Take, Copy, Reconcile, Ambiguous, AckEnd, Claim, Look, Prepare,
         ReadAdd, SendFails, Unready, Finish, Drop, Clear
<1>2. /\ \A l : (Kept(l)' <=> Kept(l)) /\ (Published(l)' <=> Published(l))
      /\ \A t : (Logged(t)' <=> Logged(t)) /\ Forms(t)' = Forms(t)
      /\ \A l : Sent(l)' = Sent(l) /\ Recovered(l)' = Recovered(l)
  BY <1>1 DEF Kept, Published, Logged, Forms, Own, Strip, Sent, Recovered
<1>3. pc \notin {"idle", "next"} => cur \in Tasks
  BY DEF TypeOK
<1>4. \A t \in intent \union done : t \in intent' \union done'
  BY DEF FlushStart, FlushEnd, Stale, Take, Copy, Reconcile, Ambiguous, AckEnd, Claim, Look, Prepare,
         ReadAdd, SendFails, Unready, Finish, Drop, Clear, LostInv, FlushInv
<1>5. \A t \in done' : Logged(t)
  BY DEF FlushStart, FlushEnd, Stale, Take, Copy, Reconcile, Ambiguous, AckEnd, Claim, Look, Prepare,
         ReadAdd, SendFails, Unready, Finish, Drop, Clear, LostInv, FlushInv, LedgerInv
<1>6. LedgerInv'
  BY <1>1, <1>2, <1>4, <1>5 DEF LostInv, LedgerInv
<1>7. CASE FlushStart \/ FlushEnd \/ Stale \/ Take \/ Copy \/ Ambiguous \/ Claim \/ SendFails
  BY <1>1, <1>2, <1>6, <1>7 DEF LostInv, FlushInv, FlushStart, FlushEnd, EndFlush, Stale, Take, Copy,
     Ambiguous, Claim, SendFails
<1>8. CASE Reconcile
  <2>1. \E l \in Forms(cur) : l \in lines'
    BY <1>3, <1>8 DEF Reconcile, Attempted, LostInv, FlushInv, Forms
  <2>2. QED BY <1>1, <1>2, <1>6, <1>8, <2>1 DEF LostInv, FlushInv, Reconcile
<1>9. CASE AckEnd
  BY <1>1, <1>2, <1>6, <1>9 DEF LostInv, FlushInv, AckEnd
<1>10. CASE Look
  <2>1. \A l \in lines' : ~l.aid
    BY <1>10, StripTwice DEF Look
  <2>2. QED BY <1>1, <1>2, <1>6, <1>10, <2>1 DEF LostInv, FlushInv, Look
<1>11. CASE Prepare
  <2>1. line' \in Forms(cur) /\ lines' \subseteq lines
    BY <1>11 DEF Prepare, Outgoing, Forms
  <2>2. /\ line' \in ready'[cur] /\ lines' \subseteq ready'[cur]
        /\ \A t \in Tasks : t # cur => ready'[t] = ready[t]
    BY <1>3, <1>11 DEF Prepare, TypeOK
  <2>3. UNCHANGED <<done, cur, old>> /\ pc = "prepare" /\ pc' = "read"
    BY <1>11 DEF Prepare
  <2>4. QED BY <1>2, <1>6, <2>1, <2>2, <2>3 DEF LostInv, FlushInv
<1>12. CASE ReadAdd
  BY <1>1, <1>2, <1>6, <1>12 DEF LostInv, FlushInv, ReadAdd
<1>13. CASE Unready \/ Clear
  <2>1. \A t \in Tasks : ready'[t] # None => ready'[t] = ready[t]
    BY <1>3, <1>13 DEF Unready, Clear, TypeOK
  <2>2. QED BY <1>1, <1>2, <1>6, <1>13, <2>1 DEF LostInv, FlushInv, Unready, Clear
<1>14. CASE Finish \/ Drop
  BY <1>1, <1>2, <1>6, <1>14 DEF LostInv, FlushInv, Finish, Drop
<1>15. QED BY <1>6, <1>7, <1>8, <1>9, <1>10, <1>11, <1>12, <1>13, <1>14 DEF LostInv

\* One acknowledgement, and the part of it that a crash may leave.
LEMMA LostAck ==
  ASSUME TypeOK, LostInv, NEW l \in Line, l \in lines, Observed(Actual(l)),
         UNCHANGED <<row, intent, done, add, todo, ran, rejected>>,
         \/ ledger' = ledger \union {Sent(Actual(l))}
         \/ ledger' = ledger \union {Sent(Actual(l))}
                        \union IF Actual(l).aid THEN {} ELSE {Recovered(Actual(l))}
  PROVE  LedgerInv' /\ \A t \in Tasks : (Logged(t) \/ l \in Forms(t) => Logged(t)')
<1>1. Actual(l) \in Line
  BY ActualIsLine
<1>2. Kept(Actual(l)) /\ (~Actual(l).aid => Published(Actual(l)))
  BY <1>1, ObservedIsKept DEF LostInv
<1>3. ledger \subseteq ledger' /\ Sent(Actual(l)) \in ledger'
  OBVIOUS
<1>4. /\ \A m \in Line : Sent(m) \in ledger' => Sent(m) \in ledger \/ m = Actual(l)
      /\ \A m \in Line : Recovered(m) \in ledger' =>
           Recovered(m) \in ledger \/ (m = Actual(l) /\ ~Actual(l).aid)
  BY <1>1, RecordsDiffer
<1>5. \A t \in Tasks : Logged(t) \/ l \in Forms(t) => \E m \in Forms(t) : Sent(m) \in ledger'
  BY <1>3, ActualForm DEF Logged
<1>6. /\ \A m : (Kept(m)' <=> Kept(m)) /\ (Published(m)' <=> Published(m))
      /\ \A t : Forms(t)' = Forms(t)
      /\ \A m : Sent(m)' = Sent(m) /\ Recovered(m)' = Recovered(m)
  BY DEF Kept, Published, Forms, Own, Strip, Sent, Recovered
<1>7. \A t \in Tasks : Logged(t) \/ l \in Forms(t) => Logged(t)'
  BY <1>5, <1>6 DEF Logged
<1>8. LedgerInv'
  <2>1. \A t \in done : t \in Tasks
    BY DEF TypeOK
  <2>2. QED BY <1>2, <1>4, <1>6, <1>7, <2>1 DEF LostInv, LedgerInv
<1>9. QED BY <1>7, <1>8

LEMMA LostPublish ==
  ASSUME TypeOK, LostInv, WriteAdd
  PROVE  LostInv'
<1> USE DEF Goto, files, prime, saves
<1>1. UNCHANGED <<row, intent, done, ready, ledger, cur, line, lines>> /\ pc = "write" /\ pc' = "recover"
  BY DEF WriteAdd
<1>2. \A l \in Line : (Kept(l) => Kept(l)') /\ (~l.aid /\ Published(l) => Published(l)')
  BY KeptStays DEF LostInv
<1>3. LedgerInv'
  BY <1>1, <1>2 DEF LostInv, LedgerInv, Logged, Forms, Own, Strip, Sent, Recovered
<1>4. \A l \in ready[cur] : Kept(l)'
  BY DEF WriteAdd, Kept, Published
<1>5. \A t : Forms(t)' = Forms(t)
  BY DEF Forms, Own, Strip
<1>6. QED BY <1>1, <1>3, <1>4, <1>5 DEF LostInv, FlushInv

LEMMA LostRecord ==
  ASSUME TypeOK, LostInv, RecordSent \/ \E l \in Line : RecordRecovered(l)
  PROVE  LostInv'
<1> USE DEF Goto, files, prime, memory, saves
<1>1. UNCHANGED <<row, intent, done, ready, add, todo, ran, rejected, cur, line>> /\ pc = "recover"
  BY DEF RecordSent, RecordRecovered
<1>2. /\ \A m : (Kept(m)' <=> Kept(m)) /\ (Published(m)' <=> Published(m))
      /\ \A t : Forms(t)' = Forms(t)
      /\ \A m : Sent(m)' = Sent(m) /\ Recovered(m)' = Recovered(m)
  BY <1>1 DEF Kept, Published, Forms, Own, Strip, Sent, Recovered
<1>3. /\ cur \in Tasks /\ done \subseteq Tasks /\ line \in Line /\ line \in ready[cur]
      /\ line \in Forms(cur) /\ lines \subseteq ready[cur]
      /\ \A l \in lines : ~l.aid
      /\ \A l \in ready[cur] : Kept(l)
  BY <1>1 DEF LostInv, FlushInv, TypeOK
<1>4. CASE RecordSent
  <2>1. ledger' = ledger \union {Sent(line)} /\ pc' = "unready" /\ UNCHANGED lines
    BY <1>4 DEF RecordSent
  <2>2. /\ \A m \in Line : Sent(m) \in ledger' => Sent(m) \in ledger \/ m = line
        /\ \A m \in Line : Recovered(m) \in ledger' => Recovered(m) \in ledger
    BY <1>3, <2>1, RecordsDiffer
  <2>3. Logged(cur)' /\ \A t : Logged(t) => Logged(t)'
    BY <1>1, <1>2, <1>3, <2>1 DEF Logged
  <2>4. LedgerInv'
    BY <1>1, <1>2, <1>3, <2>2, <2>3 DEF LostInv, LedgerInv
  <2>5. FlushInv'
    BY <1>1, <1>2, <2>1, <2>3 DEF LostInv, FlushInv
  <2>6. QED BY <2>4, <2>5 DEF LostInv
<1>5. ASSUME NEW l \in Line, RecordRecovered(l)
      PROVE  LostInv'
  <2>1. /\ ledger' = ledger \union {Recovered(l)} /\ pc' = "recover" /\ UNCHANGED old
        /\ l \in lines /\ lines' = lines \ {l}
    BY <1>5 DEF RecordRecovered
  <2>2. /\ \A m \in Line : Sent(m) \in ledger' => Sent(m) \in ledger
        /\ \A m \in Line : Recovered(m) \in ledger' => Recovered(m) \in ledger \/ m = l
    BY <2>1, RecordsDiffer
  <2>3. ~l.aid /\ Published(l)
    BY <1>3, <2>1 DEF Kept
  <2>4. \A t : Logged(t) => Logged(t)'
    BY <1>2, <2>1 DEF Logged
  <2>5. LedgerInv'
    BY <1>1, <1>2, <1>3, <2>2, <2>3, <2>4 DEF LostInv, LedgerInv
  <2>6. FlushInv'
    BY <1>1, <1>2, <1>3, <2>1 DEF LostInv, FlushInv
  <2>7. QED BY <2>5, <2>6 DEF LostInv
<1>6. QED BY <1>4, <1>5

LEMMA LostCrash ==
  ASSUME TypeOK, LostInv, Crash
  PROVE  LostInv'
<1> USE DEF prime, saves
<1>1. UNCHANGED <<row, intent, done, ready, add, todo, ran, rejected>> /\ pc' = "idle"
  BY DEF Crash, EndFlush
<1>2. FlushInv'
  BY <1>1 DEF LostInv, FlushInv, Forms, Own, Strip
<1>3. CASE ledger' = ledger
  BY <1>1, <1>2, <1>3 DEF LostInv, LedgerInv, Logged, Kept, Published, Forms, Own, Strip, Sent, Recovered
<1>4. CASE ledger' # ledger
  <2>1. PICK l \in lines : Observed(Actual(l)) /\ ledger' = ledger \union {Sent(Actual(l))}
    BY <1>4 DEF Crash
  <2>2. l \in Line
    BY DEF TypeOK
  <2>3. LedgerInv'
    BY <1>1, <2>1, <2>2, LostAck
  <2>4. QED BY <1>2, <2>3 DEF LostInv
<1>5. QED BY <1>3, <1>4

LEMMA LostStep ==
  ASSUME TypeOK, LostInv, [Next]_vars
  PROVE  LostInv'
<1> USE DEF Goto, files, prime, memory, saves
<1>1. CASE UNCHANGED vars
  BY <1>1 DEF vars, LostInv, LedgerInv, FlushInv, Logged, Kept, Published, Forms, Own, Strip, Sent, Recovered
<1>2. ASSUME NEW l \in Line, Ack(l)
      PROVE  LostInv'
  <2>1. /\ UNCHANGED <<row, intent, done, ready, add, todo, ran, rejected, cur, line, old, pc>>
        /\ pc = "ack" /\ l \in lines /\ lines' = lines \ {l} /\ Observed(Actual(l))
        /\ ledger' = ledger \union {Sent(Actual(l))}
                       \union IF Actual(l).aid THEN {} ELSE {Recovered(Actual(l))}
    BY <1>2 DEF Ack
  <2>2. LedgerInv' /\ \A t \in Tasks : (Logged(t) \/ l \in Forms(t) => Logged(t)')
    BY <2>1, LostAck
  <2>3. cur \in Tasks
    BY <2>1 DEF TypeOK
  <2>4. \A t : Forms(t)' = Forms(t)
    BY <2>1 DEF Forms, Own, Strip
  <2>5. FlushInv'
    BY <2>1, <2>2, <2>3, <2>4 DEF LostInv, FlushInv
  <2>6. QED BY <2>2, <2>5 DEF LostInv
<1>3. QED
  BY <1>1, <1>2, LostOutside, LostQuiet, LostPublish, LostRecord, LostCrash DEF Next, Flush

\* A batch whose source row is gone is with its intent, with Prime95, or in the
\* ledger that brings back what Prime95 has thrown away.
THEOREM LostCorrect == Spec => []NeverLost
<1>1. Init => TypeOK /\ LostInv
  <2> SUFFICES ASSUME Init PROVE LostInv
    BY TypeInit
  <2>1. QED BY DEF Init, LostInv, LedgerInv, FlushInv
<1>2. TypeOK /\ LostInv /\ [Next]_vars => (TypeOK /\ LostInv)'
  BY TypeStep, LostStep
<1>3. TypeOK /\ LostInv => NeverLost
  <2> SUFFICES ASSUME TypeOK, LostInv, NEW t \in Tasks, row[t] = "gone", t \notin intent \union ran
               PROVE  Recoverable(t) \/ \E l \in add \union todo : l.task = t
    BY DEF NeverLost
  <2>1. PICK l \in Forms(t) : Sent(l) \in ledger
    BY DEF LostInv, LedgerInv, Logged
  <2>2. l \in Line /\ l.task = t
    BY FormsAreLines
  <2>3. Kept(l)
    BY <2>1, <2>2 DEF LostInv, LedgerInv
  <2>4. CASE Published(l)
    BY <2>2, <2>4 DEF Published
  <2>5. CASE ~Published(l)
    <3>1. l.aid /\ KeyOf[t] \in rejected
      BY <2>2, <2>3, <2>5 DEF Kept
    <3>2. l = Own(t)
      BY <3>1, OwnIsLine, StripTwice DEF Forms
    <3>3. CASE Recovered(Strip(Own(t))) \in ledger
      <4>1. Strip(Own(t)) \in Line /\ Strip(Own(t)).task = t
        BY OwnIsLine, StripIsLine
      <4>2. Published(Strip(Own(t)))
        BY <3>3, <4>1 DEF LostInv, LedgerInv
      <4>3. QED BY <4>1, <4>2 DEF Published
    <3>4. CASE Recovered(Strip(Own(t))) \notin ledger
      BY <2>1, <3>1, <3>2, <3>4 DEF Recoverable
    <3>5. QED BY <3>3, <3>4
  <2>6. QED BY <2>4, <2>5
<1>4. QED BY <1>1, <1>2, <1>3, PTL DEF Spec
=============================================================================
