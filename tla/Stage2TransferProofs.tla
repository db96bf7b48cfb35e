------------------------ MODULE Stage2TransferProofs ------------------------
(***************************************************************************)
(* Theorems about Stage2Transfer, for any sources, receivers and routing,  *)
(* any text of the queue and any number of crashes: its steps are those of *)
(* AssignmentHandoff, and an assignment with one finished record is run    *)
(* once.                                                                   *)
(***************************************************************************)
EXTENDS Stage2Transfer, WorktodoFileProofs

(***************************************************************************)
(* Types.  What a process needs for its next step it has; with "auto" the  *)
(* sections of the queue are those of receivers.                           *)
(***************************************************************************)
SourceOK(s) ==
    /\ receipt[s] # None => todo[s] # <<>> /\ receipt[s] = Head(todo[s])
    /\ pc[s] \in {"park", "store"} => todo[s] # <<>>
    /\ pc[s] # "flush" => sent[s] = 0

WorkerOK(r) == s2pc[r] # "read" => task[r] \in Rows

SectionsOK == Routing = "auto" => LoadedWorkers(queue) \subseteq Receivers

TypeInv ==
    /\ TypeOK /\ DOMAIN todo = Sources /\ SectionsOK
    /\ \A s \in Sources : SourceOK(s)
    /\ \A r \in Receivers : WorkerOK(r)

\* The row a Stage2 worker reads is a row of its section.
LEMMA NextTaskIsRow ==
    ASSUME queue \in Seq(Line), NEW r, NextTask(r) # 0
    PROVE  /\ queue[NextTask(r)].row \in Rows /\ NextTask(r) \in Tasks(queue)
           /\ Found(queue, r, queue[NextTask(r)].row)
<1>1. /\ NextTask(r) \in TaskAt(queue, r)
      /\ queue[NextTask(r)] \in Line /\ queue[NextTask(r)].kind = "Task"
      /\ Found(queue, r, queue[NextTask(r)].row)
  BY ReadIsTask DEF NextTask
<1>2. queue[NextTask(r)].row \in Rows
  BY <1>1 DEF Line
<1>3. QED BY <1>1, <1>2 DEF TaskAt, Tasks

LEMMA RowIsLine == \A x \in Rows : TaskLine(x) \in Line
BY DEF TaskLine, Line

LEMMA HeaderIsLine == \A v \in Nat \ {0} : HeaderLine(v) \in Line
BY DEF HeaderLine, Line

\* The receiver is chosen among the receivers.
LEMMA ChosenIsReceiver ==
    ASSUME TypeOK, SectionsOK, NEW s \in Sources
    PROVE  Chosen(s) \in Receivers
<1>0. /\ Receivers \subseteq Nat /\ Receiver[s] \in Receivers /\ queue \in Seq(Line)
      /\ outbox[s] \in Seq(Entry) /\ Routing \in {"fixed", "list", "auto"}
  BY RoutingAssumption DEF TypeOK
<1>1. CASE Routing = "fixed"
  BY <1>0, <1>1 DEF Chosen
<1>2. CASE Routing # "fixed"
  <2> DEFINE best == {r \in Candidates : \A q \in Candidates : Load(s, r) <= Load(s, q)}
             loads == {Load(s, r) : r \in Candidates}
  <2>1. Candidates \subseteq Receivers /\ Candidates # {}
    BY <1>0, <1>2 DEF Candidates, SectionsOK
  <2>2. ASSUME NEW r \in Candidates PROVE Load(s, r) \in Nat
    <3>1. IsFiniteSet(DOMAIN queue) /\ IsFiniteSet(DOMAIN outbox[s])
      <4>1. DOMAIN queue = 1..Len(queue) /\ Len(queue) \in Nat
        BY <1>0, LenProperties
      <4>2. DOMAIN outbox[s] = 1..Len(outbox[s]) /\ Len(outbox[s]) \in Nat
        BY <1>0, LenProperties
      <4>3. \A n \in Nat : IsFiniteSet(1..n)
        BY FS_Interval
      <4>4. QED BY <4>1, <4>2, <4>3
    <3>2. Cardinality({i \in DOMAIN outbox[s] : outbox[s][i].worker = r}) \in Nat
      BY <3>1, FS_Subset, FS_CardinalityType
    <3>3. Cardinality({i \in DOMAIN queue : queue[i].kind = "Task" /\ Section(queue, i) = r}) \in Nat
      BY <3>1, FS_Subset, FS_CardinalityType
    <3>4. QED BY <3>2, <3>3 DEF Load, WorkerLoads
  <2>3. loads \in SUBSET Nat /\ loads # {}
    BY <2>1, <2>2
  <2>4. PICK r \in Candidates : \A q \in Candidates : Load(s, r) <= Load(s, q)
    <3>1. Min(loads) \in loads /\ \A y \in loads : Min(loads) <= y
      BY <2>3, MinOfNats
    <3>2. QED BY <3>1
  <2>5. best \in SUBSET Nat /\ best # {}
    BY <1>0, <2>1, <2>4
  <2>6. Min(best) \in best
    BY <2>5, MinOfNats
  <2>7. QED BY <1>2, <2>1, <2>6 DEF Chosen, Least
<1>3. QED BY <1>1, <1>2

\* What is left of a list of rows, and the row at its head.
Rest(T, t) == \E n \in 0..Len(T) : t = SubSeq(T, n + 1, Len(T))

LEMMA RestFacts ==
    ASSUME NEW S, NEW T \in Seq(S), NEW t, Rest(T, t), t # <<>>
    PROVE  Head(t) \in Range(T) /\ Rest(T, Tail(t))
<1>1. Len(T) \in Nat /\ DOMAIN T = 1..Len(T)
  BY LenProperties
<1>2. PICK n \in 0..Len(T) : t = SubSeq(T, n + 1, Len(T))
  BY DEF Rest
<1>3. n + 1 \in 1..Len(T)
  <2>1. n \in Nat /\ n <= Len(T)
    BY <1>1
  <2>2. ASSUME n = Len(T) PROVE FALSE
    <3>1. n + 1 \in Int /\ n \in Int /\ n < n + 1
      BY <2>1
    <3>2. SubSeq(T, n + 1, n) = <<>>
      BY <3>1, SubSeqEmpty
    <3>3. QED BY <1>2, <2>2, <3>2
  <2> DEFINE m == Len(T)
  <2>3. m \in Nat /\ n <= m /\ n # m
    BY <1>1, <2>1, <2>2
  <2> HIDE DEF m
  <2>4. n + 1 \in 1..m
    BY <2>1, <2>3
  <2>5. QED BY <2>4 DEF m
<1>4. Head(t) = T[n + 1] /\ Tail(t) = SubSeq(T, (n + 1) + 1, Len(T))
  <2>1. Len(T) \in (n + 1)..Len(T)
    BY <1>1, <1>3
  <2>2. QED BY <1>2, <1>3, <2>1, HeadTailOfSubSeq
<1>5. n + 1 \in 0..Len(T)
  BY <1>1, <1>3
<1>6. QED BY <1>1, <1>3, <1>4, <1>5 DEF Range, Rest

LEMMA RestOfAll ==
    ASSUME NEW S, NEW T \in Seq(S)
    PROVE  Rest(T, T)
<1>1. Len(T) \in Nat
  BY LenProperties
<1>2. 0 \in 0..Len(T) /\ T = SubSeq(T, 0 + 1, Len(T))
  BY <1>1, SubSeqFull
<1>3. QED BY <1>2 DEF Rest

LEMMA InitType == Init => TypeInv
<1> SUFFICES ASSUME Init PROVE TypeInv
  OBVIOUS
<1>1. \A s \in Sources : \E n \in 0..Len(Todo[s]) : todo[s] = SubSeq(Todo[s], n + 1, Len(Todo[s]))
  <2>1. \A s \in Sources : Rest(Todo[s], Todo[s])
    BY TodoAssumption, RestOfAll
  <2>2. QED BY <2>1 DEF Init, Rest
<1>2. outbox \in [Sources -> Seq(Entry)] /\ \A s \in Sources : sent[s] <= Len(outbox[s])
  <2>1. \A s \in Sources : outbox[s] = <<>> /\ sent[s] = 0
    BY DEF Init
  <2>2. <<>> \in Seq(Entry) /\ Len(<<>>) = 0
    BY EmptySeq
  <2>3. QED BY <2>1, <2>2 DEF Init
<1>3. TypeOK
  BY <1>1, <1>2, QueueAssumption DEF Init, TypeOK
<1>4. (\A s \in Sources : SourceOK(s)) /\ (\A r \in Receivers : WorkerOK(r)) /\ SectionsOK
  BY QueueAssumption DEF Init, SourceOK, WorkerOK, SectionsOK
<1>5. DOMAIN todo = Sources
  BY TodoAssumption DEF Init
<1>6. QED BY <1>3, <1>4, <1>5 DEF TypeInv

(***************************************************************************)
(* The steps, one by one.                                                  *)
(***************************************************************************)
\* What a row routed to the queue changes, or nothing at all.
LEMMA FlushEntryQueue ==
    ASSUME TypeInv, NEW s \in Sources, FlushEntry(s)
    PROVE  LET e == outbox[s][sent[s] + 1]
           IN  /\ e \in Entry /\ sent[s] + 1 \in 1..Len(outbox[s])
               /\ queue' = AppendUnique(queue, finished[e.finished], e.worker, e.row)
               /\ queue' \in Seq(Line)
               /\ \/ queue' = queue /\ Delivered(queue, finished[e.finished], e.row)
                  \/ /\ ~Delivered(queue, finished[e.finished], e.row)
                     /\ \E up : OneMore(queue, queue', up, e.worker, e.row)
                     /\ HeadersFrom(queue, queue', {e.worker})
<1> DEFINE e == outbox[s][sent[s] + 1]
           done == finished[e.finished]
<1>1. outbox[s] \in Seq(Entry) /\ sent[s] \in Nat /\ sent[s] < Len(outbox[s]) /\ queue \in Seq(Line)
  BY DEF FlushEntry, TypeInv, TypeOK
<1>2. Len(outbox[s]) \in Nat
  BY <1>1, LenProperties
<1>3. sent[s] + 1 \in 1..Len(outbox[s])
  BY <1>1, <1>2
<1>4. e \in Entry
  BY <1>1, <1>3, ElementOfSeq
<1>5. queue' = AppendUnique(queue, done, e.worker, e.row)
  BY DEF FlushEntry
<1> HIDE DEF e
<1>6. e.worker \in Nat \ {0} /\ e.row \in Rows
  BY <1>4, RoutingAssumption DEF Entry
<1> HIDE DEF done
<1>7. CASE Delivered(queue, done, e.row)
  <2>1. queue' = queue
    BY <1>5, <1>7 DEF AppendUnique
  <2>2. QED BY <1>1, <1>3, <1>4, <1>5, <1>7, <2>1 DEF e, done
<1>8. CASE ~Delivered(queue, done, e.row)
  <2>1. TaskLine(e.row) \in Line /\ HeaderLine(e.worker) \in Line
    BY <1>6, RowIsLine, HeaderIsLine
  <2>2. /\ queue' \in Seq(Line)
        /\ \E up : OneMore(queue, queue', up, e.worker, e.row)
        /\ HeadersFrom(queue, queue', {e.worker})
    BY <1>1, <1>5, <1>6, <1>8, <2>1, AppendUniqueAdds
  <2>3. QED BY <1>3, <1>4, <1>5, <1>8, <2>2 DEF e, done
<1>9. QED BY <1>7, <1>8

LEMMA S2RemoveQueue ==
    ASSUME TypeInv, NEW r \in Receivers, S2Remove(r)
    PROVE  /\ Found(queue, r, task[r]) /\ task[r] \in Rows /\ queue \in Seq(Line)
           /\ queue' = RemoveTicket(queue, r, task[r])
BY DEF S2Remove, S2Goto, Advanced, TypeInv, TypeOK, WorkerOK

LEMMA S2RecordRow ==
    ASSUME TypeInv, NEW r \in Receivers, S2Record(r)
    PROVE  \/ /\ s2pc' = [s2pc EXCEPT ![r] = "remove"] /\ task' = task
              /\ task[r] \in Rows /\ Found(queue, r, task[r])
              /\ finished' = [finished EXCEPT ![FinishedOf[r]] = @ \cup {task[r]}]
              /\ FinishedOf[r] \in Range(FinishedOf)
           \/ /\ s2pc' = [s2pc EXCEPT ![r] = "read"] /\ task' = [task EXCEPT ![r] = None]
              /\ UNCHANGED finished
<1>1. queue \in Seq(Line) /\ task[r] \in Rows /\ FinishedOf[r] \in Range(FinishedOf)
  BY RoutingAssumption DEF S2Record, TypeInv, TypeOK, WorkerOK, Range
<1>2. NextTask(r) # 0 /\ queue[NextTask(r)].row = task[r] => Found(queue, r, task[r])
  BY <1>1, NextTaskIsRow
<1>3. QED BY <1>1, <1>2 DEF S2Record

\* What the variables of a step's process are afterwards, in TypeInv.
LEMMA StepType == TypeInv /\ [Next]_vars => TypeInv'
<1> SUFFICES ASSUME TypeInv, [Next]_vars PROVE TypeInv'
  OBVIOUS
<1> USE DEF source, stage2
<1>0. /\ TypeOK /\ SectionsOK /\ DOMAIN todo = Sources
      /\ outbox \in [Sources -> Seq(Entry)] /\ queue \in Seq(Line)
      /\ finished \in [Range(FinishedOf) -> SUBSET Rows]
      /\ receipt \in [Sources -> Rows \cup {None}]
      /\ pc \in [Sources -> {"down", "flush", "finish", "idle", "park", "store"}]
      /\ sent \in [Sources -> Nat] /\ task \in [Receivers -> Rows \cup {None}]
      /\ s2pc \in [Receivers -> {"read", "run", "record", "remove", "clean"}]
      /\ progress \subseteq Rows /\ ran \in [Rows -> Nat] /\ booting \in [Sources -> BOOLEAN]
      /\ \A s \in Sources : sent[s] <= Len(outbox[s]) /\ SourceOK(s) /\ Rest(Todo[s], todo[s])
      /\ \A r \in Receivers : WorkerOK(r)
      /\ \A s \in Sources : Len(outbox[s]) \in Nat
  <2>1. TypeOK /\ outbox \in [Sources -> Seq(Entry)]
    BY DEF TypeInv, TypeOK
  <2>2. \A s \in Sources : Len(outbox[s]) \in Nat
    <3>1. ASSUME NEW s \in Sources PROVE Len(outbox[s]) \in Nat
      <4>1. outbox[s] \in Seq(Entry)
        BY <2>1
      <4>2. QED BY <4>1, LenProperties
    <3>2. QED BY <3>1
  <2>3. QED BY <2>1, <2>2 DEF TypeInv, TypeOK, Rest
<1>1. CASE UNCHANGED vars
  BY <1>0, <1>1 DEF vars, TypeInv, TypeOK, SourceOK, WorkerOK, SectionsOK
\* The Stage1 side of the invariant, and the Stage2 side.
<1> DEFINE Src == /\ DOMAIN todo = Sources
                  /\ outbox \in [Sources -> Seq(Entry)] /\ receipt \in [Sources -> Rows \cup {None}]
                  /\ pc \in [Sources -> {"down", "flush", "finish", "idle", "park", "store"}]
                  /\ sent \in [Sources -> Nat] /\ booting \in [Sources -> BOOLEAN]
                  /\ \A s \in Sources : sent[s] <= Len(outbox[s]) /\ SourceOK(s) /\ Rest(Todo[s], todo[s])
           Dst == /\ finished \in [Range(FinishedOf) -> SUBSET Rows]
                  /\ task \in [Receivers -> Rows \cup {None}]
                  /\ s2pc \in [Receivers -> {"read", "run", "record", "remove", "clean"}]
                  /\ progress \subseteq Rows /\ ran \in [Rows -> Nat]
                  /\ \A r \in Receivers : WorkerOK(r)
           Que == queue \in Seq(Line) /\ SectionsOK
<1>2. Src' /\ Dst' /\ Que' => TypeInv'
  BY DEF TypeInv, TypeOK, Rest
<1>3. Src /\ Dst /\ Que
  BY <1>0
<1>4. UNCHANGED <<stage2>> => Dst'
  BY <1>3 DEF WorkerOK
<1>5. UNCHANGED source => Src'
  BY <1>3 DEF SourceOK
<1>6. UNCHANGED queue => Que'
  BY <1>3 DEF SectionsOK
<1>7. ASSUME NEW s \in Sources,
             /\ \A t \in Sources \ {s} : /\ receipt'[t] = receipt[t] /\ todo'[t] = todo[t] /\ pc'[t] = pc[t]
                                        /\ sent'[t] = sent[t] /\ outbox'[t] = outbox[t]
             /\ sent'[s] <= Len(outbox'[s]) /\ SourceOK(s)' /\ Rest(Todo[s], todo'[s])
      PROVE  \A t \in Sources : sent'[t] <= Len(outbox'[t]) /\ SourceOK(t)' /\ Rest(Todo[t], todo'[t])
  <2>1. ASSUME NEW t \in Sources \ {s} PROVE sent'[t] <= Len(outbox'[t]) /\ SourceOK(t)' /\ Rest(Todo[t], todo'[t])
    BY <1>3, <1>7 DEF SourceOK
  <2>2. QED BY <1>7, <2>1
<1> HIDE DEF Dst, Que
<1>8. ASSUME NEW s \in Sources, Start(s) \/ Work(s) \/ Exit(s) PROVE TypeInv'
  <2>1. UNCHANGED stage2 /\ UNCHANGED queue
    BY <1>8 DEF Start, Work, Exit
  <2>2. Src'
    <3>1. sent'[s] <= Len(outbox'[s]) /\ SourceOK(s)' /\ Rest(Todo[s], todo'[s])
      BY <1>0, <1>8 DEF Start, Work, Exit, Goto, SourceOK
    <3>2. QED BY <1>0, <1>7, <1>8, <3>1 DEF Start, Work, Exit, Goto
  <2>3. QED BY <1>2, <1>4, <1>6, <2>1, <2>2
<1>9. ASSUME NEW s \in Sources, Park(s) PROVE TypeInv'
  <2>1. UNCHANGED stage2 /\ UNCHANGED queue
    BY <1>9 DEF Park
  <2>2. pc[s] = "park" /\ todo[s] # <<>>
    BY <1>0, <1>9 DEF Park, Goto, SourceOK
  <2>3. Parked(s) \in Entry
    <3>1. Head(todo[s]) \in Rows
      <4>1. Head(todo[s]) \in Range(Todo[s])
        BY <1>0, <2>2, TodoAssumption, RestFacts
      <4>2. QED BY <4>1 DEF Rows
    <3>2. Chosen(s) \in Receivers
      BY <1>0, ChosenIsReceiver
    <3>3. FinishedOf[Chosen(s)] \in Range(FinishedOf)
      BY <3>2, RoutingAssumption DEF Range
    <3>4. QED BY <3>1, <3>2, <3>3 DEF Parked, Entry
  <2>4. /\ outbox' = [outbox EXCEPT ![s] = Append(outbox[s], Parked(s))]
        /\ Append(outbox[s], Parked(s)) \in Seq(Entry)
        /\ Len(Append(outbox[s], Parked(s))) = Len(outbox[s]) + 1
    BY <1>0, <1>9, <2>3, AppendProperties DEF Park
  <2>5. Src'
    <3>1. sent'[s] <= Len(outbox'[s]) /\ SourceOK(s)' /\ Rest(Todo[s], todo'[s])
      BY <1>0, <1>9, <2>4 DEF Park, Goto, SourceOK
    <3>2. QED BY <1>0, <1>7, <1>9, <2>4, <3>1 DEF Park, Goto
  <2>6. QED BY <1>2, <1>4, <1>6, <2>1, <2>5
<1>10. ASSUME NEW s \in Sources, Store(s) PROVE TypeInv'
  <2>1. UNCHANGED stage2 /\ UNCHANGED queue
    BY <1>10 DEF Store
  <2>2. todo[s] # <<>>
    BY <1>0, <1>10 DEF Store, Goto, SourceOK
  <2>3. Head(todo[s]) \in Rows
    <3>1. Head(todo[s]) \in Range(Todo[s])
      BY <1>0, <2>2, TodoAssumption, RestFacts
    <3>2. QED BY <3>1 DEF Rows
  <2>4. Src'
    <3>1. sent'[s] <= Len(outbox'[s]) /\ SourceOK(s)' /\ Rest(Todo[s], todo'[s])
      BY <1>0, <1>10, <2>2 DEF Store, Goto, SourceOK
    <3>2. QED BY <1>0, <1>7, <1>10, <2>3, <3>1 DEF Store, Goto
  <2>5. QED BY <1>2, <1>4, <1>6, <2>1, <2>4
<1>11. ASSUME NEW s \in Sources, Finish(s) PROVE TypeInv'
  <2>1. UNCHANGED stage2 /\ UNCHANGED queue
    BY <1>11 DEF Finish
  <2>2. receipt[s] # None => Rest(Todo[s], Tail(todo[s]))
    BY <1>0, TodoAssumption, RestFacts DEF SourceOK
  <2>3. Src'
    <3>1. Rest(Todo[s], todo'[s])
      BY <1>0, <1>11, <2>2 DEF Finish
    <3>2. QED BY <1>0, <1>7, <1>11, <3>1 DEF Finish, Goto, SourceOK
  <2>4. QED BY <1>2, <1>4, <1>6, <2>1, <2>3
<1>12. ASSUME NEW s \in Sources, FlushEntry(s) PROVE TypeInv'
  <2>1. UNCHANGED stage2
    BY <1>12 DEF FlushEntry
  <2>2. sent[s] + 1 \in 1..Len(outbox[s])
    BY <1>12, FlushEntryQueue
  <2>3. Src'
    <3>1. sent'[s] <= Len(outbox'[s]) /\ SourceOK(s)' /\ Rest(Todo[s], todo'[s])
      BY <1>0, <1>12, <2>2 DEF FlushEntry, SourceOK
    <3>2. QED BY <1>0, <1>7, <1>12, <2>2, <3>1 DEF FlushEntry
  <2>4. Que'
    <3> DEFINE e == outbox[s][sent[s] + 1]
    <3>1. /\ e \in Entry /\ queue' \in Seq(Line)
          /\ \/ queue' = queue
             \/ (\E up : OneMore(queue, queue', up, e.worker, e.row)) /\ HeadersFrom(queue, queue', {e.worker})
      BY <1>12, FlushEntryQueue
    <3> HIDE DEF e
    <3>2. e.worker \in Receivers
      BY <3>1 DEF Entry
    <3>3. LoadedWorkers(queue') \subseteq LoadedWorkers(queue) \cup {e.worker}
      BY <3>1, AddedWorkers
    <3>4. SectionsOK'
      BY <1>0, <3>2, <3>3 DEF SectionsOK
    <3>5. QED BY <3>1, <3>4 DEF Que
  <2>5. QED BY <1>2, <1>4, <2>1, <2>3, <2>4
<1>13. ASSUME NEW s \in Sources, FlushAck(s) PROVE TypeInv'
  <2>1. UNCHANGED stage2 /\ UNCHANGED queue
    BY <1>13 DEF FlushAck
  <2>2. SubSeq(outbox[s], sent[s] + 1, Len(outbox[s])) \in Seq(Entry)
        /\ Len(SubSeq(outbox[s], sent[s] + 1, Len(outbox[s]))) >= 0
    <3>1. sent[s] \in Nat /\ Len(outbox[s]) \in Nat /\ outbox[s] \in Seq(Entry)
      BY <1>0
    <3>2. \A i \in (sent[s] + 1)..Len(outbox[s]) : outbox[s][i] \in Entry
      BY <3>1, ElementOfSeq
    <3>3. SubSeq(outbox[s], sent[s] + 1, Len(outbox[s])) \in Seq(Entry)
      BY <3>1, <3>2, SubSeqProperties
    <3>4. QED BY <3>3, LenProperties
  <2>3. /\ outbox' = [outbox EXCEPT ![s] = SubSeq(outbox[s], sent[s] + 1, Len(outbox[s]))]
        /\ sent' = [sent EXCEPT ![s] = 0] /\ UNCHANGED <<todo, receipt, booting>>
        /\ pc' = [pc EXCEPT ![s] = IF booting[s] THEN "finish" ELSE "idle"]
    BY <1>13 DEF FlushAck, Goto
  <2>4. Src'
    <3>1. sent'[s] <= Len(outbox'[s]) /\ SourceOK(s)' /\ Rest(Todo[s], todo'[s])
      BY <1>0, <2>2, <2>3 DEF SourceOK
    <3>2. QED BY <1>0, <1>7, <2>2, <2>3, <3>1
  <2>5. QED BY <1>2, <1>4, <1>6, <2>1, <2>4
<1>14. ASSUME NEW s \in Sources, Crash(s) PROVE TypeInv'
  <2>1. UNCHANGED stage2 /\ UNCHANGED queue
    BY <1>14 DEF Crash
  <2>2. Src'
    <3>1. sent'[s] <= Len(outbox'[s]) /\ SourceOK(s)' /\ Rest(Todo[s], todo'[s])
      BY <1>0, <1>14 DEF Crash, SourceOK
    <3>2. QED BY <1>0, <1>7, <1>14, <3>1 DEF Crash
  <2>3. QED BY <1>2, <1>4, <1>6, <2>1, <2>2
<1>15. ASSUME NEW r \in Receivers, S2Read(r) PROVE TypeInv'
  <2>1. UNCHANGED source /\ UNCHANGED queue
    BY <1>15 DEF S2Read
  <2>2. queue[NextTask(r)].row \in Rows
    BY <1>0, <1>15, NextTaskIsRow DEF S2Read
  <2>3. Dst'
    BY <1>0, <1>15, <2>2 DEF S2Read, S2Goto, WorkerOK, Dst
  <2>4. QED BY <1>2, <1>5, <1>6, <2>1, <2>3
<1>16. ASSUME NEW r \in Receivers, S2Run(r) PROVE TypeInv'
  <2>1. UNCHANGED source /\ UNCHANGED queue
    BY <1>16 DEF S2Run
  <2>2. task[r] \in Rows
    BY <1>0, <1>16 DEF S2Run, S2Goto, WorkerOK
  <2>3. Dst'
    BY <1>0, <1>16, <2>2 DEF S2Run, S2Goto, WorkerOK, Dst
  <2>4. QED BY <1>2, <1>5, <1>6, <2>1, <2>3
<1>17. ASSUME NEW r \in Receivers, S2Record(r) PROVE TypeInv'
  <2>1. UNCHANGED source /\ UNCHANGED queue /\ UNCHANGED <<progress, ran>>
    BY <1>17 DEF S2Record
  <2>2. Dst'
    <3>1. CASE /\ s2pc' = [s2pc EXCEPT ![r] = "remove"] /\ task' = task /\ task[r] \in Rows
               /\ finished' = [finished EXCEPT ![FinishedOf[r]] = @ \cup {task[r]}]
               /\ FinishedOf[r] \in Range(FinishedOf)
      BY <1>0, <2>1, <3>1 DEF WorkerOK, Dst
    <3>2. CASE /\ s2pc' = [s2pc EXCEPT ![r] = "read"] /\ task' = [task EXCEPT ![r] = None]
               /\ UNCHANGED finished
      BY <1>0, <2>1, <3>2 DEF WorkerOK, Dst
    <3>3. QED BY <1>17, <3>1, <3>2, S2RecordRow
  <2>3. QED BY <1>2, <1>5, <1>6, <2>1, <2>2
<1>18. ASSUME NEW r \in Receivers, S2Remove(r) PROVE TypeInv'
  <2>1. UNCHANGED source
    BY <1>18 DEF S2Remove
  <2>2. Dst'
    BY <1>0, <1>18 DEF S2Remove, S2Goto, WorkerOK, Dst
  <2>3. queue' \in Seq(Line) /\ LoadedWorkers(queue') \subseteq LoadedWorkers(queue)
    BY <1>18, S2RemoveQueue, RemovedRow
  <2>4. Que'
    BY <1>0, <2>3 DEF Que, SectionsOK
  <2>5. QED BY <1>2, <1>5, <2>1, <2>2, <2>4
<1>19. ASSUME NEW r \in Receivers, S2Clean(r) \/ S2Crash(r) PROVE TypeInv'
  <2>1. UNCHANGED source /\ UNCHANGED queue
    BY <1>19 DEF S2Clean, S2Crash
  <2>2. Dst'
    BY <1>0, <1>19 DEF S2Clean, S2Crash, S2Goto, WorkerOK, Dst
  <2>3. QED BY <1>2, <1>5, <1>6, <2>1, <2>2
<1>20. QED
  BY <1>1, <1>8, <1>9, <1>10, <1>11, <1>12, <1>13, <1>14, <1>15, <1>16, <1>17, <1>18, <1>19
  DEF Next, Step, S2Step

\* Every reachable state is well typed.
THEOREM TypeCorrect == Spec => []TypeOK
<1>1. TypeInv => TypeOK  BY DEF TypeInv
<1>2. QED BY <1>1, InitType, StepType, PTL DEF Spec

(***************************************************************************)
(* Delivery.  An entry a flush has passed over has reached the queue or    *)
(* was already recorded, and a row is removed from the queue only when it  *)
(* is recorded: so an acknowledged entry, and a removed row, are nowhere   *)
(* but where they should be.                                               *)
(***************************************************************************)
InRecord(f, x) == \E k \in DOMAIN f : x \in f[k]
Arrived(q, f, x) == Standing(q, x) \/ InRecord(f, x)

SentOK(s)    == \A i \in 1..sent[s] : Arrived(queue, finished, outbox[s][i].row)
RemoveOK(r)  == s2pc[r] = "remove" => InRecord(finished, task[r])
DeliverInv   == (\A s \in Sources : SentOK(s)) /\ (\A r \in Receivers : RemoveOK(r))

\* What the properties say of a row, in these words.
LEMMA InWords ==
    ASSUME NEW x
    PROVE  /\ Queued(x) <=> Standing(queue, x)
           /\ Recorded(x) <=> InRecord(finished, x)
BY DEF Queued, Recorded, Standing, InRecord, Tasks

\* The record grows.
LEMMA RecordGrows ==
    ASSUME TypeInv, NEW r \in Receivers, S2Record(r)
    PROVE  \/ /\ \A x : InRecord(finished', x) <=> InRecord(finished, x) \/ x = task[r]
              /\ task[r] \in Rows /\ Standing(queue, task[r])
              /\ s2pc' = [s2pc EXCEPT ![r] = "remove"] /\ task' = task
           \/ /\ finished' = finished
              /\ s2pc' = [s2pc EXCEPT ![r] = "read"] /\ task' = [task EXCEPT ![r] = None]
<1>0. finished \in [Range(FinishedOf) -> SUBSET Rows]
  BY DEF TypeInv, TypeOK
<1>1. CASE /\ s2pc' = [s2pc EXCEPT ![r] = "remove"] /\ task' = task
           /\ task[r] \in Rows /\ Found(queue, r, task[r])
           /\ finished' = [finished EXCEPT ![FinishedOf[r]] = @ \cup {task[r]}]
           /\ FinishedOf[r] \in Range(FinishedOf)
  <2>1. Standing(queue, task[r])
    BY <1>1, FoundIsTask DEF Standing
  <2>2. \A x : InRecord(finished', x) <=> InRecord(finished, x) \/ x = task[r]
    BY <1>0, <1>1 DEF InRecord
  <2>3. QED BY <1>1, <2>1, <2>2
<1>2. QED BY <1>1, S2RecordRow

\* A routed row is in the queue afterwards, or was delivered before.
LEMMA FlushArrives ==
    ASSUME TypeInv, NEW s \in Sources, FlushEntry(s)
    PROVE  /\ sent[s] + 1 \in 1..Len(outbox[s]) /\ outbox[s][sent[s] + 1] \in Entry
           /\ finished' = finished /\ outbox' = outbox /\ sent' = [sent EXCEPT ![s] = @ + 1]
           /\ UNCHANGED <<s2pc, task>>
           /\ \/ queue' = queue /\ Arrived(queue, finished, outbox[s][sent[s] + 1].row)
              \/ /\ ~Standing(queue, outbox[s][sent[s] + 1].row)
                 /\ \A x : Standing(queue', x) <=> Standing(queue, x) \/ x = outbox[s][sent[s] + 1].row
<1> DEFINE e == outbox[s][sent[s] + 1]
<1>1. /\ e \in Entry /\ sent[s] + 1 \in 1..Len(outbox[s])
      /\ \/ queue' = queue /\ Delivered(queue, finished[e.finished], e.row)
         \/ /\ ~Delivered(queue, finished[e.finished], e.row)
            /\ \E up : OneMore(queue, queue', up, e.worker, e.row)
  BY FlushEntryQueue
<1>2. finished' = finished /\ outbox' = outbox /\ sent' = [sent EXCEPT ![s] = @ + 1]
      /\ UNCHANGED <<s2pc, task>>
  BY DEF FlushEntry, stage2
<1>3. e.finished \in DOMAIN finished
  BY <1>1 DEF Entry, TypeInv, TypeOK
<1> HIDE DEF e
<1>4. CASE queue' = queue /\ Delivered(queue, finished[e.finished], e.row)
  <2>1. Arrived(queue, finished, e.row)
    BY <1>3, <1>4, StandingIsDelivered DEF Arrived, InRecord
  <2>2. QED BY <1>1, <1>2, <1>4, <2>1 DEF e
<1>5. CASE ~Delivered(queue, finished[e.finished], e.row)
           /\ \E up : OneMore(queue, queue', up, e.worker, e.row)
  <2>1. ~Standing(queue, e.row)
    BY <1>5, StandingIsDelivered
  <2>2. \A x : Standing(queue', x) <=> Standing(queue, x) \/ x = e.row
    BY <1>5, AddedRow
  <2>3. QED BY <1>1, <1>2, <2>1, <2>2 DEF e
<1>6. QED BY <1>1, <1>4, <1>5

\* Taking a recorded row out of the queue takes no other row out.
LEMMA RemoveLeaves ==
    ASSUME TypeInv, NEW r \in Receivers, S2Remove(r)
    PROVE  /\ s2pc[r] = "remove" /\ s2pc' = [s2pc EXCEPT ![r] = "clean"]
           /\ UNCHANGED <<outbox, sent, finished, task>>
           /\ \A x : Standing(queue', x) => Standing(queue, x)
           /\ \A x : Standing(queue, x) /\ x # task[r] => Standing(queue', x)
<1>1. s2pc[r] = "remove" /\ s2pc' = [s2pc EXCEPT ![r] = "clean"] /\ UNCHANGED <<outbox, sent, finished, task>>
  BY DEF S2Remove, S2Goto, source
<1>2. QED BY <1>1, S2RemoveQueue, RemovedRow

\* What has arrived stays there, in the queue or, removed, in the record.
LEMMA ArrivedStays ==
    ASSUME TypeInv, DeliverInv, [Next]_vars, NEW x, Arrived(queue, finished, x)
    PROVE  Arrived(queue', finished', x)
<1> USE DEF Arrived
<1>1. CASE UNCHANGED <<queue, finished>>
  BY <1>1
<1>2. ASSUME NEW s \in Sources, FlushEntry(s) PROVE Arrived(queue', finished', x)
  BY <1>2, FlushArrives
<1>3. ASSUME NEW r \in Receivers, S2Record(r) PROVE Arrived(queue', finished', x)
  <2>1. queue' = queue
    BY <1>3 DEF S2Record
  <2>2. QED BY <1>3, <2>1, RecordGrows
<1>4. ASSUME NEW r \in Receivers, S2Remove(r) PROVE Arrived(queue', finished', x)
  BY <1>4, RemoveLeaves DEF DeliverInv, RemoveOK
<1>5. ASSUME NEW s \in Sources,
             Start(s) \/ Work(s) \/ Exit(s) \/ Park(s) \/ Store(s) \/ Finish(s) \/ FlushAck(s) \/ Crash(s)
      PROVE  UNCHANGED <<queue, finished>>
  BY <1>5 DEF Start, Work, Exit, Park, Store, Finish, FlushAck, Crash, stage2
<1>6. ASSUME NEW r \in Receivers, S2Read(r) \/ S2Run(r) \/ S2Clean(r) \/ S2Crash(r)
      PROVE  UNCHANGED <<queue, finished>>
  BY <1>6 DEF S2Read, S2Run, S2Clean, S2Crash
<1>7. QED BY <1>1, <1>2, <1>3, <1>4, <1>5, <1>6 DEF Next, Step, S2Step, vars

LEMMA DeliverInit == Init => DeliverInv
BY DEF Init, DeliverInv, SentOK, RemoveOK

LEMMA DeliverStep == TypeInv /\ DeliverInv /\ [Next]_vars => DeliverInv'
<1> SUFFICES ASSUME TypeInv, DeliverInv, [Next]_vars PROVE DeliverInv'
  OBVIOUS
<1>0. /\ outbox \in [Sources -> Seq(Entry)] /\ sent \in [Sources -> Nat]
      /\ s2pc \in [Receivers -> {"read", "run", "record", "remove", "clean"}]
      /\ task \in [Receivers -> Rows \cup {None}]
      /\ \A s \in Sources : sent[s] <= Len(outbox[s])
  BY DEF TypeInv, TypeOK
<1>1. \A x : Arrived(queue, finished, x) => Arrived(queue', finished', x)
  BY ArrivedStays
<1>2. ASSUME UNCHANGED <<outbox, sent>> PROVE \A s \in Sources : SentOK(s)'
  BY <1>1, <1>2 DEF DeliverInv, SentOK
<1>3. ASSUME UNCHANGED <<task, s2pc, finished>> PROVE \A r \in Receivers : RemoveOK(r)'
  BY <1>3 DEF DeliverInv, RemoveOK
<1>4. CASE UNCHANGED vars
  BY <1>2, <1>3, <1>4 DEF vars, DeliverInv
<1>5. ASSUME NEW s \in Sources, Start(s) \/ Work(s) \/ Exit(s) \/ Store(s) \/ Finish(s) PROVE DeliverInv'
  <2>1. UNCHANGED <<outbox, sent, task, s2pc, finished>>
    BY <1>5 DEF Start, Work, Exit, Store, Finish, stage2
  <2>2. QED BY <1>2, <1>3, <2>1 DEF DeliverInv
<1>6. ASSUME NEW s \in Sources, Park(s) PROVE DeliverInv'
  <2>1. UNCHANGED <<sent, task, s2pc, finished>> /\ outbox' = [outbox EXCEPT ![s] = Append(@, Parked(s))]
    BY <1>6 DEF Park, stage2
  <2>2. outbox' \in [Sources -> Seq(Entry)]
    BY <1>6, StepType DEF TypeInv, TypeOK, Next, Step
  <2>3. \A i \in 1..Len(outbox[s]) : outbox'[s][i] = outbox[s][i]
    <3>1. outbox'[s] = Append(outbox[s], Parked(s)) /\ outbox[s] \in Seq(Entry)
      BY <1>0, <2>1
    <3>2. QED BY <3>1
  <2>4. ASSUME NEW t \in Sources PROVE SentOK(t)'
    <3>1. \A i \in 1..sent[t] : outbox'[t][i] = outbox[t][i]
      <4>1. CASE t = s
        <5>1. Len(outbox[s]) \in Nat /\ sent[s] \in Nat /\ sent[s] <= Len(outbox[s])
          BY <1>0, LenProperties
        <5>2. QED BY <2>3, <4>1, <5>1
      <4>2. CASE t # s
        BY <1>0, <2>1, <4>2
      <4>3. QED BY <4>1, <4>2
    <3>2. QED BY <1>1, <2>1, <3>1 DEF DeliverInv, SentOK
  <2>5. QED BY <1>3, <2>1, <2>4 DEF DeliverInv
<1>7. ASSUME NEW s \in Sources, FlushEntry(s) PROVE DeliverInv'
  <2>1. /\ UNCHANGED <<task, s2pc, finished, outbox>> /\ sent' = [sent EXCEPT ![s] = @ + 1]
        /\ Arrived(queue', finished', outbox[s][sent[s] + 1].row)
    BY <1>7, FlushArrives DEF Arrived
  <2>2. ASSUME NEW t \in Sources PROVE SentOK(t)'
    <3>1. CASE t = s
      <4>1. sent'[s] = sent[s] + 1 /\ sent[s] \in Nat
        BY <1>0, <2>1
      <4>2. \A i \in 1..sent'[s] : i \in 1..sent[s] \/ i = sent[s] + 1
        BY <4>1
      <4>3. QED BY <1>1, <2>1, <3>1, <4>2 DEF DeliverInv, SentOK
    <3>2. CASE t # s
      BY <1>0, <1>1, <2>1, <3>2 DEF DeliverInv, SentOK
    <3>3. QED BY <3>1, <3>2
  <2>3. QED BY <1>3, <2>1, <2>2 DEF DeliverInv
<1>8. ASSUME NEW s \in Sources, FlushAck(s) \/ Crash(s) PROVE DeliverInv'
  <2>1. /\ UNCHANGED <<task, s2pc, finished>> /\ sent' = [sent EXCEPT ![s] = 0]
        /\ \A t \in Sources : t # s => outbox'[t] = outbox[t]
    BY <1>0, <1>8 DEF FlushAck, Crash, stage2
  <2>2. ASSUME NEW t \in Sources PROVE SentOK(t)'
    <3>1. CASE t = s
      BY <1>0, <2>1, <3>1 DEF SentOK
    <3>2. CASE t # s
      BY <1>0, <1>1, <2>1, <3>2 DEF DeliverInv, SentOK
    <3>3. QED BY <3>1, <3>2
  <2>3. QED BY <1>3, <2>1, <2>2 DEF DeliverInv
<1>9. ASSUME NEW r \in Receivers, S2Read(r) \/ S2Run(r) \/ S2Clean(r) \/ S2Crash(r) PROVE DeliverInv'
  <2>1. UNCHANGED <<outbox, sent, finished>>
    BY <1>9 DEF S2Read, S2Run, S2Clean, S2Crash, source
  <2>2. s2pc'[r] # "remove" /\ \A q \in Receivers : q # r => s2pc'[q] = s2pc[q] /\ task'[q] = task[q]
    BY <1>0, <1>9 DEF S2Read, S2Run, S2Clean, S2Crash, S2Goto
  <2>3. QED BY <1>2, <2>1, <2>2 DEF DeliverInv, RemoveOK
<1>10. ASSUME NEW r \in Receivers, S2Record(r) PROVE DeliverInv'
  <2>1. UNCHANGED <<outbox, sent>>
    BY <1>10 DEF S2Record, source
  <2>2. \A x : InRecord(finished, x) => InRecord(finished', x)
    BY <1>10, RecordGrows
  <2>3. RemoveOK(r)' /\ \A q \in Receivers : q # r => s2pc'[q] = s2pc[q] /\ task'[q] = task[q]
    BY <1>0, <1>10, RecordGrows DEF RemoveOK
  <2>4. QED BY <1>2, <2>1, <2>2, <2>3 DEF DeliverInv, RemoveOK
<1>11. ASSUME NEW r \in Receivers, S2Remove(r) PROVE DeliverInv'
  <2>1. UNCHANGED <<outbox, sent, finished, task>> /\ s2pc' = [s2pc EXCEPT ![r] = "clean"]
    BY <1>11, RemoveLeaves
  <2>2. \A q \in Receivers : RemoveOK(q)'
    BY <1>0, <2>1 DEF DeliverInv, RemoveOK
  <2>3. QED BY <1>2, <2>1, <2>2 DEF DeliverInv
<1>12. QED
  BY <1>4, <1>5, <1>6, <1>7, <1>8, <1>9, <1>10, <1>11 DEF Next, Step, S2Step

(***************************************************************************)
(* The refinement, step by step: a step moves one assignment forward, or   *)
(* none.                                                                   *)
(***************************************************************************)
StatusIs(x, st) ==
    st = IF InRecord(finished, x)  THEN "done"
         ELSE IF Standing(queue, x) THEN "queued"
         ELSE IF Owed(x)            THEN "owed"
         ELSE "held"

LEMMA StatusInWords ==
    /\ DOMAIN Status = Rows /\ Status = [x \in Rows |-> Status[x]]
    /\ \A x \in Rows : StatusIs(x, Status[x])
BY InWords DEF Status, StatusIs

LEMMA StatusInWordsAfter ==
    /\ DOMAIN Status' = Rows /\ Status' = [x \in Rows |-> Status'[x]]
    /\ \A x \in Rows : StatusIs(x, Status[x])'
<1>1. \A x : (Queued(x)' <=> Standing(queue, x)') /\ (Recorded(x)' <=> InRecord(finished, x)')
  BY DEF Queued, Recorded, Standing, InRecord, Tasks
<1>2. QED BY <1>1 DEF Status, StatusIs

\* A step that changes the status of y alone, and that forward, is a move.
LEMMA OneMoves ==
    ASSUME NEW y \in Rows, NEW from, NEW to,
           <<from, to>> \in {<<"held", "owed">>, <<"owed", "queued">>, <<"queued", "done">>},
           Status[y] = from, Status'[y] = to,
           \A x \in Rows \ {y} : Status'[x] = Status[x]
    PROVE  Handoff!Next
<1>1. Status' = [Status EXCEPT ![y] = to]
  <2>1. DOMAIN Status = Rows /\ DOMAIN Status' = Rows /\ Status' = [x \in Rows |-> Status'[x]]
    BY StatusInWords, StatusInWordsAfter
  <2>2. \A x \in Rows : Status'[x] = [Status EXCEPT ![y] = to][x]
    BY <2>1
  <2>3. QED BY <2>1, <2>2, StatusInWords
<1>2. Handoff!Move(y, from, to)
  BY <1>1 DEF Handoff!Move
<1>3. QED BY <1>2 DEF Handoff!Next

LEMMA NoneMoves ==
    ASSUME \A x \in Rows : Status'[x] = Status[x]
    PROVE  Status' = Status
BY StatusInWords, StatusInWordsAfter

LEMMA HandoffInit == Init => Handoff!Init
<1> SUFFICES ASSUME Init PROVE Handoff!Init
  OBVIOUS
<1>1. \A x \in Rows : ~Recorded(x) /\ ~Owed(x)
  BY DEF Init, Recorded, Owed
<1>2. \A x \in Rows : Queued(x) <=> x \in Given
  BY DEF Init, Queued, Given
<1>3. QED BY <1>1, <1>2 DEF Handoff!Init, Status

LEMMA HandoffStep ==
    TypeInv /\ DeliverInv /\ TypeInv' /\ [Next]_vars => [Handoff!Next]_Status
<1> SUFFICES ASSUME TypeInv, DeliverInv, TypeInv', [Next]_vars
             PROVE  Handoff!Next \/ Status' = Status
  OBVIOUS
<1>0. /\ outbox \in [Sources -> Seq(Entry)] /\ outbox' \in [Sources -> Seq(Entry)]
      /\ \A s \in Sources : SourceOK(s) /\ SentOK(s) /\ Rest(Todo[s], todo[s])
      /\ \A s \in Sources : DOMAIN outbox[s] = 1..Len(outbox[s]) /\ Len(outbox[s]) \in Nat
      /\ sent \in [Sources -> Nat] /\ \A s \in Sources : sent[s] <= Len(outbox[s])
  <2>1. outbox \in [Sources -> Seq(Entry)]
    BY DEF TypeInv, TypeOK
  <2>2. \A s \in Sources : DOMAIN outbox[s] = 1..Len(outbox[s]) /\ Len(outbox[s]) \in Nat
    <3>1. ASSUME NEW s \in Sources PROVE DOMAIN outbox[s] = 1..Len(outbox[s]) /\ Len(outbox[s]) \in Nat
      <4>1. outbox[s] \in Seq(Entry)
        BY <2>1
      <4>2. QED BY <4>1, LenProperties
    <3>2. QED BY <3>1
  <2>3. QED BY <2>1, <2>2 DEF TypeInv, TypeOK, DeliverInv, Rest
<1>1. ASSUME NEW x \in Rows,
             InRecord(finished', x) <=> InRecord(finished, x),
             ~InRecord(finished, x) => (Standing(queue', x) <=> Standing(queue, x)),
             ~Arrived(queue, finished, x) => (Owed(x)' <=> Owed(x))
      PROVE  Status'[x] = Status[x]
  BY <1>1, StatusInWords, StatusInWordsAfter DEF StatusIs, Arrived
<1>2. ASSUME UNCHANGED <<queue, finished, outbox>> PROVE Status' = Status
  BY <1>2 DEF Status, Recorded, Queued, Owed
<1>3. ASSUME NEW s \in Sources, Start(s) \/ Work(s) \/ Exit(s) \/ Store(s) \/ Finish(s) \/ Crash(s)
      PROVE  Status' = Status
  <2>1. UNCHANGED <<queue, finished, outbox>>
    BY <1>3 DEF Start, Work, Exit, Store, Finish, Crash, stage2
  <2>2. QED BY <1>2, <2>1
<1>4. ASSUME NEW s \in Sources, Park(s) PROVE Handoff!Next \/ Status' = Status
  <2> DEFINE y == Head(todo[s])
  <2>1. /\ UNCHANGED <<queue, finished>> /\ outbox' = [outbox EXCEPT ![s] = Append(@, Parked(s))]
        /\ Parked(s).row = y
    BY <1>4 DEF Park, Parked, stage2
  <2>2. y \in Rows
    <3>1. todo[s] # <<>>
      BY <1>0, <1>4 DEF Park, Goto, SourceOK
    <3>2. y \in Range(Todo[s])
      BY <1>0, <3>1, TodoAssumption, RestFacts
    <3>3. QED BY <3>2 DEF Rows
  <2> HIDE DEF y
  <2>3. /\ DOMAIN outbox'[s] = 1..(Len(outbox[s]) + 1) /\ outbox'[s][Len(outbox[s]) + 1] = Parked(s)
        /\ \A i \in 1..Len(outbox[s]) : outbox'[s][i] = outbox[s][i]
    BY <1>0, <2>1
  <2>4. \A x : Owed(x)' <=> Owed(x) \/ x = y
    <3>1. ASSUME NEW x, Owed(x) PROVE Owed(x)'
      <4>0. PICK t \in Sources : \E i \in DOMAIN outbox[t] : outbox[t][i].row = x
        BY <3>1 DEF Owed
      <4>1. PICK i \in DOMAIN outbox[t] : outbox[t][i].row = x
        BY <4>0
      <4>2. i \in DOMAIN outbox'[t] /\ outbox'[t][i] = outbox[t][i]
        BY <1>0, <2>1, <2>3, <4>1
      <4>3. QED BY <4>1, <4>2 DEF Owed
    <3>2. ASSUME NEW x, x = y PROVE Owed(x)'
      <4>1. Len(outbox[s]) + 1 \in DOMAIN outbox'[s]
        BY <1>0, <2>3
      <4>2. QED BY <2>1, <2>3, <3>2, <4>1 DEF Owed
    <3>3. ASSUME NEW x, Owed(x)', x # y PROVE Owed(x)
      <4>0. PICK t \in Sources : \E i \in DOMAIN outbox'[t] : outbox'[t][i].row = x
        BY <3>3 DEF Owed
      <4>1. PICK i \in DOMAIN outbox'[t] : outbox'[t][i].row = x
        BY <4>0
      <4>2. CASE t = s
        <5>1. i # Len(outbox[s]) + 1
          BY <2>1, <2>3, <3>3, <4>1, <4>2
        <5>2. i \in 1..Len(outbox[s])
          BY <1>0, <2>3, <4>1, <4>2, <5>1
        <5>3. QED BY <1>0, <2>3, <4>1, <4>2, <5>2 DEF Owed
      <4>3. CASE t # s
        BY <1>0, <2>1, <4>1, <4>3 DEF Owed
      <4>4. QED BY <4>2, <4>3
    <3>4. QED BY <3>1, <3>2, <3>3
  <2>5. \A x \in Rows \ {y} : Status'[x] = Status[x]
    BY <1>1, <2>1, <2>4
  <2>6. CASE Status[y] = "held"
    <3>1. Status'[y] = "owed"
      BY <2>1, <2>2, <2>4, <2>6, StatusInWords, StatusInWordsAfter DEF StatusIs
    <3>2. QED BY <2>2, <2>5, <2>6, <3>1, OneMoves
  <2>7. CASE Status[y] # "held"
    <3>1. Status'[y] = Status[y]
      BY <2>1, <2>2, <2>4, <2>7, StatusInWords, StatusInWordsAfter DEF StatusIs
    <3>2. QED BY <2>5, <3>1, NoneMoves
  <2>8. QED BY <2>6, <2>7
<1>5. ASSUME NEW s \in Sources, FlushEntry(s) PROVE Handoff!Next \/ Status' = Status
  <2> DEFINE n == sent[s] + 1  y == outbox[s][n].row
  <2>1. /\ n \in 1..Len(outbox[s]) /\ outbox[s][n] \in Entry
        /\ finished' = finished /\ outbox' = outbox
        /\ \/ queue' = queue
           \/ ~Standing(queue, y) /\ \A x : Standing(queue', x) <=> Standing(queue, x) \/ x = y
    BY <1>5, FlushArrives
  <2>2. y \in Rows /\ Owed(y)
    BY <1>0, <2>1 DEF Entry, Owed
  <2> HIDE DEF n, y
  <2>3. CASE queue' = queue
    BY <1>2, <2>1, <2>3
  <2>4. CASE ~Standing(queue, y) /\ \A x : Standing(queue', x) <=> Standing(queue, x) \/ x = y
    <3>0. \A x : Owed(x)' <=> Owed(x)
      BY <2>1 DEF Owed
    <3>1. \A x \in Rows \ {y} : Status'[x] = Status[x]
      BY <1>1, <2>1, <2>4, <3>0
    <3>2. CASE InRecord(finished, y)
      <4>1. Status'[y] = Status[y]
        BY <1>1, <2>1, <2>2, <3>0, <3>2 DEF Arrived
      <4>2. QED BY <3>1, <4>1, NoneMoves
    <3>3. CASE ~InRecord(finished, y)
      <4>1. Status[y] = "owed" /\ Status'[y] = "queued"
        BY <2>1, <2>2, <2>4, <3>3, StatusInWords, StatusInWordsAfter DEF StatusIs
      <4>2. QED BY <2>2, <3>1, <4>1, OneMoves
    <3>4. QED BY <3>2, <3>3
  <2>5. QED BY <2>1, <2>3, <2>4
<1>6. ASSUME NEW s \in Sources, FlushAck(s) PROVE Status' = Status
  <2> DEFINE m == sent[s]  n == Len(outbox[s])
  <2>1. /\ UNCHANGED <<queue, finished>>
        /\ outbox' = [outbox EXCEPT ![s] = SubSeq(outbox[s], m + 1, n)]
    BY <1>6 DEF FlushAck, stage2
  <2>2. /\ outbox[s] \in Seq(Entry) /\ m \in Nat /\ n \in Nat /\ m <= n
        /\ DOMAIN outbox[s] = 1..n
    BY <1>0
  <2>3. /\ Len(SubSeq(outbox[s], m + 1, n)) = n - m
        /\ \A i \in 1..(n - m) : SubSeq(outbox[s], m + 1, n)[i] = outbox[s][m + i]
    <3>1. \A i \in (m + 1)..n : outbox[s][i] \in Entry
      BY <2>2, ElementOfSeq
    <3> HIDE DEF m, n
    <3>2. /\ Len(SubSeq(outbox[s], m + 1, n)) = IF m + 1 <= n THEN n - (m + 1) + 1 ELSE 0
          /\ \A i \in 1..(n - (m + 1) + 1) : SubSeq(outbox[s], m + 1, n)[i] = outbox[s][(m + 1) + i - 1]
      BY <2>2, <3>1, SubSeqProperties
    <3>3. QED BY <2>2, <3>2
  <2>4. /\ DOMAIN outbox'[s] = 1..(n - m)
        /\ \A i \in 1..(n - m) : outbox'[s][i] = outbox[s][m + i]
    <3>1. outbox'[s] \in Seq(Entry) /\ outbox'[s] = SubSeq(outbox[s], m + 1, n)
      BY <1>0, <2>1
    <3> HIDE DEF m, n
    <3>2. QED BY <2>3, <3>1, LenProperties
  <2>5. \A i \in 1..m : Arrived(queue, finished, outbox[s][i].row)
    BY <1>0 DEF SentOK
  <2> HIDE DEF m, n
  <2>6. ASSUME NEW x, Owed(x)' PROVE Owed(x)
    <3>0. PICK t \in Sources : \E i \in DOMAIN outbox'[t] : outbox'[t][i].row = x
      BY <2>6 DEF Owed
    <3>1. PICK i \in DOMAIN outbox'[t] : outbox'[t][i].row = x
      BY <3>0
    <3>2. CASE t = s
      <4>1. i \in 1..(n - m) /\ m + i \in 1..n
        BY <2>2, <2>4, <3>1, <3>2
      <4>2. QED BY <2>2, <2>4, <3>1, <3>2, <4>1 DEF Owed
    <3>3. CASE t # s
      BY <1>0, <2>1, <3>1, <3>3 DEF Owed
    <3>4. QED BY <3>2, <3>3
  <2>7. ASSUME NEW x, Owed(x), ~Arrived(queue, finished, x) PROVE Owed(x)'
    <3>0. PICK t \in Sources : \E i \in DOMAIN outbox[t] : outbox[t][i].row = x
      BY <2>7 DEF Owed
    <3>1. PICK i \in DOMAIN outbox[t] : outbox[t][i].row = x
      BY <3>0
    <3>2. CASE t = s
      <4>1. i \in 1..n /\ i \notin 1..m
        BY <2>2, <2>5, <2>7, <3>1, <3>2
      <4>2. i - m \in 1..(n - m) /\ m + (i - m) = i
        BY <2>2, <4>1
      <4>3. i - m \in DOMAIN outbox'[s] /\ outbox'[s][i - m] = outbox[s][i]
        BY <2>4, <4>2
      <4>4. QED BY <3>1, <3>2, <4>3 DEF Owed
    <3>3. CASE t # s
      BY <1>0, <2>1, <3>1, <3>3 DEF Owed
    <3>4. QED BY <3>2, <3>3
  <2>8. \A x \in Rows : Status'[x] = Status[x]
    BY <1>1, <2>1, <2>6, <2>7
  <2>9. QED BY <2>8, NoneMoves
<1>7. ASSUME NEW r \in Receivers, S2Read(r) \/ S2Run(r) \/ S2Clean(r) \/ S2Crash(r) PROVE Status' = Status
  <2>1. UNCHANGED <<queue, finished, outbox>>
    BY <1>7 DEF S2Read, S2Run, S2Clean, S2Crash, source
  <2>2. QED BY <1>2, <2>1
<1>8. ASSUME NEW r \in Receivers, S2Record(r) PROVE Handoff!Next \/ Status' = Status
  <2> DEFINE y == task[r]
  <2>1. UNCHANGED <<queue, outbox>>
    BY <1>8 DEF S2Record, source
  <2>2. CASE finished' = finished
    BY <1>2, <2>1, <2>2
  <2>3. CASE /\ \A x : InRecord(finished', x) <=> InRecord(finished, x) \/ x = y
             /\ y \in Rows /\ Standing(queue, y)
    <3> HIDE DEF y
    <3>0. \A x : Owed(x)' <=> Owed(x)
      BY <2>1 DEF Owed
    <3>1. \A x \in Rows \ {y} : Status'[x] = Status[x]
      BY <1>1, <2>1, <2>3, <3>0
    <3>2. CASE InRecord(finished, y)
      <4>1. Status'[y] = Status[y]
        BY <1>1, <2>1, <2>3, <3>0, <3>2
      <4>2. QED BY <3>1, <4>1, NoneMoves
    <3>3. CASE ~InRecord(finished, y)
      <4>1. Status[y] = "queued" /\ Status'[y] = "done"
        BY <2>1, <2>3, <3>3, StatusInWords, StatusInWordsAfter DEF StatusIs
      <4>2. QED BY <2>3, <3>1, <4>1, OneMoves
    <3>4. QED BY <3>2, <3>3
  <2>4. QED BY <1>8, <2>2, <2>3, RecordGrows
<1>9. ASSUME NEW r \in Receivers, S2Remove(r) PROVE Status' = Status
  <2>1. /\ UNCHANGED <<outbox, finished>> /\ InRecord(finished, task[r])
        /\ \A x : Standing(queue', x) => Standing(queue, x)
        /\ \A x : Standing(queue, x) /\ x # task[r] => Standing(queue', x)
    BY <1>9, RemoveLeaves DEF DeliverInv, RemoveOK
  <2>2. \A x : Owed(x)' <=> Owed(x)
    BY <2>1 DEF Owed
  <2>3. \A x \in Rows : Status'[x] = Status[x]
    BY <1>1, <2>1, <2>2
  <2>4. QED BY <2>3, NoneMoves
<1>10. CASE UNCHANGED vars
  BY <1>2, <1>10 DEF vars
<1>11. QED
  BY <1>3, <1>4, <1>5, <1>6, <1>7, <1>8, <1>9, <1>10 DEF Next, Step, S2Step

\* The handoff does what AssignmentHandoff promises: parked, replayed, deduplicated
\* and recorded, an assignment only ever moves forward, whoever crashes where.
THEOREM HandoffCorrect == Spec => ImplementsHandoff
<1>1. Spec => Handoff!Init /\ [][Handoff!Next]_Status
  BY InitType, StepType, DeliverInit, DeliverStep, HandoffInit, HandoffStep, PTL DEF Spec
<1>2. QED BY <1>1 DEF ImplementsHandoff, Handoff!Spec
(***************************************************************************)
(* Once.  The progress file, the queue row and the finished record of an   *)
(* assignment hand it on to each other: as long as a row that was run has  *)
(* no complete progress file, it is recorded where any later delivery of   *)
(* it looks, and neither in the queue nor in any hand.                     *)
(*                                                                         *)
(* This needs one record for each assignment, home[x]: every receiver it   *)
(* can be routed to, and whoever has it in the queue at the start, writes  *)
(* and reads that one.  All receivers with one record, or a fixed receiver *)
(* for each source, have it; a receiver chosen anew with another record    *)
(* does not look where the first one wrote.                                *)
(***************************************************************************)
MayChoose(s) == IF Routing = "fixed" THEN {Receiver[s]} ELSE Receivers

OneRecord(home) ==
    /\ \A s \in Sources : \A x \in Range(Todo[s]) : \A r \in MayChoose(s) : FinishedOf[r] = home[x]
    /\ \A r \in Receivers : \A x \in Rows : Found(InitQueue, r, x) => FinishedOf[r] = home[x]

QueueRun(home) ==
    /\ OnePlace(queue)
    /\ \A r \in Receivers : \A x \in Rows : Found(queue, r, x) => FinishedOf[r] = home[x]

EntryHome(e, home) == e.finished = home[e.row] /\ FinishedOf[e.worker] = e.finished

OutboxRun(home) == \A s \in Sources : \A i \in DOMAIN outbox[s] : EntryHome(outbox[s][i], home)

Apart == \A q, r \in Receivers :
             s2pc[q] # "read" /\ s2pc[r] # "read" /\ task[q] = task[r] => q = r

WorkerRun(r, home) ==
    /\ s2pc[r] \in {"run", "record", "remove"} => Found(queue, r, task[r])
    /\ s2pc[r] \in {"record", "remove", "clean"} => task[r] \in progress
    /\ s2pc[r] \in {"remove", "clean"} => task[r] \in finished[home[task[r]]]
    /\ s2pc[r] = "clean" => ~Standing(queue, task[r])

RowRun(x, home) ==
    /\ ran[x] <= 1
    /\ ran[x] = 1 /\ x \notin progress =>
           /\ x \in finished[home[x]] /\ ~Standing(queue, x)
           /\ \A r \in Receivers : s2pc[r] # "read" => task[r] # x

RunInv(home) ==
    /\ QueueRun(home) /\ OutboxRun(home) /\ Apart
    /\ \A r \in Receivers : WorkerRun(r, home)
    /\ \A x \in Rows : RowRun(x, home)

\* A source parks for a receiver it may choose, and a row of its own.
LEMMA ParkedHome ==
    ASSUME TypeInv, NEW home, OneRecord(home), NEW s \in Sources, Park(s)
    PROVE  EntryHome(Parked(s), home)
<1>1. /\ SourceOK(s) /\ Rest(Todo[s], todo[s]) /\ TypeOK /\ SectionsOK
  BY DEF TypeInv, TypeOK, Rest
<1>2. todo[s] # <<>>
  BY <1>1 DEF Park, Goto, SourceOK
<1>3. Head(todo[s]) \in Range(Todo[s])
  BY <1>1, <1>2, TodoAssumption, RestFacts
<1>4. Chosen(s) \in MayChoose(s)
  BY <1>1, ChosenIsReceiver DEF MayChoose, Chosen
<1>5. QED BY <1>3, <1>4 DEF OneRecord, Parked, EntryHome

LEMMA RunInit ==
    ASSUME NEW home, OneRecord(home), OnePlace(InitQueue)
    PROVE  Init => RunInv(home)
<1> SUFFICES ASSUME Init PROVE RunInv(home)
  OBVIOUS
<1>1. QueueRun(home)
  BY DEF Init, QueueRun, OneRecord
<1>2. OutboxRun(home)
  BY DEF Init, OutboxRun
<1>3. Apart /\ \A r \in Receivers : WorkerRun(r, home)
  BY DEF Init, Apart, WorkerRun
<1>4. \A x \in Rows : RowRun(x, home)
  BY DEF Init, RowRun
<1>5. QED BY <1>1, <1>2, <1>3, <1>4 DEF RunInv

LEMMA RunStep ==
    ASSUME NEW home \in [Rows -> Range(FinishedOf)], OneRecord(home)
    PROVE  TypeInv /\ RunInv(home) /\ TypeInv' /\ [Next]_vars => RunInv(home)'
<1> SUFFICES ASSUME TypeInv, RunInv(home), TypeInv', [Next]_vars PROVE RunInv(home)'
  OBVIOUS
<1>0. /\ outbox \in [Sources -> Seq(Entry)] /\ outbox' \in [Sources -> Seq(Entry)]
      /\ queue \in Seq(Line) /\ finished \in [Range(FinishedOf) -> SUBSET Rows]
      /\ task \in [Receivers -> Rows \cup {None}]
      /\ s2pc \in [Receivers -> {"read", "run", "record", "remove", "clean"}]
      /\ progress \subseteq Rows /\ ran \in [Rows -> Nat]
      /\ \A r \in Receivers : WorkerOK(r) /\ r \in Nat \ {0}
      /\ \A s \in Sources : sent[s] \in Nat /\ sent[s] <= Len(outbox[s])
  BY RoutingAssumption DEF TypeInv, TypeOK
<1>1. /\ QueueRun(home) /\ OutboxRun(home) /\ Apart
      /\ \A r \in Receivers : WorkerRun(r, home)
      /\ \A x \in Rows : RowRun(x, home)
  BY DEF RunInv
<1>2. UNCHANGED queue => QueueRun(home)'
  BY <1>1 DEF QueueRun
<1>3. UNCHANGED outbox => OutboxRun(home)'
  BY <1>1 DEF OutboxRun
<1>4. ASSUME UNCHANGED <<queue, finished, task, s2pc, progress, ran>>, OutboxRun(home)'
      PROVE  RunInv(home)'
  BY <1>1, <1>2, <1>4 DEF RunInv, Apart, WorkerRun, RowRun
<1>5. ASSUME NEW r \in Receivers, NEW q \in Receivers, q # r,
             s2pc[r] # "read", s2pc[q] # "read"
      PROVE  task[q] # task[r]
  BY <1>1, <1>5 DEF Apart
<1>6. CASE UNCHANGED vars
  BY <1>3, <1>4, <1>6 DEF vars
<1>7. ASSUME NEW s \in Sources, Start(s) \/ Work(s) \/ Exit(s) \/ Store(s) \/ Finish(s) \/ Crash(s)
      PROVE  RunInv(home)'
  <2>1. UNCHANGED <<queue, finished, task, s2pc, progress, ran, outbox>>
    BY <1>7 DEF Start, Work, Exit, Store, Finish, Crash, stage2
  <2>2. QED BY <1>3, <1>4, <2>1
<1>8. ASSUME NEW s \in Sources, Park(s) PROVE RunInv(home)'
  <2>1. /\ UNCHANGED <<queue, finished, task, s2pc, progress, ran>>
        /\ outbox' = [outbox EXCEPT ![s] = Append(@, Parked(s))]
    BY <1>8 DEF Park, stage2
  <2>2. EntryHome(Parked(s), home)
    BY <1>8, ParkedHome
  <2>3. ASSUME NEW t \in Sources, NEW i \in DOMAIN outbox'[t] PROVE EntryHome(outbox'[t][i], home)
    <3>1. CASE t = s
      <4>1. outbox'[s] = Append(outbox[s], Parked(s)) /\ outbox[s] \in Seq(Entry)
        BY <1>0, <2>1
      <4>2. (i \in DOMAIN outbox[s] /\ outbox'[s][i] = outbox[s][i]) \/ outbox'[s][i] = Parked(s)
        BY <2>3, <3>1, <4>1
      <4>3. QED BY <1>1, <2>2, <3>1, <4>2 DEF OutboxRun
    <3>2. CASE t # s
      BY <1>0, <1>1, <2>1, <2>3, <3>2 DEF OutboxRun
    <3>3. QED BY <3>1, <3>2
  <2>4. OutboxRun(home)'
    BY <2>3 DEF OutboxRun, EntryHome
  <2>5. QED BY <1>4, <2>1, <2>4
<1>9. ASSUME NEW s \in Sources, FlushAck(s) PROVE RunInv(home)'
  <2>1. /\ UNCHANGED <<queue, finished, task, s2pc, progress, ran>>
        /\ outbox' = [outbox EXCEPT ![s] = SubSeq(outbox[s], sent[s] + 1, Len(outbox[s]))]
    BY <1>9 DEF FlushAck, stage2
  <2>2. ASSUME NEW t \in Sources, NEW i \in DOMAIN outbox'[t] PROVE EntryHome(outbox'[t][i], home)
    <3>1. CASE t = s
      <4> DEFINE m == sent[s]  n == Len(outbox[s])
      <4>1. /\ outbox[s] \in Seq(Entry) /\ m \in Nat /\ n \in Nat /\ m <= n /\ DOMAIN outbox[s] = 1..n
            /\ outbox'[s] = SubSeq(outbox[s], m + 1, n) /\ outbox'[s] \in Seq(Entry)
        BY <1>0, <2>1, LenProperties
      <4>2. \A j \in (m + 1)..n : outbox[s][j] \in Entry
        BY <4>1, ElementOfSeq
      <4> HIDE DEF m, n
      <4>3. /\ Len(SubSeq(outbox[s], m + 1, n)) = IF m + 1 <= n THEN n - (m + 1) + 1 ELSE 0
            /\ \A j \in 1..(n - (m + 1) + 1) : SubSeq(outbox[s], m + 1, n)[j] = outbox[s][(m + 1) + j - 1]
        BY <4>1, <4>2, SubSeqProperties
      <4>4. i \in 1..(n - m)
        BY <2>2, <3>1, <4>1, <4>3, LenProperties
      <4>5. outbox'[s][i] = outbox[s][m + i] /\ m + i \in 1..n
        BY <4>1, <4>3, <4>4
      <4>6. QED BY <1>1, <3>1, <4>1, <4>5 DEF OutboxRun
    <3>2. CASE t # s
      BY <1>0, <1>1, <2>1, <2>2, <3>2 DEF OutboxRun
    <3>3. QED BY <3>1, <3>2
  <2>3. OutboxRun(home)'
    BY <2>2 DEF OutboxRun, EntryHome
  <2>4. QED BY <1>4, <2>1, <2>3
<1>10. ASSUME NEW s \in Sources, FlushEntry(s) PROVE RunInv(home)'
  <2> DEFINE e == outbox[s][sent[s] + 1]
  <2>1. /\ e \in Entry /\ sent[s] + 1 \in 1..Len(outbox[s])
        /\ \/ queue' = queue
           \/ /\ ~Delivered(queue, finished[e.finished], e.row)
              /\ \E up : OneMore(queue, queue', up, e.worker, e.row)
    BY <1>10, FlushEntryQueue
  <2>2. UNCHANGED <<finished, task, s2pc, progress, ran, outbox>>
    BY <1>10 DEF FlushEntry, stage2
  <2>3. EntryHome(e, home)
    <3>1. sent[s] + 1 \in DOMAIN outbox[s]
      BY <1>0, <2>1, LenProperties
    <3>2. QED BY <1>1, <3>1 DEF OutboxRun
  <2>4. PICK v \in Receivers, x \in Rows : v = e.worker /\ x = e.row
    BY <2>1 DEF Entry
  <2>5. CASE queue' = queue
    BY <1>3, <1>4, <2>2, <2>5
  <2>6. CASE ~Delivered(queue, finished[e.finished], e.row) /\ \E up : OneMore(queue, queue', up, e.worker, e.row)
    <3>0. FinishedOf[v] = home[x] /\ e.finished = home[x]
      BY <2>3, <2>4 DEF EntryHome
    <3> HIDE DEF e
    <3>1. x \notin finished[home[x]] /\ ~Standing(queue, x)
      BY <2>4, <2>6, <3>0, StandingIsDelivered
    <3>2. /\ \A y : Standing(queue', y) <=> Standing(queue, y) \/ y = x
          /\ \A r, y : Found(queue, r, y) => Found(queue', r, y)
          /\ \A r, y : Found(queue', r, y) => Found(queue, r, y) \/ (y = x /\ WorkerMatches(v, r))
          /\ OnePlace(queue')
      BY <1>1, <2>4, <2>6, <3>1, AddedRow DEF QueueRun
    <3>3. QueueRun(home)'
      <4>1. ASSUME NEW r \in Receivers, NEW y \in Rows, Found(queue', r, y)
            PROVE  FinishedOf[r] = home[y]
        <5>1. CASE Found(queue, r, y)
          BY <1>1, <5>1 DEF QueueRun
        <5>2. CASE y = x /\ WorkerMatches(v, r)
          <6>1. v = r
            BY <1>0, <5>2 DEF WorkerMatches
          <6>2. QED BY <3>0, <5>2, <6>1
        <5>3. QED BY <3>2, <4>1, <5>1, <5>2
      <4>2. QED BY <3>2, <4>1 DEF QueueRun
    <3>4. ASSUME NEW r \in Receivers PROVE WorkerRun(r, home)'
      <4>1. s2pc[r] = "clean" => task[r] # x
        BY <1>1, <3>1 DEF WorkerRun
      <4>2. QED BY <1>1, <2>2, <3>2, <4>1 DEF WorkerRun
    <3>5. ASSUME NEW y \in Rows PROVE RowRun(y, home)'
      BY <1>1, <2>2, <3>1, <3>2 DEF RowRun
    <3>6. OutboxRun(home)' /\ Apart'
      BY <1>1, <1>3, <2>2 DEF Apart
    <3>7. QED BY <3>3, <3>4, <3>5, <3>6 DEF RunInv
  <2>7. QED BY <2>1, <2>5, <2>6
<1>11. ASSUME NEW r \in Receivers, S2Read(r) PROVE RunInv(home)'
  <2>1. /\ UNCHANGED <<queue, finished, progress, ran, outbox>> /\ NextTask(r) # 0
        /\ s2pc[r] = "read" /\ s2pc' = [s2pc EXCEPT ![r] = "run"]
        /\ task' = [task EXCEPT ![r] = queue[NextTask(r)].row]
    BY <1>11 DEF S2Read, S2Goto, source
  <2>2. PICK x \in Rows : x = queue[NextTask(r)].row /\ Found(queue, r, x) /\ Standing(queue, x)
    BY <1>0, <2>1, NextTaskIsRow, FoundIsTask DEF Standing
  <2>3. /\ s2pc'[r] = "run" /\ task'[r] = x
        /\ \A q \in Receivers \ {r} : s2pc'[q] = s2pc[q] /\ task'[q] = task[q]
    BY <1>0, <2>1, <2>2
  <2>4. \A q \in Receivers : s2pc[q] # "read" => task[q] # x
    <3>1. ASSUME NEW q \in Receivers, s2pc[q] # "read", task[q] = x PROVE FALSE
      <4>1. s2pc[q] # "clean" /\ Found(queue, q, x)
        BY <1>0, <1>1, <2>2, <3>1 DEF WorkerRun
      <4>2. q = r
        BY <1>0, <1>1, <2>2, <4>1, OneSection DEF QueueRun
      <4>3. QED BY <2>1, <3>1, <4>2
    <3>2. QED BY <3>1
  <2>5. Apart'
    <3>1. ASSUME NEW p \in Receivers, NEW q \in Receivers, s2pc'[p] # "read", s2pc'[q] # "read", task'[p] = task'[q]
          PROVE  p = q
      BY <1>1, <2>3, <2>4, <3>1 DEF Apart
    <3>2. QED BY <3>1 DEF Apart
  <2>6. ASSUME NEW q \in Receivers PROVE WorkerRun(q, home)'
    BY <1>1, <2>1, <2>2, <2>3 DEF WorkerRun
  <2>7. ASSUME NEW y \in Rows PROVE RowRun(y, home)'
    BY <1>1, <2>1, <2>2, <2>3 DEF RowRun
  <2>8. QED BY <1>2, <1>3, <2>1, <2>5, <2>6, <2>7 DEF RunInv
<1>12. ASSUME NEW r \in Receivers, S2Run(r) PROVE RunInv(home)'
  <2>1. /\ UNCHANGED <<queue, finished, task, outbox>>
        /\ s2pc[r] = "run" /\ s2pc' = [s2pc EXCEPT ![r] = "record"]
        /\ progress' = progress \cup {task[r]}
        /\ ran' = IF task[r] \in progress THEN ran ELSE [ran EXCEPT ![task[r]] = @ + 1]
    BY <1>12 DEF S2Run, S2Goto, source
  <2>2. PICK x \in Rows : x = task[r]
    BY <1>0, <2>1 DEF WorkerOK
  <2>3. s2pc'[r] = "record" /\ \A q \in Receivers \ {r} : s2pc'[q] = s2pc[q]
    BY <1>0, <2>1
  <2>4. Apart'
    BY <1>1, <2>1, <2>3 DEF Apart
  <2>5. ASSUME NEW q \in Receivers PROVE WorkerRun(q, home)'
    BY <1>1, <2>1, <2>3 DEF WorkerRun
  <2>6. ASSUME NEW y \in Rows PROVE RowRun(y, home)'
    <3>1. CASE y = x
      <4>1. x \notin progress => ran[x] # 1
        BY <1>1, <2>1, <2>2 DEF RowRun
      <4>2. ran'[x] <= 1
        <5>1. CASE x \in progress
          BY <1>1, <2>1, <2>2, <5>1 DEF RowRun
        <5>2. CASE x \notin progress
          <6>1. ran[x] \in Nat /\ ran[x] <= 1 /\ ran[x] # 1
            BY <1>0, <1>1, <4>1, <5>2 DEF RowRun
          <6>2. ran'[x] = ran[x] + 1
            BY <1>0, <2>1, <2>2, <5>2
          <6>3. QED BY <6>1, <6>2
        <5>3. QED BY <5>1, <5>2
      <4>3. x \in progress'
        BY <2>1, <2>2
      <4>4. QED BY <3>1, <4>2, <4>3 DEF RowRun
    <3>2. CASE y # x
      <4>1. ran'[y] = ran[y] /\ (y \in progress' <=> y \in progress)
        BY <1>0, <2>1, <2>2, <3>2
      <4>2. QED BY <1>1, <2>1, <2>2, <2>3, <3>2, <4>1 DEF RowRun
    <3>3. QED BY <3>1, <3>2
  <2>7. QED BY <1>2, <1>3, <2>1, <2>4, <2>5, <2>6 DEF RunInv
<1>13. ASSUME NEW r \in Receivers, S2Record(r) PROVE RunInv(home)'
  <2>1. s2pc[r] = "record" /\ UNCHANGED <<queue, progress, ran, outbox>>
    BY <1>13 DEF S2Record, source
  <2>2. CASE /\ s2pc' = [s2pc EXCEPT ![r] = "remove"] /\ task' = task
             /\ task[r] \in Rows /\ Found(queue, r, task[r])
             /\ finished' = [finished EXCEPT ![FinishedOf[r]] = @ \cup {task[r]}]
             /\ FinishedOf[r] \in Range(FinishedOf)
    <3>1. s2pc'[r] = "remove" /\ \A q \in Receivers \ {r} : s2pc'[q] = s2pc[q]
      BY <1>0, <2>2
    <3>2. task[r] \in finished'[home[task[r]]]
      <4>1. FinishedOf[r] = home[task[r]]
        BY <1>1, <2>2 DEF QueueRun
      <4>2. QED BY <1>0, <2>2, <4>1
    <3>3. \A k : \A y : y \in finished[k] => y \in finished'[k]
      BY <1>0, <2>2
    <3>4. Apart'
      BY <1>1, <2>1, <2>2, <3>1 DEF Apart
    <3>5. ASSUME NEW q \in Receivers PROVE WorkerRun(q, home)'
      BY <1>1, <2>1, <2>2, <3>1, <3>2, <3>3 DEF WorkerRun
    <3>6. ASSUME NEW y \in Rows PROVE RowRun(y, home)'
      BY <1>1, <2>1, <2>2, <3>1, <3>3 DEF RowRun
    <3>7. QED BY <1>2, <1>3, <2>1, <3>4, <3>5, <3>6 DEF RunInv
  <2>3. CASE s2pc' = [s2pc EXCEPT ![r] = "read"] /\ task' = [task EXCEPT ![r] = None] /\ UNCHANGED finished
    <3>1. s2pc'[r] = "read" /\ \A q \in Receivers \ {r} : s2pc'[q] = s2pc[q] /\ task'[q] = task[q]
      BY <1>0, <2>3
    <3>2. Apart'
      BY <1>1, <3>1 DEF Apart
    <3>3. ASSUME NEW q \in Receivers PROVE WorkerRun(q, home)'
      BY <1>1, <2>1, <2>3, <3>1 DEF WorkerRun
    <3>4. ASSUME NEW y \in Rows PROVE RowRun(y, home)'
      BY <1>1, <2>1, <2>3, <3>1 DEF RowRun
    <3>5. QED BY <1>2, <1>3, <2>1, <3>2, <3>3, <3>4 DEF RunInv
  <2>4. QED BY <1>13, <2>2, <2>3, S2RecordRow
<1>14. ASSUME NEW r \in Receivers, S2Remove(r) PROVE RunInv(home)'
  <2>1. /\ UNCHANGED <<finished, task, progress, ran, outbox>>
        /\ s2pc[r] = "remove" /\ s2pc' = [s2pc EXCEPT ![r] = "clean"]
    BY <1>14 DEF S2Remove, S2Goto, source
  <2>2. PICK x \in Rows : x = task[r] /\ Found(queue, r, x) /\ queue' = RemoveTicket(queue, r, x)
    BY <1>14, S2RemoveQueue
  <2>3. /\ \A y : Standing(queue', y) => Standing(queue, y)
        /\ \A q, y : Found(queue', q, y) => Found(queue, q, y)
        /\ \A q, y : Found(queue, q, y) /\ y # x => Found(queue', q, y)
        /\ OnePlace(queue') /\ ~Standing(queue', x)
    BY <1>0, <1>1, <2>2, RemovedRow DEF QueueRun
  <2>4. s2pc'[r] = "clean" /\ \A q \in Receivers \ {r} : s2pc'[q] = s2pc[q]
    BY <1>0, <2>1
  <2>5. QueueRun(home)'
    BY <1>1, <2>3 DEF QueueRun
  <2>6. Apart'
    BY <1>1, <2>1, <2>4 DEF Apart
  <2>7. ASSUME NEW q \in Receivers PROVE WorkerRun(q, home)'
    <3>1. CASE q = r
      BY <1>1, <2>1, <2>2, <2>3, <2>4, <3>1 DEF WorkerRun
    <3>2. CASE q # r
      <4>1. s2pc[q] # "read" => task[q] # x
        BY <1>5, <2>1, <2>2, <3>2
      <4>2. QED BY <1>1, <2>1, <2>3, <2>4, <3>2, <4>1 DEF WorkerRun
    <3>3. QED BY <3>1, <3>2
  <2>8. ASSUME NEW y \in Rows PROVE RowRun(y, home)'
    BY <1>1, <2>1, <2>3, <2>4 DEF RowRun
  <2>9. QED BY <1>3, <2>1, <2>5, <2>6, <2>7, <2>8 DEF RunInv
<1>15. ASSUME NEW r \in Receivers, S2Clean(r) PROVE RunInv(home)'
  <2>1. /\ UNCHANGED <<queue, finished, ran, outbox>>
        /\ s2pc[r] = "clean" /\ s2pc' = [s2pc EXCEPT ![r] = "read"]
        /\ progress' = progress \ {task[r]} /\ task' = [task EXCEPT ![r] = None]
    BY <1>15 DEF S2Clean, S2Goto, source
  <2>2. PICK x \in Rows : x = task[r]
    BY <1>0, <2>1 DEF WorkerOK
  <2>3. s2pc'[r] = "read" /\ \A q \in Receivers \ {r} : s2pc'[q] = s2pc[q] /\ task'[q] = task[q]
    BY <1>0, <2>1
  <2>4. Apart'
    BY <1>1, <2>3 DEF Apart
  <2>5. \A q \in Receivers \ {r} : s2pc[q] # "read" => task[q] # x
    BY <1>5, <2>1, <2>2
  <2>6. ASSUME NEW q \in Receivers PROVE WorkerRun(q, home)'
    BY <1>1, <2>1, <2>2, <2>3, <2>5 DEF WorkerRun
  <2>7. ASSUME NEW y \in Rows PROVE RowRun(y, home)'
    <3>1. CASE y = x
      <4>1. x \in finished[home[x]] /\ ~Standing(queue, x)
        BY <1>1, <2>1, <2>2 DEF WorkerRun
      <4>2. QED BY <1>1, <2>1, <2>3, <2>5, <3>1, <4>1 DEF RowRun
    <3>2. CASE y # x
      BY <1>1, <2>1, <2>2, <2>3, <3>2 DEF RowRun
    <3>3. QED BY <3>1, <3>2
  <2>8. QED BY <1>2, <1>3, <2>1, <2>4, <2>6, <2>7 DEF RunInv
<1>16. ASSUME NEW r \in Receivers, S2Crash(r) PROVE RunInv(home)'
  <2>1. /\ UNCHANGED <<queue, finished, progress, ran, outbox>>
        /\ s2pc' = [s2pc EXCEPT ![r] = "read"] /\ task' = [task EXCEPT ![r] = None]
    BY <1>16 DEF S2Crash, source
  <2>2. s2pc'[r] = "read" /\ \A q \in Receivers \ {r} : s2pc'[q] = s2pc[q] /\ task'[q] = task[q]
    BY <1>0, <2>1
  <2>3. Apart'
    BY <1>1, <2>2 DEF Apart
  <2>4. ASSUME NEW q \in Receivers PROVE WorkerRun(q, home)'
    BY <1>1, <2>1, <2>2 DEF WorkerRun
  <2>5. ASSUME NEW y \in Rows PROVE RowRun(y, home)'
    BY <1>1, <2>1, <2>2 DEF RowRun
  <2>6. QED BY <1>2, <1>3, <2>1, <2>3, <2>4, <2>5 DEF RunInv
<1>17. QED
  BY <1>6, <1>7, <1>8, <1>9, <1>10, <1>11, <1>12, <1>13, <1>14, <1>15, <1>16 DEF Next, Step, S2Step

\* Where every delivery of an assignment looks into the record its receiver writes,
\* and the queue holds it at most once at the start, its curves are run at most
\* once, whatever is parked, flushed, read and interrupted how often.
THEOREM RunOnceCorrect ==
    ASSUME NEW home \in [Rows -> Range(FinishedOf)], OneRecord(home), OnePlace(InitQueue)
    PROVE  Spec => []RunOnce
<1>1. RunInv(home) => RunOnce
  BY DEF RunInv, RowRun, RunOnce
<1>2. Init => RunInv(home)
  BY RunInit
<1>3. TypeInv /\ RunInv(home) /\ TypeInv' /\ [Next]_vars => RunInv(home)'
  BY RunStep
<1>4. QED BY <1>1, <1>2, <1>3, InitType, StepType, PTL DEF Spec
=============================================================================
