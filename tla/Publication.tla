---------------------------- MODULE Publication ----------------------------
(***************************************************************************)
(* The publication of finished work (io/save.cpp, io/results.cpp): Stage1  *)
(* batches go to a save file, to the internal results and to the           *)
(* submission file; Stage2 keeps receipts and appends their reports to the *)
(* same submission file.                                                   *)
(*                                                                         *)
(* Every file is replaced atomically, under a lock that ends with its      *)
(* process, but for the append of Stage2, which may be cut anywhere. Two   *)
(* protocols repair what a crash leaves: the first internal row of a       *)
(* Stage1 batch carries the plan of its submission text, and Stage2 writes *)
(* the whole text to publication.order before it appends.                  *)
(***************************************************************************)
EXTENDS Integers, SequencesExt

CONSTANTS
  Batches,      \* Stage1 batches
  CurvesOf,     \* CurvesOf[b]: the curves of a batch, numbered by their sigma
  Hits,         \* the curves with a Stage1 factor
  Pointless,    \* the Edwards curves that leave no point to save
  Found,        \* the Stage1 factors that Stage2 meets in a save and reports
  Continued,    \* the curves that Stage2 reports its own work on
  None, Stage2,
  MaxFault      \* bound: crashes and failed writes

Curves == UNION {CurvesOf[b] : b \in Batches}

ASSUME BatchesAssumption ==
  /\ \A b \in Batches : CurvesOf[b] # {} /\ CurvesOf[b] \subseteq Nat /\ IsFiniteSet(CurvesOf[b])
  /\ None \notin Batches /\ Stage2 \notin Batches /\ None # Stage2
ASSUME CurvesAssumption ==
  Hits \subseteq Curves /\ Pointless \subseteq Curves \ Hits /\ Found \subseteq Hits /\ Continued \subseteq Curves \ Pointless
ASSUME MaxFaultAssumption == MaxFault \in Nat

VARIABLES
  save,         \* the records of the save file
  internal,     \* the committed batches in the internal results
  output,       \* the text of the submission file
  receipts,     \* the receipts of the Stage2 ledger, the oldest first
  order,        \* publication.order, or None
  state,        \* state[b]: "computed", "saved", "done" or "failed"
  range,        \* range[b]: where the batch is in the save, or None
  holder,       \* who holds the lock of the submission file
  text,         \* what the holder is about to make of it
  faults        \* history

files == <<save, internal, output, receipts, order>>
vars == <<files, state, range, holder, text, faults>>

\* A report, and who wrote it: the bytes of a factor differ by the writer.
Report == [kind : {"factor", "nf", "stage2"}, curves : SUBSET Curves, by : {1, 2}]
Factor(c, w) == [kind |-> "factor", curves |-> {c}, by |-> w]
NoFactor(S) == [kind |-> "nf", curves |-> S, by |-> 1]
Continuation(c) == [kind |-> "stage2", curves |-> {c}, by |-> 2]
Identity(r) == <<r.kind, r.curves>>

\* A line is two pieces of text, so that it can be cut in the middle.
Piece == Report \X {0, 1}
ASSUME NoneAssumption == None \notin Seq(Piece)
Text(rows) == [i \in 1..2 * Len(rows) |-> <<rows[(i + 1) \div 2], i % 2>>]
Rows(t) == [i \in 1..Len(t) \div 2 |-> t[2 * i][1]]
Identities(t) == {Identity(r) : r \in ToSet(Rows(t))}
Behind(t, p) == SubSeq(t, Len(p) + 1, Len(t))

\* A finite set of numbers in ascending order.
Sorted(S) == CHOOSE s \in [1..Cardinality(S) -> S] : \A i, j \in DOMAIN s : i < j => s[i] < s[j]

CanFail == faults < MaxFault

Init ==
  /\ save = <<>> /\ internal = <<>> /\ output = <<>> /\ receipts = <<>> /\ order = None
  /\ state = [b \in Batches |-> "computed"] /\ range = [b \in Batches |-> None]
  /\ holder = None /\ text = None /\ faults = 0

-----------------------------------------------------------------------------
(* The save file *)

Points(b) == Sorted(CurvesOf[b] \ Pointless)
Missing(b) == Sorted((CurvesOf[b] \ Pointless) \ ToSet(save))
Extended(b) == save \o Missing(b)

\* The records of a batch are one range, in the order of their sigmas.
Contiguous(b) ==
  LET at(c) == CHOOSE i \in DOMAIN Extended(b) : Extended(b)[i] = c
  IN \A i \in DOMAIN Points(b) : at(Points(b)[i]) = at(Points(b)[1]) + i - 1
Skip(b) ==
  IF Points(b) = <<>> THEN Len(save)
  ELSE (CHOOSE i \in DOMAIN Extended(b) : Extended(b)[i] = Points(b)[1]) - 1

PublishSave(b) ==
  /\ state[b] = "computed" /\ Contiguous(b)
  /\ save' = Extended(b)
  /\ range' = [range EXCEPT ![b] = [skip |-> Skip(b), count |-> Len(Points(b))]]
  /\ state' = [state EXCEPT ![b] = "saved"]
  /\ UNCHANGED <<internal, output, receipts, order, holder, text, faults>>

SaveRefused(b) ==
  /\ state[b] = "computed" /\ ~Contiguous(b)
  /\ state' = [state EXCEPT ![b] = "failed"]
  /\ UNCHANGED <<files, range, holder, text, faults>>

-----------------------------------------------------------------------------
(* A Stage1 batch: internal results first, the submission file second. What *)
(* is refused is None.                                                      *)

\* Mutant: Stage1 does not look at the history of Stage2.
RestoredNever(t) == t

\* A torn append of Stage2 is completed from its history.
Restored(t) ==
  IF order = None \/ IsPrefix(order, t) THEN t
  ELSE IF IsPrefix(t, order) THEN order ELSE None

\* The text of a committed batch is completed where it belongs.
Replayed(t, plan) ==
  LET whole == plan.prefix \o plan.tail
  IN IF t = None \/ ~IsPrefix(plan.prefix, t) THEN None
     ELSE IF IsPrefix(whole, t) THEN t
     ELSE IF IsPrefix(t, whole) THEN whole ELSE None

\* One committed batch after the other.
Replays(t, plans) ==
  LET after[n \in 0..Len(plans)] == IF n = 0 THEN t ELSE Replayed(after[n - 1], plans[n])
  IN after[Len(plans)]

\* Mutant: only the plan of the batch itself is completed.
RepairedOwn(b) == Replays(Restored(output), SelectSeq(internal, LAMBDA p : p.batch = b))

Repaired(b) == Replays(Restored(output), internal)

Committed(b) == \E i \in DOMAIN internal : CurvesOf[internal[i].batch] = CurvesOf[b]

\* Mutant: a curve of two batches is reported by both.
FreshAll(b) == CurvesOf[b]

\* The curves that no row of the internal results covers.
Fresh(b) == CurvesOf[b] \ UNION {internal[i].curves : i \in DOMAIN internal}

\* The factors nobody has reported, then one line for the curves without.
AppendedBy(b, t) ==
  LET hits == Sorted({c \in Fresh(b) \cap Hits : Identity(Factor(c, 1)) \notin Identities(t)})
  IN Text([i \in DOMAIN hits |-> Factor(hits[i], 1)]
          \o IF Fresh(b) \subseteq Hits THEN <<>> ELSE <<NoFactor(Fresh(b) \ Hits)>>)

\* Nothing is left to commit: the submission file is only repaired.
Confirm(b) ==
  /\ state[b] = "saved" /\ holder = None
  /\ Repaired(b) # None
  /\ \/ Committed(b)
     \/ Fresh(b) = {} /\ output # <<>>
  /\ output' = Repaired(b) /\ state' = [state EXCEPT ![b] = "done"]
  /\ UNCHANGED <<save, internal, receipts, order, range, holder, text, faults>>

Commit(b) ==
  /\ state[b] = "saved" /\ holder = None
  /\ Repaired(b) # None /\ ~Committed(b) /\ Fresh(b) # {}
  /\ LET t == Repaired(b) IN
       /\ internal' = Append(internal, [batch |-> b, curves |-> Fresh(b), prefix |-> t, tail |-> AppendedBy(b, t)])
       /\ text' = t \o AppendedBy(b, t)
  /\ holder' = b
  /\ UNCHANGED <<save, output, receipts, order, state, range, faults>>

\* The second file.
Export(b) ==
  /\ holder = b
  /\ output' = text /\ text' = None /\ holder' = None
  /\ state' = [state EXCEPT ![b] = "done"]
  /\ UNCHANGED <<save, internal, receipts, order, range, faults>>

\* The histories do not fit together; nothing is written, the task fails.
Refused(b) ==
  /\ state[b] = "saved" /\ holder = None
  /\ \/ Repaired(b) = None
     \/ ~Committed(b) /\ Fresh(b) = {} /\ output = <<>>
  /\ state' = [state EXCEPT ![b] = "failed"]
  /\ UNCHANGED <<files, range, holder, text, faults>>

\* The process dies, or the second file cannot be written; either way the
\* checkpoint stays and the batch is published again from its save on.
Interrupted(b) ==
  /\ state[b] = "saved" /\ holder \in {None, b} /\ CanFail
  /\ state' = [state EXCEPT ![b] = "computed"]
  /\ holder' = None /\ text' = None /\ faults' = faults + 1
  /\ UNCHANGED <<files, range>>

-----------------------------------------------------------------------------
(* Stage2 *)

\* Text that Stage1 has appended behind the history of Stage2.
OwnedByStage1(t) == t # <<>> /\ Len(t) % 2 = 0 /\ \A r \in ToSet(Rows(t)) : r.kind # "stage2"

\* The history that the next append starts from.
Ordered ==
  IF order = None \/ (IsPrefix(order, output) /\ OwnedByStage1(Behind(output, order))) THEN output ELSE order

Unpublished ==
  LET new == {i \in DOMAIN receipts : Identity(receipts[i]) \notin Identities(Ordered)}
  IN [n \in 1..Cardinality(new) |-> receipts[Sorted(new)[n]]]

\* A new receipt: a sealed batch, or a factor. A row over a whole save takes
\* the curves that are there, also those of a batch that is not done.
Receive(r) ==
  /\ holder = None /\ r \notin ToSet(receipts)
  /\ r.curves \subseteq ToSet(save)
  /\ receipts' = Append(receipts, r) /\ holder' = Stage2
  /\ UNCHANGED <<save, internal, output, order, state, range, text, faults>>

\* A repeated receipt, or a task that has nothing left to seal.
Refresh ==
  /\ holder = None /\ receipts # <<>> /\ holder' = Stage2
  /\ UNCHANGED <<files, state, range, text, faults>>

\* Mutant: the history is written once only.
WriteOrderOnce ==
  /\ holder = Stage2 /\ text = None /\ IsPrefix(output, Ordered)
  /\ text' = Ordered \o Text(Unpublished)
  /\ order' = IF order = None THEN text' ELSE order
  /\ UNCHANGED <<save, internal, output, receipts, state, range, holder, faults>>

WriteOrder ==
  /\ holder = Stage2 /\ text = None /\ IsPrefix(output, Ordered)
  /\ text' = Ordered \o Text(Unpublished) /\ order' = text'
  /\ UNCHANGED <<save, internal, output, receipts, state, range, holder, faults>>

AppendText ==
  /\ holder = Stage2 /\ text # None
  /\ output' = text /\ text' = None /\ holder' = None
  /\ UNCHANGED <<save, internal, receipts, order, state, range, faults>>

\* The process dies somewhere in the append.
AppendTorn ==
  /\ holder = Stage2 /\ text # None /\ CanFail
  /\ \E n \in Len(output)..Len(text) : output' = SubSeq(text, 1, n)
  /\ text' = None /\ holder' = None /\ faults' = faults + 1
  /\ UNCHANGED <<save, internal, receipts, order, state, range>>

\* It dies before, or refuses a file that does not fit its history.
Released ==
  /\ holder = Stage2 /\ text = None
  /\ \/ ~IsPrefix(output, Ordered) /\ faults' = faults
     \/ CanFail /\ faults' = faults + 1
  /\ holder' = None
  /\ UNCHANGED <<files, state, range, text>>

Reports == {Factor(c, 2) : c \in Found} \union {Continuation(c) : c \in Continued}

Next ==
  \/ \E b \in Batches : PublishSave(b) \/ SaveRefused(b) \/ Confirm(b) \/ Commit(b) \/ Export(b) \/ Refused(b) \/ Interrupted(b)
  \/ (\E r \in Reports : Receive(r)) \/ Refresh
  \/ WriteOrder \/ AppendText \/ AppendTorn \/ Released

Spec == Init /\ [][Next]_vars

-----------------------------------------------------------------------------
(* Properties *)

Entry == [batch : Batches, curves : SUBSET Curves, prefix : Seq(Piece), tail : Seq(Piece)]
Whole(t) == Len(t) % 2 = 0

\* The types; every text but that of a torn append has whole lines.
TypeOK ==
  /\ save \in Seq(Curves) /\ internal \in Seq(Entry) /\ receipts \in Seq(Reports)
  /\ output \in Seq(Piece) /\ order \in Seq(Piece) \union {None}
  /\ state \in [Batches -> {"computed", "saved", "done", "failed"}]
  /\ range \in [Batches -> {None} \union [skip : Nat, count : Nat]]
  /\ holder \in Batches \union {None, Stage2}
  /\ text \in Seq(Piece) \union {None}
  /\ faults \in 0..MaxFault
  /\ \A t \in {order, text} \ {None} : Whole(t)
  /\ \A i \in DOMAIN internal : Whole(internal[i].prefix) /\ Whole(internal[i].tail)
  /\ order = None => Whole(output)

\* Work is reported once: no curve enters two Stage1 reports of the submission
\* file, and no Stage2 report is there twice, whatever was replayed, resumed,
\* or computed in two batches (publish_stage1_batch, append_submissions).
ReportedOnce ==
  \A i, j \in DOMAIN Rows(output) :
     LET r == Rows(output)[i]  s == Rows(output)[j]
     IN i # j /\ (r.kind = "stage2" <=> s.kind = "stage2") => r.curves \cap s.curves = {}

\* What a Stage1 batch has committed in the internal results can be completed in
\* the submission file, whoever has written there since (replay_stage1_plan).
CommitCompletes == Replays(Restored(output), internal) # None

\* The two publishers never take each other's work for damage: the submission
\* file is a part of Stage2's history, or continues it with Stage1 reports. Before
\* Stage2 has a history, what Stage1 has committed can always be completed, after
\* whatever crashes (restore_publication, append_submissions, replay_stage1_plan).
HistoryAgrees ==
  IF order = None THEN CommitCompletes
  ELSE IsPrefix(output, order) \/ (IsPrefix(order, output) /\ OwnedByStage1(Behind(output, order)))

\* A batch that is done, so that its row and its checkpoint may go, is in the
\* save where its range says, and every curve of it is in a report, also when
\* another, interrupted batch has committed that curve.
DoneIsPublished ==
  \A b \in Batches : state[b] = "done" =>
     /\ SubSeq(save, range[b].skip + 1, range[b].skip + range[b].count) = Points(b)
     /\ \A c \in CurvesOf[b] : \E r \in ToSet(Rows(output)) : r.kind # "stage2" /\ c \in r.curves

\* What is in the submission file stays there: no crash, no repair and neither of
\* the publishers takes text out of it (publish_stage1_batch, append_submissions).
OutputGrows == [][IsPrefix(output, output')]_vars
=============================================================================
