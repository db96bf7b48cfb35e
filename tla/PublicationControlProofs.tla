------------------------ MODULE PublicationControlProofs ------------------------
(***************************************************************************)
(* Proofs about two components that keep their own state, apart from the   *)
(* worktodo: the publication of results and the controller of the workers. *)
(*                                                                         *)
(* Publication: its invariants and that the submission file only grows, by *)
(* one inductive invariant. Every line of a text says which batch or which *)
(* receipt it is from, so that lines of two batches are apart (Good);      *)
(* every committed batch carries the text it belongs to (PlanInv); the     *)
(* file, the history of Stage2 and the text of the holder continue each    *)
(* other (TextInv); what is done is saved and reported (DoneInv).          *)
(*                                                                         *)
(* WorkerControl: its type invariant, and that a worker the user has       *)
(* stopped is only ever started by the user. That rests on one fact: a     *)
(* process that may come back (want) or is still to be started by the      *)
(* first tick belongs to a worker whose last command was a start           *)
(* (WantedInv).                                                            *)
(***************************************************************************)
EXTENDS Publication, WorkerControl, TLAPS, WellFoundedInduction, SequenceTheorems, FiniteSetTheorems

\* A committed batch with whole lines.
Plan == {p \in Entry : Whole(p.prefix) /\ Whole(p.tail)}

\* The text of a committed batch.
Published(p) == p.prefix \o p.tail

\* Lines of Stage1 only, from line n on.
Stage1From(t, n) == \A k \in DOMAIN Rows(t) : k > n => Rows(t)[k].kind # "stage2"

\* t is o, or goes on with whole lines of Stage1.
Continues(o, t) == IsPrefix(o, t) /\ Whole(t) /\ Stage1From(t, Len(Rows(o)))

\* The submission file t as the history o of Stage2 may find it.
Agrees(o, t) == IsPrefix(t, o) \/ Continues(o, t)

\* A line of a batch without factors stands where the plan of the batch ends.
RowOK(plans, r, k) ==
  /\ r.kind = "nf" => \E i \in DOMAIN plans :
                          r.curves = plans[i].curves \ Hits /\ k = Len(Rows(Published(plans[i])))
  /\ r.kind = "factor" => \E c \in Hits : r.curves = {c}
  /\ r.kind = "stage2" => \E c \in Curves : r.curves = {c}

\* Every line is in order, and no line with the identity of a report is there twice.
Good(plans, t) ==
  LET R == Rows(t) IN
  /\ \A k \in DOMAIN R : RowOK(plans, R[k], k)
  /\ \A k, l \in DOMAIN R : k # l /\ R[k].kind # "nf" => Identity(R[k]) # Identity(R[l])

\* Curve c is in a line of Stage1.
Reported(t, c) == \E k \in DOMAIN Rows(t) : Rows(t)[k].kind # "stage2" /\ c \in Rows(t)[k].curves

\* The curves that the internal results cover.
Covered == UNION {internal[i].curves : i \in DOMAIN internal}

\* The batches of the internal results: their curves are apart, and the text of
\* each is in order and reports all that the batch has covered.
PlanInv ==
  /\ \A i, j \in DOMAIN internal : i # j => internal[i].curves \cap internal[j].curves = {}
  /\ \A i \in DOMAIN internal :
       /\ Good(internal, Published(internal[i]))
       /\ Stage1From(internal[i].tail, 0)
       /\ CurvesOf[internal[i].batch] \subseteq Covered
       /\ \A c \in internal[i].curves : Reported(Published(internal[i]), c)

\* The texts: the submission file, the history of Stage2 and what is about to be
\* written are in order and agree, whoever holds the lock.
TextInv ==
  /\ Good(internal, output)
  /\ order # None => Good(internal, order) /\ Agrees(order, output)
  /\ \A i, j \in DOMAIN receipts : i # j => receipts[i] # receipts[j]
  /\ text # None => holder # None /\ Good(internal, text) /\ IsPrefix(output, text)
  /\ holder = Stage2 /\ text # None => order = text
  /\ holder \in Batches =>
       /\ text # None /\ state[holder] = "saved"
       /\ order # None => Continues(order, text)
       /\ \A i \in DOMAIN internal : IsPrefix(Published(internal[i]), text)
       /\ CurvesOf[holder] \subseteq Covered

\* The points of a batch are in the save, at the range it has noted.
InSave(s, r, P) ==
  /\ r \in [skip : Nat, count : Nat] /\ r.skip + r.count <= Len(s)
  /\ SubSeq(s, r.skip + 1, r.skip + r.count) = P

\* What a batch has reached: its points are saved, or it is reported as well.
DoneInv ==
  \A b \in Batches :
    /\ state[b] \in {"saved", "done"} => InSave(save, range[b], Points(b))
    /\ state[b] = "done" => \A c \in CurvesOf[b] : Reported(output, c)

(***************************************************************************)
(* Numbers and sorted sets.                                                *)
(***************************************************************************)
\* A set of natural numbers that is not empty has a least one.
LEMMA LeastNumber ==
    ASSUME NEW S \in SUBSET Nat, S # {}
    PROVE  \E x \in S : \A y \in S : x <= y
<1> DEFINE R == OpToRel(<, Nat)
<1>1. IsWellFoundedOn(R, Nat) /\ \A x, y \in Nat : y < x => <<y, x>> \in R
  <2>1. IsWellFoundedOn(R, Nat)
    BY NatLessThanWellFounded
  <2>2. \A x, y \in Nat : y < x => <<y, x>> \in OpToRel(<, Nat)
    BY DEF OpToRel
  <2>3. QED BY <2>1, <2>2, Zenon
<1> HIDE DEF R
<1>2. PICK x \in S : \A y \in S : ~(<<y, x>> \in R)
  BY <1>1, WFMin
<1>3. ASSUME NEW y \in S PROVE x <= y
  <2>1. x \in Nat /\ y \in Nat
    BY <1>2
  <2>2. ~(y < x)
    BY <1>1, <1>2, <2>1
  <2>3. QED BY <2>1, <2>2
<1>4. QED BY <1>3

\* Numbers in ascending order.
Ascending(s) == \A i, j \in DOMAIN s : i < j => s[i] < s[j]

\* A finite set of numbers has an enumeration in ascending order.
LEMMA AscendingExists ==
    ASSUME NEW S \in SUBSET Nat, IsFiniteSet(S)
    PROVE  \E s \in [1..Cardinality(S) -> S] : Ascending(s)
<1> DEFINE Enumerated(T) == \E s \in [1..Cardinality(T) -> T] : Ascending(s)
           Bad == {n \in Nat : \E T \in SUBSET Nat : IsFiniteSet(T) /\ Cardinality(T) = n /\ ~Enumerated(T)}
<1>1. SUFFICES ASSUME Bad # {} PROVE FALSE
  <2>1. Cardinality(S) \in Nat
    BY FS_CardinalityType
  <2>2. QED BY <2>1
<1>2. PICK n \in Bad : \A m \in Bad : n <= m
  BY <1>1, LeastNumber
<1>3. PICK T \in SUBSET Nat : IsFiniteSet(T) /\ Cardinality(T) = n /\ ~Enumerated(T)
  BY <1>2
<1>4. n \in Nat
  BY <1>2
<1>5. CASE n = 0
  <2>1. Ascending(<<>>) /\ <<>> \in [1..0 -> T]
    BY DEF Ascending
  <2>2. QED BY <1>3, <1>5, <2>1
<1>6. CASE n # 0
  <2>1. T # {}
    BY <1>3, <1>6, FS_EmptySet
  <2>2. PICK x \in T : \A y \in T : x <= y
    BY <2>1, LeastNumber
  <2>3. IsFiniteSet(T \ {x}) /\ Cardinality(T \ {x}) = n - 1 /\ n - 1 \in Nat /\ T \ {x} \in SUBSET Nat
    BY <1>3, <1>4, <1>6, FS_RemoveElement
  <2>4. Enumerated(T \ {x})
    <3>1. n - 1 \notin Bad
      BY <1>2, <1>4, <2>3
    <3>2. QED BY <2>3, <3>1
  <2>5. PICK s \in [1..(n - 1) -> T \ {x}] : Ascending(s)
    BY <2>3, <2>4
  <2> DEFINE u == [i \in 1..n |-> IF i = 1 THEN x ELSE s[i - 1]]
  <2>6. u \in [1..n -> T]
    <3>1. \A i \in 1..n : i # 1 => i - 1 \in 1..(n - 1)
      BY <1>4
    <3>2. QED BY <2>5, <3>1
  <2>7. ASSUME NEW i \in 1..n, NEW j \in 1..n, i < j PROVE u[i] < u[j]
    <3>0. j - 1 \in 1..(n - 1) /\ j # 1
      BY <1>4, <2>7
    <3>1. j - 1 \in 1..(n - 1) /\ u[j] = s[j - 1] /\ s[j - 1] \in T \ {x} /\ x \in Nat /\ s[j - 1] \in Nat
      BY <2>5, <3>0
    <3>2. CASE i = 1
      BY <2>2, <3>1, <3>2
    <3>3. CASE i # 1
      <4>1. i - 1 \in 1..(n - 1) /\ i - 1 < j - 1 /\ u[i] = s[i - 1]
        BY <1>4, <2>7, <3>3
      <4>2. QED BY <2>5, <3>1, <4>1 DEF Ascending
    <3>4. QED BY <3>2, <3>3
  <2>8. Ascending(u)
    BY <2>7 DEF Ascending
  <2>9. QED BY <1>3, <2>6, <2>8
<1>7. QED BY <1>5, <1>6

\* What Sorted returns: a sequence with every element of S at one place.
LEMMA SortedFacts ==
    ASSUME NEW S \in SUBSET Nat, IsFiniteSet(S)
    PROVE  /\ Cardinality(S) \in Nat
           /\ Sorted(S) \in Seq(S) /\ Len(Sorted(S)) = Cardinality(S)
           /\ DOMAIN Sorted(S) = 1..Cardinality(S)
           /\ \A i \in 1..Cardinality(S) : Sorted(S)[i] \in S
           /\ \A i, j \in 1..Cardinality(S) : i # j => Sorted(S)[i] # Sorted(S)[j]
           /\ \A x \in S : \E i \in 1..Cardinality(S) : Sorted(S)[i] = x
<1> DEFINE n == Cardinality(S)  s == Sorted(S)
<1>1. n \in Nat
  BY FS_CardinalityType
<1>2. s \in [1..n -> S] /\ Ascending(s)
  BY AscendingExists, Zenon DEF Sorted, Ascending
<1>3. s \in Seq(S) /\ Len(s) = n
  <2>1. s \in Seq(S)
    BY <1>1, <1>2, SeqDef
  <2>2. QED BY <1>1, <1>2, <2>1, LenProperties
<1>4. \A i, j \in 1..n : i # j => s[i] # s[j]
  <2>1. ASSUME NEW i \in 1..n, NEW j \in 1..n, i < j PROVE s[i] # s[j]
    <3>1. s[i] < s[j] /\ s[i] \in Nat /\ s[j] \in Nat
      BY <1>2, <2>1 DEF Ascending
    <3>2. QED BY <3>1
  <2>2. \A i, j \in 1..n : i # j => i < j \/ j < i
    BY <1>1
  <2>3. QED BY <2>1, <2>2
<1>5. \A x \in S : \E i \in 1..n : s[i] = x
  <2>1. s \in Injection(1..n, S)
    BY <1>2, <1>4 DEF Injection, IsInjective
  <2>2. Cardinality(1..n) = Cardinality(S)
    BY <1>1, FS_Interval
  <2>3. s \in Surjection(1..n, S)
    BY <2>1, <2>2, FS_Injection
  <2>4. QED BY <2>3 DEF Surjection
<1>6. QED BY <1>1, <1>2, <1>3, <1>4, <1>5

(***************************************************************************)
(* Prefixes.                                                               *)
(***************************************************************************)
\* A prefix, by its pieces.
LEMMA PrefixIs ==
    ASSUME NEW A, NEW s \in Seq(A), NEW t \in Seq(A)
    PROVE  /\ IsPrefix(s, t) <=> Len(s) <= Len(t) /\ \A i \in 1..Len(s) : s[i] = t[i]
           /\ Len(s) \in Nat /\ Len(t) \in Nat
<1>1. Len(s) \in Nat /\ Len(t) \in Nat /\ SubSeq(s, 1, Len(s)) = s
  BY LenProperties, SubSeqFull
<1>2. ASSUME Len(s) <= Len(t)
      PROVE  SubSeq(t, 1, Len(s)) = s <=> \A i \in 1..Len(s) : s[i] = t[i]
  <2>1. \A i \in 1..Len(s) : t[i] \in A
    <3>1. \A i \in 1..Len(s) : i \in 1..Len(t)
      BY <1>1, <1>2
    <3>2. QED BY <3>1, ElementOfSeq
  <2> DEFINE u == SubSeq(t, 1, Len(s))
  <2>2. u \in Seq(A) /\ Len(u) = Len(s) /\ \A i \in 1..Len(s) : u[i] = t[i]
    <3>1. 1 \in Int /\ Len(s) \in Int
      BY <1>1
    <3>2. /\ u \in Seq(A) /\ Len(u) = IF 1 <= Len(s) THEN Len(s) - 1 + 1 ELSE 0
          /\ \A i \in 1..Len(s) - 1 + 1 : u[i] = t[1 + i - 1]
      BY <2>1, <3>1, SubSeqProperties
    <3>3. Len(s) - 1 + 1 = Len(s) /\ \A i \in 1..Len(s) : 1 + i - 1 = i
      BY <1>1
    <3>4. QED BY <1>1, <3>2, <3>3
  <2> HIDE DEF u
  <2>3. QED BY <2>2, SeqEqual DEF u
<1>3. QED BY <1>1, <1>2 DEF IsPrefix

\* Prefixes are a partial order.
LEMMA PrefixOrder ==
    ASSUME NEW A, NEW s \in Seq(A), NEW t \in Seq(A), NEW u \in Seq(A)
    PROVE  /\ IsPrefix(s, s)
           /\ IsPrefix(s, t) /\ IsPrefix(t, u) => IsPrefix(s, u)
           /\ IsPrefix(s, t) /\ IsPrefix(t, s) => s = t
<1>1. IsPrefix(s, s)
  BY PrefixIs
<1>2. ASSUME IsPrefix(s, t), IsPrefix(t, u) PROVE IsPrefix(s, u)
  <2>1. /\ Len(s) \in Nat /\ Len(t) \in Nat /\ Len(u) \in Nat
        /\ Len(s) <= Len(t) /\ \A i \in 1..Len(s) : s[i] = t[i]
        /\ Len(t) <= Len(u) /\ \A i \in 1..Len(t) : t[i] = u[i]
    BY <1>2, PrefixIs
  <2>2. Len(s) <= Len(u) /\ \A i \in 1..Len(s) : s[i] = u[i]
    BY <2>1
  <2>3. QED BY <2>2, PrefixIs
<1>3. ASSUME IsPrefix(s, t), IsPrefix(t, s) PROVE s = t
  <2>1. /\ Len(s) \in Nat /\ Len(t) \in Nat
        /\ Len(s) <= Len(t) /\ \A i \in 1..Len(s) : s[i] = t[i]
        /\ Len(t) <= Len(s)
    BY <1>3, PrefixIs
  <2>2. Len(s) = Len(t)
    BY <2>1
  <2>3. QED BY <2>1, <2>2, SeqEqual
<1>4. QED BY <1>1, <1>2, <1>3

\* What stands behind a prefix.
LEMMA BehindFacts ==
    ASSUME NEW A, NEW s \in Seq(A), NEW t \in Seq(A)
    PROVE  /\ IsPrefix(s, s \o t)
           /\ IsPrefix(s, t) => /\ Behind(t, s) \in Seq(A) /\ t = s \o Behind(t, s)
                                /\ Len(Behind(t, s)) = Len(t) - Len(s)
<1>1. /\ Len(s) \in Nat /\ Len(t) \in Nat /\ s \o t \in Seq(A) /\ Len(s \o t) = Len(s) + Len(t)
      /\ \A i \in 1 .. Len(s) + Len(t) : (s \o t)[i] = IF i <= Len(s) THEN s[i] ELSE t[i - Len(s)]
  BY LenProperties, ConcatProperties
<1>2. IsPrefix(s, s \o t)
  <2>1. Len(s) <= Len(s \o t) /\ \A i \in 1..Len(s) : s[i] = (s \o t)[i]
    BY <1>1
  <2>2. QED BY <1>1, <2>1, PrefixIs
<1>3. ASSUME IsPrefix(s, t)
      PROVE  /\ Behind(t, s) \in Seq(A) /\ t = s \o Behind(t, s)
             /\ Len(Behind(t, s)) = Len(t) - Len(s)
  <2> DEFINE m == Len(s)  n == Len(t)  u == Behind(t, s)
  <2>1. m <= n /\ \A i \in 1..m : s[i] = t[i]
    BY <1>3, PrefixIs
  <2>2. \A i \in (m + 1)..n : t[i] \in A
    <3>1. \A i \in (m + 1)..n : i \in 1..n
      BY <1>1
    <3>2. QED BY <3>1, ElementOfSeq
  <2>3. m + 1 \in Int /\ n \in Int
    BY <1>1
  <2>4. /\ u \in Seq(A) /\ Len(u) = IF m + 1 <= n THEN n - (m + 1) + 1 ELSE 0
        /\ \A i \in 1..n - (m + 1) + 1 : u[i] = t[m + 1 + i - 1]
    BY <2>2, <2>3, SubSeqProperties DEF Behind
  <2>5. Len(u) = n - m /\ \A i \in 1..(n - m) : u[i] = t[m + i]
    <3>1. n - (m + 1) + 1 = n - m /\ \A i \in 1..(n - m) : m + 1 + i - 1 = m + i
      BY <1>1, <2>1
    <3>2. m + 1 <= n \/ n - m = 0
      BY <1>1, <2>1
    <3>3. QED BY <1>1, <2>1, <2>4, <3>1, <3>2
  <2> HIDE DEF u
  <2>6. /\ s \o u \in Seq(A) /\ Len(s \o u) = m + (n - m)
        /\ \A i \in 1..m + (n - m) : (s \o u)[i] = IF i <= m THEN s[i] ELSE u[i - m]
    BY <2>4, <2>5, ConcatProperties
  <2>7. m + (n - m) = n
    BY <1>1
  <2>8. ASSUME NEW i \in 1..n PROVE t[i] = (s \o u)[i]
    <3>1. CASE i <= m
      BY <1>1, <2>1, <2>6, <2>7, <3>1
    <3>2. CASE ~(i <= m)
      <4>1. i - m \in 1..(n - m) /\ m + (i - m) = i
        BY <1>1, <3>2
      <4>2. QED BY <2>5, <2>6, <2>7, <3>2, <4>1
    <3>3. QED BY <3>1, <3>2
  <2>9. t = s \o u
    BY <2>6, <2>7, <2>8, SeqEqual
  <2>10. QED BY <2>4, <2>5, <2>9 DEF u
<1>4. QED BY <1>2, <1>3

(***************************************************************************)
(* The lines of a text.                                                    *)
(***************************************************************************)
\* Halves of numbers.
LEMMA HalfOf ==
    ASSUME NEW n \in Nat
    PROVE  /\ n \div 2 \in Nat /\ 2 * (n \div 2) <= n
           /\ n % 2 = 0 <=> n = 2 * (n \div 2)
           /\ \A k \in Nat : 2 * k <= n => k <= n \div 2
           /\ \A k \in Nat : (2 * k + n) \div 2 = k + n \div 2
<1>1. n \div 2 \in Nat /\ 2 * (n \div 2) <= n
  OBVIOUS
<1>2. n % 2 = 0 <=> n = 2 * (n \div 2)
  OBVIOUS
<1>3. ASSUME NEW k \in Nat, 2 * k <= n PROVE k <= n \div 2
  BY <1>3
<1>4. ASSUME NEW k \in Nat PROVE (2 * k + n) \div 2 = k + n \div 2
  OBVIOUS
<1>5. QED BY <1>1, <1>2, <1>3, <1>4

\* The lines of a text are the first halves of its pieces, two by two.
LEMMA RowsFacts ==
    ASSUME NEW t \in Seq(Piece)
    PROVE  /\ Rows(t) \in Seq(Report) /\ Len(Rows(t)) = Len(t) \div 2 /\ Len(Rows(t)) \in Nat
           /\ DOMAIN Rows(t) = 1..Len(Rows(t)) /\ 2 * Len(Rows(t)) <= Len(t)
           /\ \A k \in 1..Len(Rows(t)) : Rows(t)[k] = t[2 * k][1] /\ Rows(t)[k] \in Report
           /\ Whole(t) <=> Len(t) = 2 * Len(Rows(t))
<1> DEFINE n == Len(t) \div 2
<1>1. Len(t) \in Nat /\ n \in Nat /\ 2 * n <= Len(t) /\ (Len(t) % 2 = 0 <=> Len(t) = 2 * n)
  BY LenProperties, HalfOf
<1>2. ASSUME NEW k \in 1..n PROVE t[2 * k][1] \in Report
  <2>1. 2 * k \in 1..Len(t)
    BY <1>1
  <2>2. t[2 * k] \in Piece
    BY <2>1, ElementOfSeq
  <2>3. QED BY <2>2 DEF Piece
<1>3. Rows(t) \in [1..n -> Report]
  BY <1>2 DEF Rows
<1>4. Rows(t) \in Seq(Report) /\ Len(Rows(t)) = n
  <2>1. Rows(t) \in Seq(Report)
    BY <1>1, <1>3, SeqDef
  <2>2. QED BY <1>1, <1>3, <2>1, LenProperties
<1>5. DOMAIN Rows(t) = 1..n /\ \A k \in 1..n : Rows(t)[k] = t[2 * k][1]
  BY DEF Rows
<1> HIDE DEF n
<1>6. QED BY <1>1, <1>2, <1>4, <1>5 DEF Whole, n

\* The lines of a prefix.
LEMMA RowsOfPrefix ==
    ASSUME NEW s \in Seq(Piece), NEW t \in Seq(Piece), IsPrefix(s, t)
    PROVE  /\ Len(Rows(s)) <= Len(Rows(t))
           /\ \A k \in 1..Len(Rows(s)) : k \in 1..Len(Rows(t)) /\ Rows(s)[k] = Rows(t)[k]
<1>1. Len(s) \in Nat /\ Len(t) \in Nat /\ Len(s) <= Len(t) /\ \A i \in 1..Len(s) : s[i] = t[i]
  BY PrefixIs
<1>2. /\ Len(Rows(s)) = Len(s) \div 2 /\ Len(Rows(s)) \in Nat /\ 2 * Len(Rows(s)) <= Len(s)
      /\ \A k \in 1..Len(Rows(s)) : Rows(s)[k] = s[2 * k][1]
  BY RowsFacts
<1>3. /\ Len(Rows(t)) = Len(t) \div 2 /\ Len(Rows(t)) \in Nat
      /\ \A k \in 1..Len(Rows(t)) : Rows(t)[k] = t[2 * k][1]
  BY RowsFacts
<1>4. Len(Rows(s)) <= Len(Rows(t))
  BY <1>1, <1>2, <1>3, HalfOf
<1>5. \A k \in 1..Len(Rows(s)) : k \in 1..Len(Rows(t)) /\ 2 * k \in 1..Len(s)
  BY <1>1, <1>2, <1>3, <1>4
<1>6. QED BY <1>1, <1>2, <1>3, <1>4, <1>5

\* The lines of two texts, one behind the other.
LEMMA RowsOfBoth ==
    ASSUME NEW s \in Seq(Piece), NEW t \in Seq(Piece), Whole(s)
    PROVE  /\ s \o t \in Seq(Piece) /\ Len(Rows(s \o t)) = Len(Rows(s)) + Len(Rows(t))
           /\ \A k \in 1..Len(Rows(s)) : Rows(s \o t)[k] = Rows(s)[k]
           /\ \A k \in 1..Len(Rows(t)) : Rows(s \o t)[Len(Rows(s)) + k] = Rows(t)[k]
           /\ Whole(s \o t) <=> Whole(t)
<1> DEFINE u == s \o t  m == Len(Rows(s))  n == Len(Rows(t))
<1>1. /\ Len(s) \in Nat /\ Len(t) \in Nat /\ u \in Seq(Piece) /\ Len(u) = Len(s) + Len(t)
      /\ \A i \in 1 .. Len(s) + Len(t) : u[i] = IF i <= Len(s) THEN s[i] ELSE t[i - Len(s)]
  BY LenProperties, ConcatProperties
<1>2. m \in Nat /\ Len(s) = 2 * m /\ \A k \in 1..m : Rows(s)[k] = s[2 * k][1]
  BY RowsFacts
<1>3. /\ n \in Nat /\ n = Len(t) \div 2 /\ \A k \in 1..n : Rows(t)[k] = t[2 * k][1]
      /\ 2 * n <= Len(t) /\ (Whole(t) <=> Len(t) = 2 * n)
  BY RowsFacts
<1>4. /\ Len(Rows(u)) = Len(u) \div 2 /\ Len(Rows(u)) \in Nat
      /\ \A k \in 1..Len(Rows(u)) : Rows(u)[k] = u[2 * k][1]
      /\ (Whole(u) <=> Len(u) = 2 * Len(Rows(u)))
  BY <1>1, RowsFacts
<1> HIDE DEF u, m, n
<1>5. Len(Rows(u)) = m + n
  <2>1. (2 * m + Len(t)) \div 2 = m + Len(t) \div 2
    BY <1>1, <1>2, HalfOf
  <2>2. QED BY <1>1, <1>2, <1>3, <1>4, <2>1
<1>6. ASSUME NEW k \in 1..m PROVE Rows(u)[k] = Rows(s)[k]
  <2>1. k \in 1..(m + n) /\ 2 * k \in 1..Len(s) + Len(t) /\ 2 * k <= Len(s)
    BY <1>1, <1>2, <1>3
  <2>2. QED BY <1>1, <1>2, <1>4, <1>5, <2>1
<1>7. ASSUME NEW k \in 1..n PROVE Rows(u)[m + k] = Rows(t)[k]
  <2>1. /\ m + k \in 1..(m + n) /\ 2 * (m + k) \in 1..Len(s) + Len(t) /\ ~(2 * (m + k) <= Len(s))
        /\ 2 * (m + k) - Len(s) = 2 * k
    BY <1>1, <1>2, <1>3
  <2>2. QED BY <1>1, <1>3, <1>4, <1>5, <2>1
<1>8. Whole(u) <=> Whole(t)
  <2>1. Len(u) = 2 * m + Len(t) /\ 2 * (m + n) = 2 * m + 2 * n
    BY <1>1, <1>2, <1>3
  <2>2. Whole(u) <=> 2 * m + Len(t) = 2 * m + 2 * n
    BY <1>4, <1>5, <2>1
  <2>3. (2 * m + Len(t) = 2 * m + 2 * n) <=> (Len(t) = 2 * n)
    <3>1. m \in Int /\ n \in Int /\ Len(t) \in Int
      BY <1>1, <1>2, <1>3
    <3>2. QED BY ONLY <3>1
  <2>4. QED BY <1>3, <2>2, <2>3
<1>9. QED BY <1>1, <1>5, <1>6, <1>7, <1>8 DEF u, m, n

\* The text of some lines.
LEMMA TextFacts ==
    ASSUME NEW rows \in Seq(Report)
    PROVE  /\ Text(rows) \in Seq(Piece) /\ Whole(Text(rows))
           /\ Len(Rows(Text(rows))) = Len(rows)
           /\ \A k \in 1..Len(rows) : Rows(Text(rows))[k] = rows[k]
<1> DEFINE n == Len(rows)  t == Text(rows)
<1>1. n \in Nat /\ \A k \in 1..n : rows[k] \in Report
  BY LenProperties, ElementOfSeq
<1>2. ASSUME NEW i \in 1..2 * n PROVE <<rows[(i + 1) \div 2], i % 2>> \in Piece
  <2>1. (i + 1) \div 2 \in 1..n /\ i % 2 \in {0, 1}
    BY <1>1
  <2>2. QED BY <1>1, <2>1 DEF Piece
<1>3. t \in [1..2 * n -> Piece]
  BY <1>2 DEF Text
<1>4. 2 * n \in Nat
  BY <1>1
<1>5. t \in Seq(Piece) /\ Len(t) = 2 * n
  <2>1. t \in Seq(Piece)
    BY <1>3, <1>4, SeqDef
  <2>2. QED BY <1>3, <1>4, <2>1, LenProperties
<1>6. /\ Len(Rows(t)) = Len(t) \div 2 /\ (Whole(t) <=> Len(t) = 2 * Len(Rows(t)))
      /\ \A k \in 1..Len(Rows(t)) : Rows(t)[k] = t[2 * k][1]
  BY <1>5, RowsFacts
<1>7. Len(Rows(t)) = n /\ Whole(t)
  <2>1. (2 * n) \div 2 = n
    BY <1>1
  <2>2. Len(Rows(t)) = n
    BY <1>5, <1>6, <2>1
  <2>3. QED BY <1>5, <1>6, <2>2
<1>8. ASSUME NEW k \in 1..n PROVE t[2 * k][1] = rows[k]
  <2>1. 2 * k \in 1..2 * n /\ (2 * k + 1) \div 2 = k
    BY <1>1
  <2>2. QED BY <2>1 DEF Text
<1>9. QED BY <1>5, <1>6, <1>7, <1>8

(***************************************************************************)
(* The replay of the committed batches.                                    *)
(***************************************************************************)
Texts == Seq(Piece)

\* a[n] is the text after n batches.
Replaying(a, t, plans) ==
    a = [n \in 0..Len(plans) |-> IF n = 0 THEN t ELSE Replayed(a[n - 1], plans[n])]

\* There is such a function, so the recursive definition has a value.
LEMMA ReplayExists ==
    ASSUME NEW t, NEW plans, Len(plans) \in Nat
    PROVE  \E a : /\ Replaying(a, t, plans) /\ Replays(t, plans) = a[Len(plans)]
<1> DEFINE Upto(n) == \E a : a = [i \in 0..n |-> IF i = 0 THEN t ELSE Replayed(a[i - 1], plans[i])]
           Bad == {n \in Nat : ~Upto(n)}
<1>1. \A n \in Nat : Upto(n)
  <2>1. SUFFICES ASSUME Bad # {} PROVE FALSE
    OBVIOUS
  <2>2. PICK n \in Bad : \A m \in Bad : n <= m
    BY <2>1, LeastNumber
  <2>3. CASE n = 0
    <3> DEFINE a == [i \in 0..0 |-> t]
    <3>1. a = [i \in 0..0 |-> IF i = 0 THEN t ELSE Replayed(a[i - 1], plans[i])]
      OBVIOUS
    <3>2. QED BY <2>2, <2>3, <3>1
  <2>4. CASE n # 0
    <3>1. n - 1 \in Nat /\ n - 1 \notin Bad
      <4>1. n \in Nat
        BY <2>2
      <4>2. n - 1 \in Nat /\ ~(n <= n - 1)
        BY <2>4, <4>1
      <4> HIDE DEF Bad
      <4>3. QED BY <2>2, <4>2
    <3>2. PICK g : g = [i \in 0..(n - 1) |-> IF i = 0 THEN t ELSE Replayed(g[i - 1], plans[i])]
      BY <3>1
    <3> DEFINE a == [i \in 0..n |-> IF i = n THEN Replayed(g[n - 1], plans[n]) ELSE g[i]]
    <3>3. ASSUME NEW i \in 0..n
          PROVE  a[i] = IF i = 0 THEN t ELSE Replayed(a[i - 1], plans[i])
      <4>1. CASE i = n
        <5>1. n - 1 \in 0..n /\ n - 1 # n /\ n \in 0..n
          BY <2>4, <3>1
        <5>2. a[n - 1] = g[n - 1] /\ a[n] = Replayed(g[n - 1], plans[n])
          BY <5>1
        <5>3. QED BY <2>4, <4>1, <5>2
      <4>2. CASE i # n
        <5>1. i \in 0..(n - 1) /\ (i # 0 => i - 1 \in 0..n /\ i - 1 # n)
          BY <3>1, <4>2
        <5>2. a[i] = g[i] /\ (i # 0 => a[i - 1] = g[i - 1])
          BY <4>2, <5>1
        <5>3. g[i] = IF i = 0 THEN t ELSE Replayed(g[i - 1], plans[i])
          BY <3>2, <5>1
        <5>4. QED BY <5>2, <5>3
      <4>3. QED BY <4>1, <4>2
    <3>4. a = [i \in 0..n |-> a[i]]
      OBVIOUS
    <3> HIDE DEF a
    <3>5. a = [i \in 0..n |-> IF i = 0 THEN t ELSE Replayed(a[i - 1], plans[i])]
      BY <3>3, <3>4
    <3>6. QED BY <2>2, <3>5
  <2>5. QED BY <2>3, <2>4
<1>2. \E a : Replaying(a, t, plans)
  BY <1>1 DEF Replaying
<1> DEFINE b == CHOOSE a : Replaying(a, t, plans)
<1>3. Replaying(b, t, plans)
  BY <1>2
<1>4. Replays(t, plans) = b[Len(plans)]
  BY DEF Replays, Replaying
<1>5. QED BY <1>3, <1>4

\* The replay of one batch.
LEMMA ReplayedFacts ==
    ASSUME NEW t \in Texts \union {None}, NEW p \in Entry, Replayed(t, p) # None
    PROVE  /\ t \in Texts /\ Replayed(t, p) \in Texts /\ Published(p) \in Texts
           /\ IsPrefix(t, Replayed(t, p)) /\ IsPrefix(Published(p), Replayed(t, p))
           /\ IsPrefix(p.prefix, t)
           /\ Replayed(t, p) \in {t, Published(p)}
<1>1. p.prefix \in Texts /\ p.tail \in Texts /\ Published(p) \in Texts
  BY ConcatProperties DEF Entry, Texts, Published
<1> DEFINE w == p.prefix \o p.tail
<1>2. /\ t # None /\ IsPrefix(p.prefix, t)
      /\ IsPrefix(w, t) => Replayed(t, p) = t
      /\ ~IsPrefix(w, t) => IsPrefix(t, w) /\ Replayed(t, p) = w
  BY DEF Replayed
<1>3. w = Published(p)
  BY DEF Published
<1> HIDE DEF w
<1>4. t \in Texts
  BY <1>2
<1>5. IsPrefix(t, t) /\ IsPrefix(w, w)
  BY <1>1, <1>3, <1>4, PrefixOrder DEF Texts
<1>6. QED BY <1>1, <1>2, <1>3, <1>4, <1>5

\* The tail of a batch adds lines of Stage1.
LEMMA TailContinues ==
    ASSUME NEW o \in Texts, NEW t \in Texts, NEW s \in Texts, NEW u \in Texts,
           Whole(s), Whole(u), Stage1From(u, 0),
           Continues(o, t), IsPrefix(s, t), IsPrefix(t, s \o u)
    PROVE  Continues(o, s \o u)
<1> DEFINE r == s \o u
<1>1. /\ r \in Texts /\ Whole(r) /\ Len(Rows(r)) = Len(Rows(s)) + Len(Rows(u))
      /\ \A k \in 1..Len(Rows(u)) : Rows(r)[Len(Rows(s)) + k] = Rows(u)[k]
  BY RowsOfBoth DEF Texts
<1>2. IsPrefix(o, t) /\ Stage1From(t, Len(Rows(o)))
  BY DEF Continues
<1> HIDE DEF r
<1>3. IsPrefix(o, r)
  BY <1>1, <1>2, PrefixOrder DEF Texts, r
<1>4. /\ Len(Rows(s)) <= Len(Rows(t))
      /\ \A k \in 1..Len(Rows(t)) : Rows(t)[k] = Rows(r)[k]
  <2>1. IsPrefix(t, r)
    BY DEF r
  <2>2. \A k \in 1..Len(Rows(t)) : Rows(t)[k] = Rows(r)[k]
    BY <1>1, <2>1, RowsOfPrefix DEF Texts
  <2>3. QED BY <2>2, RowsOfPrefix DEF Texts
<1>5. /\ Len(Rows(s)) \in Nat /\ Len(Rows(u)) \in Nat /\ Len(Rows(t)) \in Nat /\ Len(Rows(o)) \in Nat
      /\ DOMAIN Rows(r) = 1..Len(Rows(r)) /\ DOMAIN Rows(u) = 1..Len(Rows(u))
      /\ DOMAIN Rows(t) = 1..Len(Rows(t))
  BY <1>1, RowsFacts DEF Texts
<1>6. ASSUME NEW k \in DOMAIN Rows(r), k > Len(Rows(o)) PROVE Rows(r)[k].kind # "stage2"
  <2>1. k \in Nat /\ k \in 1..(Len(Rows(s)) + Len(Rows(u)))
    BY <1>1, <1>5
  <2>2. CASE k <= Len(Rows(t))
    <3>1. k \in 1..Len(Rows(t))
      BY <1>5, <2>1, <2>2
    <3>2. QED BY <1>2, <1>4, <1>5, <1>6, <3>1 DEF Stage1From
  <2>3. CASE ~(k <= Len(Rows(t)))
    <3>1. /\ k - Len(Rows(s)) \in 1..Len(Rows(u)) /\ k - Len(Rows(s)) > 0
          /\ Len(Rows(s)) + (k - Len(Rows(s))) = k
      BY <1>4, <1>5, <2>1, <2>3
    <3>2. Rows(r)[k] = Rows(u)[k - Len(Rows(s))]
      BY <1>1, <3>1
    <3>3. QED BY <1>5, <3>1, <3>2 DEF Stage1From
  <2>4. QED BY <2>2, <2>3
<1>7. QED BY <1>1, <1>3, <1>6 DEF Continues, Stage1From, r

\* The committed batches are whole and of Stage1.
Stage1Plans(plans) == \A i \in DOMAIN plans : plans[i] \in Plan /\ Stage1From(plans[i].tail, 0)

\* The text after the replay of all batches: it goes on from the first one,
\* with the text of every batch in it.
LEMMA ReplayFacts ==
    ASSUME NEW t \in Texts \union {None}, NEW plans \in Seq(Entry), Stage1Plans(plans),
           NEW r, r = Replays(t, plans), r # None
    PROVE  /\ t \in Texts /\ r \in Texts /\ IsPrefix(t, r)
           /\ \A i \in DOMAIN plans : IsPrefix(Published(plans[i]), r)
           /\ r = t \/ \E i \in DOMAIN plans : r = Published(plans[i])
           /\ \A o \in Texts : Continues(o, t) => Continues(o, r)
<1> DEFINE N == Len(plans)
<1>0. N \in Nat /\ DOMAIN plans = 1..N /\ \A i \in 1..N : plans[i] \in Entry
  BY LenProperties, ElementOfSeq
<1>1. PICK a : Replaying(a, t, plans) /\ Replays(t, plans) = a[N]
  BY <1>0, ReplayExists
<1>2. a[0] = t /\ \A n \in 1..N : a[n] = Replayed(a[n - 1], plans[n])
  <2>1. 0 \in 0..N /\ \A n \in 1..N : n \in 0..N /\ n # 0
    BY <1>0
  <2>2. a = [n \in 0..N |-> IF n = 0 THEN t ELSE Replayed(a[n - 1], plans[n])]
    BY <1>1 DEF Replaying
  <2>3. QED BY <2>1, <2>2
<1> DEFINE Fine(n) ==
             a[n] # None =>
               /\ t \in Texts /\ a[n] \in Texts /\ IsPrefix(t, a[n])
               /\ \A i \in 1..n : IsPrefix(Published(plans[i]), a[n])
               /\ a[n] = t \/ \E i \in 1..n : a[n] = Published(plans[i])
               /\ \A o \in Texts : Continues(o, t) => Continues(o, a[n])
           Bad == {n \in 0..N : ~Fine(n)}
<1>3. Fine(0)
  <2>1. t \in Texts => IsPrefix(t, t)
    BY PrefixOrder DEF Texts
  <2>2. QED BY <1>2, <2>1
<1>4. ASSUME NEW n \in 1..N, Fine(n - 1) PROVE Fine(n)
  <2>1. SUFFICES ASSUME a[n] # None PROVE Fine(n)
    OBVIOUS
  <2> DEFINE b == a[n - 1]  p == plans[n]
  <2>2. a[n] = Replayed(b, p) /\ p \in Entry /\ p \in Plan /\ Stage1From(p.tail, 0)
    BY <1>0, <1>2 DEF Stage1Plans
  <2>3. b # None
    BY <2>1, <2>2 DEF Replayed
  <2>4. /\ t \in Texts /\ b \in Texts /\ IsPrefix(t, b)
        /\ \A i \in 1..(n - 1) : IsPrefix(Published(plans[i]), b)
        /\ b = t \/ \E i \in 1..(n - 1) : b = Published(plans[i])
        /\ \A o \in Texts : Continues(o, t) => Continues(o, b)
    BY <1>4, <2>3
  <2> HIDE DEF b, Fine
  <2>5. /\ a[n] \in Texts /\ Published(p) \in Texts /\ IsPrefix(b, a[n])
        /\ IsPrefix(Published(p), a[n]) /\ IsPrefix(p.prefix, b) /\ a[n] \in {b, Published(p)}
    <3> HIDE DEF p
    <3>1. QED BY <2>1, <2>2, <2>4, ReplayedFacts
  <2>6. IsPrefix(t, a[n])
    BY <2>4, <2>5, PrefixOrder DEF Texts
  <2>7. ASSUME NEW i \in 1..n PROVE IsPrefix(Published(plans[i]), a[n])
    <3>1. CASE i = n
      BY <2>5, <3>1
    <3>2. CASE i # n
      <4>1. i \in 1..(n - 1) /\ i \in 1..N
        BY <1>0, <3>2
      <4>2. Published(plans[i]) \in Texts
        BY <1>0, <4>1, ConcatProperties DEF Published, Entry, Texts
      <4>3. QED BY <2>4, <2>5, <4>1, <4>2, PrefixOrder DEF Texts
    <3>3. QED BY <3>1, <3>2
  <2>8. a[n] = t \/ \E i \in 1..n : a[n] = Published(plans[i])
    <3>1. n \in 1..n /\ \A i \in 1..(n - 1) : i \in 1..n
      BY <1>0
    <3>2. QED BY <2>4, <2>5, <3>1
  <2>9. ASSUME NEW o \in Texts, Continues(o, t) PROVE Continues(o, a[n])
    <3>1. Continues(o, b)
      BY <2>4, <2>9
    <3>2. CASE a[n] = b
      BY <3>1, <3>2
    <3>3. CASE a[n] = Published(p)
      <4>1. IsPrefix(b, p.prefix \o p.tail)
        BY <2>5, <3>3 DEF Published
      <4>2. p.prefix \in Texts /\ p.tail \in Texts /\ Whole(p.prefix) /\ Whole(p.tail)
        BY <2>2 DEF Plan, Entry, Texts
      <4>3. Continues(o, p.prefix \o p.tail)
        <5> HIDE DEF p
        <5>1. QED BY <2>2, <2>4, <2>5, <3>1, <4>1, <4>2, TailContinues
      <4>4. QED BY <3>3, <4>3 DEF Published
    <3>4. QED BY <2>5, <3>2, <3>3
  <2>10. QED BY <2>4, <2>5, <2>6, <2>7, <2>8, <2>9 DEF Fine
<1> HIDE DEF Fine
<1>5. Fine(N)
  <2>1. SUFFICES ASSUME Bad # {} PROVE FALSE
    BY <1>0
  <2>2. Bad \in SUBSET Nat
    BY <1>0
  <2>3. PICK n \in Bad : \A m \in Bad : n <= m
    BY <2>1, <2>2, LeastNumber
  <2>4. n \in 1..N /\ n - 1 \in 0..N /\ ~(n <= n - 1)
    BY <1>0, <1>3, <2>3
  <2>5. Fine(n - 1)
    BY <2>3, <2>4
  <2>6. QED BY <1>4, <2>3, <2>4, <2>5
<1>6. QED BY <1>0, <1>1, <1>5 DEF Fine

(***************************************************************************)
(* Texts with lines in order.                                              *)
(***************************************************************************)
\* The types of a committed batch.
LEMMA PublishedFacts ==
    ASSUME NEW p \in Plan
    PROVE  /\ p \in Entry /\ p.prefix \in Texts /\ p.tail \in Texts /\ Whole(p.prefix) /\ Whole(p.tail)
           /\ Published(p) \in Texts /\ Whole(Published(p))
<1>1. p \in Entry /\ p.prefix \in Texts /\ p.tail \in Texts /\ Whole(p.prefix) /\ Whole(p.tail)
  BY DEF Plan, Entry, Texts
<1>2. QED BY <1>1, RowsOfBoth DEF Texts, Published

\* A longer text reports no less.
LEMMA ReportedGrows ==
    ASSUME NEW s \in Texts, NEW t \in Texts, IsPrefix(s, t), NEW c, Reported(s, c)
    PROVE  Reported(t, c)
<1>1. /\ DOMAIN Rows(s) = 1..Len(Rows(s)) /\ DOMAIN Rows(t) = 1..Len(Rows(t))
  BY RowsFacts DEF Texts
<1>2. \A k \in 1..Len(Rows(s)) : k \in 1..Len(Rows(t)) /\ Rows(s)[k] = Rows(t)[k]
  BY RowsOfPrefix DEF Texts
<1>3. QED BY <1>1, <1>2 DEF Reported

\* The start of a text in order is in order.
LEMMA GoodPrefix ==
    ASSUME NEW plans, NEW s \in Texts, NEW t \in Texts, IsPrefix(s, t), Good(plans, t)
    PROVE  Good(plans, s)
<1>1. /\ DOMAIN Rows(s) = 1..Len(Rows(s)) /\ DOMAIN Rows(t) = 1..Len(Rows(t))
  BY RowsFacts DEF Texts
<1>2. \A k \in 1..Len(Rows(s)) : k \in 1..Len(Rows(t)) /\ Rows(s)[k] = Rows(t)[k]
  BY RowsOfPrefix DEF Texts
<1>3. \A k \in DOMAIN Rows(s) : RowOK(plans, Rows(s)[k], k)
  <2>1. \A k \in DOMAIN Rows(t) : RowOK(plans, Rows(t)[k], k)
    BY DEF Good
  <2>2. ASSUME NEW k \in DOMAIN Rows(s) PROVE RowOK(plans, Rows(s)[k], k)
    <3>1. k \in DOMAIN Rows(t) /\ Rows(s)[k] = Rows(t)[k]
      BY <1>1, <1>2
    <3>2. RowOK(plans, Rows(t)[k], k)
      BY <2>1, <3>1
    <3>3. QED BY <3>1, <3>2
  <2>3. QED BY <2>2
<1>4. \A k, l \in DOMAIN Rows(s) : k # l /\ Rows(s)[k].kind # "nf" => Identity(Rows(s)[k]) # Identity(Rows(s)[l])
  <2>1. \A k, l \in DOMAIN Rows(t) : k # l /\ Rows(t)[k].kind # "nf" => Identity(Rows(t)[k]) # Identity(Rows(t)[l])
    BY DEF Good
  <2>2. QED BY <1>1, <1>2, <2>1
<1>5. QED BY <1>3, <1>4 DEF Good

\* Another batch changes nothing for the lines that are there.
LEMMA GoodPlans ==
    ASSUME NEW plans \in Seq(Entry), NEW e \in Entry, NEW t, Good(plans, t)
    PROVE  Good(Append(plans, e), t)
<1> DEFINE new == Append(plans, e)
<1>1. \A i \in DOMAIN plans : i \in DOMAIN new /\ new[i] = plans[i]
  BY LenProperties, AppendProperties
<1> HIDE DEF new
<1>2. \A k \in DOMAIN Rows(t) : RowOK(plans, Rows(t)[k], k)
  BY DEF Good
<1>3. ASSUME NEW k, NEW r, RowOK(plans, r, k) PROVE RowOK(new, r, k)
  <2>1. ASSUME r.kind = "nf"
        PROVE  \E i \in DOMAIN new : r.curves = new[i].curves \ Hits /\ k = Len(Rows(Published(new[i])))
    <3>1. PICK i \in DOMAIN plans : r.curves = plans[i].curves \ Hits /\ k = Len(Rows(Published(plans[i])))
      BY <1>3, <2>1 DEF RowOK
    <3>2. QED BY <1>1, <3>1
  <2>2. QED BY <1>3, <2>1 DEF RowOK
<1>4. \A k \in DOMAIN Rows(t) : RowOK(new, Rows(t)[k], k)
  BY <1>2, <1>3
<1>5. QED BY <1>4 DEF Good, new

\* New lines behind a text.
LEMMA GoodAppend ==
    ASSUME NEW plans, NEW s \in Texts, Whole(s), Good(plans, s), NEW rows \in Seq(Report),
           \A k \in 1..Len(rows) : RowOK(plans, rows[k], Len(Rows(s)) + k),
           \A k, l \in 1..Len(rows) : k # l /\ rows[k].kind # "nf" => Identity(rows[k]) # Identity(rows[l]),
           \A k \in 1..Len(rows) : rows[k].kind # "nf" => Identity(rows[k]) \notin Identities(s)
    PROVE  Good(plans, s \o Text(rows))
<1> DEFINE u == Text(rows)  t == s \o u  m == Len(Rows(s))  n == Len(rows)
<1>1. /\ u \in Texts /\ Whole(u) /\ Len(Rows(u)) = n
      /\ \A k \in 1..n : Rows(u)[k] = rows[k]
  BY TextFacts DEF Texts
<1>2. n \in Nat /\ m \in Nat /\ DOMAIN Rows(s) = 1..m
  BY LenProperties, RowsFacts DEF Texts
<1>3. /\ t \in Texts /\ Len(Rows(t)) = m + n
      /\ \A k \in 1..m : Rows(t)[k] = Rows(s)[k]
      /\ \A k \in 1..n : Rows(t)[m + k] = rows[k]
  <2> HIDE DEF u
  <2>1. QED BY <1>1, RowsOfBoth DEF Texts
<1>4. DOMAIN Rows(t) = 1..(m + n)
  BY <1>3, RowsFacts DEF Texts
<1>5. /\ \A k \in 1..m : RowOK(plans, Rows(s)[k], k)
      /\ \A k, l \in 1..m : k # l /\ Rows(s)[k].kind # "nf" => Identity(Rows(s)[k]) # Identity(Rows(s)[l])
  BY <1>2 DEF Good
<1> HIDE DEF u, t, m
<1>6. \A k \in 1..(m + n) : k \in 1..m \/ (k - m \in 1..n /\ m + (k - m) = k)
  BY <1>2
<1>7. \A k \in 1..(m + n) : RowOK(plans, Rows(t)[k], k)
  <2>1. ASSUME NEW k \in 1..m PROVE RowOK(plans, Rows(t)[k], k)
    BY <1>3, <1>5
  <2>2. ASSUME NEW k \in 1..n PROVE RowOK(plans, Rows(t)[m + k], m + k)
    BY <1>3 DEF m
  <2>3. ASSUME NEW k \in 1..(m + n) PROVE RowOK(plans, Rows(t)[k], k)
    <3>1. CASE k \in 1..m
      BY <2>1, <3>1
    <3>2. CASE k \notin 1..m
      <4>1. k - m \in 1..n /\ m + (k - m) = k
        BY <1>6, <3>2
      <4>2. RowOK(plans, Rows(t)[m + (k - m)], m + (k - m))
        BY <2>2, <4>1
      <4>3. QED BY <4>1, <4>2
    <3>3. QED BY <3>1, <3>2
  <2>4. QED BY <2>3
<1>8. ASSUME NEW k \in 1..m, NEW l \in 1..n
      PROVE  Identity(rows[l]) = Identity(Rows(s)[k]) => Rows(s)[k].kind = "nf" /\ rows[l].kind = "nf"
  <2>1. Identity(Rows(s)[k]) \in Identities(s)
    BY <1>2 DEF Identities, ToSet
  <2>2. Identity(rows[l]) = Identity(Rows(s)[k]) => Rows(s)[k].kind = rows[l].kind
    BY DEF Identity
  <2>3. QED BY <2>1, <2>2
<1>9. ASSUME NEW k \in 1..(m + n), NEW l \in 1..(m + n), k # l, Rows(t)[k].kind # "nf"
      PROVE  Identity(Rows(t)[k]) # Identity(Rows(t)[l])
  <2>1. CASE k \in 1..m /\ l \in 1..m
    BY <1>3, <1>5, <1>9, <2>1
  <2>2. CASE k \in 1..m /\ l \notin 1..m
    <3>1. l - m \in 1..n /\ Rows(t)[l] = rows[l - m] /\ Rows(t)[k] = Rows(s)[k]
      BY <1>3, <1>6, <2>2
    <3>2. QED BY <1>8, <1>9, <2>2, <3>1
  <2>3. CASE k \notin 1..m /\ l \in 1..m
    <3>1. k - m \in 1..n /\ Rows(t)[k] = rows[k - m] /\ Rows(t)[l] = Rows(s)[l]
      BY <1>3, <1>6, <2>3
    <3>2. QED BY <1>8, <1>9, <2>3, <3>1
  <2>4. CASE k \notin 1..m /\ l \notin 1..m
    <3>1. k - m \in 1..n /\ Rows(t)[k] = rows[k - m] /\ l - m \in 1..n /\ Rows(t)[l] = rows[l - m]
      BY <1>3, <1>6, <2>4
    <3>2. k - m # l - m
      BY <1>2, <1>9
    <3>3. QED BY <1>9, <3>1, <3>2
  <2>5. QED BY <2>1, <2>2, <2>3, <2>4
<1>10. QED BY <1>4, <1>7, <1>9 DEF Good, t, u

\* A whole history continues itself.
LEMMA ContinuesSelf ==
    ASSUME NEW o \in Texts, Whole(o)
    PROVE  Continues(o, o)
<1>1. IsPrefix(o, o)
  BY PrefixOrder DEF Texts
<1>2. DOMAIN Rows(o) = 1..Len(Rows(o)) /\ Len(Rows(o)) \in Nat
  BY RowsFacts DEF Texts
<1>3. \A k \in DOMAIN Rows(o) : ~(k > Len(Rows(o)))
  BY <1>2
<1>4. QED BY <1>1, <1>3 DEF Continues, Stage1From

\* What Stage1 has written behind a history, as the code tests it.
LEMMA ContinuesBehind ==
    ASSUME NEW o \in Texts, NEW t \in Texts, Whole(o), IsPrefix(o, t)
    PROVE  /\ OwnedByStage1(Behind(t, o)) => Continues(o, t)
           /\ Continues(o, t) => t = o \/ OwnedByStage1(Behind(t, o))
<1> DEFINE u == Behind(t, o)  m == Len(Rows(o))
<1>1. u \in Texts /\ t = o \o u /\ (u = <<>> => t = o)
  <2>1. u \in Texts /\ t = o \o u
    BY BehindFacts DEF Texts
  <2>2. o \o <<>> = o
    BY ConcatEmptySeq DEF Texts
  <2>3. QED BY <2>1, <2>2
<1> HIDE DEF u
<1>2. /\ Len(Rows(t)) = m + Len(Rows(u)) /\ (Whole(t) <=> Whole(u))
      /\ \A k \in 1..Len(Rows(u)) : Rows(t)[m + k] = Rows(u)[k]
  BY <1>1, RowsOfBoth DEF Texts
<1>3. m \in Nat /\ Len(Rows(u)) \in Nat /\ DOMAIN Rows(u) = 1..Len(Rows(u)) /\ DOMAIN Rows(t) = 1..Len(Rows(t))
  BY <1>1, RowsFacts DEF Texts
<1>4. Stage1From(t, m) <=> \A k \in 1..Len(Rows(u)) : Rows(u)[k].kind # "stage2"
  <2>1. ASSUME Stage1From(t, m), NEW k \in 1..Len(Rows(u)) PROVE Rows(u)[k].kind # "stage2"
    <3>1. m + k \in 1..(m + Len(Rows(u))) /\ m + k > m
      BY <1>3
    <3>2. QED BY <1>2, <1>3, <2>1, <3>1 DEF Stage1From
  <2>2. ASSUME \A k \in 1..Len(Rows(u)) : Rows(u)[k].kind # "stage2", NEW k \in DOMAIN Rows(t), k > m
        PROVE  Rows(t)[k].kind # "stage2"
    <3>0. k \in 1..(m + Len(Rows(u)))
      BY <1>2, <1>3
    <3>1. k - m \in 1..Len(Rows(u)) /\ m + (k - m) = k
      BY <1>3, <2>2, <3>0
    <3>2. QED BY <1>2, <2>2, <3>1
  <2>3. QED BY <2>1, <2>2 DEF Stage1From
<1>5. OwnedByStage1(u) <=> u # <<>> /\ Whole(u) /\ \A k \in 1..Len(Rows(u)) : Rows(u)[k].kind # "stage2"
  BY <1>3 DEF OwnedByStage1, Whole, ToSet
<1>6. QED BY <1>1, <1>2, <1>4, <1>5 DEF Continues, u, m

(***************************************************************************)
(* The texts that the actions start from.                                  *)
(***************************************************************************)
\* A torn append is completed to the submission file or to the history of Stage2.
LEMMA RestoredFacts ==
    ASSUME TypeOK, TextInv, NEW t, t = Restored(output), t # None
    PROVE  /\ t \in Texts /\ IsPrefix(output, t) /\ Good(internal, t)
           /\ order = None => Whole(t)
           /\ order # None => Continues(order, t)
<1>1. /\ output \in Texts /\ order \in Texts \union {None}
      /\ (order # None => Whole(order)) /\ (order = None => Whole(output))
  BY DEF TypeOK, Texts
<1>2. Good(internal, output) /\ (order # None => Good(internal, order) /\ Agrees(order, output))
  BY DEF TextInv
<1>3. IsPrefix(output, output)
  BY <1>1, PrefixOrder DEF Texts
<1>4. CASE order = None
  <2>1. t = output
    BY <1>4 DEF Restored
  <2>2. QED BY <1>1, <1>2, <1>3, <1>4, <2>1
<1>5. CASE order # None
  <2>1. Continues(order, order) /\ order \in Texts
    BY <1>1, <1>5, ContinuesSelf
  <2>2. CASE IsPrefix(order, output)
    <3>1. t = output
      BY <2>2 DEF Restored
    <3>2. IsPrefix(output, order) => output = order
      BY <1>1, <2>1, <2>2, PrefixOrder DEF Texts
    <3>3. Continues(order, output)
      BY <1>2, <1>5, <2>1, <3>2 DEF Agrees
    <3>4. QED BY <1>1, <1>2, <1>3, <1>5, <3>1, <3>3
  <2>3. CASE ~IsPrefix(order, output)
    <3>1. t = order /\ IsPrefix(output, order)
      BY <1>5, <2>3 DEF Restored
    <3>2. QED BY <1>2, <1>5, <2>1, <3>1
  <2>4. QED BY <2>2, <2>3
<1>6. QED BY <1>4, <1>5

\* What publish_stage1_batch makes of the submission file before it commits.
LEMMA RepairedFacts ==
    ASSUME TypeOK, PlanInv, TextInv, NEW b, NEW r, r = Repaired(b), r # None
    PROVE  /\ r \in Texts /\ Whole(r) /\ IsPrefix(output, r) /\ Good(internal, r)
           /\ \A i \in DOMAIN internal : IsPrefix(Published(internal[i]), r)
           /\ order # None => Continues(order, r)
<1> DEFINE t == Restored(output)
<1>1. /\ internal \in Seq(Entry) /\ \A i \in DOMAIN internal : internal[i] \in Plan
      /\ output \in Texts /\ order \in Texts \union {None}
  <2>1. internal \in Seq(Entry) /\ \A i \in DOMAIN internal : Whole(internal[i].prefix) /\ Whole(internal[i].tail)
    BY DEF TypeOK
  <2>2. \A i \in DOMAIN internal : internal[i] \in Entry
    BY <2>1, ElementOfSeq, LenProperties
  <2>3. output \in Texts /\ order \in Texts \union {None}
    BY DEF TypeOK, Texts
  <2>4. QED BY <2>1, <2>2, <2>3 DEF Plan
<1>2. Stage1Plans(internal)
  BY <1>1 DEF PlanInv, Stage1Plans
<1>3. t \in Texts \union {None}
  BY <1>1 DEF Restored
<1>4. r = Replays(t, internal)
  BY DEF Repaired
<1> HIDE DEF t
<1>5. /\ t \in Texts /\ r \in Texts /\ IsPrefix(t, r)
      /\ \A i \in DOMAIN internal : IsPrefix(Published(internal[i]), r)
      /\ r = t \/ \E i \in DOMAIN internal : r = Published(internal[i])
      /\ \A o \in Texts : Continues(o, t) => Continues(o, r)
  BY <1>1, <1>2, <1>3, <1>4, ReplayFacts
<1>6. t # None
  BY <1>5, NoneAssumption DEF Texts
<1>7. /\ IsPrefix(output, t) /\ Good(internal, t)
      /\ order = None => Whole(t)
      /\ order # None => Continues(order, t)
  BY <1>6, RestoredFacts DEF t
<1>8. IsPrefix(output, r)
  BY <1>1, <1>5, <1>7, PrefixOrder DEF Texts
<1>9. order # None => Continues(order, r)
  BY <1>1, <1>5, <1>7
<1>10. Whole(r) /\ Good(internal, r)
  <2>1. CASE r = t
    <3>1. Whole(r)
      BY <1>7, <1>9, <2>1 DEF Continues
    <3>2. QED BY <1>7, <2>1, <3>1
  <2>2. CASE \E i \in DOMAIN internal : r = Published(internal[i])
    <3>1. PICK i \in DOMAIN internal : r = Published(internal[i])
      BY <2>2
    <3>2. Whole(r)
      BY <1>1, <3>1, PublishedFacts
    <3>3. Good(internal, r)
      BY <3>1 DEF PlanInv
    <3>4. QED BY <3>2, <3>3
  <2>3. QED BY <1>5, <2>1, <2>2
<1>11. QED BY <1>5, <1>8, <1>9, <1>10

\* The history that Stage2 starts from is whole and in order.
LEMMA OrderedFacts ==
    ASSUME TypeOK, TextInv
    PROVE  Ordered \in Texts /\ Whole(Ordered) /\ Good(internal, Ordered)
<1>1. /\ output \in Texts /\ order \in Texts \union {None}
      /\ (order # None => Whole(order)) /\ (order = None => Whole(output))
  BY DEF TypeOK, Texts
<1>2. Good(internal, output) /\ (order # None => Good(internal, order))
  BY DEF TextInv
<1>3. CASE order = None
  BY <1>1, <1>2, <1>3 DEF Ordered
<1>4. CASE order # None /\ IsPrefix(order, output) /\ OwnedByStage1(Behind(output, order))
  <2>1. Ordered = output
    BY <1>4 DEF Ordered
  <2>2. Whole(output)
    BY <1>1, <1>4, ContinuesBehind DEF Continues
  <2>3. QED BY <1>1, <1>2, <2>1, <2>2
<1>5. CASE order # None /\ ~(IsPrefix(order, output) /\ OwnedByStage1(Behind(output, order)))
  <2>1. Ordered = order
    BY <1>5 DEF Ordered
  <2>2. QED BY <1>1, <1>2, <1>5, <2>1
<1>6. QED BY <1>3, <1>4, <1>5

\* The reports of Stage2, and that their identity tells them apart.
LEMMA ReportsFacts ==
    /\ Reports \subseteq Report
    /\ \A r \in Reports : /\ r.kind \in {"factor", "stage2"} /\ r.by = 2
                          /\ \E c \in Curves : r.curves = {c} /\ (r.kind = "factor" => c \in Hits)
    /\ \A r, s \in Reports : Identity(r) = Identity(s) => r = s
<1>1. Found \subseteq Hits /\ Hits \subseteq Curves /\ Continued \subseteq Curves
  BY CurvesAssumption
<1>2. ASSUME NEW r \in Reports
      PROVE  /\ r \in Report /\ r.kind \in {"factor", "stage2"} /\ r.by = 2
             /\ \E c \in Curves : r.curves = {c} /\ (r.kind = "factor" => c \in Hits)
  <2>1. CASE \E c \in Found : r = Factor(c, 2)
    <3>1. PICK c \in Found : r = [kind |-> "factor", curves |-> {c}, by |-> 2]
      BY <2>1 DEF Factor
    <3>2. c \in Curves /\ c \in Hits
      BY <1>1
    <3>3. QED BY <3>1, <3>2 DEF Report
  <2>2. CASE \E c \in Continued : r = Continuation(c)
    <3>1. PICK c \in Continued : r = [kind |-> "stage2", curves |-> {c}, by |-> 2]
      BY <2>2 DEF Continuation
    <3>2. c \in Curves
      BY <1>1
    <3>3. QED BY <3>1, <3>2 DEF Report
  <2>3. QED BY <2>1, <2>2 DEF Reports
<1>3. ASSUME NEW r \in Reports, NEW s \in Reports, Identity(r) = Identity(s) PROVE r = s
  <2>1. r \in Report /\ s \in Report /\ r.by = s.by /\ r.kind = s.kind /\ r.curves = s.curves
    BY <1>2, <1>3 DEF Identity
  <2>2. QED BY <2>1 DEF Report
<1>4. QED BY <1>2, <1>3

\* The reports that the next append adds.
LEMMA UnpublishedFacts ==
    ASSUME TypeOK, TextInv
    PROVE  /\ Unpublished \in Seq(Report)
           /\ \A k \in 1..Len(Unpublished) : /\ Unpublished[k] \in Reports
                                             /\ Identity(Unpublished[k]) \notin Identities(Ordered)
           /\ \A k, l \in 1..Len(Unpublished) : k # l => Identity(Unpublished[k]) # Identity(Unpublished[l])
<1> DEFINE new == {i \in DOMAIN receipts : Identity(receipts[i]) \notin Identities(Ordered)}
           n == Cardinality(new)  s == Sorted(new)  u == Unpublished
<1>1. /\ receipts \in Seq(Reports) /\ DOMAIN receipts = 1..Len(receipts) /\ Len(receipts) \in Nat
      /\ \A i \in DOMAIN receipts : receipts[i] \in Reports
  BY LenProperties, ElementOfSeq DEF TypeOK
<1>2. \A i, j \in DOMAIN receipts : i # j => receipts[i] # receipts[j]
  BY DEF TextInv
<1>3. new \in SUBSET Nat /\ IsFiniteSet(new)
  <2>1. IsFiniteSet(1..Len(receipts))
    BY <1>1, FS_Interval
  <2>2. new \subseteq 1..Len(receipts)
    BY <1>1
  <2>3. QED BY <2>1, <2>2, FS_Subset
<1>4. u = [k \in 1..n |-> receipts[s[k]]]
  BY DEF Unpublished
<1>5. \A i \in new : i \in DOMAIN receipts /\ Identity(receipts[i]) \notin Identities(Ordered)
  OBVIOUS
<1> HIDE DEF new
<1>6. /\ n \in Nat /\ \A k \in 1..n : s[k] \in new
      /\ \A k, l \in 1..n : k # l => s[k] # s[l]
  BY <1>3, SortedFacts
<1> HIDE DEF n, s, u
<1>7. ASSUME NEW k \in 1..n PROVE u[k] = receipts[s[k]] /\ u[k] \in Reports /\ Identity(u[k]) \notin Identities(Ordered)
  <2>1. u[k] = receipts[s[k]] /\ s[k] \in new
    BY <1>4, <1>6
  <2>2. QED BY <1>1, <1>5, <2>1
<1>8. u \in Seq(Report) /\ Len(u) = n
  <2>1. u \in [1..n -> Report]
    BY <1>4, <1>7, ReportsFacts
  <2>2. u \in Seq(Report)
    BY <1>6, <2>1, SeqDef
  <2>3. QED BY <1>6, <2>1, <2>2, LenProperties
<1>9. ASSUME NEW k \in 1..n, NEW l \in 1..n, k # l PROVE Identity(u[k]) # Identity(u[l])
  <2>1. s[k] # s[l] /\ s[k] \in DOMAIN receipts /\ s[l] \in DOMAIN receipts
    BY <1>5, <1>6, <1>9
  <2>2. u[k] # u[l]
    BY <1>2, <1>7, <2>1
  <2>3. u[k] \in Reports /\ u[l] \in Reports
    BY <1>7
  <2>4. QED BY <2>2, <2>3, ReportsFacts
<1>10. QED BY <1>7, <1>8, <1>9 DEF u

\* The next history of Stage2.
LEMMA OrderWritten ==
    ASSUME TypeOK, TextInv
    PROVE  /\ Ordered \o Text(Unpublished) \in Texts /\ Whole(Ordered \o Text(Unpublished))
           /\ IsPrefix(Ordered, Ordered \o Text(Unpublished))
           /\ Good(internal, Ordered \o Text(Unpublished))
<1> DEFINE u == Unpublished  o == Ordered
<1>1. o \in Texts /\ Whole(o) /\ Good(internal, o)
  BY OrderedFacts
<1>2. /\ u \in Seq(Report)
      /\ \A k \in 1..Len(u) : u[k] \in Reports /\ Identity(u[k]) \notin Identities(o)
      /\ \A k, l \in 1..Len(u) : k # l => Identity(u[k]) # Identity(u[l])
  BY UnpublishedFacts
<1> HIDE DEF u, o
<1>3. Text(u) \in Texts /\ Whole(Text(u))
  BY <1>2, TextFacts DEF Texts
<1>4. o \o Text(u) \in Texts /\ Whole(o \o Text(u)) /\ IsPrefix(o, o \o Text(u))
  BY <1>1, <1>3, RowsOfBoth, BehindFacts DEF Texts
<1>5. \A k \in 1..Len(u) : RowOK(internal, u[k], Len(Rows(o)) + k)
  <2>1. ASSUME NEW r \in Reports, NEW k PROVE RowOK(internal, r, k)
    <3>1. r.kind \in {"factor", "stage2"} /\ \E c \in Curves : r.curves = {c} /\ (r.kind = "factor" => c \in Hits)
      BY ReportsFacts
    <3>2. QED BY <3>1 DEF RowOK
  <2>2. QED BY <1>2, <2>1
<1>6. Good(internal, o \o Text(u))
  BY <1>1, <1>2, <1>5, GoodAppend
<1>7. QED BY <1>4, <1>6 DEF u, o

\* The assumptions on the batches.
BatchFacts == \A b \in Batches : CurvesOf[b] # {} /\ CurvesOf[b] \subseteq Nat /\ IsFiniteSet(CurvesOf[b]) /\ CurvesOf[b] \subseteq Curves

\* They hold for every batch.
LEMMA BatchCurves == BatchFacts
  BY BatchesAssumption DEF BatchFacts, Curves

\* What a batch commits.
LEMMA AppendedFacts ==
    ASSUME TypeOK, NEW b \in Batches, NEW t \in Texts, Whole(t), Good(internal, t),
           NEW e, e = [batch |-> b, curves |-> Fresh(b), prefix |-> t, tail |-> AppendedBy(b, t)]
    PROVE  /\ e \in Plan /\ Stage1From(e.tail, 0)
           /\ Good(Append(internal, e), Published(e))
           /\ \A c \in e.curves : Reported(Published(e), c)
<1> DEFINE F == Fresh(b)
           H == {c \in F \cap Hits : Identity(Factor(c, 1)) \notin Identities(t)}
           s == Sorted(H)  n == Cardinality(H)
           facs == [i \in DOMAIN s |-> Factor(s[i], 1)]
           last == IF F \subseteq Hits THEN <<>> ELSE <<NoFactor(F \ Hits)>>
           rows == facs \o last
           new == Append(internal, e)
<1>1. F \subseteq CurvesOf[b] /\ F \subseteq Nat /\ F \subseteq Curves /\ IsFiniteSet(CurvesOf[b])
  BY BatchCurves DEF BatchFacts, Fresh
<1>2. H \in SUBSET Nat /\ IsFiniteSet(H)
  <2>1. H \subseteq CurvesOf[b] /\ H \subseteq Nat
    BY <1>1
  <2>2. QED BY <1>1, <2>1, FS_Subset
<1>3. AppendedBy(b, t) = Text(rows)
  BY DEF AppendedBy
<1>4. \A c \in F \cap Hits : c \in H \/ Identity(Factor(c, 1)) \in Identities(t)
  OBVIOUS
<1>5. \A c \in H : c \in F /\ c \in Hits /\ Identity(Factor(c, 1)) \notin Identities(t)
  OBVIOUS
<1> HIDE DEF H, F
<1>6. /\ n \in Nat /\ DOMAIN s = 1..n /\ \A i \in 1..n : s[i] \in H
      /\ \A i, j \in 1..n : i # j => s[i] # s[j]
      /\ \A c \in H : \E i \in 1..n : s[i] = c
  BY <1>2, SortedFacts
<1>7. /\ \A c \in Curves : Factor(c, 1) \in Report /\ Factor(c, 1).kind = "factor" /\ Factor(c, 1).curves = {c}
      /\ \A c, d \in Curves : c # d => Identity(Factor(c, 1)) # Identity(Factor(d, 1))
  <2>1. ASSUME NEW c \in Curves PROVE Factor(c, 1) \in Report
    BY DEF Factor, Report
  <2>2. QED BY <2>1 DEF Factor, Identity
<1>8. NoFactor(F \ Hits) \in Report /\ NoFactor(F \ Hits).kind = "nf" /\ NoFactor(F \ Hits).curves = F \ Hits
  <2>1. F \ Hits \in SUBSET Curves
    BY <1>1
  <2>2. QED BY <2>1 DEF NoFactor, Report
<1>9. /\ facs \in Seq(Report) /\ Len(facs) = n
      /\ \A i \in 1..n : facs[i] = Factor(s[i], 1) /\ s[i] \in Curves /\ s[i] \in H
  <2>1. \A i \in 1..n : s[i] \in Curves /\ s[i] \in H
    BY <1>1, <1>5, <1>6
  <2>2. facs \in [1..n -> Report]
    BY <1>6, <1>7, <2>1
  <2>3. facs \in Seq(Report)
    BY <1>6, <2>2, SeqDef
  <2>4. \A i \in 1..n : facs[i] = Factor(s[i], 1)
    BY <1>6
  <2>5. QED BY <1>6, <2>1, <2>2, <2>3, <2>4, LenProperties
<1>10. /\ last \in Seq(Report) /\ Len(last) = (IF F \subseteq Hits THEN 0 ELSE 1)
       /\ ~(F \subseteq Hits) => last[1] = NoFactor(F \ Hits)
  BY <1>8
<1> HIDE DEF facs, last, s, n
<1>11. /\ rows \in Seq(Report) /\ Len(rows) = n + Len(last)
       /\ \A i \in 1..n : rows[i] = Factor(s[i], 1)
       /\ ~(F \subseteq Hits) => rows[n + 1] = NoFactor(F \ Hits)
  <2>1. /\ rows \in Seq(Report) /\ Len(rows) = n + Len(last)
        /\ \A i \in 1..(n + Len(last)) : rows[i] = IF i <= n THEN facs[i] ELSE last[i - n]
    BY <1>9, <1>10, ConcatProperties
  <2>2. \A i \in 1..n : i \in 1..(n + Len(last)) /\ i <= n
    BY <1>6, <1>10
  <2>3. ~(F \subseteq Hits) => n + 1 \in 1..(n + Len(last)) /\ ~(n + 1 <= n) /\ n + 1 - n = 1
    BY <1>6, <1>10
  <2>4. QED BY <1>9, <1>10, <2>1, <2>2, <2>3
<1> HIDE DEF rows
<1>12. ASSUME NEW k \in 1..Len(rows)
       PROVE  \/ k \in 1..n /\ rows[k] = Factor(s[k], 1) /\ s[k] \in H /\ s[k] \in Curves
              \/ k = n + 1 /\ k = Len(rows) /\ ~(F \subseteq Hits) /\ rows[k] = NoFactor(F \ Hits)
  <2>1. CASE k \in 1..n
    BY <1>9, <1>11, <2>1
  <2>2. CASE k \notin 1..n
    <3>1. k = n + 1 /\ k = Len(rows) /\ ~(F \subseteq Hits)
      BY <1>6, <1>10, <1>11, <2>2
    <3>2. QED BY <1>11, <3>1
  <2>3. QED BY <2>1, <2>2
<1>13. /\ e.batch = b /\ e.curves = F /\ e.prefix = t /\ e.tail = Text(rows)
       /\ Published(e) = t \o Text(rows)
  BY <1>3 DEF Published, F
<1>14. /\ Text(rows) \in Texts /\ Whole(Text(rows)) /\ Len(Rows(Text(rows))) = Len(rows)
       /\ \A k \in 1..Len(rows) : Rows(Text(rows))[k] = rows[k]
  BY <1>11, TextFacts DEF Texts
<1>15. e \in Plan
  <2>1. e = [batch |-> b, curves |-> F, prefix |-> t, tail |-> Text(rows)]
    BY <1>3 DEF F
  <2>2. F \in SUBSET Curves
    BY <1>1
  <2>3. QED BY <1>14, <2>1, <2>2 DEF Plan, Entry, Texts
<1>16. Stage1From(e.tail, 0)
  <2>1. DOMAIN Rows(Text(rows)) = 1..Len(rows)
    BY <1>14, RowsFacts DEF Texts
  <2>2. \A k \in 1..Len(rows) : rows[k].kind # "stage2"
    BY <1>7, <1>8, <1>12
  <2>3. QED BY <1>13, <1>14, <2>1, <2>2 DEF Stage1From
<1>17. /\ Len(Rows(Published(e))) = Len(Rows(t)) + Len(rows)
       /\ \A k \in 1..Len(Rows(t)) : Rows(Published(e))[k] = Rows(t)[k]
       /\ \A k \in 1..Len(rows) : Rows(Published(e))[Len(Rows(t)) + k] = rows[k]
       /\ DOMAIN Rows(Published(e)) = 1..(Len(Rows(t)) + Len(rows))
       /\ DOMAIN Rows(t) = 1..Len(Rows(t)) /\ Len(Rows(t)) \in Nat /\ Len(rows) \in Nat
  <2> DEFINE v == Text(rows)
  <2>1. v \in Texts
    BY <1>14
  <2>2. /\ t \o v \in Texts /\ Len(Rows(t \o v)) = Len(Rows(t)) + Len(Rows(v))
        /\ \A k \in 1..Len(Rows(t)) : Rows(t \o v)[k] = Rows(t)[k]
        /\ \A k \in 1..Len(Rows(v)) : Rows(t \o v)[Len(Rows(t)) + k] = Rows(v)[k]
    <3> HIDE DEF v
    <3>1. QED BY <2>1, RowsOfBoth DEF Texts
  <2>3. DOMAIN Rows(t \o v) = 1..Len(Rows(t \o v))
    BY <2>2, RowsFacts DEF Texts
  <2>4. DOMAIN Rows(t) = 1..Len(Rows(t)) /\ Len(Rows(t)) \in Nat /\ Len(rows) \in Nat
    BY <1>11, RowsFacts, LenProperties DEF Texts
  <2>5. QED BY <1>13, <1>14, <2>2, <2>3, <2>4
<1>18. internal \in Seq(Entry) /\ e \in Entry
  BY <1>15 DEF TypeOK, Plan
<1>19. Good(new, t)
  BY <1>18, GoodPlans
<1>20. ASSUME NEW k \in 1..Len(rows) PROVE RowOK(new, rows[k], Len(Rows(t)) + k)
  <2>1. CASE k \in 1..n /\ rows[k] = Factor(s[k], 1) /\ s[k] \in H /\ s[k] \in Curves
    <3>1. rows[k].kind = "factor" /\ rows[k].curves = {s[k]} /\ s[k] \in Hits
      BY <1>5, <1>7, <2>1
    <3>2. QED BY <3>1 DEF RowOK
  <2>2. CASE k = n + 1 /\ k = Len(rows) /\ ~(F \subseteq Hits) /\ rows[k] = NoFactor(F \ Hits)
    <3>1. rows[k].kind = "nf" /\ rows[k].curves = F \ Hits
      BY <1>8, <2>2
    <3>2. Len(new) \in DOMAIN new /\ new[Len(new)] = e
      <4>1. Len(internal) \in Nat
        BY <1>18, LenProperties
      <4>2. QED BY <1>18, <4>1, AppendProperties
    <3>3. rows[k].curves = new[Len(new)].curves \ Hits /\ Len(Rows(t)) + k = Len(Rows(Published(new[Len(new)])))
      BY <1>13, <1>17, <2>2, <3>1, <3>2
    <3>4. QED BY <3>1, <3>2, <3>3 DEF RowOK
  <2>3. QED BY <1>12, <2>1, <2>2
<1> HIDE DEF new
<1>21. ASSUME NEW k \in 1..Len(rows), rows[k].kind # "nf"
       PROVE  k \in 1..n /\ rows[k] = Factor(s[k], 1) /\ s[k] \in H /\ s[k] \in Curves
  BY <1>8, <1>12, <1>21
<1>22. ASSUME NEW k \in 1..Len(rows), NEW l \in 1..Len(rows), k # l, rows[k].kind # "nf"
       PROVE  Identity(rows[k]) # Identity(rows[l])
  <2>1. k \in 1..n /\ rows[k] = Factor(s[k], 1) /\ s[k] \in Curves
    BY <1>21, <1>22
  <2>2. CASE rows[l].kind = "nf"
    BY <1>22, <2>2 DEF Identity
  <2>3. CASE rows[l].kind # "nf"
    <3>1. l \in 1..n /\ rows[l] = Factor(s[l], 1) /\ s[l] \in Curves
      BY <1>21, <2>3
    <3>2. s[k] # s[l]
      BY <1>6, <1>22, <2>1, <3>1
    <3>3. QED BY <1>7, <2>1, <3>1, <3>2
  <2>4. QED BY <2>2, <2>3
<1>23. ASSUME NEW k \in 1..Len(rows), rows[k].kind # "nf" PROVE Identity(rows[k]) \notin Identities(t)
  BY <1>5, <1>21, <1>23
<1>24. Good(new, t \o Text(rows))
  BY <1>11, <1>19, <1>20, <1>22, <1>23, GoodAppend
<1>25. ASSUME NEW c \in F PROVE Reported(Published(e), c)
  <2>1. CASE c \in H
    <3>1. PICK i \in 1..n : s[i] = c
      BY <1>6, <2>1
    <3>2. i \in 1..Len(rows) /\ rows[i] = Factor(c, 1) /\ c \in Curves
      BY <1>1, <1>6, <1>10, <1>11, <3>1
    <3>3. Len(Rows(t)) + i \in DOMAIN Rows(Published(e)) /\ Rows(Published(e))[Len(Rows(t)) + i] = Factor(c, 1)
      BY <1>17, <3>2
    <3>4. QED BY <1>7, <3>2, <3>3 DEF Reported
  <2>2. CASE c \in Hits /\ Identity(Factor(c, 1)) \in Identities(t)
    <3>1. PICK k \in DOMAIN Rows(t) : Identity(Rows(t)[k]) = Identity(Factor(c, 1))
      BY <2>2 DEF Identities, ToSet
    <3>2. Rows(t)[k].kind = "factor" /\ Rows(t)[k].curves = {c}
      BY <3>1 DEF Identity, Factor
    <3>3. k \in DOMAIN Rows(Published(e)) /\ Rows(Published(e))[k] = Rows(t)[k]
      BY <1>17
    <3>4. QED BY <3>2, <3>3 DEF Reported
  <2>3. CASE c \notin Hits
    <3>1. ~(F \subseteq Hits)
      BY <2>3
    <3>2. n + 1 \in 1..Len(rows) /\ rows[n + 1] = NoFactor(F \ Hits)
      BY <1>6, <1>10, <1>11, <3>1
    <3>3. /\ Len(Rows(t)) + (n + 1) \in DOMAIN Rows(Published(e))
          /\ Rows(Published(e))[Len(Rows(t)) + (n + 1)] = NoFactor(F \ Hits)
      BY <1>17, <3>2
    <3>4. QED BY <1>8, <2>3, <3>3 DEF Reported
  <2>4. QED BY <1>4, <2>1, <2>2, <2>3
<1>26. QED BY <1>13, <1>15, <1>16, <1>24, <1>25 DEF new

(***************************************************************************)
(* The save file.                                                          *)
(***************************************************************************)
\* A range of a sequence, by its elements.
LEMMA RangeIs ==
    ASSUME NEW A, NEW s \in Seq(A), NEW P \in Seq(A), NEW k \in Nat, k + Len(P) <= Len(s)
    PROVE  (\A i \in 1..Len(P) : s[k + i] = P[i]) <=> SubSeq(s, k + 1, k + Len(P)) = P
<1> DEFINE n == Len(P)  u == SubSeq(s, k + 1, k + n)
<1>1. n \in Nat /\ Len(s) \in Nat
  BY LenProperties
<1>2. \A i \in (k + 1)..(k + n) : s[i] \in A
  <2>1. \A i \in (k + 1)..(k + n) : i \in 1..Len(s)
    BY <1>1
  <2>2. QED BY <2>1, ElementOfSeq
<1>3. /\ u \in Seq(A) /\ Len(u) = IF k + 1 <= k + n THEN k + n - (k + 1) + 1 ELSE 0
      /\ \A i \in 1..(k + n - (k + 1) + 1) : u[i] = s[k + 1 + i - 1]
  <2>1. k + 1 \in Int /\ k + n \in Int
    BY <1>1
  <2>2. QED BY <1>2, <2>1, SubSeqProperties
<1>4. /\ Len(u) = n /\ \A i \in 1..n : u[i] = s[k + i]
  <2>1. /\ k + n - (k + 1) + 1 = n
        /\ \A i \in 1..n : k + 1 + i - 1 = k + i
        /\ k + 1 <= k + n \/ n = 0
    BY <1>1
  <2>2. QED BY <1>3, <2>1
<1> HIDE DEF u
<1>5. (\A i \in 1..n : u[i] = P[i]) <=> u = P
  BY <1>3, <1>4, SeqEqual
<1>6. QED BY <1>4, <1>5 DEF u

\* What a batch finds in the save after its publication.
LEMMA SavedFacts ==
    ASSUME TypeOK, NEW b \in Batches, Contiguous(b)
    PROVE  /\ Extended(b) \in Seq(Curves) /\ IsPrefix(save, Extended(b))
           /\ Skip(b) \in Nat /\ Len(Points(b)) \in Nat /\ Points(b) \in Seq(Curves)
           /\ Skip(b) + Len(Points(b)) <= Len(Extended(b))
           /\ SubSeq(Extended(b), Skip(b) + 1, Skip(b) + Len(Points(b))) = Points(b)
<1> DEFINE D == CurvesOf[b] \ Pointless
           P == Points(b)  M == Missing(b)  E == Extended(b)
           at(c) == CHOOSE i \in DOMAIN E : E[i] = c
<1>1. D \in SUBSET Nat /\ IsFiniteSet(D) /\ D \subseteq Curves /\ D \ ToSet(save) \in SUBSET Nat /\ IsFiniteSet(D \ ToSet(save))
  <2>1. CurvesOf[b] \subseteq Nat /\ CurvesOf[b] \subseteq Curves /\ IsFiniteSet(CurvesOf[b])
    BY BatchCurves DEF BatchFacts
  <2>2. QED BY <2>1, FS_Subset
<1>2. save \in Seq(Curves) /\ Len(save) \in Nat /\ DOMAIN save = 1..Len(save)
  BY LenProperties DEF TypeOK
<1>3. P = Sorted(D) /\ M = Sorted(D \ ToSet(save)) /\ E = save \o M
  BY DEF Points, Missing, Extended
<1>4. /\ P \in Seq(D) /\ Len(P) \in Nat
      /\ \A i \in 1..Len(P) : P[i] \in D
  <2> HIDE DEF D, P
  <2>1. P \in Seq(D)
    BY <1>1, <1>3, SortedFacts
  <2>2. QED BY <2>1, LenProperties, ElementOfSeq
<1>5. /\ M \in Seq(D \ ToSet(save)) /\ Len(M) \in Nat
      /\ \A x \in D \ ToSet(save) : \E i \in 1..Len(M) : M[i] = x
  <2> HIDE DEF D, M
  <2>1. /\ M \in Seq(D \ ToSet(save)) /\ Len(M) = Cardinality(D \ ToSet(save))
        /\ \A x \in D \ ToSet(save) : \E i \in 1..Cardinality(D \ ToSet(save)) : M[i] = x
    BY <1>1, <1>3, SortedFacts
  <2>2. QED BY <2>1, LenProperties
<1>6. M \in Seq(Curves) /\ P \in Seq(Curves)
  <2>1. D \subseteq Curves /\ D \ ToSet(save) \subseteq Curves
    BY <1>1
  <2> HIDE DEF D, M, P
  <2>2. QED BY <1>4, <1>5, <2>1
<1>7. Contiguous(b) <=> \A i \in DOMAIN P : at(P[i]) = at(P[1]) + i - 1
  BY DEF Contiguous
<1>8. Skip(b) = IF P = <<>> THEN Len(save) ELSE at(P[1]) - 1
  BY DEF Skip
<1> HIDE DEF P, M, E
<1>9. /\ E \in Seq(Curves) /\ Len(E) = Len(save) + Len(M) /\ DOMAIN E = 1..Len(E) /\ Len(E) \in Nat
      /\ \A i \in 1..Len(save) + Len(M) : E[i] = IF i <= Len(save) THEN save[i] ELSE M[i - Len(save)]
  <2>1. /\ E \in Seq(Curves) /\ Len(E) = Len(save) + Len(M)
        /\ \A i \in 1..Len(save) + Len(M) : E[i] = IF i <= Len(save) THEN save[i] ELSE M[i - Len(save)]
    BY <1>2, <1>3, <1>6, ConcatProperties
  <2>2. QED BY <2>1, LenProperties
<1>10. IsPrefix(save, E)
  BY <1>2, <1>3, <1>6, BehindFacts
<1>11. \A x \in D : \E j \in DOMAIN E : E[j] = x
  <2>1. ASSUME NEW x \in ToSet(save) PROVE \E j \in DOMAIN E : E[j] = x
    <3>1. PICK j \in 1..Len(save) : save[j] = x
      BY <1>2, <2>1 DEF ToSet
    <3>2. j \in 1..Len(E) /\ j \in 1..Len(save) + Len(M) /\ j <= Len(save)
      BY <1>2, <1>5, <1>9, <3>1
    <3>3. QED BY <1>9, <3>1, <3>2
  <2>2. ASSUME NEW x \in D \ ToSet(save) PROVE \E j \in DOMAIN E : E[j] = x
    <3>1. PICK j \in 1..Len(M) : M[j] = x
      BY <1>5
    <3>2. /\ Len(save) + j \in 1..Len(E) /\ Len(save) + j \in 1..Len(save) + Len(M)
          /\ ~(Len(save) + j <= Len(save)) /\ Len(save) + j - Len(save) = j
      BY <1>2, <1>5, <1>9, <3>1
    <3>3. E[Len(save) + j] = x
      BY <1>9, <3>1, <3>2
    <3>4. QED BY <1>9, <3>2, <3>3
  <2>3. QED BY <2>1, <2>2
<1>12. \A i \in 1..Len(P) : at(P[i]) \in 1..Len(E) /\ E[at(P[i])] = P[i]
  <2>1. ASSUME NEW i \in 1..Len(P) PROVE at(P[i]) \in DOMAIN E /\ E[at(P[i])] = P[i]
    <3>1. \E j \in DOMAIN E : E[j] = P[i]
      BY <1>4, <1>11
    <3>2. QED BY <3>1
  <2>2. QED BY <1>9, <2>1
<1> HIDE DEF at
<1>13. DOMAIN P = 1..Len(P)
  BY <1>6, LenProperties
<1>14. /\ Skip(b) \in Nat /\ Skip(b) + Len(P) <= Len(E)
       /\ \A i \in 1..Len(P) : E[Skip(b) + i] = P[i]
  <2>1. CASE P = <<>>
    <3>1. Len(P) = 0 /\ Skip(b) = Len(save)
      BY <1>8, <2>1
    <3>2. QED BY <1>2, <1>5, <1>9, <3>1
  <2>2. CASE P # <<>>
    <3>1. Len(P) # 0
      BY <1>6, <2>2, EmptySeq
    <3>2. 1 \in 1..Len(P) /\ Len(P) \in 1..Len(P)
      BY <1>4, <3>1
    <3>3. Skip(b) = at(P[1]) - 1 /\ at(P[1]) \in 1..Len(E)
      BY <1>8, <1>12, <2>2, <3>2
    <3>4. \A i \in 1..Len(P) : at(P[i]) = at(P[1]) + i - 1
      BY <1>7, <1>13
    <3>5. \A i \in 1..Len(P) : at(P[i]) = Skip(b) + i
      BY <1>9, <3>3, <3>4
    <3>6. Skip(b) \in Nat /\ Skip(b) + Len(P) <= Len(E)
      BY <1>4, <1>9, <1>12, <3>2, <3>3, <3>5
    <3>7. QED BY <1>12, <3>5, <3>6
  <2>3. QED BY <2>1, <2>2
<1>15. SubSeq(E, Skip(b) + 1, Skip(b) + Len(P)) = P
  BY <1>6, <1>9, <1>14, RangeIs
<1>16. QED BY <1>4, <1>6, <1>9, <1>10, <1>14, <1>15 DEF P, E

\* A range stays what it is when the file grows.
LEMMA RangeKept ==
    ASSUME NEW s \in Seq(Curves), NEW t \in Seq(Curves), IsPrefix(s, t), NEW P \in Seq(Curves),
           NEW r, InSave(s, r, P)
    PROVE  InSave(t, r, P)
<1> DEFINE k == r.skip  n == r.count  A == Curves
<1>0. k \in Nat /\ n \in Nat /\ k + n <= Len(s) /\ SubSeq(s, k + 1, k + n) = P
  BY DEF InSave
<1> HIDE DEF k, n
<1>1. Len(s) \in Nat /\ Len(t) \in Nat /\ Len(s) <= Len(t) /\ \A i \in 1..Len(s) : s[i] = t[i]
  BY PrefixIs
<1>2. Len(P) = n
  <2>1. \A i \in (k + 1)..(k + n) : s[i] \in A
    <3>1. \A i \in (k + 1)..(k + n) : i \in 1..Len(s)
      BY <1>0, <1>1
    <3>2. QED BY <3>1, ElementOfSeq
  <2>2. Len(P) = IF k + 1 <= k + n THEN k + n - (k + 1) + 1 ELSE 0
    <3>1. k + 1 \in Int /\ k + n \in Int
      BY <1>0
    <3>2. QED BY <1>0, <2>1, <3>1, SubSeqProperties
  <2>3. QED BY <1>0, <2>2
<1>3. \A i \in 1..n : s[k + i] = P[i]
  BY <1>0, <1>2, RangeIs
<1>4. \A i \in 1..n : t[k + i] = P[i]
  <2>1. \A i \in 1..n : k + i \in 1..Len(s)
    BY <1>0, <1>1
  <2>2. QED BY <1>1, <1>3, <2>1
<1>5. k + n <= Len(t)
  BY <1>0, <1>1
<1>6. SubSeq(t, k + 1, k + n) = P
  BY <1>0, <1>2, <1>4, <1>5, RangeIs
<1>7. QED BY <1>5, <1>6 DEF InSave, k, n

(***************************************************************************)
(* The steps.                                                              *)
(***************************************************************************)
IInv == TypeOK /\ PlanInv /\ TextInv /\ DoneInv

\* The types of the texts and of the committed batches.
LEMMA Typed ==
    ASSUME TypeOK
    PROVE  /\ output \in Texts /\ order \in Texts \union {None} /\ text \in Texts \union {None}
           /\ internal \in Seq(Entry) /\ \A i \in DOMAIN internal : internal[i] \in Plan
           /\ None \notin Texts
<1>1. internal \in Seq(Entry) /\ \A i \in DOMAIN internal : Whole(internal[i].prefix) /\ Whole(internal[i].tail)
  BY DEF TypeOK
<1>2. \A i \in DOMAIN internal : internal[i] \in Entry
  BY <1>1, ElementOfSeq, LenProperties
<1>3. QED BY <1>1, <1>2, NoneAssumption DEF TypeOK, Texts, Plan

\* What the internal results cover is reported where all batches are.
LEMMA CoveredReported ==
    ASSUME TypeOK, PlanInv, NEW r \in Texts,
           \A i \in DOMAIN internal : IsPrefix(Published(internal[i]), r),
           NEW c \in Covered
    PROVE  Reported(r, c)
<1>1. PICK i \in DOMAIN internal : c \in internal[i].curves
  BY DEF Covered
<1>2. Reported(Published(internal[i]), c) /\ Published(internal[i]) \in Texts
  BY <1>1, Typed, PublishedFacts DEF PlanInv
<1>3. QED BY <1>2, ReportedGrows

\* Without a new batch PlanInv stays.
LEMMA PlanKept ==
    ASSUME PlanInv, UNCHANGED internal
    PROVE  PlanInv'
BY DEF PlanInv, Covered

\* DoneInv stays while the submission file grows and no state but "done" is gained.
LEMMA DoneKept ==
    ASSUME TypeOK, DoneInv, UNCHANGED <<save, range>>,
           NEW t \in Texts, output' = t, IsPrefix(output, t),
           \A b \in Batches : state'[b] \in {"saved", "done"} => state[b] \in {"saved", "done"},
           \A b \in Batches : state'[b] = "done" => state[b] = "done" \/ \A c \in CurvesOf[b] : Reported(t, c)
    PROVE  DoneInv'
<1>1. \A b \in Batches : state'[b] = "done" => \A c \in CurvesOf[b] : Reported(t, c)
  <2>1. \A c : Reported(output, c) => Reported(t, c)
    BY Typed, ReportedGrows
  <2>2. QED BY <2>1 DEF DoneInv
<1>2. \A b \in Batches : state'[b] \in {"saved", "done"} =>
         InSave(save, range[b], Points(b))
  BY DEF DoneInv
<1>3. QED BY <1>1, <1>2 DEF DoneInv

\* The submission file is a prefix of itself.
LEMMA OutputSame == TypeOK => IsPrefix(output, output)
  BY Typed, PrefixOrder DEF Texts

\* A batch enters the save.
LEMMA SaveStep ==
    ASSUME IInv, NEW b \in Batches, PublishSave(b)
    PROVE  IInv' /\ IsPrefix(output, output')
<1> USE DEF IInv
<1>1. /\ Contiguous(b) /\ state[b] = "computed" /\ save' = Extended(b)
      /\ range' = [range EXCEPT ![b] = [skip |-> Skip(b), count |-> Len(Points(b))]]
      /\ state' = [state EXCEPT ![b] = "saved"]
      /\ UNCHANGED <<internal, output, receipts, order, holder, text, faults>>
  BY DEF PublishSave
<1>2. /\ Extended(b) \in Seq(Curves) /\ IsPrefix(save, Extended(b))
      /\ Skip(b) \in Nat /\ Len(Points(b)) \in Nat /\ Points(b) \in Seq(Curves)
      /\ Skip(b) + Len(Points(b)) <= Len(Extended(b))
      /\ SubSeq(Extended(b), Skip(b) + 1, Skip(b) + Len(Points(b))) = Points(b)
  BY <1>1, SavedFacts
<1>3. save \in Seq(Curves) /\ range \in [Batches -> {None} \union [skip : Nat, count : Nat]] /\ state \in [Batches -> {"computed", "saved", "done", "failed"}]
  BY DEF TypeOK
<1>4. TypeOK'
  BY <1>1, <1>2 DEF TypeOK
<1>5. TextInv'
  <2>1. \A x \in Batches : state[x] = "saved" => state'[x] = "saved"
    BY <1>1, <1>3
  <2>2. QED BY <1>1, <2>1 DEF TextInv, Covered
<1>6. DoneInv'
  <2>1. ASSUME NEW x \in Batches, state'[x] \in {"saved", "done"}
        PROVE  InSave(save', range'[x], Points(x))
    <3>1. CASE x = b
      <4>1. range'[x] = [skip |-> Skip(b), count |-> Len(Points(b))]
        BY <1>1, <1>3, <3>1
      <4>2. QED BY <1>1, <1>2, <3>1, <4>1 DEF InSave
    <3>2. CASE x # b
      <4>1. range'[x] = range[x] /\ state'[x] = state[x]
        BY <1>1, <1>3, <3>2
      <4>2. InSave(save, range[x], Points(x))
        BY <2>1, <4>1 DEF DoneInv
      <4>4. Points(x) \in Seq(Curves)
        <5>1. CurvesOf[x] \ Pointless \in SUBSET Nat /\ IsFiniteSet(CurvesOf[x] \ Pointless) /\ CurvesOf[x] \ Pointless \subseteq Curves
          BY BatchCurves, FS_Subset DEF BatchFacts
        <5> DEFINE D == CurvesOf[x] \ Pointless
        <5> HIDE DEF D
        <5>2. Sorted(D) \in Seq(D) /\ D \subseteq Curves
          BY <5>1, SortedFacts DEF D
        <5>3. QED BY <5>2 DEF Points, D
      <4>5. QED BY <1>1, <1>2, <1>3, <4>1, <4>2, <4>4, RangeKept
    <3>3. QED BY <3>1, <3>2
  <2>2. ASSUME NEW x \in Batches, state'[x] = "done"
        PROVE  \A c \in CurvesOf[x] : Reported(output', c)
    <3>1. state[x] = "done"
      BY <1>1, <1>3, <2>2
    <3>2. QED BY <1>1, <3>1 DEF DoneInv
  <2>3. QED BY <2>1, <2>2 DEF DoneInv
<1>7. QED BY <1>1, <1>4, <1>5, <1>6, PlanKept, OutputSame

\* A batch that is refused.
LEMMA FailedStep ==
    ASSUME IInv, NEW b \in Batches, SaveRefused(b) \/ Refused(b)
    PROVE  IInv' /\ IsPrefix(output, output')
<1> USE DEF IInv
<1>1. /\ state' = [state EXCEPT ![b] = "failed"]
      /\ UNCHANGED <<save, internal, output, receipts, order, range, holder, text, faults>>
      /\ state[b] = "computed" \/ holder = None
  BY DEF SaveRefused, Refused, files
<1>2. state \in [Batches -> {"computed", "saved", "done", "failed"}]
  BY DEF TypeOK
<1>3. TypeOK'
  BY <1>1 DEF TypeOK
<1>4. TextInv'
  <2>1. holder \in Batches => state'[holder] = "saved"
    <3>1. holder \in Batches => holder # None
      BY BatchesAssumption
    <3>2. QED BY <1>1, <1>2, <3>1 DEF TextInv
  <2>2. QED BY <1>1, <2>1 DEF TextInv, Covered
<1>5. DoneInv'
  BY <1>1, <1>2, DoneKept, Typed, OutputSame
<1>6. QED BY <1>1, <1>3, <1>4, <1>5, PlanKept, OutputSame

\* The submission file is repaired for a batch that has nothing left to commit.
LEMMA ConfirmStep ==
    ASSUME IInv, NEW b \in Batches, Confirm(b)
    PROVE  IInv' /\ IsPrefix(output, output')
<1> USE DEF IInv
<1> DEFINE r == Repaired(b)
<1>1. /\ state[b] = "saved" /\ holder = None /\ r # None
      /\ Committed(b) \/ Fresh(b) = {}
      /\ output' = r /\ state' = [state EXCEPT ![b] = "done"]
      /\ UNCHANGED <<save, internal, receipts, order, range, holder, text, faults>>
  BY DEF Confirm
<1>2. /\ r \in Texts /\ Whole(r) /\ IsPrefix(output, r) /\ Good(internal, r)
      /\ \A i \in DOMAIN internal : IsPrefix(Published(internal[i]), r)
      /\ order # None => Continues(order, r)
  BY <1>1, RepairedFacts
<1> HIDE DEF r
<1>3. state \in [Batches -> {"computed", "saved", "done", "failed"}]
  BY DEF TypeOK
<1>4. TypeOK'
  BY <1>1, <1>2 DEF TypeOK, Texts
<1>5. TextInv'
  <2>1. text = None /\ holder \notin Batches
    BY <1>1, BatchesAssumption DEF TextInv
  <2>2. QED BY <1>1, <1>2, <2>1 DEF TextInv, Agrees
<1>6. DoneInv'
  <2>1. CurvesOf[b] \subseteq Covered
    <3>1. CASE Committed(b)
      BY <3>1 DEF Committed, PlanInv
    <3>2. CASE Fresh(b) = {}
      BY <3>2 DEF Fresh, Covered
    <3>3. QED BY <1>1, <3>1, <3>2
  <2>2. \A c \in CurvesOf[b] : Reported(r, c)
    BY <1>2, <2>1, CoveredReported
  <2>3. QED BY <1>1, <1>2, <1>3, <2>2, DoneKept
<1>7. QED BY <1>1, <1>2, <1>4, <1>5, <1>6, PlanKept

\* A batch is committed to the internal results.
LEMMA CommitStep ==
    ASSUME IInv, NEW b \in Batches, Commit(b)
    PROVE  IInv' /\ IsPrefix(output, output')
<1> USE DEF IInv
<1> DEFINE t == Repaired(b)
           e == [batch |-> b, curves |-> Fresh(b), prefix |-> t, tail |-> AppendedBy(b, t)]
<1>1. /\ state[b] = "saved" /\ holder = None /\ t # None
      /\ internal' = Append(internal, e) /\ text' = t \o AppendedBy(b, t) /\ holder' = b
      /\ UNCHANGED <<save, output, receipts, order, state, range, faults>>
  BY DEF Commit
<1>2. /\ t \in Texts /\ Whole(t) /\ IsPrefix(output, t) /\ Good(internal, t)
      /\ \A i \in DOMAIN internal : IsPrefix(Published(internal[i]), t)
      /\ order # None => Continues(order, t)
  BY <1>1, RepairedFacts
<1>3. e.batch = b /\ e.curves = Fresh(b) /\ e.prefix = t /\ text' = Published(e)
  BY <1>1 DEF Published
<1> HIDE DEF t
<1>4. /\ e \in Plan /\ Stage1From(e.tail, 0)
      /\ Good(Append(internal, e), Published(e))
      /\ \A c \in e.curves : Reported(Published(e), c)
  BY <1>2, AppendedFacts
<1> HIDE DEF e
<1>5. /\ e \in Entry /\ e.prefix \in Texts /\ e.tail \in Texts /\ Whole(e.prefix) /\ Whole(e.tail)
      /\ Published(e) \in Texts /\ Whole(Published(e))
  BY <1>4, PublishedFacts
<1>6. /\ internal \in Seq(Entry) /\ Len(internal) \in Nat /\ DOMAIN internal = 1..Len(internal)
      /\ internal' \in Seq(Entry) /\ DOMAIN internal' = 1..(Len(internal) + 1)
      /\ \A i \in DOMAIN internal : i \in DOMAIN internal' /\ internal'[i] = internal[i]
      /\ internal'[Len(internal) + 1] = e
  <2>1. internal \in Seq(Entry) /\ Len(internal) \in Nat /\ DOMAIN internal = 1..Len(internal)
    BY Typed, LenProperties
  <2>2. QED BY <1>1, <1>5, <2>1, AppendProperties, LenProperties
<1>7. \A i \in DOMAIN internal' : i \in DOMAIN internal \/ (i \notin DOMAIN internal /\ internal'[i] = e)
  BY <1>6
<1>8. \A i \in DOMAIN internal : internal[i] \in Plan
  BY Typed
<1>9. TypeOK'
  <2>1. \A i \in DOMAIN internal' : Whole(internal'[i].prefix) /\ Whole(internal'[i].tail)
    BY <1>5, <1>6, <1>7 DEF TypeOK
  <2>2. QED BY <1>1, <1>3, <1>5, <1>6, <2>1 DEF TypeOK, Texts
<1>10. Covered' = Covered \union Fresh(b) /\ CurvesOf[b] \subseteq Covered'
  <2>1. \A x : x \in Covered' <=> x \in Covered \/ x \in Fresh(b)
    <3>1. \A x : x \in Covered' <=> \E i \in DOMAIN internal' : x \in internal'[i].curves
      BY DEF Covered
    <3>2. \A x : x \in Covered <=> \E i \in DOMAIN internal : x \in internal[i].curves
      BY DEF Covered
    <3>3. Len(internal) + 1 \in DOMAIN internal'
      BY <1>6
    <3>4. QED BY <1>3, <1>6, <1>7, <3>1, <3>2, <3>3
  <2>2. \A x \in CurvesOf[b] : x \in Fresh(b) \/ x \in Covered
    BY DEF Fresh, Covered
  <2>3. QED BY <2>1, <2>2
<1>11. \A x : Good(internal, x) => Good(internal', x)
  BY <1>1, <1>5, <1>6, GoodPlans
<1>12. Good(internal', Published(e))
  BY <1>1, <1>4
<1>13. PlanInv'
  <2>1. ASSUME NEW i \in DOMAIN internal', NEW j \in DOMAIN internal', i # j
        PROVE  internal'[i].curves \cap internal'[j].curves = {}
    <3>1. \A k \in DOMAIN internal : internal[k].curves \cap Fresh(b) = {}
      BY DEF Fresh
    <3>2. QED BY <1>3, <1>6, <1>7, <2>1, <3>1 DEF PlanInv
  <2>2. ASSUME NEW i \in DOMAIN internal'
        PROVE  /\ Good(internal', Published(internal'[i]))
               /\ Stage1From(internal'[i].tail, 0)
               /\ CurvesOf[internal'[i].batch] \subseteq Covered'
               /\ \A c \in internal'[i].curves : Reported(Published(internal'[i]), c)
    <3>1. CASE i \in DOMAIN internal
      <4>1. /\ internal'[i] = internal[i] /\ Good(internal, Published(internal[i]))
            /\ Stage1From(internal[i].tail, 0) /\ CurvesOf[internal[i].batch] \subseteq Covered
            /\ \A c \in internal[i].curves : Reported(Published(internal[i]), c)
        BY <1>6, <3>1 DEF PlanInv
      <4>2. QED BY <1>10, <1>11, <4>1
    <3>2. CASE i \notin DOMAIN internal
      <4>1. internal'[i] = e
        BY <1>7, <3>2
      <4>2. QED BY <1>3, <1>4, <1>10, <1>12, <4>1
    <3>3. QED BY <3>1, <3>2
  <2>3. QED BY <2>1, <2>2 DEF PlanInv
<1>14. IsPrefix(t, Published(e)) /\ IsPrefix(Published(e), Published(e))
  <2>1. Published(e) = t \o e.tail
    BY <1>3 DEF Published
  <2>2. IsPrefix(t, t \o e.tail)
    BY <1>2, <1>5, BehindFacts DEF Texts
  <2>3. QED BY <1>5, <2>1, <2>2, PrefixOrder DEF Texts
<1>15. TextInv'
  <2>1. text' # None /\ b # None /\ b # Stage2 /\ text' = Published(e)
    BY <1>3, <1>5, Typed, BatchesAssumption
  <2>2. IsPrefix(output, text')
    BY <1>2, <1>5, <1>14, <2>1, Typed, PrefixOrder DEF Texts
  <2>3. order # None => Continues(order, text')
    <3>1. SUFFICES ASSUME order # None PROVE Continues(order, text')
      OBVIOUS
    <3>2. order \in Texts /\ Continues(order, t) /\ IsPrefix(t, t)
      BY <1>2, <3>1, Typed, PrefixOrder DEF Texts
    <3>3. Published(e) = t \o e.tail
      BY <1>3 DEF Published
    <3>4. QED BY <1>2, <1>4, <1>5, <1>14, <2>1, <3>2, <3>3, TailContinues
  <2>4. ASSUME NEW i \in DOMAIN internal' PROVE IsPrefix(Published(internal'[i]), text')
    <3>1. CASE i \in DOMAIN internal
      <4>1. internal'[i] = internal[i] /\ IsPrefix(Published(internal[i]), t) /\ Published(internal[i]) \in Texts
        BY <1>2, <1>6, <1>8, <3>1, PublishedFacts
      <4>2. QED BY <1>2, <1>5, <1>14, <2>1, <4>1, PrefixOrder DEF Texts
    <3>2. CASE i \notin DOMAIN internal
      BY <1>7, <1>14, <2>1, <3>2
    <3>3. QED BY <3>1, <3>2
  <2>5. Good(internal', output) /\ (order # None => Good(internal', order) /\ Agrees(order, output))
    BY <1>11 DEF TextInv
  <2>6. \A i, j \in DOMAIN receipts : i # j => receipts[i] # receipts[j]
    BY DEF TextInv
  <2>7. holder' \in Batches => CurvesOf[holder'] \subseteq Covered'
    BY <1>1, <1>10
  <2>8. QED BY <1>1, <1>12, <2>1, <2>2, <2>3, <2>4, <2>5, <2>6, <2>7 DEF TextInv
<1>16. DoneInv'
  BY <1>1, DoneKept, Typed, OutputSame
<1>17. QED BY <1>1, <1>9, <1>13, <1>15, <1>16, OutputSame

\* The submission file gets the text of the committed batch.
LEMMA ExportStep ==
    ASSUME IInv, NEW b \in Batches, Export(b)
    PROVE  IInv' /\ IsPrefix(output, output')
<1> USE DEF IInv
<1>1. /\ holder = b /\ output' = text /\ text' = None /\ holder' = None
      /\ state' = [state EXCEPT ![b] = "done"]
      /\ UNCHANGED <<save, internal, receipts, order, range, faults>>
  BY DEF Export
<1>2. /\ text # None /\ state[b] = "saved" /\ Good(internal, text) /\ IsPrefix(output, text)
      /\ order # None => Continues(order, text)
      /\ \A i \in DOMAIN internal : IsPrefix(Published(internal[i]), text)
      /\ CurvesOf[b] \subseteq Covered
  BY <1>1 DEF TextInv
<1>3. text \in Texts /\ Whole(text) /\ state \in [Batches -> {"computed", "saved", "done", "failed"}]
  BY <1>2 DEF TypeOK, Texts
<1>4. TypeOK'
  BY <1>1, <1>3 DEF TypeOK, Texts
<1>5. TextInv'
  <2>1. None \notin Batches /\ Stage2 # None
    BY BatchesAssumption
  <2>2. QED BY <1>1, <1>2, <2>1 DEF TextInv, Agrees
<1>6. DoneInv'
  <2>1. \A c \in CurvesOf[b] : Reported(text, c)
    BY <1>2, <1>3, CoveredReported
  <2>2. QED BY <1>1, <1>2, <1>3, <2>1, DoneKept
<1>7. QED BY <1>1, <1>2, <1>4, <1>5, <1>6, PlanKept

\* A crash of Stage1.
LEMMA InterruptedStep ==
    ASSUME IInv, NEW b \in Batches, Interrupted(b)
    PROVE  IInv' /\ IsPrefix(output, output')
<1> USE DEF IInv
<1>1. /\ state' = [state EXCEPT ![b] = "computed"] /\ text' = None /\ holder' = None
      /\ faults < MaxFault /\ faults' = faults + 1
      /\ UNCHANGED <<save, internal, output, receipts, order, range>>
  BY DEF Interrupted, files, CanFail
<1>2. state \in [Batches -> {"computed", "saved", "done", "failed"}] /\ faults \in 0..MaxFault
  BY DEF TypeOK
<1>3. TypeOK'
  <2>1. faults' \in 0..MaxFault
    BY <1>1, <1>2, MaxFaultAssumption
  <2>2. QED BY <1>1, <2>1 DEF TypeOK
<1>4. TextInv'
  <2>1. None \notin Batches /\ Stage2 # None
    BY BatchesAssumption
  <2>2. QED BY <1>1, <2>1 DEF TextInv
<1>5. DoneInv'
  BY <1>1, <1>2, DoneKept, Typed, OutputSame
<1>6. QED BY <1>1, <1>3, <1>4, <1>5, PlanKept, OutputSame

\* A new or a repeated receipt.
LEMMA ReceiveStep ==
    ASSUME IInv, (\E r \in Reports : Receive(r)) \/ Refresh
    PROVE  IInv' /\ IsPrefix(output, output')
<1> USE DEF IInv
<1>1. /\ holder = None /\ holder' = Stage2
      /\ receipts' = receipts \/ \E r \in Reports : r \notin ToSet(receipts) /\ receipts' = Append(receipts, r)
      /\ UNCHANGED <<save, internal, output, order, state, range, text, faults>>
  BY DEF Receive, Refresh, files
<1>2. /\ receipts \in Seq(Reports) /\ Len(receipts) \in Nat /\ DOMAIN receipts = 1..Len(receipts)
      /\ \A i, j \in DOMAIN receipts : i # j => receipts[i] # receipts[j]
  BY LenProperties DEF TypeOK, TextInv
<1>3. receipts' \in Seq(Reports) /\ \A i, j \in DOMAIN receipts' : i # j => receipts'[i] # receipts'[j]
  <2>1. CASE receipts' = receipts
    BY <1>2, <2>1
  <2>2. ASSUME NEW r \in Reports, r \notin ToSet(receipts), receipts' = Append(receipts, r)
        PROVE  receipts' \in Seq(Reports) /\ \A i, j \in DOMAIN receipts' : i # j => receipts'[i] # receipts'[j]
    <3>1. /\ receipts' \in Seq(Reports) /\ DOMAIN receipts' = 1..(Len(receipts) + 1)
          /\ \A i \in 1..Len(receipts) : receipts'[i] = receipts[i]
          /\ receipts'[Len(receipts) + 1] = r
      BY <1>2, <2>2, AppendProperties, LenProperties
    <3>2. \A i \in 1..Len(receipts) : receipts[i] # r
      BY <1>2, <2>2 DEF ToSet
    <3>3. \A i \in 1..(Len(receipts) + 1) : i \in 1..Len(receipts) \/ i = Len(receipts) + 1
      BY <1>2
    <3>4. QED BY <1>2, <3>1, <3>2, <3>3
  <2>3. QED BY <1>1, <2>1, <2>2
<1>4. TypeOK'
  BY <1>1, <1>3 DEF TypeOK
<1>5. TextInv'
  <2>1. text = None /\ Stage2 \notin Batches
    BY <1>1, BatchesAssumption DEF TextInv
  <2>2. QED BY <1>1, <1>3, <2>1 DEF TextInv
<1>6. DoneInv'
  BY <1>1, DoneKept, Typed, OutputSame
<1>7. QED BY <1>1, <1>4, <1>5, <1>6, PlanKept, OutputSame

\* Stage2 writes its history.
LEMMA OrderStep ==
    ASSUME IInv, WriteOrder
    PROVE  IInv' /\ IsPrefix(output, output')
<1> USE DEF IInv
<1> DEFINE t == Ordered \o Text(Unpublished)
<1>1. /\ holder = Stage2 /\ IsPrefix(output, Ordered) /\ text' = t /\ order' = t
      /\ UNCHANGED <<save, internal, output, receipts, state, range, holder, faults>>
  BY DEF WriteOrder
<1>2. t \in Texts /\ Whole(t) /\ IsPrefix(Ordered, t) /\ Good(internal, t) /\ Ordered \in Texts
  BY OrderWritten, OrderedFacts
<1> HIDE DEF t
<1>3. IsPrefix(output, t) /\ t # None
  BY <1>1, <1>2, Typed, PrefixOrder DEF Texts
<1>4. TypeOK'
  BY <1>1, <1>2, <1>3 DEF TypeOK, Texts
<1>5. TextInv'
  <2>1. Stage2 \notin Batches /\ Stage2 # None
    BY BatchesAssumption
  <2>2. QED BY <1>1, <1>2, <1>3, <2>1 DEF TextInv, Agrees
<1>6. DoneInv'
  BY <1>1, DoneKept, Typed, OutputSame
<1>7. QED BY <1>1, <1>4, <1>5, <1>6, PlanKept, OutputSame

\* Stage2 appends, all or a part.
LEMMA AppendStep ==
    ASSUME IInv, AppendText \/ AppendTorn
    PROVE  IInv' /\ IsPrefix(output, output')
<1> USE DEF IInv
<1>1. /\ holder = Stage2 /\ text # None /\ text' = None /\ holder' = None
      /\ output' = text \/ \E n \in Len(output)..Len(text) : output' = SubSeq(text, 1, n)
      /\ faults' = faults \/ (faults < MaxFault /\ faults' = faults + 1)
      /\ UNCHANGED <<save, internal, receipts, order, state, range>>
  BY DEF AppendText, AppendTorn, CanFail
<1>2. order = text /\ text \in Texts /\ Good(internal, text) /\ IsPrefix(output, text) /\ output \in Texts
  BY <1>1, Typed DEF TextInv
<1>3. output' \in Texts /\ IsPrefix(output, output') /\ IsPrefix(output', text)
  <2>1. CASE output' = text
    BY <1>2, <2>1, PrefixOrder DEF Texts
  <2>2. ASSUME NEW n \in Len(output)..Len(text), output' = SubSeq(text, 1, n)
        PROVE  output' \in Texts /\ IsPrefix(output, output') /\ IsPrefix(output', text)
    <3> DEFINE u == SubSeq(text, 1, n)
    <3>1. /\ Len(output) \in Nat /\ Len(text) \in Nat /\ Len(output) <= Len(text)
          /\ \A i \in 1..Len(output) : output[i] = text[i]
      BY <1>2, PrefixIs DEF Texts
    <3>2. n \in Nat /\ Len(output) <= n /\ n <= Len(text) /\ n \in Int
      BY <3>1
    <3>3. \A i \in 1..n : text[i] \in Piece
      <4>1. \A i \in 1..n : i \in 1..Len(text)
        BY <3>1, <3>2
      <4>2. QED BY <1>2, <4>1, ElementOfSeq DEF Texts
    <3>4. /\ u \in Seq(Piece) /\ Len(u) = IF 1 <= n THEN n - 1 + 1 ELSE 0
          /\ \A i \in 1..(n - 1 + 1) : u[i] = text[1 + i - 1]
      <4>1. 1 \in Int /\ n \in Int
        BY <3>2
      <4>2. QED BY <3>3, <4>1, SubSeqProperties
    <3>5. Len(u) = n /\ \A i \in 1..n : u[i] = text[i]
      <4>1. n - 1 + 1 = n /\ \A i \in 1..n : 1 + i - 1 = i
        BY <3>2
      <4>2. 1 <= n \/ n = 0
        BY <3>2
      <4>3. QED BY <3>4, <4>1, <4>2
    <3> HIDE DEF u
    <3>6. u \in Texts
      BY <3>4 DEF Texts
    <3>7. IsPrefix(u, text)
      BY <1>2, <3>2, <3>5, <3>6, PrefixIs DEF Texts
    <3>8. Len(output) <= Len(u) /\ \A i \in 1..Len(output) : output[i] = u[i]
      <4>1. \A i \in 1..Len(output) : i \in 1..n
        BY <3>1, <3>2
      <4>2. QED BY <3>1, <3>2, <3>5, <4>1
    <3>9. IsPrefix(output, u)
      BY <1>2, <3>6, <3>8, PrefixIs DEF Texts
    <3>10. QED BY <2>2, <3>6, <3>7, <3>9 DEF u
  <2>3. QED BY <1>1, <2>1, <2>2
<1>4. Good(internal, output')
  BY <1>2, <1>3, GoodPrefix
<1>5. TypeOK'
  <2>1. faults' \in 0..MaxFault
    BY <1>1, MaxFaultAssumption DEF TypeOK
  <2>2. order # None
    BY <1>1, <1>2
  <2>3. QED BY <1>1, <1>3, <2>1, <2>2 DEF TypeOK, Texts
<1>6. TextInv'
  <2>1. None \notin Batches /\ Stage2 # None
    BY BatchesAssumption
  <2>2. Good(internal, order) /\ Agrees(order, output')
    BY <1>2, <1>3 DEF Agrees
  <2>3. QED BY <1>1, <1>4, <2>1, <2>2 DEF TextInv
<1>7. DoneInv'
  BY <1>1, <1>3, DoneKept
<1>8. QED BY <1>1, <1>3, <1>5, <1>6, <1>7, PlanKept

\* Stage2 lets go without an append.
LEMMA ReleasedStep ==
    ASSUME IInv, Released
    PROVE  IInv' /\ IsPrefix(output, output')
<1> USE DEF IInv
<1>1. /\ text = None /\ holder' = None
      /\ faults' = faults \/ (faults < MaxFault /\ faults' = faults + 1)
      /\ UNCHANGED <<save, internal, output, receipts, order, state, range, text>>
  BY DEF Released, CanFail, files
<1>2. TypeOK'
  <2>1. faults' \in 0..MaxFault
    BY <1>1, MaxFaultAssumption DEF TypeOK
  <2>2. QED BY <1>1, <2>1 DEF TypeOK
<1>3. TextInv'
  <2>1. None \notin Batches /\ Stage2 # None
    BY BatchesAssumption
  <2>2. QED BY <1>1, <2>1 DEF TextInv
<1>4. DoneInv'
  BY <1>1, DoneKept, Typed, OutputSame
<1>5. QED BY <1>1, <1>2, <1>3, <1>4, PlanKept, OutputSame

\* The initial state.
LEMMA InitIInv == Init => IInv
<1> SUFFICES ASSUME Init PROVE IInv
  OBVIOUS
<1>1. /\ save = <<>> /\ internal = <<>> /\ output = <<>> /\ receipts = <<>> /\ order = None
      /\ state = [b \in Batches |-> "computed"] /\ range = [b \in Batches |-> None]
      /\ holder = None /\ text = None /\ faults = 0
  BY DEF Init
<1>2. Whole(output) /\ \A plans : Good(plans, output)
  <2>1. output \in Seq(Piece) /\ Len(output) = 0
    BY <1>1
  <2>2. DOMAIN Rows(output) = 1..Len(Rows(output)) /\ Len(Rows(output)) = Len(output) \div 2
    BY <2>1, RowsFacts
  <2>3. DOMAIN Rows(output) = {}
    BY <2>1, <2>2
  <2>4. QED BY <2>1, <2>3 DEF Whole, Good
<1>3. TypeOK
  <2>1. faults \in 0..MaxFault
    BY <1>1, MaxFaultAssumption
  <2>2. QED BY <1>1, <1>2, <2>1 DEF TypeOK
<1>4. PlanInv /\ TextInv /\ DoneInv
  <2>1. None \notin Batches /\ Stage2 # None
    BY BatchesAssumption
  <2>2. QED BY <1>1, <1>2, <2>1 DEF PlanInv, TextInv, DoneInv
<1>5. QED BY <1>3, <1>4 DEF IInv

\* Every step keeps the invariant, and none takes text out of the submission file.
LEMMA StepIInv == IInv /\ [Next]_vars => IInv' /\ IsPrefix(output, output')
<1> SUFFICES ASSUME IInv, [Next]_vars PROVE IInv' /\ IsPrefix(output, output')
  OBVIOUS
<1>1. ASSUME NEW b \in Batches,
             PublishSave(b) \/ SaveRefused(b) \/ Confirm(b) \/ Commit(b) \/ Export(b) \/ Refused(b) \/ Interrupted(b)
      PROVE  IInv' /\ IsPrefix(output, output')
  BY <1>1, SaveStep, FailedStep, ConfirmStep, CommitStep, ExportStep, InterruptedStep
<1>2. CASE (\E r \in Reports : Receive(r)) \/ Refresh
  BY <1>2, ReceiveStep
<1>3. CASE WriteOrder \/ AppendText \/ AppendTorn \/ Released
  BY <1>3, OrderStep, AppendStep, ReleasedStep
<1>4. CASE UNCHANGED vars
  <2>1. UNCHANGED <<save, internal, output, receipts, order, state, range, holder, text, faults>>
    BY <1>4 DEF vars, files
  <2>2. QED BY <2>1, OutputSame DEF IInv, TypeOK, PlanInv, TextInv, DoneInv, Covered
<1>5. QED BY <1>1, <1>2, <1>3, <1>4 DEF Next

\* The inductive invariant holds in every reachable state.
LEMMA InvariantHolds == Spec => []IInv
<1>1. QED BY InitIInv, StepIInv, PTL DEF Spec

\* Every reachable state is well typed, and every text but that of a torn append has
\* whole lines (publish_stage1_batch, append_submissions).
THEOREM TypeCorrect == Spec => []TypeOK
<1>1. IInv => TypeOK
  BY DEF IInv
<1>2. QED BY <1>1, InvariantHolds, PTL

\* Two lines of a file in order share no curve.
LEMMA ReportsApart == IInv => ReportedOnce
<1> SUFFICES ASSUME IInv, NEW i \in DOMAIN Rows(output), NEW j \in DOMAIN Rows(output),
                    i # j, (Rows(output)[i].kind = "stage2" <=> Rows(output)[j].kind = "stage2")
             PROVE  Rows(output)[i].curves \cap Rows(output)[j].curves = {}
  BY DEF ReportedOnce
<1> DEFINE r == Rows(output)[i]  s == Rows(output)[j]
<1>1. r \in Report /\ s \in Report
  BY Typed, RowsFacts DEF IInv, Texts
<1>2. /\ RowOK(internal, r, i) /\ RowOK(internal, s, j)
      /\ r.kind # "nf" => Identity(r) # Identity(s)
      /\ s.kind # "nf" => Identity(r) # Identity(s)
  BY DEF IInv, TextInv, Good
<1>3. r.kind \in {"factor", "nf", "stage2"} /\ s.kind \in {"factor", "nf", "stage2"}
  BY <1>1 DEF Report
<1> HIDE DEF r, s
<1>4. \A i1, i2 \in DOMAIN internal : i1 # i2 => internal[i1].curves \cap internal[i2].curves = {}
  BY DEF IInv, PlanInv
<1>5. CASE r.kind = s.kind /\ r.kind # "nf"
  <2>1. r.curves # s.curves
    BY <1>2, <1>5 DEF Identity
  <2>2. \E c, d : r.curves = {c} /\ s.curves = {d}
    BY <1>2, <1>3, <1>5 DEF RowOK
  <2>3. QED BY <2>1, <2>2 DEF r, s
<1>6. CASE r.kind = "nf" /\ s.kind = "nf"
  <2>1. PICK k \in DOMAIN internal : r.curves = internal[k].curves \ Hits /\ i = Len(Rows(Published(internal[k])))
    BY <1>2, <1>6 DEF RowOK
  <2>2. PICK l \in DOMAIN internal : s.curves = internal[l].curves \ Hits /\ j = Len(Rows(Published(internal[l])))
    BY <1>2, <1>6 DEF RowOK
  <2>3. k # l
    BY <2>1, <2>2
  <2>4. QED BY <1>4, <2>1, <2>2, <2>3 DEF r, s
<1>7. CASE r.kind = "nf" /\ s.kind = "factor"
  <2>1. \E k \in DOMAIN internal : r.curves = internal[k].curves \ Hits
    BY <1>2, <1>7 DEF RowOK
  <2>2. \E c \in Hits : s.curves = {c}
    BY <1>2, <1>7 DEF RowOK
  <2>3. QED BY <2>1, <2>2 DEF r, s
<1>8. CASE r.kind = "factor" /\ s.kind = "nf"
  <2>1. \E k \in DOMAIN internal : s.curves = internal[k].curves \ Hits
    BY <1>2, <1>8 DEF RowOK
  <2>2. \E c \in Hits : r.curves = {c}
    BY <1>2, <1>8 DEF RowOK
  <2>3. QED BY <2>1, <2>2 DEF r, s
<1>9. r.kind = s.kind \/ (r.kind = "nf" /\ s.kind = "factor") \/ (r.kind = "factor" /\ s.kind = "nf")
  BY <1>3 DEF r, s
<1>10. QED BY <1>5, <1>6, <1>7, <1>8, <1>9

\* No curve enters two Stage1 reports and no Stage2 report is repeated, whatever was
\* replayed, resumed or computed twice (publish_stage1_batch, append_submissions).
THEOREM ReportedOnceCorrect == Spec => []ReportedOnce
<1>1. QED BY ReportsApart, InvariantHolds, PTL

\* Continues is what the code tests.
LEMMA HistoriesAgree ==
    ASSUME IInv, order # None
    PROVE  IsPrefix(output, order) \/ (IsPrefix(order, output) /\ OwnedByStage1(Behind(output, order)))
<1>1. output \in Texts /\ order \in Texts /\ Whole(order)
  BY Typed DEF IInv, TypeOK
<1>2. IsPrefix(output, order) \/ Continues(order, output)
  BY DEF IInv, TextInv, Agrees
<1>3. CASE Continues(order, output)
  <2>1. IsPrefix(order, output)
    BY <1>3 DEF Continues
  <2>2. output = order \/ OwnedByStage1(Behind(output, order))
    BY <1>1, <1>3, <2>1, ContinuesBehind
  <2>3. IsPrefix(order, order)
    BY <1>1, PrefixOrder DEF Texts
  <2>4. QED BY <2>1, <2>2, <2>3
<1>4. QED BY <1>2, <1>3

\* DoneInv says no less than DoneIsPublished.
LEMMA DoneReported == IInv => DoneIsPublished
<1> SUFFICES ASSUME IInv, NEW b \in Batches, state[b] = "done"
             PROVE  /\ SubSeq(save, range[b].skip + 1, range[b].skip + range[b].count) = Points(b)
                    /\ \A c \in CurvesOf[b] : \E r \in ToSet(Rows(output)) : r.kind # "stage2" /\ c \in r.curves
  BY DEF DoneIsPublished
<1>1. InSave(save, range[b], Points(b)) /\ \A c \in CurvesOf[b] : Reported(output, c)
  BY DEF IInv, DoneInv
<1>2. QED BY <1>1 DEF InSave, Reported, ToSet

\* The points of a batch that is done are in the save where its range says, and every
\* curve of it is reported (publish_batch, publish_stage1_batch).
THEOREM DoneIsPublishedCorrect == Spec => []DoneIsPublished
<1>1. QED BY DoneReported, InvariantHolds, PTL

\* No step of either publisher, and no crash, takes a piece of text out of the
\* submission file again (publish_stage1_batch, append_submissions).
THEOREM OutputGrowsCorrect == Spec => OutputGrows
<1>1. IInv /\ [Next]_vars => [IsPrefix(output, output')]_vars
  BY StepIInv
<1>2. QED BY <1>1, InvariantHolds, PTL DEF Spec, OutputGrows

\* The text after the first n batches, when every batch goes on from the one before.
End(plans, n) == IF n = 0 THEN <<>> ELSE Published(plans[n])
\* Every batch goes on from the text of the one before.
Chain(plans) == \A n \in DOMAIN plans : plans[n].prefix = End(plans, n - 1)

\* In a chain the text of a batch is a prefix of that of a later one.
LEMMA ChainOrder ==
    ASSUME NEW plans \in Seq(Entry), Chain(plans), NEW m \in 0..Len(plans), NEW n \in m..Len(plans)
    PROVE  End(plans, m) \in Texts /\ End(plans, n) \in Texts /\ IsPrefix(End(plans, m), End(plans, n))
<1> DEFINE N == Len(plans)
           E(x) == End(plans, x)
           Bad == {x \in m..N : ~IsPrefix(E(m), E(x))}
<1>1. N \in Nat /\ DOMAIN plans = 1..N /\ \A i \in 1..N : plans[i] \in Entry
  BY LenProperties, ElementOfSeq
<1>2. \A x \in 0..N : E(x) \in Texts
  <2>1. ASSUME NEW x \in 1..N PROVE Published(plans[x]) \in Texts
    BY <1>1, ConcatProperties DEF Published, Entry, Texts
  <2>2. <<>> \in Texts
    BY DEF Texts
  <2>3. \A x \in 0..N : x = 0 \/ x \in 1..N
    BY <1>1
  <2>4. QED BY <2>1, <2>2, <2>3 DEF End
<1>3. \A x \in 1..N : plans[x].prefix = E(x - 1) /\ E(x) = plans[x].prefix \o plans[x].tail
  <2>1. ASSUME NEW x \in 1..N PROVE plans[x].prefix = E(x - 1) /\ E(x) = plans[x].prefix \o plans[x].tail
    <3>1. x \in DOMAIN plans /\ x # 0
      BY <1>1
    <3>2. plans[x].prefix = E(x - 1)
      BY <3>1 DEF Chain
    <3>3. QED BY <3>1, <3>2 DEF End, Published
  <2>2. QED BY <2>1
<1>4. \A x \in 1..N : IsPrefix(E(x - 1), E(x))
  <2>1. ASSUME NEW x \in 1..N PROVE IsPrefix(E(x - 1), E(x))
    <3>1. plans[x].prefix \in Seq(Piece) /\ plans[x].tail \in Seq(Piece)
      BY <1>1 DEF Entry
    <3>2. IsPrefix(plans[x].prefix, plans[x].prefix \o plans[x].tail)
      BY <3>1, BehindFacts
    <3>3. QED BY <1>3, <3>2
  <2>2. QED BY <2>1
<1>5. m \in 0..N /\ n \in 0..N /\ m..N \subseteq Nat
  BY <1>1
<1> HIDE DEF E
<1>6. Bad = {}
  <2>1. SUFFICES ASSUME Bad # {} PROVE FALSE
    OBVIOUS
  <2>2. PICK x \in Bad : \A y \in Bad : x <= y
    BY <1>5, <2>1, LeastNumber
  <2>3. x # m
    BY <1>2, <1>5, <2>2, PrefixOrder DEF Texts
  <2>4. x \in 1..N /\ x - 1 \in m..N /\ ~(x <= x - 1) /\ x - 1 \in 0..N /\ x \in 0..N
    BY <1>1, <1>5, <2>2, <2>3
  <2>5. IsPrefix(E(m), E(x - 1))
    BY <2>2, <2>4
  <2>6. IsPrefix(E(m), E(x))
    BY <1>2, <1>4, <1>5, <2>4, <2>5, PrefixOrder DEF Texts
  <2>7. QED BY <2>2, <2>6
<1>7. IsPrefix(E(m), E(n))
  BY <1>6
<1>8. QED BY <1>2, <1>5, <1>7 DEF E

\* From the text of any batch the replay reaches the text of the last one.
LEMMA ChainReplay ==
    ASSUME NEW plans \in Seq(Entry), Chain(plans), NEW i \in 0..Len(plans)
    PROVE  Replays(End(plans, i), plans) = End(plans, Len(plans))
<1> DEFINE N == Len(plans)
           E(x) == End(plans, x)
           last(n) == IF n <= i THEN i ELSE n
<1>0. N \in Nat /\ DOMAIN plans = 1..N
  BY LenProperties
<1>1. PICK a : Replaying(a, E(i), plans) /\ Replays(E(i), plans) = a[N]
  BY <1>0, ReplayExists
<1>2. a[0] = E(i) /\ \A n \in 1..N : a[n] = Replayed(a[n - 1], plans[n])
  <2>1. 0 \in 0..N /\ \A n \in 1..N : n \in 0..N /\ n # 0
    BY <1>0
  <2>2. a = [n \in 0..N |-> IF n = 0 THEN E(i) ELSE Replayed(a[n - 1], plans[n])]
    BY <1>1 DEF Replaying
  <2>3. QED BY <2>1, <2>2
<1>3. ASSUME NEW n \in 1..N, a[n - 1] = E(last(n - 1)) PROVE a[n] = E(last(n))
  <2> DEFINE p == plans[n]  w == p.prefix \o p.tail  t == E(last(n - 1))
  <2>1. p.prefix = E(n - 1) /\ w = E(n)
    <3>1. n \in DOMAIN plans /\ n # 0
      BY <1>0
    <3>2. p.prefix = E(n - 1)
      BY <3>1 DEF Chain
    <3>3. QED BY <3>1, <3>2 DEF End, Published
  <2>2. a[n] = Replayed(t, p)
    BY <1>2, <1>3
  <2>3. n - 1 \in 0..N /\ n \in 0..N /\ last(n - 1) \in 0..N /\ last(n - 1) \in (n - 1)..N /\ n \in (n - 1)..N
    BY <1>0
  <2>4. E(n - 1) \in Texts /\ t \in Texts /\ IsPrefix(E(n - 1), t) /\ E(n) \in Texts /\ IsPrefix(E(n - 1), E(n))
    BY <2>3, ChainOrder
  <2>5. t # None
    BY <2>4, NoneAssumption DEF Texts
  <2>6. a[n] = IF IsPrefix(w, t) THEN t ELSE IF IsPrefix(t, w) THEN w ELSE None
    BY <2>1, <2>2, <2>4, <2>5 DEF Replayed
  <2>7. CASE n <= i
    <3>1. last(n - 1) = i /\ last(n) = i /\ i \in n..N
      BY <1>0, <2>7
    <3>2. IsPrefix(E(n), E(i))
      BY <2>3, <3>1, ChainOrder
    <3>3. QED BY <2>1, <2>6, <3>1, <3>2
  <2>8. CASE ~(n <= i)
    <3>1. last(n - 1) = n - 1 /\ last(n) = n
      BY <1>0, <2>8
    <3>2. t = E(n - 1)
      BY <3>1
    <3> HIDE DEF t, E, w, p, last
    <3>3. CASE IsPrefix(w, t)
      <4>1. E(n) = E(n - 1)
        BY <2>1, <2>4, <3>2, <3>3, PrefixOrder DEF Texts
      <4>2. QED BY <2>6, <3>1, <3>2, <3>3, <4>1
    <3>4. CASE ~IsPrefix(w, t)
      BY <2>1, <2>4, <2>6, <3>1, <3>2, <3>4
    <3>5. QED BY <3>3, <3>4
  <2>9. QED BY <2>7, <2>8
<1> DEFINE Bad == {n \in 0..N : a[n] # E(last(n))}
<1>4. Bad = {}
  <2> HIDE DEF E
  <2>1. SUFFICES ASSUME Bad # {} PROVE FALSE
    OBVIOUS
  <2>2. PICK n \in Bad : \A m \in Bad : n <= m
    <3>1. Bad \in SUBSET Nat
      BY <1>0
    <3>2. QED BY <2>1, <3>1, LeastNumber
  <2>3. n # 0
    <3>1. last(0) = i
      OBVIOUS
    <3>2. QED BY <1>2, <2>2, <3>1
  <2>4. n \in 1..N /\ n - 1 \in 0..N /\ ~(n <= n - 1)
    BY <1>0, <2>2, <2>3
  <2>5. a[n - 1] = E(last(n - 1))
    BY <2>2, <2>4
  <2>6. QED BY <1>3, <2>2, <2>4, <2>5
<1>5. a[N] = E(N)
  <2>1. N \in 0..N /\ last(N) = N
    <3>1. i \in Nat /\ i <= N /\ N \in 0..N
      BY <1>0
    <3>2. N <= i => i = N
      <4>1. N \in Nat
        BY <1>0
      <4> HIDE DEF N
      <4>2. QED BY ONLY <3>1, <4>1
    <3>3. QED BY <3>1, <3>2
  <2> HIDE DEF E
  <2>2. QED BY <1>4, <2>1
<1>6. QED BY <1>1, <1>5

\* Before Stage2 has a history, every batch goes on from the one before, and
\* the file ends with one of them; Stage2 has nothing to append.
AloneInv ==
  order = None =>
    /\ Chain(internal)
    /\ \E i \in 0..Len(internal) : output = End(internal, i)
    /\ holder \in Batches => text = End(internal, Len(internal))

\* Then the repair reaches the text of the last committed batch.
LEMMA AloneRepaired ==
    ASSUME TypeOK, AloneInv, order = None, NEW b
    PROVE  Repaired(b) = End(internal, Len(internal)) /\ Repaired(b) # None
<1>1. PICK i \in 0..Len(internal) : output = End(internal, i)
  BY DEF AloneInv
<1>2. Restored(output) = output
  BY DEF AloneInv, Restored
<1>3. internal \in Seq(Entry) /\ Chain(internal) /\ Len(internal) \in Nat
  BY LenProperties DEF TypeOK, AloneInv
<1>4. Repaired(b) = End(internal, Len(internal))
  <2>1. Replays(End(internal, i), internal) = End(internal, Len(internal))
    BY <1>3, ChainReplay
  <2>2. QED BY <1>1, <1>2, <2>1 DEF Repaired
<1>5. Len(internal) \in 0..Len(internal) /\ Len(internal) \in Len(internal)..Len(internal)
  BY <1>3
<1>6. End(internal, Len(internal)) \in Texts
  BY <1>3, <1>5, ChainOrder
<1>7. QED BY <1>4, <1>6, NoneAssumption DEF Texts

\* It stays so: a step without history before it has none after it, or writes it.
LEMMA AloneStep ==
    ASSUME IInv, AloneInv, [Next]_vars
    PROVE  AloneInv'
<1> SUFFICES ASSUME order' = None PROVE AloneInv'
  BY DEF AloneInv
<1>1. TypeOK /\ internal \in Seq(Entry) /\ Len(internal) \in Nat /\ DOMAIN internal = 1..Len(internal)
  BY LenProperties DEF IInv, TypeOK
<1>2. None \notin Batches /\ Stage2 \notin Batches /\ Stage2 # None
  BY BatchesAssumption
<1>3. ASSUME UNCHANGED <<internal, output, order>>,
             UNCHANGED <<holder, text>> \/ holder' \notin Batches
      PROVE  AloneInv'
  BY <1>2, <1>3 DEF AloneInv
<1>4. ASSUME NEW b \in Batches, PublishSave(b) \/ SaveRefused(b) \/ Refused(b) \/ Interrupted(b) PROVE AloneInv'
  BY <1>2, <1>3, <1>4 DEF PublishSave, SaveRefused, Refused, Interrupted, files
<1>5. ASSUME NEW b \in Batches, Confirm(b) PROVE AloneInv'
  <2>0. order = None
    BY <1>5 DEF Confirm
  <2>1. /\ UNCHANGED <<internal, order, holder, text>> /\ output' = End(internal, Len(internal))
        /\ Len(internal) \in 0..Len(internal)
    BY <1>1, <1>5, <2>0, AloneRepaired DEF Confirm
  <2>2. QED BY <2>1 DEF AloneInv
<1>6. ASSUME NEW b \in Batches, Commit(b) PROVE AloneInv'
  <2> DEFINE t == Repaired(b)
             e == [batch |-> b, curves |-> Fresh(b), prefix |-> t, tail |-> AppendedBy(b, t)]
  <2>1. /\ internal' = Append(internal, e) /\ text' = t \o AppendedBy(b, t) /\ holder' = b
        /\ UNCHANGED <<output, order>>
    BY <1>6 DEF Commit
  <2>0. order = None
    BY <2>1
  <2>2. t = End(internal, Len(internal))
    BY <1>1, <2>0, AloneRepaired
  <2>3. e.prefix = t /\ text' = Published(e)
    BY <2>1 DEF Published
  <2>4. internal' \in Seq(Entry)
    BY <1>6, CommitStep DEF IInv, TypeOK
  <2> HIDE DEF e, t
  <2>5. /\ Len(internal') = Len(internal) + 1 /\ DOMAIN internal' = 1..(Len(internal) + 1)
        /\ \A i \in 1..Len(internal) : internal'[i] = internal[i]
        /\ internal'[Len(internal) + 1] = e
    <3>1. Append(internal, e) = internal'
      BY <2>1
    <3>2. /\ Len(internal') = Len(internal) + 1
          /\ \A i \in 1..Len(internal) : internal'[i] = internal[i]
          /\ internal'[Len(internal) + 1] = e
      BY <1>1, <2>1
    <3>3. QED BY <2>4, <3>2, LenProperties
  <2>6. \A i \in 0..Len(internal) : End(internal', i) = End(internal, i)
    <3>1. \A i \in 0..Len(internal) : i = 0 \/ i \in 1..Len(internal)
      BY <1>1
    <3>2. QED BY <2>5, <3>1 DEF End
  <2>7. Chain(internal')
    <3>1. ASSUME NEW n \in 1..(Len(internal) + 1) PROVE internal'[n].prefix = End(internal', n - 1)
      <4>1. n - 1 \in 0..Len(internal)
        BY <1>1
      <4>2. CASE n = Len(internal) + 1
        <5>1. n - 1 = Len(internal)
          BY <1>1, <4>2
        <5>2. QED BY <2>2, <2>3, <2>5, <2>6, <4>1, <4>2, <5>1
      <4>3. CASE n # Len(internal) + 1
        <5>1. n \in 1..Len(internal)
          BY <1>1, <4>3
        <5>2. internal[n].prefix = End(internal, n - 1)
          BY <1>1, <2>0, <5>1 DEF AloneInv, Chain
        <5>3. QED BY <2>5, <2>6, <4>1, <5>1, <5>2
      <4>4. QED BY <4>2, <4>3
    <3>2. QED BY <2>5, <3>1 DEF Chain
  <2>8. \E i \in 0..Len(internal') : output' = End(internal', i)
    <3>1. PICK i \in 0..Len(internal) : output = End(internal, i)
      BY <2>0 DEF AloneInv
    <3>2. i \in 0..Len(internal') /\ End(internal', i) = End(internal, i)
      BY <1>1, <2>5, <2>6
    <3>3. QED BY <2>1, <3>1, <3>2
  <2>9. text' = End(internal', Len(internal'))
    <3>1. Len(internal) + 1 # 0
      BY <1>1
    <3>2. QED BY <2>3, <2>5, <3>1 DEF End
  <2>10. QED BY <1>2, <2>1, <2>7, <2>8, <2>9 DEF AloneInv
<1>7. ASSUME NEW b \in Batches, Export(b) PROVE AloneInv'
  <2>1. /\ UNCHANGED <<internal, order>> /\ holder' = None
        /\ output' = text /\ text = End(internal, Len(internal)) /\ Len(internal) \in 0..Len(internal)
    BY <1>1, <1>7 DEF Export, AloneInv
  <2>2. QED BY <1>2, <2>1 DEF AloneInv
<1>8. CASE (\E r \in Reports : Receive(r)) \/ Refresh \/ Released
  BY <1>2, <1>3, <1>8 DEF Receive, Refresh, Released, files
<1>9. CASE WriteOrder
  <2>1. order' \in Texts
    BY <1>9, OrderWritten, OrderedFacts DEF WriteOrder, IInv
  <2>2. QED BY <2>1, NoneAssumption DEF Texts
<1>10. ~AppendText /\ ~AppendTorn
  <2>1. holder = Stage2 /\ text # None => order # None
    BY DEF IInv, TextInv
  <2>2. QED BY <2>1 DEF AppendText, AppendTorn
<1>11. CASE UNCHANGED vars
  BY <1>3, <1>11 DEF vars, files
<1>12. QED BY <1>4, <1>5, <1>6, <1>7, <1>8, <1>9, <1>10, <1>11 DEF Next

\* Before Stage2 has a history, what Stage1 has committed can be completed.
LEMMA AloneCompletes == IInv /\ AloneInv => (order = None => CommitCompletes)
<1>1. QED BY AloneRepaired DEF IInv, Repaired, CommitCompletes

\* So it is in every reachable state.
LEMMA AloneHolds == Spec => []AloneInv
<1>1. Init => AloneInv
  <2> SUFFICES ASSUME Init PROVE AloneInv
    OBVIOUS
  <2>1. internal = <<>> /\ Len(internal) = 0 /\ DOMAIN internal = {} /\ 0 \in 0..Len(internal)
    BY DEF Init
  <2>2. QED BY <2>1, BatchesAssumption DEF Init, AloneInv, Chain, End
<1>2. IInv /\ AloneInv /\ [Next]_vars => AloneInv'
  BY AloneStep
<1>3. QED BY <1>1, <1>2, InvariantHolds, PTL DEF Spec

\* Stage1 and Stage2 never take the text of the other for damage, and before the
\* first report of Stage2 what Stage1 has committed can always be completed, after any
\* crashes (restore_publication, append_submissions, replay_stage1_plan).
THEOREM HistoryAgreesCorrect == Spec => []HistoryAgrees
<1>1. IInv /\ AloneInv => HistoryAgrees
  BY HistoriesAgree, AloneCompletes DEF HistoryAgrees
<1>2. QED BY <1>1, InvariantHolds, AloneHolds, PTL

\* Without reports of Stage2 it never has a history.
LEMMA NoHistory ==
    ASSUME Reports = {}
    PROVE  Spec => [](order = None)
<1> DEFINE Silent == order = None /\ receipts = <<>> /\ holder # Stage2
<1>1. Init => Silent
  BY BatchesAssumption DEF Init
<1>2. Silent /\ [Next]_vars => Silent'
  <2> SUFFICES ASSUME Silent, [Next]_vars PROVE Silent'
    OBVIOUS
  <2>1. Stage2 \notin Batches /\ Stage2 # None
    BY BatchesAssumption
  <2>2. ASSUME NEW b \in Batches,
               PublishSave(b) \/ SaveRefused(b) \/ Confirm(b) \/ Commit(b) \/ Export(b) \/ Refused(b) \/ Interrupted(b)
        PROVE  Silent'
    BY <2>1, <2>2 DEF PublishSave, SaveRefused, Confirm, Commit, Export, Refused, Interrupted, files
  <2>3. ~Refresh /\ ~WriteOrder /\ ~AppendText /\ ~AppendTorn /\ ~Released
    BY DEF Refresh, WriteOrder, AppendText, AppendTorn, Released
  <2>4. QED BY <2>2, <2>3 DEF Next, vars, files
<1>3. QED BY <1>1, <1>2, PTL DEF Spec

\* Where Stage2 does not publish, every commit of Stage1 can be completed
\* (replay_stage1_plan): only a second publisher breaks it.
THEOREM CommitCompletesAlone ==
    ASSUME Reports = {}
    PROVE  Spec => []CommitCompletes
<1>1. IInv /\ AloneInv /\ order = None => CommitCompletes
  BY AloneCompletes
<1>2. QED BY <1>1, NoHistory, InvariantHolds, AloneHolds, PTL

-----------------------------------------------------------------------------
\* A record of a worker process that is well typed and consistent.
Sound(p) == p \in Proc /\ Consistent(p)

-----------------------------------------------------------------------------
(***************************************************************************)
(* The functions of WorkerProc.                                            *)
(***************************************************************************)

\* A new record is sound and has no process.
LEMMA NewProcFact == Sound(NewProc) /\ ~Running(NewProc) /\ ~NewProc.want
BY ControlAssumption DEF Sound, NewProc, Proc, Consistent, Running

\* A spawn for a record without a process leaves a sound record.
LEMMA SpawnFact ==
    ASSUME NEW p, Sound(p), ~Running(p), NEW s
    PROVE  /\ Sound(Spawn(p, s))
           /\ Spawn(p, s).want => p.want \/ Running(Spawn(p, s))
BY DEF Spawn, Sound, Proc, Consistent, Running

\* start, whether or not it spawns a process.
LEMMA StartedFact ==
    ASSUME NEW p, Sound(p), NEW s
    PROVE  /\ Sound(Started(p, s))
           /\ Started(p, s).want => p.want \/ Running(Started(p, s))
BY SpawnFact DEF Started

\* stop leaves no process and nothing wanted.
LEMMA StoppedFact ==
    ASSUME NEW p, Sound(p)
    PROVE  /\ Sound(StoppedProc(p))
           /\ ~Running(StoppedProc(p)) /\ ~StoppedProc(p).want
BY DEF StoppedProc, Sound, Proc, Consistent, Running

\* A stop request is sound on a process that is held.
LEMMA AskedFact ==
    ASSUME NEW p, Sound(p), Running(p)
    PROVE  Sound(AskedProc(p)) /\ ~AskedProc(p).want /\ Running(AskedProc(p))
BY DEF AskedProc, Sound, Proc, Consistent, Running

\* The record after a crash, without its process.
LEMMA AfterCrashFact ==
    ASSUME NEW p \in Proc, ~Running(p), ~p.asked
    PROVE  /\ Sound(AfterCrash(p)) /\ AfterCrash(p).want = p.want
           /\ ~Running(AfterCrash(p))
<1>1. BreakerCrashes \in Nat \ {0}  BY ControlAssumption
<1>2. CASE p.crashes + 1 >= BreakerCrashes
  <2>1. 0 \in 0..(BreakerCrashes - 1)  BY <1>1
  <2> QED BY <1>2, <2>1 DEF AfterCrash, Sound, Proc, Consistent, Running
<1>3. CASE ~(p.crashes + 1 >= BreakerCrashes)
  <2>1. p.crashes + 1 \in 0..(BreakerCrashes - 1)  BY <1>1, <1>3 DEF Proc
  <2> QED BY <1>3, <2>1 DEF AfterCrash, Sound, Proc, Consistent, Running
<1> QED BY <1>2, <1>3

\* A poll leaves a sound record; it wants nothing that was not wanted, and a
\* process that is there after it was there before or was wanted.
LEMMA PolledFact ==
    ASSUME NEW p, Sound(p), NEW s
    PROVE  /\ Sound(Polled(p, s))
           /\ Polled(p, s).want => p.want
           /\ Running(Polled(p, s)) => Running(p) \/ p.want
<1> DEFINE gone == [p EXCEPT !.os = "none", !.asked = FALSE]
<1>1. gone \in Proc /\ ~Running(gone) /\ ~gone.asked /\ gone.want = p.want
  BY DEF Sound, Proc, Running
<1>2. CASE p.os \in {"done", "crashed"} /\ ~p.want
  <2>1. Polled(p, s) = [gone EXCEPT !.state = "Stopped"]  BY <1>2 DEF Polled
  <2> QED BY <1>1, <1>2, <2>1 DEF Sound, Proc, Consistent, Running
<1>3. CASE p.os = "done" /\ p.want
  <2>1. Polled(p, s) = [gone EXCEPT !.state = "QueueEmpty"]  BY <1>3 DEF Polled
  <2> QED BY <1>1, <1>3, <2>1 DEF Sound, Proc, Consistent, Running
<1>4. CASE p.os = "crashed" /\ p.want
  <2>1. Polled(p, s) = AfterCrash(gone)  BY <1>4 DEF Polled
  <2> QED BY <1>1, <1>4, <2>1, AfterCrashFact
<1>5. CASE /\ p.os = "none" /\ p.want /\ ~p.tripped
           /\ p.state = "Restarting" /\ p.due
  <2>1. Polled(p, s) = Spawn(p, s)  BY <1>5 DEF Polled
  <2>2. ~Running(p)  BY <1>5 DEF Running
  <2> QED BY <1>5, <2>1, <2>2, SpawnFact
<1>6. CASE /\ ~(p.os \in {"done", "crashed"} /\ ~p.want)
           /\ ~(p.os = "done" /\ p.want) /\ ~(p.os = "crashed" /\ p.want)
           /\ ~(/\ p.os = "none" /\ p.want /\ ~p.tripped
                /\ p.state = "Restarting" /\ p.due)
  <2>1. Polled(p, s) = p  BY <1>6 DEF Polled
  <2> QED BY <2>1
<1> QED BY <1>2, <1>3, <1>4, <1>5, <1>6

-----------------------------------------------------------------------------
(***************************************************************************)
(* The inductive invariant.                                                *)
(***************************************************************************)

\* What may come back by itself is wanted by the user.
WantedInv ==
    \A w \in Workers : proc[w].want \/ w \in autostart => wanted[w]

Inv == ControlTypeOK /\ WantedInv

\* The part of the invariant an action can disturb in one worker.
WorkerInv(w) == Sound(proc[w]) /\ view[w] \in View

LEMMA InvWorkers ==
    ASSUME ControlTypeOK
    PROVE  \A w \in Workers : WorkerInv(w)
BY DEF ControlTypeOK, WorkerInv, Sound

LEMMA StageFact ==
    ASSUME ControlTypeOK, NEW w \in Workers
    PROVE  /\ QueueStage(w) \in Stages
           /\ NewView(QueueStage(w)) \in View
           /\ NewView(view[w].stage) \in View
BY DEF ControlTypeOK, QueueStage, NewView, View, Stages

LEMMA InitInv == ControlInit => Inv
<1> SUFFICES ASSUME ControlInit PROVE Inv  OBVIOUS
<1>1. \A w \in Workers : QueueStage(w) \in Stages  BY DEF QueueStage, Stages
<1>2. head \in [Workers -> {0} \cup Stages]
  BY ControlAssumption DEF ControlInit, Stages
<1>3. proc \in [Workers -> Proc] /\ \A w \in Workers : Consistent(proc[w]) /\ ~proc[w].want
  BY NewProcFact DEF ControlInit, Sound
<1>4. view \in [Workers -> View]  BY <1>1 DEF ControlInit, NewView, View
<1>5. wanted \in [Workers -> BOOLEAN]  BY DEF ControlInit
<1>6. closes \in 0..MaxClose  BY ControlAssumption DEF ControlInit
<1>7. autostart \subseteq Workers /\ missing \in Installations  BY DEF ControlInit
<1>8. ControlTypeOK  BY <1>2, <1>3, <1>4, <1>5, <1>6, <1>7 DEF ControlTypeOK, ControlInit
<1>9. WantedInv  BY <1>3 DEF WantedInv, ControlInit
<1> QED BY <1>8, <1>9 DEF Inv

\* begin_graceful_exit: everything that is held is asked, the rest is left.
LEMMA BeginExitFact ==
    ASSUME Inv, BeginExit
    PROVE  /\ proc' \in [Workers -> Proc] /\ view' \in [Workers -> View]
           /\ \A w \in Workers : /\ Consistent(proc'[w])
                                 /\ proc'[w].want => proc[w].want
                                 /\ Running(proc'[w]) => Running(proc[w])
           /\ phase' = "Stopping" /\ exitDue' = FALSE
<1>1. \A w \in Workers : Sound(proc[w])  BY InvWorkers DEF Inv, WorkerInv
<1>2. \A w \in Workers : /\ Sound(proc'[w])
                         /\ proc'[w].want => proc[w].want
                         /\ Running(proc'[w]) => Running(proc[w])
  <2> TAKE w \in Workers
  <2>1. CASE Running(proc[w])
    <3>1. proc'[w] = AskedProc(proc[w])  BY <2>1 DEF BeginExit
    <3> QED BY <1>1, <2>1, <3>1, AskedFact
  <2>2. CASE ~Running(proc[w])
    <3>1. proc'[w] = proc[w]  BY <2>2 DEF BeginExit
    <3> QED BY <1>1, <2>2, <3>1
  <2> QED BY <2>1, <2>2
<1>3. proc' \in [Workers -> Proc]
  <2>1. proc' = [w \in Workers |-> proc'[w]]  BY Zenon DEF BeginExit
  <2>2. ASSUME NEW w \in Workers PROVE proc'[w] \in Proc
    <3>1. Sound(proc'[w])  BY <1>2
    <3> QED BY <3>1 DEF Sound
  <2> QED BY <2>1, <2>2
<1>4. view' \in [Workers -> View]  BY DEF Inv, ControlTypeOK, BeginExit, AskedView, View
<1> QED BY <1>2, <1>3, <1>4 DEF Sound, BeginExit

\* stop_all_quietly: nothing is held and nothing is wanted.
LEMMA StopAllFact ==
    ASSUME Inv, StopAllQuietly
    PROVE  /\ proc' \in [Workers -> Proc]
           /\ \A w \in Workers : /\ Consistent(proc'[w])
                                 /\ ~proc'[w].want /\ ~Running(proc'[w])
<1>1. \A w \in Workers : Sound(proc[w])  BY InvWorkers DEF Inv, WorkerInv
<1>2. \A w \in Workers : /\ Sound(proc'[w])
                         /\ ~proc'[w].want /\ ~Running(proc'[w])
  BY <1>1, StoppedFact DEF StopAllQuietly
<1> QED BY <1>2 DEF StopAllQuietly, Sound

\* What a tick makes of one worker: sound, and a process that is there after
\* the tick, or may come back, was there, wanted or to be autostarted before.
LEMMA TickedFact ==
    ASSUME Inv, NEW w \in Workers
    PROVE  /\ Sound(Ticked(w).proc) /\ Ticked(w).view \in View
           /\ Ticked(w).proc.want => proc[w].want \/ w \in autostart
           /\ Running(Ticked(w).proc) =>
                 Running(proc[w]) \/ proc[w].want \/ w \in autostart
<1> DEFINE before == ProcAfterStops(w)
           v      == ViewAfterStops(w)
           begun  == Autostarted(w, before)
           after  == Polled(begun, v.stage)
<1>1. Sound(proc[w]) /\ view[w] \in View  BY InvWorkers DEF Inv, WorkerInv
<1>2. /\ Sound(before)
      /\ before.want => proc[w].want
      /\ Running(before) => Running(proc[w])
  BY <1>1, StoppedFact DEF ProcAfterStops
<1>3. v \in View  BY <1>1, StageFact DEF ViewAfterStops, Inv
<1>4. /\ Sound(begun)
      /\ begun.want => before.want \/ w \in autostart
      /\ Running(begun) => Running(before) \/ w \in autostart
  <2>1. CASE begun = before  BY <1>2, <2>1
  <2>2. CASE begun # before
    <3>1. w \in autostart /\ begun = Started(before, view[w].stage)
      BY <2>2 DEF Autostarted
    <3>2. Sound(begun)  BY <1>2, <3>1, StartedFact
    <3> QED BY <3>1, <3>2
  <2> QED BY <2>1, <2>2
<1>5. /\ Sound(after)
      /\ after.want => begun.want
      /\ Running(after) => Running(begun) \/ begun.want
  <2> HIDE DEF begun
  <2> QED BY <1>4, PolledFact
<1>6. CASE OtherStageDue(w, before, after, v)
  <2>1. /\ Ticked(w).proc = Started(NewProc, head[w])
        /\ Ticked(w).view = NewView(head[w])
    BY <1>6 DEF Ticked
  <2>2. Sound(Started(NewProc, head[w]))  BY NewProcFact, StartedFact
  <2>3. NewView(head[w]) \in View
    BY <1>6 DEF OtherStageDue, NewView, View, Stages
  <2>4. SUFFICES ASSUME ~begun.want PROVE FALSE
    <3>1. begun.want => proc[w].want \/ w \in autostart  BY <1>2, <1>4
    <3> QED BY <2>1, <2>2, <2>3, <3>1
  <2>5. after.state = "QueueEmpty" /\ before.state # "QueueEmpty"
    BY <1>6 DEF OtherStageDue
  <2>6. CASE begun.os \in {"done", "crashed"}
    <3>1. after = [[begun EXCEPT !.os = "none", !.asked = FALSE] EXCEPT !.state = "Stopped"]
      BY <2>4, <2>6 DEF Polled
    <3>2. after.state = "Stopped"  BY <1>4, <3>1 DEF Sound, Proc
    <3> QED BY <2>5, <3>2
  <2>7. CASE begun.os \notin {"done", "crashed"}
    <3>1. after = begun  BY <2>4, <2>7 DEF Polled
    <3>2. CASE begun = before  BY <2>5, <3>1, <3>2
    <3>3. CASE begun # before
      <4>1. begun = Started(before, view[w].stage) /\ before.state = "Stopped"
        BY <3>3 DEF Autostarted
      <4>2. begun.state \in {"Stopped", "Error", "Running"}
        BY <1>2, <4>1 DEF Started, Spawn, Sound, Proc
      <4> QED BY <2>5, <3>1, <4>2
    <3> QED BY <3>2, <3>3
  <2> QED BY <2>6, <2>7
<1>7. CASE ~OtherStageDue(w, before, after, v)
  <2>1. Ticked(w).proc = after /\ Ticked(w).view = v  BY <1>7 DEF Ticked
  <2> QED BY <1>2, <1>3, <1>4, <1>5, <2>1
<1> QED BY <1>6, <1>7

\* A step preserves the invariant; a process that is there after it and was
\* not before belongs to a worker whose last command is a start.
LEMMA StepInv ==
    ASSUME Inv, [ControlNext]_controlVars
    PROVE  /\ Inv'
           /\ \A w \in Workers : ~Running(proc[w]) /\ Running(proc'[w]) => wanted'[w]
<1> USE DEF Inv
<1>0. \A w \in Workers : Sound(proc[w]) /\ view[w] \in View
  BY InvWorkers DEF WorkerInv
<1>1. ASSUME NEW S \in SUBSET Workers, StartThese(S)
      PROVE  /\ ControlTypeOK' /\ WantedInv'
             /\ \A u \in Workers : ~Running(proc[u]) /\ Running(proc'[u]) => wanted'[u]
  <2>1. /\ proc' = [w \in Workers |-> IF w \in S THEN Restarted(w) ELSE proc[w]]
        /\ view' = [w \in Workers |-> IF w \in S THEN Refreshed(w) ELSE view[w]]
        /\ wanted' = [w \in Workers |-> w \in S \/ wanted[w]]
        /\ autostart = {}
        /\ UNCHANGED <<head, phase, exitDue, quit, autostart, missing, closes>>
    BY <1>1 DEF StartThese
  <2>2. \A w \in Workers : Sound(Restarted(w))
    BY <1>0, NewProcFact, StartedFact DEF Restarted
  <2>3. \A w \in Workers : Refreshed(w) \in View
    BY <1>0, StageFact DEF Refreshed
  <2>4. \A w \in Workers : Sound(proc'[w])
    BY <1>0, <2>1, <2>2
  <2>5. proc' \in [Workers -> Proc] /\ \A w \in Workers : Consistent(proc'[w])
    BY <2>1, <2>4 DEF Sound
  <2>6. view' \in [Workers -> View]
    BY <2>1, <2>3 DEF ControlTypeOK
  <2>7. wanted' \in [Workers -> BOOLEAN]
    BY <2>1
  <2>8. ASSUME NEW u \in Workers
        PROVE  wanted'[u] \/ (proc'[u] = proc[u] /\ wanted'[u] = wanted[u])
    <3>1. CASE u \in S
      <4>1. wanted'[u] = TRUE
        BY <2>1, <3>1, Zenon
      <4>2. QED BY <4>1
    <3>2. CASE u \notin S
      <4>1. proc'[u] = proc[u]
        BY <2>1, <3>2
      <4>2. wanted'[u] = wanted[u]
        BY <2>1, <3>2 DEF ControlTypeOK
      <4>3. QED BY <4>1, <4>2
    <3>3. QED BY <3>1, <3>2
  <2>9. ControlTypeOK'
    BY <2>1, <2>5, <2>6, <2>7 DEF ControlTypeOK
  <2>10. WantedInv'
    BY <2>1, <2>8 DEF WantedInv
  <2> QED BY <2>8, <2>9, <2>10
<1>2. ASSUME NEW w \in Workers, RequestStop(w)
      PROVE  /\ ControlTypeOK' /\ WantedInv'
             /\ \A u \in Workers : ~Running(proc[u]) /\ Running(proc'[u]) => wanted'[u]
  <2> DEFINE p == IF Running(proc[w]) THEN AskedProc(proc[w]) ELSE StoppedProc(proc[w])
  <2>1. proc' = [proc EXCEPT ![w] = p]  BY <1>2 DEF RequestStop
  <2>2. Sound(p) /\ ~p.want /\ (Running(p) => Running(proc[w]))
    BY <1>0, AskedFact, StoppedFact
  <2> HIDE DEF p
  <2>3. proc' \in [Workers -> Proc]  BY <2>1, <2>2 DEF ControlTypeOK, Sound
  <2>4. view' \in [Workers -> View]  BY <1>2 DEF RequestStop, ControlTypeOK, AskedView, View
  <2>5. \A u \in Workers : Consistent(proc'[u])
    BY <1>0, <2>1, <2>2 DEF ControlTypeOK, Sound
  <2>6. wanted' = [wanted EXCEPT ![w] = FALSE] /\ wanted' \in [Workers -> BOOLEAN]
    BY <1>2 DEF RequestStop, ControlTypeOK
  <2>7. \A u \in Workers : u # w => proc'[u] = proc[u] /\ wanted'[u] = wanted[u]
    BY <2>1, <2>6 DEF ControlTypeOK
  <2>8. proc'[w] = p  BY <2>1 DEF ControlTypeOK
  <2>9. autostart' = autostart  BY <1>2 DEF RequestStop
  <2>10. ControlTypeOK'  BY <1>2, <2>3, <2>4, <2>5, <2>6 DEF RequestStop, ControlTypeOK
  <2>11. WantedInv'
    <3>1. w \notin autostart
      BY <1>2 DEF RequestStop
    <3> QED BY <2>2, <2>7, <2>8, <2>9, <3>1 DEF WantedInv
  <2> QED BY <2>2, <2>7, <2>8, <2>10, <2>11
<1>3. ASSUME NEW c, RequestClose(c)
      PROVE  /\ ControlTypeOK' /\ WantedInv'
             /\ \A u \in Workers : ~Running(proc[u]) /\ Running(proc'[u]) => wanted'[u]
  <2>1. /\ UNCHANGED <<head, autostart, missing, wanted>>
        /\ phase' \in {"Idle", "Confirm", "Stopping"} /\ exitDue' \in BOOLEAN
        /\ quit' \in BOOLEAN /\ closes' \in 0..MaxClose
    <3>1. UNCHANGED <<head, autostart, missing, wanted>>
      BY <1>3 DEF RequestClose
    <3>2. phase' \in {"Idle", "Confirm", "Stopping"} /\ exitDue' \in BOOLEAN
      BY <1>3 DEF RequestClose, ControlTypeOK, BeginExit
    <3>3. quit' \in BOOLEAN
      BY <1>3 DEF RequestClose, ControlTypeOK
    <3>4. closes' = closes \/ (closes < MaxClose /\ closes' = closes + 1)
      BY <1>3, Zenon DEF RequestClose
    <3>5. closes' \in 0..MaxClose
      BY <3>4, ControlAssumption DEF ControlTypeOK
    <3> QED BY <3>1, <3>2, <3>3, <3>5
  <2>2. CASE BeginExit
    BY <2>1, <2>2, BeginExitFact DEF ControlTypeOK, WantedInv
  <2>3. CASE StopAllQuietly /\ UNCHANGED view
    BY <2>1, <2>3, StopAllFact DEF ControlTypeOK, WantedInv
  <2>4. CASE UNCHANGED <<proc, view>>
    BY <2>1, <2>4 DEF ControlTypeOK, WantedInv
  <2> QED BY <1>3, <2>2, <2>3, <2>4 DEF RequestClose
<1>4. ASSUME ConfirmExit
      PROVE  /\ ControlTypeOK' /\ WantedInv'
             /\ \A u \in Workers : ~Running(proc[u]) /\ Running(proc'[u]) => wanted'[u]
  <2>1. BeginExit /\ UNCHANGED <<head, quit, autostart, missing, closes, wanted>>
    BY <1>4 DEF ConfirmExit
  <2> QED BY <2>1, BeginExitFact DEF ControlTypeOK, WantedInv
<1>5. ASSUME ForceClose
      PROVE  /\ ControlTypeOK' /\ WantedInv'
             /\ \A u \in Workers : ~Running(proc[u]) /\ Running(proc'[u]) => wanted'[u]
  <2>1. /\ StopAllQuietly /\ phase' = "Idle" /\ quit' = TRUE
        /\ UNCHANGED <<head, exitDue, autostart, missing, closes, wanted>>
    BY <1>5 DEF ForceClose
  <2>2. view' \in [Workers -> View]  BY <1>5, StageFact DEF ForceClose, ControlTypeOK
  <2> QED BY <2>1, <2>2, StopAllFact DEF ControlTypeOK, WantedInv
<1>6. ASSUME Configure
      PROVE  /\ ControlTypeOK' /\ WantedInv'
             /\ \A u \in Workers : ~Running(proc[u]) /\ Running(proc'[u]) => wanted'[u]
  <2>1. /\ proc' = [w \in Workers |-> NewProc] /\ autostart = {}
        /\ UNCHANGED <<head, phase, exitDue, quit, autostart, missing, closes, wanted>>
    BY <1>6 DEF Configure
  <2>2. view' \in [Workers -> View]  BY <1>6, StageFact DEF Configure, ControlTypeOK
  <2> QED BY <2>1, <2>2, NewProcFact DEF ControlTypeOK, WantedInv, Sound
<1>7. ASSUME Tick
      PROVE  /\ ControlTypeOK' /\ WantedInv'
             /\ \A u \in Workers : ~Running(proc[u]) /\ Running(proc'[u]) => wanted'[u]
  <2>1. /\ proc' = [w \in Workers |-> Ticked(w).proc]
        /\ view' = [w \in Workers |-> Ticked(w).view]
        /\ UNCHANGED <<head, missing, closes, wanted>> /\ autostart' = {}
    BY <1>7 DEF Tick
  <2>2. /\ phase' \in {"Idle", "Confirm", "Stopping"} /\ quit' \in BOOLEAN
        /\ exitDue' \in BOOLEAN
    BY <1>7 DEF Tick, ControlTypeOK
  <2>3. /\ proc' \in [Workers -> Proc] /\ view' \in [Workers -> View]
        /\ \A w \in Workers : Consistent(proc'[w])
    BY <2>1, TickedFact DEF Sound
  <2>4. \A w \in Workers : proc'[w].want \/ Running(proc'[w]) =>
                             Running(proc[w]) \/ wanted'[w]
    BY <2>1, TickedFact DEF WantedInv
  <2>5. \A w \in Workers : proc'[w].want => wanted'[w]
    BY <2>1, TickedFact DEF WantedInv
  <2>6. ControlTypeOK'  BY <2>1, <2>2, <2>3 DEF ControlTypeOK
  <2> QED BY <2>1, <2>4, <2>5, <2>6 DEF WantedInv
<1>8. ASSUME NEW w \in Workers, NEW how \in {"done", "crashed"}, Leave(w, how)
      PROVE  /\ ControlTypeOK' /\ WantedInv'
             /\ \A u \in Workers : ~Running(proc[u]) /\ Running(proc'[u]) => wanted'[u]
  <2>1. /\ proc' = [proc EXCEPT ![w].os = how] /\ Running(proc[w])
        /\ UNCHANGED <<view, head, phase, exitDue, quit, autostart, missing, closes, wanted>>
    BY <1>8 DEF Leave, Running
  <2>2. proc' \in [Workers -> Proc]  BY <2>1 DEF ControlTypeOK, Proc
  <2>3. \A u \in Workers : /\ Consistent(proc'[u]) /\ proc'[u].want = proc[u].want
                           /\ Running(proc'[u]) <=> Running(proc[u])
    BY <2>1 DEF ControlTypeOK, Proc, Consistent, Running
  <2> QED BY <2>1, <2>2, <2>3 DEF ControlTypeOK, WantedInv
<1>9. ASSUME NEW w \in Workers, RestartDue(w) \/ Forget(w)
      PROVE  /\ ControlTypeOK' /\ WantedInv'
             /\ \A u \in Workers : ~Running(proc[u]) /\ Running(proc'[u]) => wanted'[u]
  <2>1. UNCHANGED <<view, head, phase, exitDue, quit, autostart, missing, closes, wanted>>
    BY <1>9 DEF RestartDue, Forget
  <2>2. /\ proc' \in [Workers -> Proc]
        /\ \A u \in Workers : /\ Consistent(proc'[u]) /\ proc'[u].want = proc[u].want
                              /\ Running(proc'[u]) <=> Running(proc[u])
    <3>1. CASE RestartDue(w)
      <4>1. proc' = [proc EXCEPT ![w].due = TRUE]  BY <3>1 DEF RestartDue
      <4>2. proc' \in [Workers -> Proc]
        <5>1. proc \in [Workers -> Proc] /\ proc[w] \in Proc  BY DEF ControlTypeOK
        <5>2. [proc[w] EXCEPT !.due = TRUE] \in Proc  BY <5>1 DEF Proc
        <5> QED BY <4>1, <5>1, <5>2
      <4>3. ASSUME NEW u \in Workers
            PROVE  /\ proc'[u].os = proc[u].os /\ proc'[u].want = proc[u].want
                   /\ proc'[u].state = proc[u].state /\ proc'[u].asked = proc[u].asked
        BY <4>1 DEF ControlTypeOK, Proc
      <4>4. \A u \in Workers : Consistent(proc[u])  BY DEF ControlTypeOK
      <4> QED BY <4>2, <4>3, <4>4 DEF Consistent, Running
    <3>2. CASE Forget(w)
      <4>1. proc' = [proc EXCEPT ![w].crashes = proc[w].crashes - 1] /\ proc[w].crashes > 0
        BY <3>2 DEF Forget
      <4>2. proc[w].crashes - 1 \in 0..(BreakerCrashes - 1)
        BY <4>1, ControlAssumption DEF ControlTypeOK, Proc
      <4> QED BY <4>1, <4>2 DEF ControlTypeOK, Proc, Consistent, Running
    <3> QED BY <1>9, <3>1, <3>2
  <2> QED BY <2>1, <2>2 DEF ControlTypeOK, WantedInv
<1>10. ASSUME NEW w \in Workers, QueueChanges(w)
       PROVE  /\ ControlTypeOK' /\ WantedInv'
              /\ \A u \in Workers : ~Running(proc[u]) /\ Running(proc'[u]) => wanted'[u]
  <2>1. UNCHANGED <<proc, view, phase, exitDue, quit, autostart, missing, closes, wanted>>
    BY <1>10 DEF QueueChanges
  <2>2. head' \in [Workers -> {0} \cup Stages]  BY <1>10 DEF QueueChanges, ControlTypeOK
  <2> QED BY <2>1, <2>2 DEF ControlTypeOK, WantedInv
<1>11. ASSUME NEW w \in Workers, StopDue(w)
       PROVE  /\ ControlTypeOK' /\ WantedInv'
              /\ \A u \in Workers : ~Running(proc[u]) /\ Running(proc'[u]) => wanted'[u]
  <2>1. UNCHANGED <<proc, head, phase, exitDue, quit, autostart, missing, closes, wanted>>
    BY <1>11 DEF StopDue
  <2>2. view' \in [Workers -> View]  BY <1>11 DEF StopDue, ControlTypeOK, View
  <2> QED BY <2>1, <2>2 DEF ControlTypeOK, WantedInv
<1>12. ASSUME Shutdown
       PROVE  /\ ControlTypeOK' /\ WantedInv'
              /\ \A u \in Workers : ~Running(proc[u]) /\ Running(proc'[u]) => wanted'[u]
  <2>1. /\ StopAllQuietly
        /\ UNCHANGED <<view, head, phase, exitDue, quit, autostart, missing, closes, wanted>>
    BY <1>12 DEF Shutdown
  <2> QED BY <2>1, StopAllFact DEF ControlTypeOK, WantedInv
<1>13. ASSUME CancelClose \/ ExitDue \/ UNCHANGED controlVars
       PROVE  /\ ControlTypeOK' /\ WantedInv'
              /\ \A u \in Workers : ~Running(proc[u]) /\ Running(proc'[u]) => wanted'[u]
  BY <1>13 DEF CancelClose, ExitDue, controlVars, ControlTypeOK, WantedInv
<1>14. ASSUME \E w \in Workers : Start(w)
       PROVE  \E S \in SUBSET Workers : StartThese(S)
  BY <1>14 DEF Start
<1>15. ASSUME StartAll
       PROVE  \E S \in SUBSET Workers : StartThese(S)
  BY <1>15 DEF StartAll
<1> QED BY <1>1, <1>2, <1>3, <1>4, <1>5, <1>6, <1>7, <1>8, <1>9, <1>10, <1>11, <1>12, <1>13, <1>14, <1>15
        DEF ControlNext, Finish, Crash

-----------------------------------------------------------------------------
\* Every reachable state is well typed, and every worker is in a consistent
\* state: shown as running exactly while a process is held, and not wanted
\* once its process was asked to stop.
THEOREM ControlTypeCorrect == ControlSpec => []ControlTypeOK
<1>1. ControlInit => Inv  BY InitInv
<1>2. Inv /\ [ControlNext]_controlVars => Inv'  BY StepInv
<1>3. Inv => ControlTypeOK  BY DEF Inv
<1> QED BY <1>1, <1>2, <1>3, PTL DEF ControlSpec

\* No automatic start brings a stopped worker back: a tick that restarts a
\* crashed worker, changes its stage or does the autostart only ever starts a
\* worker whose last command is a start.
THEOREM StopCorrect == ControlSpec => StopHolds
<1>1. ControlInit => Inv  BY InitInv
<1>2. Inv /\ [ControlNext]_controlVars => Inv'  BY StepInv
<1>3. Inv /\ [ControlNext]_controlVars =>
         [\A w \in Workers : ~Running(proc[w]) /\ Running(proc'[w]) => wanted'[w]]_controlVars
  BY StepInv
<1> QED BY <1>1, <1>2, <1>3, PTL DEF ControlSpec, StopHolds
=============================================================================
