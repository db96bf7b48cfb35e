------------------------- MODULE WorktodoFileProofs -------------------------
(***************************************************************************)
(* Facts about the operators of WorktodoFile, for lines of any kind L.     *)
(***************************************************************************)
EXTENDS WorktodoFile, TLAPS, WellFoundedInduction, SequenceTheorems, FiniteSetTheorems

\* A nonempty set of naturals has a least element, and Min picks it.
LEMMA MinOfNats ==
    ASSUME NEW S \in SUBSET Nat, S # {}
    PROVE  Min(S) \in S /\ \A y \in S : Min(S) <= y
<1>1. PICK R : /\ IsWellFoundedOn(R, Nat)
               /\ \A x, y \in Nat : y < x => <<y, x>> \in R
  <2>1. IsWellFoundedOn(OpToRel(<, Nat), Nat)
    BY NatLessThanWellFounded
  <2>2. \A x, y \in Nat : y < x => <<y, x>> \in OpToRel(<, Nat)
    BY DEF OpToRel
  <2>3. QED BY <2>1, <2>2, Zenon
<1>2. PICK x \in S : \A y \in S : ~(<<y, x>> \in R)
  BY <1>1, WFMin
<1>3. ASSUME NEW y \in S PROVE x <= y
  <2>1. ~(y < x)  BY <1>1, <1>2
  <2>2. QED BY <2>1
<1>4. QED BY <1>3 DEF Min

\* Taking one line out of a file leaves a file.
LEMMA RemoveLine ==
    ASSUME NEW L, NEW f \in Seq(L), NEW i \in 1..Len(f)
    PROVE  RemoveAt(f, i) \in Seq(L)
<1>1. SubSeq(f, 1, i - 1) \in Seq(L) /\ SubSeq(f, i + 1, Len(f)) \in Seq(L)
  BY SubSeqProperties
<1>2. QED BY <1>1, ConcatProperties DEF RemoveAt

\* So does replacing one line by another.
LEMMA ReplaceLine ==
    ASSUME NEW L, NEW f \in Seq(L), NEW i \in 1..Len(f), NEW l \in L
    PROVE  ReplaceAt(f, i, l) \in Seq(L)
BY ExceptSeq DEF ReplaceAt

\* A ticket that was found stands on a line of the file, and that line is a
\* task line with exactly its text.
LEMMA TicketLine ==
    ASSUME NEW L, NEW f \in Seq(L), NEW w, NEW r, Found(f, w, r)
    PROVE  LET i == Min(TicketAt(f, w, r))
           IN  i \in 1..Len(f) /\ f[i].kind = "Task" /\ f[i].row = r
<1>1. TicketAt(f, w, r) \in SUBSET Nat /\ TicketAt(f, w, r) # {}
  BY LenProperties DEF Found, TicketAt, TaskAt
<1>2. Min(TicketAt(f, w, r)) \in TicketAt(f, w, r)
  BY <1>1, MinOfNats
<1>3. QED BY <1>2, LenProperties DEF TicketAt, TaskAt

\* ecm_worktodo_advance writes a file again, whatever the action.
LEMMA AdvancedIsFile ==
    ASSUME NEW L, NEW f \in Seq(L), NEW w, NEW r, Found(f, w, r),
           NEW a \in {"Remove", "MarkError", "Replace"}, NEW n,
           a = "MarkError" => ErrorLine(r) \in L,
           a = "Replace" => TaskLine(n) \in L
    PROVE  Advanced(f, w, r, a, n) \in Seq(L)
<1>1. Min(TicketAt(f, w, r)) \in 1..Len(f)
  BY TicketLine
<1>2. CASE a = "Remove"
  BY <1>1, <1>2, RemoveLine DEF Advanced, RemoveTicket
<1>3. CASE a = "MarkError"
  BY <1>1, <1>3, ReplaceLine DEF Advanced, ReplaceTicket
<1>4. CASE a = "Replace"
  BY <1>1, <1>4, ReplaceLine DEF Advanced, ReplaceTicket
<1>5. QED BY <1>2, <1>3, <1>4

\* The line a worker reads is a task line of its section, and the row is found
\* again by its text.
LEMMA ReadIsTask ==
    ASSUME NEW L, NEW f \in Seq(L), NEW w, NEW sel, NEW c, ReadNext(f, w, sel, c) # 0
    PROVE  LET i == ReadNext(f, w, sel, c)
           IN  /\ i \in TaskAt(f, w)
               /\ i \in 1..Len(f) /\ f[i] \in L /\ f[i].kind = "Task"
               /\ Found(f, w, f[i].row)
<1> DEFINE cand == Selected(f, w, sel)
<1>1. cand \in SUBSET TaskAt(f, w)
  BY DEF Selected
<1>2. TaskAt(f, w) \in SUBSET (1..Len(f))
  BY LenProperties DEF TaskAt
<1>3. cand # {} /\ ReadNext(f, w, sel, c) = Min(cand)
  BY DEF ReadNext
<1>4. ReadNext(f, w, sel, c) \in TaskAt(f, w)
  BY <1>1, <1>2, <1>3, MinOfNats
<1>5. /\ f[ReadNext(f, w, sel, c)] \in L
      /\ f[ReadNext(f, w, sel, c)].kind = "Task"
  BY <1>2, <1>4, ElementOfSeq DEF TaskAt
<1>6. QED BY <1>2, <1>4, <1>5 DEF Found, TicketAt

\* RemoveAt closes the gap: the lines before it stay, the later ones move up.
LEMMA RemoveIndex ==
    ASSUME NEW L, NEW f \in Seq(L), NEW i \in 1..Len(f)
    PROVE  /\ Len(RemoveAt(f, i)) = Len(f) - 1
           /\ DOMAIN RemoveAt(f, i) = 1..(Len(f) - 1)
           /\ \A j \in 1..(Len(f) - 1) :
                RemoveAt(f, i)[j] = IF j < i THEN f[j] ELSE f[j + 1]
<1> DEFINE a == SubSeq(f, 1, i - 1)  b == SubSeq(f, i + 1, Len(f))
<1>1. /\ a \in Seq(L) /\ Len(a) = i - 1
      /\ \A j \in 1..(i - 1) : a[j] = f[j]
  BY LenProperties, SubSeqProperties
<1>2. /\ b \in Seq(L) /\ Len(b) = Len(f) - i
      /\ \A j \in 1..(Len(f) - i) : b[j] = f[i + j]
  BY LenProperties, SubSeqProperties
<1>3. RemoveAt(f, i) = a \o b
  BY DEF RemoveAt
<1> HIDE DEF a, b
<1>4. Len(f) \in Nat
  BY LenProperties
<1>5. /\ Len(a \o b) = Len(f) - 1 /\ a \o b \in Seq(L)
      /\ \A j \in 1..(Len(f) - 1) : (a \o b)[j] = IF j <= i - 1 THEN a[j] ELSE b[j - (i - 1)]
  <2>1. /\ a \o b \in Seq(L) /\ Len(a \o b) = Len(a) + Len(b)
        /\ \A j \in 1..(Len(a) + Len(b)) :
              (a \o b)[j] = IF j <= Len(a) THEN a[j] ELSE b[j - Len(a)]
    BY <1>1, <1>2, ConcatProperties
  <2>2. Len(a) + Len(b) = Len(f) - 1
    BY <1>1, <1>2, <1>4
  <2> HIDE DEF a, b
  <2>3. QED BY <1>1, <2>1, <2>2
<1>6. ASSUME NEW j \in 1..(Len(f) - 1)
      PROVE  (a \o b)[j] = IF j < i THEN f[j] ELSE f[j + 1]
  <2>1. CASE j < i
    BY <1>1, <1>4, <1>5, <2>1
  <2>2. CASE ~(j < i)
    <3>1. j - (i - 1) \in 1..(Len(f) - i) /\ i + (j - (i - 1)) = j + 1 /\ ~(j <= i - 1)
      BY <1>4, <2>2
    <3>2. QED BY <1>2, <1>5, <2>2, <3>1
  <2>3. QED BY <2>1, <2>2
<1>7. DOMAIN (a \o b) = 1..(Len(f) - 1)
  BY <1>5, LenProperties
<1>8. QED BY <1>3, <1>5, <1>6, <1>7

\* A row that stands on another line than the removed or replaced one stays.
LEMMA DeliveredElsewhere ==
    ASSUME NEW L, NEW f \in Seq(L), NEW i \in 1..Len(f), NEW done, NEW r,
           f[i].kind = "Task" => f[i].row # r,
           Delivered(f, done, r)
    PROVE  /\ Delivered(RemoveAt(f, i), done, r)
           /\ \A l : Delivered(ReplaceAt(f, i, l), done, r)
<1>1. CASE r \in done
  BY <1>1 DEF Delivered
<1>2. CASE r \notin done
  <2>1. PICK j \in 1..Len(f) : f[j].kind = "Task" /\ f[j].row = r
    BY <1>2, LenProperties DEF Delivered
  <2>2. i # j /\ Len(f) \in Nat
    BY <2>1, LenProperties
  <2>3. Delivered(RemoveAt(f, i), done, r)
    <3> DEFINE k == IF j < i THEN j ELSE j - 1
    <3>1. k \in 1..(Len(f) - 1) /\ (IF k < i THEN k ELSE k + 1) = j
      BY <2>2
    <3>2. k \in DOMAIN RemoveAt(f, i) /\ RemoveAt(f, i)[k] = f[j]
      BY <3>1, RemoveIndex
    <3>3. QED BY <2>1, <3>2 DEF Delivered
  <2>4. ASSUME NEW l PROVE Delivered(ReplaceAt(f, i, l), done, r)
    <3>1. j \in DOMAIN ReplaceAt(f, i, l) /\ ReplaceAt(f, i, l)[j] = f[j]
      BY <2>2, LenProperties DEF ReplaceAt
    <3>2. QED BY <2>1, <3>1 DEF Delivered
  <2>5. QED BY <2>3, <2>4
<1>3. QED BY <1>1, <1>2

\* ecm_worktodo_advance takes no other row away than its ticket ...
LEMMA DeliveredAdvanced ==
    ASSUME NEW L, NEW f \in Seq(L), NEW w, NEW t, Found(f, w, t),
           NEW a \in {"Remove", "MarkError", "Replace"}, NEW n, NEW done, NEW r, r # t,
           Delivered(f, done, r)
    PROVE  Delivered(Advanced(f, w, t, a, n), done, r)
<1> DEFINE i == Min(TicketAt(f, w, t))
<1>1. i \in 1..Len(f) /\ f[i].row # r
  BY TicketLine
<1>2. Delivered(RemoveAt(f, i), done, r) /\ \A l : Delivered(ReplaceAt(f, i, l), done, r)
  BY <1>1, DeliveredElsewhere
<1>3. QED BY <1>2 DEF Advanced, RemoveTicket, ReplaceTicket

\* ... and a replacement stands in the queue afterwards.
LEMMA DeliveredReplacement ==
    ASSUME NEW L, NEW f \in Seq(L), NEW w, NEW t, Found(f, w, t), NEW n, NEW done
    PROVE  Delivered(Advanced(f, w, t, "Replace", n), done, n)
<1> DEFINE i == Min(TicketAt(f, w, t))
<1>1. i \in 1..Len(f)
  BY TicketLine
<1>2. i \in DOMAIN ReplaceAt(f, i, TaskLine(n)) /\ ReplaceAt(f, i, TaskLine(n))[i] = TaskLine(n)
  BY <1>1, LenProperties DEF ReplaceAt
<1>3. QED BY <1>2 DEF Advanced, ReplaceTicket, Delivered, TaskLine

(***************************************************************************)
(* Counting: how many lines of a file are of a kind K, a set of lines.     *)
(***************************************************************************)
Places(f, K) == {j \in DOMAIN f : f[j] \in K}
HowMany(f, K)  == Cardinality(Places(f, K))

LEMMA CountIsNat ==
    ASSUME NEW L, NEW f \in Seq(L), NEW K
    PROVE  IsFiniteSet(Places(f, K)) /\ HowMany(f, K) \in Nat
<1>1. Len(f) \in Nat /\ DOMAIN f = 1..Len(f)
  BY LenProperties
<1>2. IsFiniteSet(1..Len(f))
  BY <1>1, FS_Interval
<1>3. Places(f, K) \subseteq 1..Len(f)
  BY <1>1 DEF Places
<1>4. IsFiniteSet(Places(f, K))
  BY <1>2, <1>3, FS_Subset
<1>5. QED BY <1>4, FS_CardinalityType DEF HowMany

\* Removing a line of kind K takes one off the count, any other line nothing.
LEMMA CountRemoved ==
    ASSUME NEW L, NEW f \in Seq(L), NEW i \in 1..Len(f), NEW K
    PROVE  HowMany(RemoveAt(f, i), K) = IF f[i] \in K THEN HowMany(f, K) - 1 ELSE HowMany(f, K)
<1> DEFINE g == RemoveAt(f, i)
           rest == Places(f, K) \ {i}
           up == [j \in rest |-> IF j < i THEN j ELSE j - 1]
<1>1. /\ Len(f) \in Nat /\ DOMAIN f = 1..Len(f) /\ i \in Nat
      /\ DOMAIN g = 1..(Len(f) - 1)
      /\ \A j \in 1..(Len(f) - 1) : g[j] = IF j < i THEN f[j] ELSE f[j + 1]
  BY LenProperties, RemoveIndex
<1> HIDE DEF g
<1>2. IsFiniteSet(rest)
  BY CountIsNat, FS_Subset
<1>3. \A j \in rest : j \in 1..Len(f) /\ j # i /\ f[j] \in K
  BY <1>1 DEF Places
<1>4. up \in Bijection(rest, Places(g, K))
  <2>1. ASSUME NEW j \in rest PROVE up[j] \in Places(g, K)
    <3>1. CASE j < i
      BY <1>1, <1>3, <3>1 DEF Places
    <3>2. CASE j > i
      <4>1. j - 1 \in 1..(Len(f) - 1) /\ ~(j - 1 < i) /\ (j - 1) + 1 = j /\ ~(j < i)
        BY <1>1, <1>3, <3>2
      <4>2. g[j - 1] = f[j]
        BY <1>1, <4>1
      <4>3. QED BY <1>1, <1>3, <4>1, <4>2 DEF Places
    <3>3. QED BY <1>1, <1>3, <3>1, <3>2
  <2>2. \A j, k \in rest : up[j] = up[k] => j = k
    BY <1>1, <1>3
  <2>3. ASSUME NEW k \in Places(g, K) PROVE \E j \in rest : up[j] = k
    <3>1. k \in 1..(Len(f) - 1) /\ g[k] \in K
      BY <1>1 DEF Places
    <3>2. CASE k < i
      <4>1. k \in rest /\ up[k] = k
        BY <1>1, <3>1, <3>2 DEF Places
      <4>2. QED BY <4>1
    <3>3. CASE ~(k < i)
      <4>1. k + 1 \in rest
        BY <1>1, <3>1, <3>3 DEF Places
      <4>2. ~(k + 1 < i) /\ (k + 1) - 1 = k
        BY <1>1, <3>1, <3>3
      <4>3. up[k + 1] = k
        BY <4>1, <4>2
      <4>4. QED BY <4>1, <4>3
    <3>4. QED BY <3>2, <3>3
  <2> HIDE DEF rest
  <2>4. up \in [rest -> Places(g, K)]
    BY <2>1
  <2> HIDE DEF up
  <2>5. up \in Injection(rest, Places(g, K))
    BY <2>2, <2>4 DEF Injection, IsInjective
  <2>6. up \in Surjection(rest, Places(g, K))
    BY <2>3, <2>4 DEF Surjection
  <2>7. QED BY <2>5, <2>6 DEF Bijection
<1>5. HowMany(g, K) = Cardinality(rest)
  <2>1. ExistsBijection(rest, Places(g, K))
    BY <1>4 DEF ExistsBijection
  <2>2. QED BY <1>2, <2>1, FS_Bijection DEF HowMany
<1>6. CASE f[i] \in K
  <2>1. i \in Places(f, K)
    BY <1>1, <1>6 DEF Places
  <2>2. Cardinality(rest) = HowMany(f, K) - 1
    BY <2>1, CountIsNat, FS_RemoveElement DEF HowMany
  <2>3. QED BY <1>5, <1>6, <2>2 DEF g
<1>7. CASE f[i] \notin K
  <2>1. rest = Places(f, K)
    BY <1>7 DEF Places
  <2>2. QED BY <1>5, <1>7, <2>1 DEF g, HowMany
<1>8. QED BY <1>6, <1>7

\* Replacing a line of kind K by one of another kind takes one off the count,
\* replacing a line of kind K by one of its kind leaves it.
LEMMA CountReplaced ==
    ASSUME NEW L, NEW f \in Seq(L), NEW i \in 1..Len(f), NEW K, f[i] \in K, NEW l
    PROVE  HowMany(ReplaceAt(f, i, l), K) = IF l \in K THEN HowMany(f, K) ELSE HowMany(f, K) - 1
<1>1. DOMAIN f = 1..Len(f)
  BY LenProperties
<1>2. CASE l \in K
  <2>1. Places(ReplaceAt(f, i, l), K) = Places(f, K)
    BY <1>1, <1>2 DEF Places, ReplaceAt
  <2>2. QED BY <1>2, <2>1 DEF HowMany
<1>3. CASE l \notin K
  <2>1. Places(ReplaceAt(f, i, l), K) = Places(f, K) \ {i}
    BY <1>1, <1>3 DEF Places, ReplaceAt
  <2>2. i \in Places(f, K)
    BY <1>1 DEF Places
  <2>3. Cardinality(Places(f, K) \ {i}) = HowMany(f, K) - 1
    BY <2>2, CountIsNat, FS_RemoveElement DEF HowMany
  <2>4. QED BY <1>3, <2>1, <2>3 DEF HowMany
<1>4. QED BY <1>2, <1>3

\* Appending a line of another kind leaves the count.
LEMMA CountAppended ==
    ASSUME NEW L, NEW f \in Seq(L), NEW K, NEW l \in L, l \notin K
    PROVE  HowMany(Append(f, l), K) = HowMany(f, K)
<1>1. /\ DOMAIN f = 1..Len(f) /\ Len(f) \in Nat
      /\ DOMAIN Append(f, l) = 1..(Len(f) + 1)
      /\ \A j \in 1..Len(f) : Append(f, l)[j] = f[j]
      /\ Append(f, l)[Len(f) + 1] = l
  BY AppendProperties, LenProperties
<1>2. 1..(Len(f) + 1) = (1..Len(f)) \cup {Len(f) + 1}
  BY <1>1
<1>3. Places(Append(f, l), K) = Places(f, K)
  BY <1>1, <1>2 DEF Places
<1>4. QED BY <1>3 DEF HowMany

(***************************************************************************)
(* Picking lines.  The n-th smallest line number of a set exists for every *)
(* n up to its size, and the lines picked are in the order of the file.    *)
(***************************************************************************)
\* A nonempty bounded set of naturals has a greatest element, and Max picks it.
LEMMA MaxOfNats ==
    ASSUME NEW n \in Nat, NEW S \in SUBSET (0..n), S # {}
    PROVE  Max(S) \in S /\ \A y \in S : y <= Max(S)
<1> DEFINE T == {n - y : y \in S}
<1>0. \A y \in S : y \in Nat /\ y <= n /\ n - y \in Nat
  OBVIOUS
<1>1. T \in SUBSET Nat /\ T # {}
  BY <1>0
<1>2. Min(T) \in T /\ \A z \in T : Min(T) <= z
  BY <1>1, MinOfNats
<1>3. PICK x \in S : n - x = Min(T)
  BY <1>2
<1>4. ASSUME NEW y \in S PROVE x >= y
  <2>1. n - x <= n - y
    BY <1>2, <1>3
  <2>2. QED BY <1>0, <2>1
<1>5. QED BY <1>4 DEF Max

Below(S, i) == {k \in S : k <= i}

LEMMA BelowFacts ==
    ASSUME NEW n \in Nat, NEW S \in SUBSET (1..n)
    PROVE  /\ IsFiniteSet(S) /\ Cardinality(S) \in Nat
           /\ \A i \in Nat : /\ Cardinality(Below(S, i)) \in Nat
                             /\ IsFiniteSet(Below(S, i))
                             /\ Cardinality(Below(S, i)) <= Cardinality(S)
           /\ \A i \in Nat, j \in S : i < j => Cardinality(Below(S, i)) < Cardinality(Below(S, j))
           /\ \A j \in S : Cardinality(Below(S, j)) >= 1
<1>0. \A j \in S : j \in Nat /\ 0 < j /\ j <= n
  OBVIOUS
<1>1. IsFiniteSet(S) /\ Cardinality(S) \in Nat
  <2>1. IsFiniteSet(1..n)
    BY FS_Interval
  <2>2. QED BY <2>1, FS_Subset, FS_CardinalityType
<1>2. ASSUME NEW i \in Nat
      PROVE  /\ Cardinality(Below(S, i)) \in Nat /\ IsFiniteSet(Below(S, i))
             /\ Cardinality(Below(S, i)) <= Cardinality(S)
  <2>1. Below(S, i) \in SUBSET S
    BY DEF Below
  <2>2. QED BY <1>1, <2>1, FS_Subset, FS_CardinalityType
<1>3. ASSUME NEW i \in Nat, NEW j \in S, i < j
      PROVE  Cardinality(Below(S, i)) < Cardinality(Below(S, j))
  <2>1. j \notin Below(S, i) /\ j \in Nat
    BY <1>0, <1>3 DEF Below
  <2>2. Below(S, i) \cup {j} \in SUBSET Below(S, j)
    <3>1. \A k \in Below(S, i) : k \in S /\ k <= i /\ k <= j
      BY <1>0, <1>3 DEF Below
    <3>2. \A k \in Below(S, i) : k \in Below(S, j)
      BY <3>1 DEF Below
    <3>3. j \in Below(S, j)
      BY <1>0 DEF Below
    <3>4. QED BY <3>2, <3>3
  <2>3. Cardinality(Below(S, i) \cup {j}) = Cardinality(Below(S, i)) + 1
    BY <1>2, <2>1, FS_AddElement
  <2>4. Cardinality(Below(S, i) \cup {j}) <= Cardinality(Below(S, j))
    BY <1>2, <2>1, <2>2, FS_Subset
  <2>5. QED BY <1>2, <2>1, <2>3, <2>4
<1>4. ASSUME NEW j \in S PROVE Cardinality(Below(S, j)) >= 1
  <2>1. j \in Nat /\ 0 < j
    BY <1>0
  <2>2. Cardinality(Below(S, 0)) < Cardinality(Below(S, j))
    BY <1>3, <2>1
  <2>3. QED BY <1>2, <2>1, <2>2
<1>5. QED BY <1>1, <1>2, <1>3, <1>4

LEMMA NthFacts ==
    ASSUME NEW n \in Nat, NEW S \in SUBSET (1..n)
    PROVE  /\ \A x \in 1..Cardinality(S) : Nth(S, x) \in S /\ Cardinality(Below(S, Nth(S, x))) = x
           /\ \A i \in S : /\ Cardinality(Below(S, i)) \in 1..Cardinality(S)
                           /\ Nth(S, Cardinality(Below(S, i))) = i
           /\ \A x, y \in 1..Cardinality(S) : x < y => Nth(S, x) < Nth(S, y)
<1> DEFINE c(i) == Cardinality(Below(S, i))
<1> S \subseteq Nat /\ \A j \in S : j \in Nat /\ 0 < j /\ j <= n
  OBVIOUS
<1>0. /\ Cardinality(S) \in Nat /\ IsFiniteSet(S)
      /\ \A i \in Nat : c(i) \in Nat /\ IsFiniteSet(Below(S, i)) /\ c(i) <= Cardinality(S)
      /\ \A i \in Nat, j \in S : i < j => c(i) < c(j)
      /\ \A j \in S : c(j) >= 1
  BY BelowFacts
<1>1. ASSUME NEW x \in 1..Cardinality(S) PROVE \E i \in S : c(i) = x
  <2> DEFINE I == {i \in Nat : c(i) >= x}
  <2>1. Below(S, n) = S /\ Below(S, 0) = {}
    <3>1. \A k \in S : k \in Below(S, n) /\ k \notin Below(S, 0)
      BY DEF Below
    <3>2. Below(S, n) \subseteq S /\ Below(S, 0) \subseteq S
      BY DEF Below
    <3>3. QED BY <3>1, <3>2
  <2>2. c(n) = Cardinality(S) /\ c(0) = 0
    BY <2>1, FS_EmptySet
  <2>3. n \in I /\ 0 \notin I
    BY <1>0, <2>2
  <2>4. I \in SUBSET Nat /\ I # {}
    BY <2>3
  <2>5. Min(I) \in I /\ \A y \in I : Min(I) <= y
    BY <2>4, MinOfNats
  <2>6. PICK i \in I : \A y \in I : i <= y
    BY <2>5
  <2>7. i \in Nat /\ i - 1 \in Nat /\ c(i) >= x /\ ~(c(i - 1) >= x)
    <3>1. i \in Nat /\ i # 0 /\ c(i) >= x
      BY <2>3, <2>6
    <3>2. i - 1 \in Nat /\ i - 1 \notin I
      BY <2>6, <3>1
    <3>3. QED BY <3>1, <3>2
  <2> HIDE DEF I
  <2>8. \A k \in S : k # i => (k <= i <=> k <= i - 1)
    BY <2>7
  <2>9. i \in S
    <3>1. CASE i \notin S
      <4>1. Below(S, i) = Below(S, i - 1)
        BY <2>8, <3>1 DEF Below
      <4>2. QED BY <2>7, <4>1
    <3>2. QED BY <3>1
  <2>10. i \notin Below(S, i - 1) /\ Below(S, i) = Below(S, i - 1) \cup {i}
    <3>1. i \notin Below(S, i - 1) /\ i \in Below(S, i)
      BY <2>7, <2>9 DEF Below
    <3>2. \A k \in S : k # i => (k \in Below(S, i) <=> k \in Below(S, i - 1))
      BY <2>8 DEF Below
    <3>3. Below(S, i) \subseteq S /\ Below(S, i - 1) \subseteq S
      BY DEF Below
    <3>4. QED BY <3>1, <3>2, <3>3
  <2>11. c(i) = c(i - 1) + 1
    BY <1>0, <2>7, <2>10, FS_AddElement
  <2>12. c(i) = x
    BY <1>0, <2>7, <2>11
  <2>13. QED BY <2>9, <2>12
<1>2. ASSUME NEW x \in 1..Cardinality(S) PROVE Nth(S, x) \in S /\ c(Nth(S, x)) = x
  BY <1>1, <1>2 DEF Nth, Below
<1>3. ASSUME NEW i \in S, NEW j \in S, c(i) = c(j) PROVE i = j
  <2>1. i \in Nat /\ j \in Nat
    OBVIOUS
  <2>2. ~(i < j) /\ ~(j < i)
    BY <1>0, <1>3, <2>1
  <2>3. QED BY <2>1, <2>2
<1>4. ASSUME NEW i \in S PROVE c(i) \in 1..Cardinality(S) /\ Nth(S, c(i)) = i
  <2>1. i \in Nat
    OBVIOUS
  <2>2. c(i) \in 1..Cardinality(S)
    BY <1>0, <2>1
  <2>3. QED BY <1>2, <1>3, <2>2
<1>5. ASSUME NEW x \in 1..Cardinality(S), NEW y \in 1..Cardinality(S), x < y
      PROVE  Nth(S, x) < Nth(S, y)
  <2>1. Nth(S, x) \in S /\ Nth(S, y) \in S /\ c(Nth(S, x)) = x /\ c(Nth(S, y)) = y
    BY <1>2
  <2>2. Nth(S, x) \in Nat /\ Nth(S, y) \in Nat
    BY <2>1
  <2>3. ~(Nth(S, y) < Nth(S, x)) /\ Nth(S, x) # Nth(S, y)
    BY <1>0, <1>5, <2>1, <2>2
  <2>4. QED BY <2>2, <2>3
<1>6. QED BY <1>2, <1>4, <1>5

\* p takes the lines S to the lines T, all of them and in their order.
Carries(p, S, T) ==
    /\ p \in [S -> T]
    /\ \A i, j \in S : i < j => p[i] < p[j]
    /\ \A t \in T : \E i \in S : p[i] = t

\* A map onto T that keeps the order counts T.
LEMMA SizeMapped ==
    ASSUME NEW n \in Nat, NEW S \in SUBSET (1..n), NEW T, NEW p \in [S -> T],
           \A i, j \in S : i < j => p[i] < p[j],
           \A i \in S : p[i] \in Nat,
           \A t \in T : \E i \in S : p[i] = t
    PROVE  Cardinality(T) = Cardinality(S)
<1>1. IsFiniteSet(S)
  BY BelowFacts
<1>2. ASSUME NEW i \in S, NEW j \in S, p[i] = p[j] PROVE i = j
  <2>1. i \in Nat /\ j \in Nat /\ p[i] \in Nat
    OBVIOUS
  <2>2. ~(p[i] < p[j]) /\ ~(p[j] < p[i])
    BY <1>2, <2>1
  <2>3. ~(i < j) /\ ~(j < i)
    BY <2>2
  <2>4. QED BY <2>1, <2>3
<1>3. p \in Injection(S, T)
  BY <1>2 DEF Injection, IsInjective
<1>4. p \in Surjection(S, T)
  BY DEF Surjection
<1>5. ExistsBijection(S, T)
  BY <1>3, <1>4 DEF ExistsBijection, Bijection
<1>6. QED BY <1>1, <1>5, FS_Bijection

\* It takes the x-th line to the x-th line.
LEMMA NthMapped ==
    ASSUME NEW n \in Nat, NEW m \in Nat, NEW S \in SUBSET (1..n), NEW T \in SUBSET (1..m),
           NEW p, Carries(p, S, T)
    PROVE  /\ Cardinality(T) = Cardinality(S)
           /\ \A x \in 1..Cardinality(S) : p[Nth(S, x)] = Nth(T, x)
<1> p \in [S -> T] /\ (\A i, j \in S : i < j => p[i] < p[j]) /\ \A t \in T : \E i \in S : p[i] = t
  BY DEF Carries
<1>0. /\ \A i \in S : i \in Nat /\ p[i] \in Nat /\ p[i] \in T
      /\ \A t \in T : t \in Nat
  <2>1. \A t \in T : t \in Nat
    OBVIOUS
  <2>2. \A i \in S : i \in Nat /\ p[i] \in T
    OBVIOUS
  <2>3. QED BY <2>1, <2>2
<1>1. Cardinality(T) = Cardinality(S)
  BY <1>0, SizeMapped
<1>2. ASSUME NEW i \in S PROVE Cardinality(Below(T, p[i])) = Cardinality(Below(S, i))
  <2> DEFINE B == Below(S, i)  C == Below(T, p[i])  q == [k \in B |-> p[k]]
  <2>1. \A k \in B : k \in S /\ k <= i
    BY DEF Below
  <2>2. \A k \in S : p[k] <= p[i] <=> k <= i
    <3>1. ASSUME NEW k \in S PROVE p[k] <= p[i] <=> k <= i
      <4>1. k \in Nat /\ i \in Nat /\ p[k] \in Nat /\ p[i] \in Nat
        BY <1>0
      <4>2. k < i => p[k] < p[i]
        OBVIOUS
      <4>3. i < k => p[i] < p[k]
        OBVIOUS
      <4>4. k < i \/ k = i \/ i < k
        BY <4>1
      <4>5. QED BY <4>1, <4>2, <4>3, <4>4
    <3>2. QED BY <3>1
  <2>3. \A k \in B : p[k] \in C
    BY <1>0, <2>1, <2>2 DEF Below
  <2>4. \A t \in C : \E k \in B : p[k] = t
    BY <2>2 DEF Below
  <2> HIDE DEF B, C
  <2>5. q \in [B -> C]
    BY <2>3
  <2>6. \A k \in B : q[k] = p[k]
    OBVIOUS
  <2>7. B \in SUBSET (1..n)
    BY <2>1
  <2> HIDE DEF q
  <2>8. /\ \A j, k \in B : j < k => q[j] < q[k]
        /\ \A k \in B : q[k] \in Nat
        /\ \A t \in C : \E k \in B : q[k] = t
    BY <1>0, <2>1, <2>4, <2>6
  <2>9. Cardinality(C) = Cardinality(B)
    BY <2>5, <2>7, <2>8, SizeMapped
  <2>10. QED BY <2>9 DEF B, C
<1>3. ASSUME NEW x \in 1..Cardinality(S) PROVE p[Nth(S, x)] = Nth(T, x)
  <2>1. Nth(S, x) \in S /\ Cardinality(Below(S, Nth(S, x))) = x
    BY NthFacts
  <2>2. PICK i \in S : i = Nth(S, x)
    BY <2>1
  <2>3. p[i] \in T /\ Cardinality(Below(T, p[i])) = x
    BY <1>2, <2>1, <2>2
  <2>4. Nth(T, Cardinality(Below(T, p[i]))) = p[i]
    BY <2>3, NthFacts
  <2>5. QED BY <2>2, <2>3, <2>4
<1>4. QED BY <1>1, <1>3

\* The lines without the r-th one.
LEMMA NthWithout ==
    ASSUME NEW n \in Nat, NEW S \in SUBSET (1..n), NEW k \in S
    PROVE  LET r == Cardinality(Below(S, k))
           IN  /\ r \in 1..Cardinality(S) /\ Nth(S, r) = k /\ Cardinality(S) \in Nat
               /\ Cardinality(S \ {k}) = Cardinality(S) - 1
               /\ \A x \in 1..(Cardinality(S) - 1) :
                     Nth(S \ {k}, x) = IF x < r THEN Nth(S, x) ELSE Nth(S, x + 1)
<1> DEFINE r == Cardinality(Below(S, k))
           T == S \ {k}
<1>0. /\ \A i \in S : i \in Nat
      /\ IsFiniteSet(S) /\ Cardinality(S) \in Nat
      /\ \A i \in S : IsFiniteSet(Below(S, i)) /\ Cardinality(Below(S, i)) \in Nat
  <2>1. \A i \in S : i \in Nat
    OBVIOUS
  <2>2. QED BY <2>1, BelowFacts
<1>1. r \in 1..Cardinality(S) /\ Nth(S, r) = k
  BY NthFacts
<1>2. Cardinality(T) = Cardinality(S) - 1 /\ T \in SUBSET (1..n)
  BY <1>0, FS_RemoveElement
<1>3. ASSUME NEW i \in T
      PROVE  Nth(T, IF i < k THEN Cardinality(Below(S, i)) ELSE Cardinality(Below(S, i)) - 1) = i
  <2>1. i \in S /\ i # k /\ i \in Nat /\ k \in Nat
    BY <1>0
  <2>2. CASE i < k
    <3>1. \A j \in S : j <= i => j # k
      BY <1>0, <2>1, <2>2
    <3>2. Below(T, i) = Below(S, i)
      BY <3>1 DEF Below
    <3>3. Nth(T, Cardinality(Below(T, i))) = i
      BY <1>2, NthFacts
    <3>4. QED BY <2>2, <3>2, <3>3
  <2>3. CASE ~(i < k)
    <3>1. k <= i
      BY <2>1, <2>3
    <3>2. k \in Below(S, i) /\ Below(T, i) = Below(S, i) \ {k}
      BY <3>1 DEF Below
    <3>3. Cardinality(Below(T, i)) = Cardinality(Below(S, i)) - 1
      <4>1. IsFiniteSet(Below(S, i))
        BY <1>0, <2>1
      <4> DEFINE B == Below(S, i)
      <4>2. k \in B /\ IsFiniteSet(B) /\ Below(T, i) = B \ {k}
        BY <3>2, <4>1
      <4> HIDE DEF B, T
      <4>3. Cardinality(B \ {k}) = Cardinality(B) - 1
        BY <4>2, FS_RemoveElement
      <4>4. QED BY <4>2, <4>3 DEF B
    <3>4. Nth(T, Cardinality(Below(T, i))) = i
      BY <1>2, NthFacts
    <3>5. QED BY <2>3, <3>3, <3>4
  <2>4. QED BY <2>2, <2>3
<1>4. ASSUME NEW x \in 1..(Cardinality(S) - 1)
      PROVE  Nth(T, x) = IF x < r THEN Nth(S, x) ELSE Nth(S, x + 1)
  <2>0. x \in Nat /\ r \in Nat /\ x \in 1..Cardinality(S) /\ x + 1 \in 1..Cardinality(S)
    BY <1>0, <1>1
  <2>1. CASE x < r
    <3>1. Nth(S, x) \in S /\ Cardinality(Below(S, Nth(S, x))) = x
      BY <2>0, NthFacts
    <3>2. Nth(S, x) < Nth(S, r)
      BY <1>1, <2>0, <2>1, NthFacts
    <3>3. PICK i \in S : i = Nth(S, x) /\ Cardinality(Below(S, i)) = x /\ i < k
      BY <1>1, <3>1, <3>2
    <3>4. i \in T
      BY <1>0, <3>3
    <3>5. Nth(T, x) = i
      BY <1>3, <3>3, <3>4
    <3>6. QED BY <2>1, <3>3, <3>5
  <2>2. CASE ~(x < r)
    <3>0. r < x + 1
      BY <2>0, <2>2
    <3>1. Nth(S, x + 1) \in S /\ Cardinality(Below(S, Nth(S, x + 1))) = x + 1
      BY <2>0, NthFacts
    <3>2. Nth(S, r) < Nth(S, x + 1)
      BY <1>1, <2>0, <3>0, NthFacts
    <3>3. PICK i \in S : i = Nth(S, x + 1) /\ Cardinality(Below(S, i)) = x + 1 /\ k < i
      BY <1>1, <3>1, <3>2
    <3>4. i \in T /\ ~(i < k) /\ (x + 1) - 1 = x
      BY <1>0, <2>0, <3>3
    <3>5. Nth(T, (x + 1) - 1) = i
      BY <1>3, <3>3, <3>4
    <3>6. QED BY <2>2, <3>3, <3>4, <3>5
  <2>3. QED BY <2>1, <2>2
<1>5. QED BY <1>0, <1>1, <1>2, <1>4

\* The lines picked are a file.
LEMMA PickIsFile ==
    ASSUME NEW L, NEW f \in Seq(L), NEW S \in SUBSET (1..Len(f))
    PROVE  /\ Pick(f, S) \in Seq(L) /\ Len(Pick(f, S)) = Cardinality(S)
           /\ DOMAIN Pick(f, S) = 1..Cardinality(S) /\ Cardinality(S) \in Nat
<1>1. Len(f) \in Nat
  BY LenProperties
<1>2. Cardinality(S) \in Nat /\ \A x \in 1..Cardinality(S) : Nth(S, x) \in S
  BY <1>1, BelowFacts, NthFacts
<1>3. \A x \in 1..Cardinality(S) : f[Nth(S, x)] \in L
  BY <1>2, ElementOfSeq
<1>4. Pick(f, S) \in [1..Cardinality(S) -> L]
  BY <1>3 DEF Pick
<1>5. Pick(f, S) \in Seq(L)
  BY <1>2, <1>4, SeqDef
<1>6. DOMAIN Pick(f, S) = 1..Cardinality(S)
  BY DEF Pick
<1>7. Len(Pick(f, S)) \in Nat /\ 1..Len(Pick(f, S)) = 1..Cardinality(S)
  BY <1>5, <1>6, LenProperties
<1>8. QED BY <1>2, <1>5, <1>6, <1>7

(***************************************************************************)
(* Sections.  The section of a line is what the last header up to it says, *)
(* or 1.  It stays what it is when lines that are no headers, or redundant *)
(* headers, go or come.                                                    *)
(***************************************************************************)
IsHeader(f, i) == f[i].kind = "Header"

LEMMA SectionIs ==
    ASSUME NEW f, NEW i \in Nat
    PROVE  /\ (\A j \in 1..i : ~IsHeader(f, j)) => Section(f, i) = 1
           /\ \A h \in 1..i : IsHeader(f, h) /\ (\A j \in (h + 1)..i : ~IsHeader(f, j))
                 => Section(f, i) = f[h].w
<1>1. CASE \A j \in 1..i : ~IsHeader(f, j)
  BY <1>1 DEF Section, Headers, IsHeader
<1>2. ASSUME NEW h \in 1..i, IsHeader(f, h), \A j \in (h + 1)..i : ~IsHeader(f, j)
      PROVE  Section(f, i) = f[h].w
  <2>1. h \in Headers(f, i) /\ Headers(f, i) \in SUBSET (0..i)
    BY <1>2 DEF Headers, IsHeader
  <2>2. Max(Headers(f, i)) \in Headers(f, i) /\ h <= Max(Headers(f, i))
    BY <2>1, MaxOfNats
  <2>3. Max(Headers(f, i)) \in 1..i /\ IsHeader(f, Max(Headers(f, i)))
    BY <2>2 DEF Headers, IsHeader
  <2>4. Max(Headers(f, i)) = h
    BY <1>2, <2>2, <2>3
  <2>5. QED BY <2>1, <2>4 DEF Section
<1>3. QED BY <1>1, <1>2

\* The last header up to line i, if there is one.
LEMMA LastHeader ==
    ASSUME NEW f, NEW i \in Nat, NEW g \in 1..i, IsHeader(f, g)
    PROVE  \E h \in g..i : /\ IsHeader(f, h) /\ Section(f, i) = f[h].w
                           /\ \A j \in (h + 1)..i : ~IsHeader(f, j)
<1>1. g \in Headers(f, i) /\ Headers(f, i) \in SUBSET (0..i)
  BY DEF Headers, IsHeader
<1>2. PICK h \in Headers(f, i) : \A j \in Headers(f, i) : j <= h
  BY <1>1, MaxOfNats
<1>3. h \in g..i /\ IsHeader(f, h)
  BY <1>1, <1>2 DEF Headers, IsHeader
<1>4. ASSUME NEW j \in (h + 1)..i PROVE ~IsHeader(f, j)
  <2>1. j \in 1..i /\ ~(j <= h)
    BY <1>3
  <2>2. QED BY <1>2, <2>1 DEF Headers, IsHeader
<1>5. QED BY <1>3, <1>4, SectionIs

\* Section depends on the lines up to i only.
LEMMA SectionOfPrefix ==
    ASSUME NEW f, NEW g, NEW i \in Nat, \A j \in 1..i : g[j] = f[j]
    PROVE  Section(g, i) = Section(f, i)
<1>1. CASE \A j \in 1..i : ~IsHeader(f, j)
  BY <1>1, SectionIs DEF IsHeader
<1>2. ASSUME NEW k \in 1..i, IsHeader(f, k) PROVE Section(g, i) = Section(f, i)
  <2>1. PICK h \in k..i : /\ IsHeader(f, h) /\ Section(f, i) = f[h].w
                          /\ \A j \in (h + 1)..i : ~IsHeader(f, j)
    BY <1>2, LastHeader
  <2>2. h \in 1..i /\ \A j \in (h + 1)..i : j \in 1..i
    OBVIOUS
  <2>3. IsHeader(g, h) /\ g[h].w = f[h].w /\ \A j \in (h + 1)..i : ~IsHeader(g, j)
    BY <2>1, <2>2 DEF IsHeader
  <2>4. QED BY <2>1, <2>2, <2>3, SectionIs
<1>3. QED BY <1>1, <1>2

\* Between a header that is kept and the next one, the headers that go say the
\* same worker again.
LEMMA SameWorker ==
    ASSUME NEW f, NEW b \in Nat, NEW a \in 1..b, IsHeader(f, a),
           \A q \in (a + 1)..b : IsHeader(f, q) => Redundant(f, q)
    PROVE  \A q \in (a + 1)..b : IsHeader(f, q) => f[q].w = f[a].w
<1> DEFINE Bad == {q \in (a + 1)..b : IsHeader(f, q) /\ f[q].w # f[a].w}
<1>1. SUFFICES ASSUME Bad # {} PROVE FALSE
  OBVIOUS
<1>2. Bad \in SUBSET Nat
  OBVIOUS
<1>3. PICK q \in Bad : \A r \in Bad : q <= r
  BY <1>1, <1>2, MinOfNats
<1>4. q \in (a + 1)..b /\ IsHeader(f, q) /\ f[q].w # f[a].w /\ q \in Nat /\ a \in Nat /\ a < q
  BY <1>3
<1>5. PICK j \in 1..(q - 1) : /\ IsHeader(f, j) /\ f[j].w = f[q].w
                              /\ \A k \in (j + 1)..(q - 1) : ~IsHeader(f, k)
  BY <1>4 DEF Redundant, IsHeader
<1>6. ~(j < a)
  <2>1. CASE j < a
    <3>1. a \in (j + 1)..(q - 1)
      BY <1>4, <2>1
    <3>2. QED BY <1>5, <3>1
  <2>2. QED BY <2>1
<1>7. j # a
  BY <1>4, <1>5
<1>8. j \in (a + 1)..b /\ j < q /\ j \in Nat
  BY <1>4, <1>6, <1>7
<1>9. j \in Bad
  BY <1>4, <1>5, <1>8
<1>10. QED BY <1>3, <1>4, <1>8, <1>9

\* g is f without some lines, p says where its lines come from.
Part(f, n, g, m, p) ==
    /\ p \in [1..m -> 1..n]
    /\ \A i, j \in 1..m : i < j => p[i] < p[j]
    /\ \A i \in 1..m : g[i] = f[p[i]]

LEMMA SectionOfPart ==
    ASSUME NEW n \in Nat, NEW m \in Nat, NEW f, NEW g, NEW p, Part(f, n, g, m, p),
           \A i \in 1..n : (\A j \in 1..m : p[j] # i) /\ IsHeader(f, i) => Redundant(f, i)
    PROVE  \A i \in 1..m : Section(g, i) = Section(f, p[i])
<1> SUFFICES ASSUME NEW i \in 1..m PROVE Section(g, i) = Section(f, p[i])
  OBVIOUS
<1>1. /\ i \in Nat /\ p[i] \in Nat /\ p[i] \in 1..n
      /\ \A j \in 1..m : p[j] \in 1..n /\ p[j] \in Nat /\ g[j] = f[p[j]]
      /\ \A j, k \in 1..m : j < k => p[j] < p[k]
  BY DEF Part
<1>2. \A j \in 1..m : p[j] <= p[i] <=> j <= i
  <2>1. \A j \in 1..m : j < i \/ j = i \/ i < j
    OBVIOUS
  <2>2. QED BY <1>1, <2>1
<1>3. CASE \A k \in 1..p[i] : ~IsHeader(f, k)
  <2>1. ASSUME NEW j \in 1..i PROVE ~IsHeader(g, j)
    <3>1. j \in 1..m /\ p[j] \in 1..p[i]
      BY <1>1, <1>2
    <3>2. QED BY <1>1, <1>3, <3>1 DEF IsHeader
  <2>2. QED BY <1>1, <1>3, <2>1, SectionIs
<1>4. ASSUME NEW k0 \in 1..p[i], IsHeader(f, k0) PROVE Section(g, i) = Section(f, p[i])
  <2> DEFINE H == {j \in 1..i : IsHeader(g, j)}
             F == {k \in 1..p[i] : IsHeader(f, k)}
  <2>1. H # {}
    <3>1. F \in SUBSET Nat /\ F # {}
      BY <1>4
    <3>2. PICK a \in F : \A k \in F : a <= k
      BY <3>1, MinOfNats
    <3>3. ~Redundant(f, a)
      <4>1. ASSUME NEW j \in 1..(a - 1) PROVE ~IsHeader(f, j)
        <5>1. j \in 1..p[i] /\ ~(a <= j)
          BY <1>1, <3>2
        <5>2. QED BY <3>2, <5>1
      <4>2. QED BY <4>1 DEF Redundant, IsHeader
    <3>4. a \in 1..n /\ IsHeader(f, a) /\ a <= p[i]
      BY <1>1, <3>2
    <3>5. PICK j \in 1..m : p[j] = a
      BY <3>3, <3>4
    <3>6. j \in 1..i /\ IsHeader(g, j)
      BY <1>1, <1>2, <3>4, <3>5 DEF IsHeader
    <3>7. QED BY <3>6
  <2>2. PICK j \in H : \A k \in H : k <= j
    <3>1. H \in SUBSET (0..i)
      OBVIOUS
    <3>2. QED BY <1>1, <2>1, <3>1, MaxOfNats
  <2>3. j \in 1..i /\ j \in 1..m /\ IsHeader(g, j) /\ j \in Nat
    BY <2>2
  <2>4. p[j] \in 1..p[i] /\ IsHeader(f, p[j])
    BY <1>1, <1>2, <2>3 DEF IsHeader
  <2>5. ASSUME NEW q \in (p[j] + 1)..p[i], IsHeader(f, q) PROVE Redundant(f, q)
    <3>1. ASSUME NEW k \in 1..m, p[k] = q PROVE FALSE
      <4>1. k <= i /\ ~(k <= j)
        <5>1. p[k] <= p[i] /\ ~(p[k] <= p[j])
          BY <1>1, <2>3, <2>5, <3>1
        <5>2. \A x \in 1..m : x < j => p[x] < p[j]
          BY <1>1, <2>3
        <5>3. k <= i /\ k # j /\ ~(k < j)
          BY <1>1, <1>2, <3>1, <5>1, <5>2
        <5>4. QED BY <2>3, <5>3
      <4>2. IsHeader(g, k)
        BY <1>1, <2>5, <3>1 DEF IsHeader
      <4>3. k \in H
        BY <4>1, <4>2
      <4>4. QED BY <2>2, <4>1, <4>3
    <3>2. q \in 1..n
      BY <1>1, <2>4
    <3>3. QED BY <2>5, <3>1, <3>2
  <2>6. PICK h \in p[j]..p[i] : /\ IsHeader(f, h) /\ Section(f, p[i]) = f[h].w
    BY <1>1, <2>4, LastHeader
  <2>7. \A q \in (p[j] + 1)..p[i] : IsHeader(f, q) => f[q].w = f[p[j]].w
    BY <1>1, <2>4, <2>5, SameWorker
  <2>8. f[h].w = f[p[j]].w
    <3>1. h = p[j] \/ h \in (p[j] + 1)..p[i]
      BY <1>1, <2>3
    <3>2. QED BY <2>6, <2>7, <3>1
  <2>9. ASSUME NEW k \in (j + 1)..i PROVE ~IsHeader(g, k)
    <3>1. k \in 1..i /\ ~(k <= j)
      BY <2>3
    <3>2. QED BY <2>2, <3>1
  <2>10. Section(g, i) = g[j].w
    BY <1>1, <2>3, <2>9, SectionIs
  <2>11. QED BY <1>1, <2>3, <2>6, <2>8, <2>10
<1>5. QED BY <1>3, <1>4

LEMMA SectionGoesOn ==
    ASSUME NEW f, NEW i \in Nat, ~IsHeader(f, i + 1)
    PROVE  Section(f, i + 1) = Section(f, i)
<1>1. \A j \in 1..(i + 1) : j \in 1..i \/ j = i + 1
  OBVIOUS
<1>2. CASE \A j \in 1..i : ~IsHeader(f, j)
  <2>1. \A j \in 1..(i + 1) : ~IsHeader(f, j)
    BY <1>1, <1>2
  <2>2. Section(f, i) = 1
    BY <1>2, SectionIs
  <2>3. i + 1 \in Nat
    OBVIOUS
  <2>4. QED BY <2>1, <2>2, <2>3, SectionIs
<1>3. ASSUME NEW k \in 1..i, IsHeader(f, k) PROVE Section(f, i + 1) = Section(f, i)
  <2>1. PICK h \in k..i : /\ IsHeader(f, h) /\ Section(f, i) = f[h].w
                          /\ \A j \in (h + 1)..i : ~IsHeader(f, j)
    BY <1>3, LastHeader
  <2>2. h \in 1..(i + 1) /\ \A j \in (h + 1)..(i + 1) : j \in (h + 1)..i \/ j = i + 1
    OBVIOUS
  <2>3. \A j \in (h + 1)..(i + 1) : ~IsHeader(f, j)
    BY <2>1, <2>2
  <2>4. i + 1 \in Nat
    OBVIOUS
  <2>5. QED BY <2>1, <2>2, <2>3, <2>4, SectionIs
<1>4. QED BY <1>2, <1>3

(***************************************************************************)
(* The task lines of f stand in g: in the same order, with the same text   *)
(* and in the section they were in; up says where.                         *)
(***************************************************************************)
Tasks(f) == {i \in DOMAIN f : f[i].kind = "Task"}

Embeds(f, g, up) ==
    /\ up \in [Tasks(f) -> Tasks(g)]
    /\ \A i, j \in Tasks(f) : i < j => up[i] < up[j]
    /\ \A i \in Tasks(f) : g[up[i]] = f[i] /\ Section(g, up[i]) = Section(f, i)

HeadersFrom(f, g, S) ==
    \A i \in DOMAIN g : IsHeader(g, i) =>
        g[i].w \in S \/ \E j \in DOMAIN f : IsHeader(f, j) /\ f[j].w = g[i].w

\* The compaction drops headers and nothing else, and no section changes.
LEMMA CompactEmbeds ==
    ASSUME NEW L, NEW f \in Seq(L)
    PROVE  /\ Compact(f) \in Seq(L)
           /\ HeadersFrom(f, Compact(f), {})
           /\ \E up : Embeds(f, Compact(f), up)
                      /\ \A k \in Tasks(Compact(f)) : \E i \in Tasks(f) : up[i] = k
<1> DEFINE n == Len(f)
           keep == {i \in DOMAIN f : ~Redundant(f, i)}
           m == Cardinality(keep)
           g == Compact(f)
           p == [x \in 1..m |-> Nth(keep, x)]
           c(i) == Cardinality(Below(keep, i))
           up == [i \in Tasks(f) |-> c(i)]
<1>1. n \in Nat /\ DOMAIN f = 1..n /\ keep \in SUBSET (1..n)
  BY LenProperties
<1>2. g = Pick(f, keep)
  BY DEF Compact
<1>3. g \in Seq(L) /\ DOMAIN g = 1..m /\ m \in Nat
  BY <1>1, <1>2, PickIsFile
<1>4. /\ \A x \in 1..m : Nth(keep, x) \in keep /\ c(Nth(keep, x)) = x
      /\ \A i \in keep : c(i) \in 1..m /\ Nth(keep, c(i)) = i
      /\ \A x, y \in 1..m : x < y => Nth(keep, x) < Nth(keep, y)
  BY <1>1, NthFacts
<1>5. \A i, j \in keep : i < j => c(i) < c(j)
  <2>1. \A i \in Nat, j \in keep : i < j => c(i) < c(j)
    BY <1>1, BelowFacts
  <2>2. \A i \in keep : i \in Nat
    BY <1>1
  <2>3. QED BY <2>1, <2>2
<1>6. \A x \in 1..m : g[x] = f[Nth(keep, x)]
  BY <1>2 DEF Pick
<1>7. \A i \in Tasks(f) : i \in keep /\ i \in 1..n
  BY <1>1 DEF Tasks, Redundant
<1>8. \A i \in 1..n : i \notin keep => Redundant(f, i)
  BY <1>1
<1> HIDE DEF keep, m, g, n, c
<1>9. Part(f, n, g, m, p)
  <2>1. p \in [1..m -> 1..n]
    BY <1>1, <1>4
  <2>2. QED BY <1>4, <1>6, <2>1 DEF Part
<1>10. \A i \in 1..n : (\A j \in 1..m : p[j] # i) /\ IsHeader(f, i) => Redundant(f, i)
  <2>1. \A i \in keep : \E j \in 1..m : p[j] = i
    BY <1>4
  <2>2. QED BY <1>8, <2>1
<1>11. \A x \in 1..m : Section(g, x) = Section(f, Nth(keep, x))
  BY <1>1, <1>3, <1>9, <1>10, SectionOfPart
<1>12. \A i \in Tasks(f) : c(i) \in Tasks(g) /\ g[c(i)] = f[i] /\ Section(g, c(i)) = Section(f, i)
  BY <1>3, <1>4, <1>6, <1>7, <1>11 DEF Tasks
<1>13. Embeds(f, g, up)
  <2>1. up \in [Tasks(f) -> Tasks(g)]
    BY <1>12
  <2>2. \A i, j \in Tasks(f) : i < j => up[i] < up[j]
    BY <1>5, <1>7
  <2>3. \A i \in Tasks(f) : up[i] = c(i)
    OBVIOUS
  <2> HIDE DEF up
  <2>4. QED BY <1>12, <2>1, <2>2, <2>3 DEF Embeds
<1>14. ASSUME NEW k \in Tasks(g) PROVE \E i \in Tasks(f) : up[i] = k
  <2>1. k \in 1..m /\ Nth(keep, k) \in Tasks(f) /\ c(Nth(keep, k)) = k
    <3>1. k \in 1..m /\ g[k].kind = "Task"
      BY <1>3 DEF Tasks
    <3>2. Nth(keep, k) \in keep /\ Nth(keep, k) \in DOMAIN f /\ f[Nth(keep, k)].kind = "Task"
      BY <1>4, <1>6, <3>1 DEF keep
    <3>3. QED BY <1>4, <3>1, <3>2 DEF Tasks
  <2>2. QED BY <2>1
<1>15. HeadersFrom(f, g, {})
  <2>1. \A x \in 1..m : g[x] = f[Nth(keep, x)] /\ Nth(keep, x) \in DOMAIN f
    BY <1>4, <1>6 DEF keep
  <2>2. QED BY <1>3, <2>1 DEF HeadersFrom, IsHeader
<1> HIDE DEF up
<1>16. QED BY <1>3, <1>13, <1>14, <1>15 DEF g

\* InsertAt makes room: the lines before it stay, the later ones move down.
LEMMA InsertIndex ==
    ASSUME NEW L, NEW f \in Seq(L), NEW k \in 1..(Len(f) + 1), NEW l \in L
    PROVE  /\ InsertAt(f, k, l) \in Seq(L)
           /\ DOMAIN InsertAt(f, k, l) = 1..(Len(f) + 1)
           /\ InsertAt(f, k, l)[k] = l
           /\ \A j \in 1..Len(f) : InsertAt(f, k, l)[IF j < k THEN j ELSE j + 1] = f[j]
<1> DEFINE n == Len(f)  a == SubSeq(f, 1, k - 1)  b == <<l>>  c == SubSeq(f, k, n)
<1>0. n \in Nat /\ k \in Nat /\ k <= n + 1 /\ 1 <= k
  BY LenProperties
<1>1. /\ a \in Seq(L) /\ Len(a) = k - 1 /\ \A j \in 1..(k - 1) : a[j] = f[j]
  <2>1. \A j \in 1..(k - 1) : f[j] \in L
    BY <1>0, ElementOfSeq
  <2>2. a \in Seq(L) /\ Len(a) = (IF 1 <= k - 1 THEN (k - 1) - 1 + 1 ELSE 0)
        /\ \A j \in 1..((k - 1) - 1 + 1) : a[j] = f[1 + j - 1]
    BY <1>0, <2>1, SubSeqProperties
  <2>3. QED BY <1>0, <2>2
<1>2. /\ c \in Seq(L) /\ Len(c) = n + 1 - k /\ \A j \in 1..(n + 1 - k) : c[j] = f[k + j - 1]
  <2>1. \A j \in k..n : f[j] \in L
    BY <1>0, ElementOfSeq
  <2>2. c \in Seq(L) /\ Len(c) = (IF k <= n THEN n - k + 1 ELSE 0)
        /\ \A j \in 1..(n - k + 1) : c[j] = f[k + j - 1]
    BY <1>0, <2>1, SubSeqProperties
  <2>3. QED BY <1>0, <2>2
<1>3. b \in Seq(L) /\ Len(b) = 1 /\ b[1] = l
  OBVIOUS
<1>4. InsertAt(f, k, l) = (a \o b) \o c
  BY DEF InsertAt
<1> HIDE DEF a, b, c, n
<1>5. /\ a \o b \in Seq(L) /\ Len(a \o b) = k
      /\ \A j \in 1..k : (a \o b)[j] = IF j <= k - 1 THEN a[j] ELSE b[j - (k - 1)]
  <2>1. /\ a \o b \in Seq(L) /\ Len(a \o b) = Len(a) + Len(b)
        /\ \A j \in 1..(Len(a) + Len(b)) : (a \o b)[j] = IF j <= Len(a) THEN a[j] ELSE b[j - Len(a)]
    BY <1>1, <1>3, ConcatProperties
  <2>2. Len(a) + Len(b) = k /\ Len(a) = k - 1
    BY <1>0, <1>1, <1>3
  <2>3. QED BY <2>1, <2>2
<1> DEFINE ab == a \o b
           g == ab \o c
<1> HIDE DEF ab
<1>6. /\ g \in Seq(L) /\ Len(g) = n + 1
      /\ \A j \in 1..(n + 1) : g[j] = IF j <= k THEN ab[j] ELSE c[j - k]
  <2>1. /\ g \in Seq(L) /\ Len(g) = Len(ab) + Len(c)
        /\ \A j \in 1..(Len(ab) + Len(c)) :
              g[j] = IF j <= Len(ab) THEN ab[j] ELSE c[j - Len(ab)]
    <3>1. ab \in Seq(L)
      BY <1>5 DEF ab
    <3>2. QED BY <1>2, <3>1, ConcatProperties
  <2>2. Len(ab) + Len(c) = n + 1 /\ Len(ab) = k
    BY <1>0, <1>2, <1>5 DEF ab
  <2>3. QED BY <2>1, <2>2
<1> HIDE DEF g
<1>7. g[k] = l
  <2>1. k \in 1..(n + 1) /\ k \in 1..k /\ ~(k <= k - 1) /\ k - (k - 1) = 1
    BY <1>0
  <2>2. g[k] = ab[k]
    BY <1>0, <1>6, <2>1
  <2>3. ab[k] = b[1]
    BY <1>5, <2>1 DEF ab
  <2>4. QED BY <1>3, <2>2, <2>3
<1>8. ASSUME NEW j \in 1..n PROVE g[IF j < k THEN j ELSE j + 1] = f[j]
  <2>1. CASE j < k
    <3>1. j \in 1..(n + 1) /\ j \in 1..k /\ j <= k - 1 /\ j \in 1..(k - 1) /\ j <= k
      BY <1>0, <2>1
    <3>2. QED BY <1>1, <1>5, <1>6, <2>1, <3>1 DEF ab
  <2>2. CASE ~(j < k)
    <3>1. /\ j + 1 \in 1..(n + 1) /\ ~(j + 1 <= k) /\ (j + 1) - k \in 1..(n + 1 - k)
          /\ k + ((j + 1) - k) - 1 = j
      BY <1>0, <2>2
    <3>2. g[j + 1] = c[(j + 1) - k]
      BY <1>6, <3>1
    <3>3. c[(j + 1) - k] = f[j]
      BY <1>2, <3>1
    <3>4. QED BY <2>2, <3>2, <3>3
  <2>3. QED BY <2>1, <2>2
<1>9. DOMAIN g = 1..(n + 1)
  BY <1>6, LenProperties
<1>10. QED BY <1>4, <1>6, <1>7, <1>8, <1>9 DEF g, n, ab

\* The place of line i when a line is put in at k.
Shifted(S, k) == [i \in S |-> IF i < k THEN i ELSE i + 1]

\* A line that is no header, put anywhere, leaves every task line its section.
LEMMA InsertEmbeds ==
    ASSUME NEW L, NEW f \in Seq(L), NEW k \in 1..(Len(f) + 1), NEW l \in L, l.kind # "Header"
    PROVE  /\ Embeds(f, InsertAt(f, k, l), Shifted(Tasks(f), k))
           /\ Section(InsertAt(f, k, l), k) = Section(f, k - 1)
           /\ HeadersFrom(f, InsertAt(f, k, l), {})
           /\ \A i \in Tasks(InsertAt(f, k, l)) :
                 i = k \/ \E j \in Tasks(f) : Shifted(Tasks(f), k)[j] = i
<1> DEFINE g == InsertAt(f, k, l)
           n == Len(f)
           p == [i \in 1..n |-> IF i < k THEN i ELSE i + 1]
           up == Shifted(Tasks(f), k)
<1>0. n \in Nat /\ DOMAIN f = 1..n /\ k \in Nat /\ k - 1 \in Nat /\ n + 1 \in Nat /\ 1 <= k
  BY LenProperties
<1>1. /\ g \in Seq(L) /\ DOMAIN g = 1..(n + 1) /\ g[k] = l
      /\ \A j \in 1..n : g[IF j < k THEN j ELSE j + 1] = f[j]
  BY InsertIndex
<1> HIDE DEF g, n
<1>2. /\ \A i \in 1..n : p[i] \in 1..(n + 1)
      /\ \A i, j \in 1..n : i < j => p[i] < p[j]
      /\ \A i \in 1..n : f[i] = g[p[i]]
  BY <1>0, <1>1
<1>3. ASSUME NEW i \in 1..(n + 1), i # k PROVE \E j \in 1..n : p[j] = i
  <2>1. CASE i < k
    <3>1. i \in 1..n
      BY <1>0, <2>1
    <3>2. p[i] = i
      BY <2>1, <3>1
    <3>3. QED BY <3>1, <3>2
  <2>2. CASE ~(i < k)
    <3>1. i - 1 \in 1..n /\ ~(i - 1 < k) /\ (i - 1) + 1 = i
      BY <1>0, <1>3, <2>2
    <3>2. p[i - 1] = i
      BY <3>1
    <3>3. QED BY <3>1, <3>2
  <2>3. QED BY <2>1, <2>2
<1>4. \A i \in 1..n : Section(f, i) = Section(g, p[i])
  <2>1. Part(g, n + 1, f, n, p)
    <3>1. p \in [1..n -> 1..(n + 1)]
      BY <1>2
    <3> HIDE DEF p
    <3>2. QED BY <1>2, <3>1 DEF Part
  <2>2. \A i \in 1..(n + 1) : (\A j \in 1..n : p[j] # i) /\ IsHeader(g, i) => Redundant(g, i)
    BY <1>1, <1>3 DEF IsHeader
  <2> HIDE DEF p
  <2>3. QED BY <1>0, <2>1, <2>2, SectionOfPart
<1>5. Section(g, k) = Section(f, k - 1)
  <2>1. ~IsHeader(g, (k - 1) + 1)
    BY <1>0, <1>1 DEF IsHeader
  <2>2. Section(g, (k - 1) + 1) = Section(g, k - 1)
    BY <1>0, <2>1, SectionGoesOn
  <2>3. \A j \in 1..(k - 1) : g[j] = f[j]
    <3>1. \A j \in 1..(k - 1) : j \in 1..n /\ j < k
      BY <1>0 DEF n
    <3>2. QED BY <1>1, <3>1
  <2>4. Section(g, k - 1) = Section(f, k - 1)
    BY <1>0, <2>3, SectionOfPrefix
  <2>5. (k - 1) + 1 = k
    BY <1>0
  <2>6. QED BY <2>2, <2>4, <2>5
<1>6. \A i \in Tasks(f) : i \in 1..n /\ up[i] = p[i] /\ f[i].kind = "Task"
  BY <1>0 DEF Tasks, Shifted
<1>7. up \in [Tasks(f) -> Tasks(g)]
  <2>1. \A i \in Tasks(f) : p[i] \in Tasks(g)
    BY <1>1, <1>2, <1>6 DEF Tasks
  <2>2. \A i \in Tasks(f) : up[i] \in Tasks(g)
    BY <1>6, <2>1
  <2>3. QED BY <2>2 DEF Shifted
<1>8. ASSUME NEW i \in Tasks(g), i # k PROVE \E j \in Tasks(f) : up[j] = i
  <2>1. PICK j \in 1..n : p[j] = i
    BY <1>1, <1>3, <1>8 DEF Tasks
  <2>2. j \in Tasks(f)
    BY <1>0, <1>2, <1>8, <2>1 DEF Tasks
  <2>3. QED BY <1>6, <2>1, <2>2
<1>9. HeadersFrom(f, g, {})
  <2>1. ASSUME NEW i \in DOMAIN g, IsHeader(g, i) PROVE \E j \in DOMAIN f : IsHeader(f, j) /\ f[j].w = g[i].w
    <3>1. i \in 1..(n + 1) /\ i # k
      BY <1>1, <2>1 DEF IsHeader
    <3>2. PICK j \in 1..n : p[j] = i
      BY <1>3, <3>1
    <3>3. QED BY <1>0, <1>2, <2>1, <3>2 DEF IsHeader
  <2>2. QED BY <2>1 DEF HeadersFrom
<1> HIDE DEF p, up
<1>10. Embeds(f, g, up)
  BY <1>2, <1>4, <1>6, <1>7 DEF Embeds
<1>11. QED BY <1>5, <1>8, <1>9, <1>10 DEF g, up

\* One task line more: x, in the section of v, after the lines of that section.
OneMore(f, g, up, v, x) ==
    /\ Embeds(f, g, up)
    /\ \E k \in Tasks(g) : /\ g[k] = TaskLine(x) /\ Section(g, k) = v
                           /\ \A i \in Tasks(f) : up[i] # k /\ (Section(f, i) = v => up[i] < k)
                           /\ \A j \in Tasks(g) \ {k} : \E i \in Tasks(f) : up[i] = j

\* The insertion puts the row last into the section of its worker, which is
\* opened at the end of the file if there is none.
LEMMA InsertRowAdds ==
    ASSUME NEW L, NEW f \in Seq(L), NEW v \in Nat \ {0}, NEW x, TaskLine(x) \in L, HeaderLine(v) \in L
    PROVE  /\ InsertRow(f, v, x) \in Seq(L)
           /\ \E up : OneMore(f, InsertRow(f, v, x), up, v, x)
           /\ HeadersFrom(f, InsertRow(f, v, x), {v})
<1> DEFINE n == Len(f)
           own == {i \in DOMAIN f : Section(f, i) = v}
           g == InsertRow(f, v, x)
<1>0. /\ n \in Nat /\ DOMAIN f = 1..n
      /\ TaskLine(x).kind = "Task" /\ HeaderLine(v).kind = "Header" /\ HeaderLine(v).w = v
  BY LenProperties DEF TaskLine, HeaderLine
<1>1. ASSUME NEW k \in 1..(n + 1), g = InsertAt(f, k, TaskLine(x)), Section(f, k - 1) = v,
             \A i \in own : i < k
      PROVE  g \in Seq(L) /\ (\E up : OneMore(f, g, up, v, x)) /\ HeadersFrom(f, g, {v})
  <2> DEFINE up == Shifted(Tasks(f), k)
  <2>1. g \in Seq(L) /\ DOMAIN g = 1..(n + 1) /\ g[k] = TaskLine(x)
    <3>1. k \in 1..(Len(f) + 1) /\ TaskLine(x) \in L
      OBVIOUS
    <3>2. /\ InsertAt(f, k, TaskLine(x)) \in Seq(L)
          /\ DOMAIN InsertAt(f, k, TaskLine(x)) = 1..(Len(f) + 1)
          /\ InsertAt(f, k, TaskLine(x))[k] = TaskLine(x)
      BY ONLY <3>1, f \in Seq(L), InsertIndex
    <3> HIDE DEF g
    <3>3. QED BY <1>1, <3>2
  <2>2. /\ Embeds(f, g, up) /\ Section(g, k) = v /\ HeadersFrom(f, g, {})
        /\ \A i \in Tasks(g) : i = k \/ \E j \in Tasks(f) : Shifted(Tasks(f), k)[j] = i
    <3>1. TaskLine(x) \in L /\ TaskLine(x).kind # "Header" /\ k \in 1..(Len(f) + 1)
      BY <1>0
    <3> HIDE DEF g
    <3>2. /\ Embeds(f, InsertAt(f, k, TaskLine(x)), Shifted(Tasks(f), k))
          /\ Section(InsertAt(f, k, TaskLine(x)), k) = Section(f, k - 1)
          /\ HeadersFrom(f, InsertAt(f, k, TaskLine(x)), {})
          /\ \A i \in Tasks(InsertAt(f, k, TaskLine(x))) :
                i = k \/ \E j \in Tasks(f) : Shifted(Tasks(f), k)[j] = i
      BY <3>1, InsertEmbeds
    <3>3. QED BY <1>1, <3>2
  <2>3. k \in Tasks(g)
    BY <1>0, <2>1 DEF Tasks
  <2>4. \A i \in Tasks(f) : i \in Nat /\ up[i] # k /\ (Section(f, i) = v => up[i] < k)
    <3>1. \A i \in Tasks(f) : i \in Nat /\ (Section(f, i) = v => i \in own)
      BY <1>0 DEF Tasks
    <3>2. \A i \in Tasks(f) : up[i] = IF i < k THEN i ELSE i + 1
      BY DEF Shifted
    <3>3. k \in Nat
      BY <1>0
    <3> HIDE DEF up, own
    <3>4. QED BY <1>1, <3>1, <3>2, <3>3
  <2>5. \A j \in Tasks(g) \ {k} : \E i \in Tasks(f) : up[i] = j
    BY <2>2
  <2> HIDE DEF up, g
  <2>6. OneMore(f, g, up, v, x)
    BY <2>1, <2>2, <2>3, <2>4, <2>5 DEF OneMore
  <2>7. QED BY <2>1, <2>2, <2>6 DEF HeadersFrom
<1>2. CASE own # {}
  <2>1. Max(own) \in own /\ \A y \in own : y <= Max(own)
    <3>1. own \in SUBSET (0..n)
      BY <1>0
    <3>2. QED BY <1>0, <1>2, <3>1, MaxOfNats
  <2>2. g = InsertAt(f, Max(own) + 1, TaskLine(x))
    BY <1>2 DEF InsertRow
  <2>3. /\ Max(own) + 1 \in 1..(n + 1) /\ (Max(own) + 1) - 1 = Max(own)
        /\ \A i \in own : i < Max(own) + 1
    <3>1. Max(own) \in 1..n /\ \A i \in own : i \in 1..n
      BY <1>0, <2>1
    <3> HIDE DEF own
    <3>2. QED BY <1>0, <2>1, <3>1
  <2>4. Section(f, (Max(own) + 1) - 1) = v
    BY <2>1, <2>3
  <2> HIDE DEF own, g
  <2>5. QED BY <1>1, <2>2, <2>3, <2>4 DEF g
<1>3. CASE own = {} /\ v = 1
  <2>1. g = InsertAt(f, 1, TaskLine(x))
    BY <1>3 DEF InsertRow
  <2>2. Section(f, 1 - 1) = v
    BY <1>3, SectionIs
  <2>3. 1 \in 1..(n + 1) /\ \A i \in own : i < 1
    BY <1>0, <1>3
  <2> HIDE DEF own, g
  <2>4. QED BY <1>1, <2>1, <2>2, <2>3 DEF g
<1>4. CASE own = {} /\ v # 1
  <2> DEFINE t == <<HeaderLine(v), TaskLine(x)>>
             up == [i \in Tasks(f) |-> i]
  <2>1. g = f \o t
    BY <1>4 DEF InsertRow
  <2>2. t \in Seq(L) /\ Len(t) = 2 /\ t[1] = HeaderLine(v) /\ t[2] = TaskLine(x)
    OBVIOUS
  <2> HIDE DEF t, g
  <2>3. /\ g \in Seq(L) /\ Len(g) = n + 2 /\ DOMAIN g = 1..(n + 2)
        /\ \A j \in 1..n : g[j] = f[j]
        /\ g[n + 1] = HeaderLine(v) /\ g[n + 2] = TaskLine(x)
    <3>1. /\ f \o t \in Seq(L) /\ Len(f \o t) = Len(f) + Len(t)
          /\ \A j \in 1..(Len(f) + Len(t)) : (f \o t)[j] = IF j <= Len(f) THEN f[j] ELSE t[j - Len(f)]
      BY <2>2, ConcatProperties
    <3>2. /\ g \in Seq(L) /\ Len(g) = n + 2
          /\ \A j \in 1..(n + 2) : g[j] = IF j <= n THEN f[j] ELSE t[j - n]
      BY <2>1, <2>2, <3>1
    <3>3. \A j \in 1..n : g[j] = f[j]
      BY <1>0, <3>2
    <3>4. g[n + 1] = t[(n + 1) - n] /\ g[n + 2] = t[(n + 2) - n]
      BY <1>0, <3>2
    <3>5. (n + 1) - n = 1 /\ (n + 2) - n = 2
      BY <1>0
    <3>6. DOMAIN g = 1..(n + 2)
      BY <3>2, LenProperties
    <3>7. QED BY <2>2, <3>2, <3>3, <3>4, <3>5, <3>6
  <2> HIDE DEF n
  <2>4. \A i \in Tasks(f) : i \in 1..n /\ i \in Tasks(g) /\ g[i] = f[i] /\ i # n + 2
    BY <1>0, <2>3 DEF Tasks
  <2>5. \A i \in Tasks(f) : Section(g, i) = Section(f, i)
    <3>1. ASSUME NEW i \in Tasks(f) PROVE Section(g, i) = Section(f, i)
      <4>1. i \in Nat /\ \A j \in 1..i : g[j] = f[j]
        BY <1>0, <2>3, <2>4
      <4>2. QED BY <4>1, SectionOfPrefix
    <3>2. QED BY <3>1
  <2>6. Embeds(f, g, up)
    <3>1. up \in [Tasks(f) -> Tasks(g)]
      BY <2>4
    <3>2. \A i \in Tasks(f) : up[i] = i
      OBVIOUS
    <3> HIDE DEF up
    <3>3. QED BY <2>4, <2>5, <3>1, <3>2 DEF Embeds
  <2>7. Section(g, n + 2) = v
    <3>1. n + 2 \in Nat /\ n + 1 \in 1..(n + 2) /\ IsHeader(g, n + 1) /\ g[n + 1].w = v
      BY <1>0, <2>3 DEF IsHeader
    <3>2. ASSUME NEW j \in ((n + 1) + 1)..(n + 2) PROVE ~IsHeader(g, j)
      <4>1. j = n + 2
        BY <1>0
      <4>2. QED BY <1>0, <2>3, <4>1 DEF IsHeader
    <3>3. QED BY <3>1, <3>2, SectionIs
  <2>8. n + 2 \in Tasks(g)
    BY <1>0, <2>3 DEF Tasks
  <2>9. \A i \in Tasks(f) : up[i] # n + 2 /\ (Section(f, i) = v => up[i] < n + 2)
    BY <1>0, <2>4
  <2>10. \A j \in Tasks(g) \ {n + 2} : \E i \in Tasks(f) : up[i] = j
    <3>1. ASSUME NEW j \in Tasks(g), j # n + 2 PROVE j \in Tasks(f)
      <4>1. j \in 1..(n + 2) /\ g[j].kind = "Task"
        BY <2>3 DEF Tasks
      <4>2. j # n + 1
        BY <1>0, <2>3, <4>1
      <4>3. j \in 1..n
        BY <1>0, <3>1, <4>1, <4>2
      <4>4. QED BY <1>0, <2>3, <4>1, <4>3 DEF Tasks
    <3>2. QED BY <3>1
  <2> HIDE DEF up
  <2>11. OneMore(f, g, up, v, x)
    BY <2>3, <2>6, <2>7, <2>8, <2>9, <2>10 DEF OneMore
  <2>12. HeadersFrom(f, g, {v})
    <3>1. ASSUME NEW i \in DOMAIN g, IsHeader(g, i)
          PROVE  g[i].w = v \/ \E j \in DOMAIN f : IsHeader(f, j) /\ f[j].w = g[i].w
      <4>1. i \in 1..n \/ i = n + 1 \/ i = n + 2
        BY <1>0, <2>3
      <4>2. CASE i \in 1..n
        BY <1>0, <2>3, <3>1, <4>2 DEF IsHeader
      <4>3. QED BY <1>0, <2>3, <3>1, <4>1, <4>2 DEF IsHeader
    <3>2. QED BY <3>1 DEF HeadersFrom
  <2>13. QED BY <2>3, <2>11, <2>12 DEF g
<1>5. QED BY <1>2, <1>3, <1>4

\* ecm_worktodo_append_unique: nothing, or the compaction and one row more.
LEMMA AppendUniqueAdds ==
    ASSUME NEW L, NEW f \in Seq(L), NEW v \in Nat \ {0}, NEW x, NEW done,
           TaskLine(x) \in L, HeaderLine(v) \in L, ~Delivered(f, done, x)
    PROVE  /\ AppendUnique(f, done, v, x) \in Seq(L)
           /\ \E up : OneMore(f, AppendUnique(f, done, v, x), up, v, x)
           /\ HeadersFrom(f, AppendUnique(f, done, v, x), {v})
<1> DEFINE c == Compact(f)  g == InsertRow(c, v, x)
<1>1. AppendUnique(f, done, v, x) = g
  BY DEF AppendUnique
<1>2. PICK p : Embeds(f, c, p) /\ \A k \in Tasks(c) : \E i \in Tasks(f) : p[i] = k
  BY CompactEmbeds
<1>3. c \in Seq(L) /\ HeadersFrom(f, c, {})
  BY CompactEmbeds
<1> HIDE DEF c
<1>4. g \in Seq(L) /\ HeadersFrom(c, g, {v})
  BY <1>3, InsertRowAdds
<1>5. PICK q : OneMore(c, g, q, v, x)
  BY <1>3, InsertRowAdds
<1>6. PICK k \in Tasks(g) :
        /\ g[k] = TaskLine(x) /\ Section(g, k) = v
        /\ \A i \in Tasks(c) : q[i] # k /\ (Section(c, i) = v => q[i] < k)
        /\ \A j \in Tasks(g) \ {k} : \E i \in Tasks(c) : q[i] = j
  BY <1>5 DEF OneMore
<1> HIDE DEF g
<1> DEFINE up == [i \in Tasks(f) |-> q[p[i]]]
<1>7. /\ p \in [Tasks(f) -> Tasks(c)] /\ q \in [Tasks(c) -> Tasks(g)]
      /\ \A i, j \in Tasks(f) : i < j => p[i] < p[j]
      /\ \A i, j \in Tasks(c) : i < j => q[i] < q[j]
      /\ \A i \in Tasks(f) : c[p[i]] = f[i] /\ Section(c, p[i]) = Section(f, i)
      /\ \A i \in Tasks(c) : g[q[i]] = c[i] /\ Section(g, q[i]) = Section(c, i)
  BY <1>2, <1>5 DEF OneMore, Embeds
<1>8. \A i \in Tasks(f) : up[i] = q[p[i]] /\ p[i] \in Tasks(c) /\ q[p[i]] \in Tasks(g)
  BY <1>7
<1>9. up \in [Tasks(f) -> Tasks(g)]
  BY <1>8
<1> HIDE DEF up
<1>10. Embeds(f, g, up)
  <2>1. \A i, j \in Tasks(f) : i < j => up[i] < up[j]
    BY <1>7, <1>8
  <2>2. \A i \in Tasks(f) : g[up[i]] = f[i] /\ Section(g, up[i]) = Section(f, i)
    BY <1>7, <1>8
  <2>3. QED BY <1>9, <2>1, <2>2 DEF Embeds
<1>11. \A i \in Tasks(f) : up[i] # k /\ (Section(f, i) = v => up[i] < k)
  BY <1>6, <1>7, <1>8
<1>12. \A j \in Tasks(g) \ {k} : \E i \in Tasks(f) : up[i] = j
  BY <1>2, <1>6, <1>8
<1>13. OneMore(f, g, up, v, x)
  BY <1>6, <1>10, <1>11, <1>12 DEF OneMore
<1>14. HeadersFrom(f, g, {v})
  <2>1. ASSUME NEW i \in DOMAIN g, IsHeader(g, i)
        PROVE  g[i].w = v \/ \E j \in DOMAIN f : IsHeader(f, j) /\ f[j].w = g[i].w
    <3>1. g[i].w = v \/ \E j \in DOMAIN c : IsHeader(c, j) /\ c[j].w = g[i].w
      BY <1>4, <2>1 DEF HeadersFrom
    <3>2. QED BY <1>3, <3>1 DEF HeadersFrom
  <2>2. QED BY <2>1 DEF HeadersFrom
<1>15. QED BY <1>1, <1>4, <1>13, <1>14

\* Taking a task line out leaves the others their order and their section.
LEMMA RemoveEmbeds ==
    ASSUME NEW L, NEW f \in Seq(L), NEW k \in 1..Len(f), f[k].kind # "Header"
    PROVE  /\ Embeds(RemoveAt(f, k), f, Shifted(Tasks(RemoveAt(f, k)), k))
           /\ \A i \in Tasks(f) \ {k} : \E j \in Tasks(RemoveAt(f, k)) : Shifted(Tasks(RemoveAt(f, k)), k)[j] = i
           /\ HeadersFrom(f, RemoveAt(f, k), {})
<1> DEFINE g == RemoveAt(f, k)
           n == Len(f) - 1
           p == [i \in 1..n |-> IF i < k THEN i ELSE i + 1]
           up == Shifted(Tasks(g), k)
<1>0. n \in Nat /\ n + 1 \in Nat /\ DOMAIN f = 1..(n + 1) /\ k \in 1..(n + 1) /\ k \in Nat
  BY LenProperties
<1>1. DOMAIN g = 1..n /\ \A j \in 1..n : g[j] = IF j < k THEN f[j] ELSE f[j + 1]
  BY RemoveIndex
<1> HIDE DEF g, n
<1>2. /\ \A i \in 1..n : p[i] \in 1..(n + 1) /\ p[i] # k
      /\ \A i, j \in 1..n : i < j => p[i] < p[j]
      /\ \A i \in 1..n : g[i] = f[p[i]]
  BY <1>0, <1>1
<1>3. ASSUME NEW i \in 1..(n + 1), i # k PROVE \E j \in 1..n : p[j] = i
  <2>1. CASE i < k
    <3>1. i \in 1..n
      BY <1>0, <2>1
    <3>2. p[i] = i
      BY <2>1, <3>1
    <3>3. QED BY <3>1, <3>2
  <2>2. CASE ~(i < k)
    <3>1. i - 1 \in 1..n /\ ~(i - 1 < k) /\ (i - 1) + 1 = i
      BY <1>0, <1>3, <2>2
    <3>2. p[i - 1] = i
      BY <3>1
    <3>3. QED BY <3>1, <3>2
  <2>3. QED BY <2>1, <2>2
<1>4. \A i \in 1..n : Section(g, i) = Section(f, p[i])
  <2>1. Part(f, n + 1, g, n, p)
    <3>1. p \in [1..n -> 1..(n + 1)]
      BY <1>2
    <3> HIDE DEF p
    <3>2. QED BY <1>2, <3>1 DEF Part
  <2>2. \A i \in 1..(n + 1) : (\A j \in 1..n : p[j] # i) /\ IsHeader(f, i) => Redundant(f, i)
    BY <1>3 DEF IsHeader
  <2> HIDE DEF p
  <2>3. QED BY <1>0, <2>1, <2>2, SectionOfPart
<1>5. \A i \in Tasks(g) : i \in 1..n /\ up[i] = p[i] /\ g[i].kind = "Task"
  BY <1>1 DEF Tasks, Shifted
<1>6. up \in [Tasks(g) -> Tasks(f)]
  <2>1. \A i \in Tasks(g) : p[i] \in Tasks(f)
    BY <1>0, <1>2, <1>5 DEF Tasks
  <2>2. \A i \in Tasks(g) : up[i] \in Tasks(f)
    BY <1>5, <2>1
  <2>3. QED BY <2>2 DEF Shifted
<1>7. ASSUME NEW i \in Tasks(f), i # k PROVE \E j \in Tasks(g) : up[j] = i
  <2>1. PICK j \in 1..n : p[j] = i
    BY <1>0, <1>3, <1>7 DEF Tasks
  <2>2. j \in Tasks(g)
    BY <1>1, <1>2, <1>7, <2>1 DEF Tasks
  <2>3. QED BY <1>5, <2>1, <2>2
<1>8. HeadersFrom(f, g, {})
  <2>1. ASSUME NEW i \in DOMAIN g, IsHeader(g, i) PROVE \E j \in DOMAIN f : IsHeader(f, j) /\ f[j].w = g[i].w
    <3>1. p[i] \in DOMAIN f /\ g[i] = f[p[i]]
      BY <1>0, <1>1, <1>2, <2>1
    <3> HIDE DEF p
    <3>2. QED BY <2>1, <3>1 DEF IsHeader
  <2>2. QED BY <2>1 DEF HeadersFrom
<1> HIDE DEF p, up
<1>9. Embeds(g, f, up)
  BY <1>2, <1>4, <1>5, <1>6 DEF Embeds
<1>10. QED BY <1>7, <1>8, <1>9 DEF g, up

(***************************************************************************)
(* Rows.  A row stands in a file if a task line has its text.              *)
(***************************************************************************)
Standing(f, x) == \E i \in Tasks(f) : f[i].row = x

OnePlace(f) == \A i, j \in Tasks(f) : f[i].row = f[j].row => i = j

LEMMA StandingIsDelivered ==
    ASSUME NEW f, NEW done, NEW x
    PROVE  Delivered(f, done, x) <=> x \in done \/ Standing(f, x)
BY DEF Delivered, Standing, Tasks

LEMMA FoundIsTask ==
    ASSUME NEW f, NEW r, NEW x
    PROVE  Found(f, r, x) <=>
             \E i \in Tasks(f) : f[i].row = x /\ WorkerMatches(Section(f, i), r)
BY DEF Found, TicketAt, TaskAt, Tasks

\* A row with one place is in one section.
LEMMA OneSection ==
    ASSUME NEW f, OnePlace(f), NEW q \in Nat \ {0}, NEW r \in Nat \ {0}, NEW x,
           Found(f, q, x), Found(f, r, x)
    PROVE  q = r
<1>1. PICK i \in Tasks(f) : f[i].row = x /\ Section(f, i) = q
  BY FoundIsTask DEF WorkerMatches
<1>2. PICK j \in Tasks(f) : f[j].row = x /\ Section(f, j) = r
  BY FoundIsTask DEF WorkerMatches
<1>3. i = j
  BY <1>1, <1>2 DEF OnePlace
<1>4. QED BY <1>1, <1>2, <1>3

\* What one task line more changes.
LEMMA AddedRow ==
    ASSUME NEW f, NEW g, NEW up, NEW v, NEW x, OneMore(f, g, up, v, x)
    PROVE  /\ \A y : Standing(g, y) <=> Standing(f, y) \/ y = x
           /\ \A r, y : Found(f, r, y) => Found(g, r, y)
           /\ \A r, y : Found(g, r, y) => Found(f, r, y) \/ (y = x /\ WorkerMatches(v, r))
           /\ OnePlace(f) /\ ~Standing(f, x) => OnePlace(g)
           /\ \A i \in Tasks(g) : Section(g, i) = v \/ \E j \in Tasks(f) : Section(f, j) = Section(g, i)
<1>1. /\ up \in [Tasks(f) -> Tasks(g)]
      /\ \A i \in Tasks(f) : up[i] \in Tasks(g) /\ g[up[i]] = f[i] /\ Section(g, up[i]) = Section(f, i)
  BY DEF OneMore, Embeds
<1>2. PICK k \in Tasks(g) :
        /\ g[k] = TaskLine(x) /\ Section(g, k) = v
        /\ \A j \in Tasks(g) \ {k} : \E i \in Tasks(f) : up[i] = j
  BY DEF OneMore
<1>3. g[k].row = x
  BY <1>2 DEF TaskLine
<1>4. ASSUME NEW j \in Tasks(g), j # k
      PROVE  \E i \in Tasks(f) : up[i] = j /\ g[j] = f[i] /\ Section(g, j) = Section(f, i)
  BY <1>1, <1>2, <1>4
<1>5. \A y : Standing(g, y) <=> Standing(f, y) \/ y = x
  <2>1. ASSUME NEW y, Standing(g, y) PROVE Standing(f, y) \/ y = x
    BY <1>3, <1>4, <2>1 DEF Standing
  <2>2. ASSUME NEW y, Standing(f, y) PROVE Standing(g, y)
    BY <1>1, <2>2 DEF Standing
  <2>3. Standing(g, x)
    BY <1>3 DEF Standing
  <2>4. QED BY <2>1, <2>2, <2>3
<1>6. ASSUME NEW r, NEW y, Found(f, r, y) PROVE Found(g, r, y)
  <2>1. PICK i \in Tasks(f) : f[i].row = y /\ WorkerMatches(Section(f, i), r)
    BY <1>6, FoundIsTask
  <2>2. up[i] \in Tasks(g) /\ g[up[i]].row = y /\ WorkerMatches(Section(g, up[i]), r)
    BY <1>1, <2>1
  <2>3. QED BY <2>2, FoundIsTask
<1>7. ASSUME NEW r, NEW y, Found(g, r, y) PROVE Found(f, r, y) \/ (y = x /\ WorkerMatches(v, r))
  <2>1. PICK j \in Tasks(g) : g[j].row = y /\ WorkerMatches(Section(g, j), r)
    BY <1>7, FoundIsTask
  <2>2. CASE j = k
    BY <1>2, <1>3, <2>1, <2>2
  <2>3. CASE j # k
    <3>1. PICK i \in Tasks(f) : g[j] = f[i] /\ Section(g, j) = Section(f, i)
      BY <1>4, <2>3
    <3>2. f[i].row = y /\ WorkerMatches(Section(f, i), r)
      BY <2>1, <3>1
    <3>3. QED BY <3>2, FoundIsTask
  <2>4. QED BY <2>2, <2>3
<1>8. ASSUME OnePlace(f), ~Standing(f, x), NEW i \in Tasks(g), NEW j \in Tasks(g), g[i].row = g[j].row
      PROVE  i = j
  <2>1. CASE i # k /\ j # k
    <3>1. PICK a \in Tasks(f) : up[a] = i /\ g[i] = f[a]
      BY <1>4, <2>1
    <3>2. PICK b \in Tasks(f) : up[b] = j /\ g[j] = f[b]
      BY <1>4, <2>1
    <3>3. a = b
      BY <1>8, <3>1, <3>2 DEF OnePlace
    <3>4. QED BY <3>1, <3>2, <3>3
  <2>2. CASE i = k /\ j # k
    BY <1>3, <1>4, <1>8, <2>2 DEF Standing
  <2>3. CASE i # k /\ j = k
    BY <1>3, <1>4, <1>8, <2>3 DEF Standing
  <2>4. QED BY <2>1, <2>2, <2>3
<1>9. OnePlace(f) /\ ~Standing(f, x) => OnePlace(g)
  BY <1>8 DEF OnePlace
<1>10. \A i \in Tasks(g) : Section(g, i) = v \/ \E j \in Tasks(f) : Section(f, j) = Section(g, i)
  BY <1>2, <1>4
<1>11. QED BY <1>5, <1>6, <1>7, <1>9, <1>10

\* What taking a ticket out changes.
LEMMA RemovedRow ==
    ASSUME NEW L, NEW f \in Seq(L), NEW w, NEW x, Found(f, w, x)
    PROVE  LET g == RemoveTicket(f, w, x)
           IN  /\ g \in Seq(L)
               /\ \A y : Standing(g, y) => Standing(f, y)
               /\ \A y : Standing(f, y) /\ y # x => Standing(g, y)
               /\ \A r, y : Found(g, r, y) => Found(f, r, y)
               /\ \A r, y : Found(f, r, y) /\ y # x => Found(g, r, y)
               /\ OnePlace(f) => OnePlace(g) /\ ~Standing(g, x)
               /\ LoadedWorkers(g) \subseteq LoadedWorkers(f)
<1> DEFINE k == Min(TicketAt(f, w, x))
           g == RemoveAt(f, k)
           up == Shifted(Tasks(g), k)
<1>1. k \in 1..Len(f) /\ f[k].kind = "Task" /\ f[k].row = x
  BY TicketLine
<1>2. g \in Seq(L) /\ RemoveTicket(f, w, x) = g
  BY <1>1, RemoveLine DEF RemoveTicket
<1>3. /\ Embeds(g, f, up)
      /\ \A i \in Tasks(f) \ {k} : \E j \in Tasks(g) : up[j] = i
      /\ HeadersFrom(f, g, {})
  BY <1>1, RemoveEmbeds
<1>4. up \in [Tasks(g) -> Tasks(f)] /\ \A i \in Tasks(g) : up[i] # k /\ up[i] \in Tasks(f)
  <2>1. DOMAIN g = 1..(Len(f) - 1)
    BY <1>1, RemoveIndex
  <2>2. \A i \in Tasks(g) : i \in Nat
    BY <2>1 DEF Tasks
  <2>3. \A i \in Tasks(g) : up[i] = IF i < k THEN i ELSE i + 1
    BY DEF Shifted
  <2>4. k \in Nat
    BY <1>1, LenProperties
  <2> HIDE DEF k, g, up
  <2>5. \A i \in Tasks(g) : up[i] # k
    BY <2>2, <2>3, <2>4
  <2>6. QED BY <1>3, <2>5 DEF Embeds
<1>5. k \in Tasks(f)
  BY <1>1, LenProperties DEF Tasks
<1> HIDE DEF k, g, up
<1>6. \A i \in Tasks(g) : f[up[i]] = g[i] /\ Section(f, up[i]) = Section(g, i)
  BY <1>3 DEF Embeds
<1>7. ASSUME NEW i \in Tasks(f), i # k
      PROVE  \E j \in Tasks(g) : g[j] = f[i] /\ Section(g, j) = Section(f, i)
  BY <1>3, <1>6, <1>7
<1>8. \A y : Standing(g, y) => Standing(f, y)
  BY <1>4, <1>6 DEF Standing
<1>9. \A y : Standing(f, y) /\ y # x => Standing(g, y)
  BY <1>1, <1>7 DEF Standing
<1>10. ASSUME NEW r, NEW y, Found(g, r, y) PROVE Found(f, r, y)
  <2>1. PICK j \in Tasks(g) : g[j].row = y /\ WorkerMatches(Section(g, j), r)
    BY <1>10, FoundIsTask
  <2>2. up[j] \in Tasks(f) /\ f[up[j]].row = y /\ WorkerMatches(Section(f, up[j]), r)
    BY <1>4, <1>6, <2>1
  <2>3. QED BY <2>2, FoundIsTask
<1>11. ASSUME NEW r, NEW y, Found(f, r, y), y # x PROVE Found(g, r, y)
  <2>1. PICK i \in Tasks(f) : f[i].row = y /\ WorkerMatches(Section(f, i), r)
    BY <1>11, FoundIsTask
  <2>2. i # k
    BY <1>1, <1>11, <2>1
  <2>3. PICK j \in Tasks(g) : g[j] = f[i] /\ Section(g, j) = Section(f, i)
    BY <1>7, <2>2
  <2>4. g[j].row = y /\ WorkerMatches(Section(g, j), r)
    BY <2>1, <2>3
  <2>5. QED BY <2>4, FoundIsTask
<1>12. ASSUME OnePlace(f) PROVE OnePlace(g) /\ ~Standing(g, x)
  <2>1. ASSUME NEW i \in Tasks(g), NEW j \in Tasks(g), g[i].row = g[j].row PROVE i = j
    <3>1. up[i] = up[j]
      BY <1>4, <1>6, <1>12, <2>1 DEF OnePlace
    <3>2. DOMAIN g \in SUBSET Nat
      <4>1. DOMAIN g = 1..Len(g) /\ Len(g) \in Nat
        BY <1>2, LenProperties
      <4>2. QED BY <4>1
    <3>3. i \in Nat /\ j \in Nat
      BY <3>2 DEF Tasks
    <3>4. /\ i < j => up[i] < up[j]
          /\ j < i => up[j] < up[i]
      BY <1>3 DEF Embeds
    <3>5. up[i] \in Nat
      <4>1. DOMAIN f = 1..Len(f) /\ Len(f) \in Nat
        BY LenProperties
      <4>2. QED BY <1>4, <4>1 DEF Tasks
    <3>6. QED BY <3>1, <3>3, <3>4, <3>5
  <2>2. ASSUME NEW j \in Tasks(g), g[j].row = x PROVE FALSE
    <3>1. up[j] \in Tasks(f) /\ up[j] # k /\ f[up[j]].row = f[k].row
      BY <1>1, <1>4, <1>6, <2>2
    <3>2. QED BY <1>5, <1>12, <3>1 DEF OnePlace
  <2>3. QED BY <2>1, <2>2 DEF OnePlace, Standing
<1>13. LoadedWorkers(g) \subseteq LoadedWorkers(f)
  <2>1. ListWorkers(g) \subseteq ListWorkers(f)
    BY <1>4, <1>6 DEF ListWorkers, Tasks
  <2>2. ASSUME NEW i \in DOMAIN g, g[i].kind = "Header"
        PROVE  \E j \in DOMAIN f : f[j].kind = "Header" /\ f[j].w = g[i].w
    BY <1>3, <2>2 DEF HeadersFrom, IsHeader
  <2>3. QED BY <2>1, <2>2 DEF LoadedWorkers
<1>14. QED BY <1>2, <1>8, <1>9, <1>10, <1>11, <1>12, <1>13

\* A routed row opens the section of its receiver at most.
LEMMA AddedWorkers ==
    ASSUME NEW f, NEW g, NEW up, NEW v, NEW x, OneMore(f, g, up, v, x), HeadersFrom(f, g, {v})
    PROVE  LoadedWorkers(g) \subseteq LoadedWorkers(f) \cup {v}
<1>1. ListWorkers(g) \subseteq ListWorkers(f) \cup {v}
  BY AddedRow DEF ListWorkers, Tasks
<1>2. ASSUME NEW i \in DOMAIN g, g[i].kind = "Header"
      PROVE  g[i].w = v \/ \E j \in DOMAIN f : f[j].kind = "Header" /\ f[j].w = g[i].w
  BY <1>2 DEF HeadersFrom, IsHeader
<1>3. QED BY <1>1, <1>2 DEF LoadedWorkers

\* Rewriting a line that is no header by one that is none changes no section.
LEMMA SectionsReplaced ==
    ASSUME NEW L, NEW f \in Seq(L), NEW k \in 1..Len(f), NEW l,
           f[k].kind # "Header", l.kind # "Header"
    PROVE  /\ DOMAIN ReplaceAt(f, k, l) = DOMAIN f
           /\ ReplaceAt(f, k, l)[k] = l
           /\ \A i \in DOMAIN f : i # k => ReplaceAt(f, k, l)[i] = f[i]
           /\ \A i \in DOMAIN f : Section(ReplaceAt(f, k, l), i) = Section(f, i)
<1> DEFINE g == ReplaceAt(f, k, l)  n == Len(f)
<1>1. n \in Nat /\ DOMAIN f = 1..n
  BY LenProperties
<1>2. /\ DOMAIN g = DOMAIN f /\ g[k] = l
      /\ \A i \in DOMAIN f : i # k => g[i] = f[i]
  BY <1>1 DEF ReplaceAt
<1> HIDE DEF g, n
<1>3. ASSUME NEW i \in DOMAIN f PROVE Section(g, i) = Section(f, i)
  <2>1. i \in Nat /\ \A j \in 1..i : j \in DOMAIN f
    BY <1>1
  <2>2. \A j \in 1..i : /\ g[j].kind = "Header" <=> f[j].kind = "Header"
                        /\ f[j].kind = "Header" => g[j] = f[j]
    BY <1>2, <2>1
  <2>3. Headers(g, i) = Headers(f, i)
    BY <2>2 DEF Headers
  <2>4. CASE Headers(f, i) = {}
    BY <2>3, <2>4 DEF Section
  <2>5. CASE Headers(f, i) # {}
    <3>1. Headers(f, i) \in SUBSET (0..i)
      BY <2>1 DEF Headers
    <3>2. Max(Headers(f, i)) \in Headers(f, i)
      BY <2>1, <2>5, <3>1, MaxOfNats
    <3>3. g[Max(Headers(f, i))] = f[Max(Headers(f, i))]
      BY <2>2, <3>2 DEF Headers
    <3>4. QED BY <2>3, <2>5, <3>3 DEF Section
  <2>6. QED BY <2>4, <2>5
<1>4. QED BY <1>2, <1>3 DEF g
=============================================================================
