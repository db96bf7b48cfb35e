------------------------ MODULE WorktodoQueueProofs ------------------------
(***************************************************************************)
(* What the operations on a worktodo text do to the rows of each worker,   *)
(* for texts of any length, any number of workers and any rows.            *)
(***************************************************************************)
EXTENDS WorktodoQueue, WorktodoFileProofs

(***************************************************************************)
(* The rows on the lines S of a file, in their order.                      *)
(***************************************************************************)
RowList(f, S) == [x \in 1..Cardinality(S) |-> f[Nth(S, x)].row]

OwnLines(f, w) == {i \in DOMAIN f : f[i].kind = "Task" /\ Section(f, i) = w}

\* A set of line numbers of some file.
LineSet(S) == \E n \in Nat : S \in SUBSET (1..n)

RowsIn(f, S, R) == \A i \in S : f[i].row \in R

LEMMA RowsOfIs ==
    ASSUME NEW L, NEW f \in Seq(L), NEW w
    PROVE  /\ RowsOf(f, w) = RowList(f, OwnLines(f, w))
           /\ LineSet(OwnLines(f, w)) /\ \A i \in OwnLines(f, w) : i \in Nat
           /\ OwnLines(f, w) = {i \in Tasks(f) : Section(f, i) = w}
<1>1. DOMAIN f = 1..Len(f) /\ Len(f) \in Nat
  BY LenProperties
<1>2. OwnLines(f, w) \in SUBSET (1..Len(f))
  BY <1>1 DEF OwnLines
<1>3. \A i \in OwnLines(f, w) : i \in Nat
  BY <1>2
<1>4. QED BY <1>1, <1>2, <1>3 DEF LineSet, RowsOf, RowList, OwnLines, Pick, Tasks

SameRows(f, S, g, p) == \A i \in S : g[p[i]].row = f[i].row

\* The rows stay when the lines keep their order and their rows.
LEMMA RowsMapped ==
    ASSUME NEW S, LineSet(S), NEW T, LineSet(T), NEW f, NEW g, NEW p, Carries(p, S, T), SameRows(f, S, g, p)
    PROVE  RowList(g, T) = RowList(f, S)
<1> PICK n \in Nat : S \in SUBSET (1..n)
  BY DEF LineSet
<1> PICK m \in Nat : T \in SUBSET (1..m)
  BY DEF LineSet
<1>1. Cardinality(T) = Cardinality(S) /\ \A x \in 1..Cardinality(S) : p[Nth(S, x)] = Nth(T, x)
  BY NthMapped, Zenon
<1>2. \A x \in 1..Cardinality(S) : Nth(S, x) \in S
  BY NthFacts
<1>3. \A x \in 1..Cardinality(S) : g[Nth(T, x)].row = f[Nth(S, x)].row
  BY <1>1, <1>2 DEF SameRows
<1>4. QED BY <1>1, <1>3 DEF RowList

LEMMA RowListIsSeq ==
    ASSUME NEW S, LineSet(S), NEW R, NEW f, RowsIn(f, S, R)
    PROVE  /\ RowList(f, S) \in Seq(R) /\ Len(RowList(f, S)) = Cardinality(S)
           /\ DOMAIN RowList(f, S) = 1..Cardinality(S) /\ Cardinality(S) \in Nat
<1> PICK n \in Nat : S \in SUBSET (1..n)
  BY DEF LineSet
<1>1. Cardinality(S) \in Nat /\ \A x \in 1..Cardinality(S) : Nth(S, x) \in S
  BY BelowFacts, NthFacts
<1>2. RowList(f, S) \in [1..Cardinality(S) -> R]
  BY <1>1 DEF RowList, RowsIn
<1>3. RowList(f, S) \in Seq(R)
  BY <1>1, <1>2, SeqDef
<1>4. DOMAIN RowList(f, S) = 1..Cardinality(S)
  BY DEF RowList
<1>5. Len(RowList(f, S)) \in Nat /\ 1..Len(RowList(f, S)) = 1..Cardinality(S)
  BY <1>3, <1>4, LenProperties
<1>6. QED BY <1>1, <1>3, <1>4, <1>5

\* Without line k: one row is taken out.
LEMMA RowsWithout ==
    ASSUME NEW S, LineSet(S), NEW k \in S, NEW R, NEW f, RowsIn(f, S, R)
    PROVE  \E r \in DOMAIN RowList(f, S) : RowList(f, S \ {k}) = RemoveAt(RowList(f, S), r)
<1> PICK n \in Nat : S \in SUBSET (1..n)
  BY DEF LineSet
<1> DEFINE s == RowList(f, S)  t == RowList(f, S \ {k})  N == Cardinality(S)
<1>1. PICK r \in 1..N : /\ N \in Nat /\ Cardinality(S \ {k}) = N - 1
                        /\ \A x \in 1..(N - 1) :
                              Nth(S \ {k}, x) = IF x < r THEN Nth(S, x) ELSE Nth(S, x + 1)
  BY NthWithout
<1>2. s \in Seq(R) /\ Len(s) = N /\ DOMAIN s = 1..N
  BY RowListIsSeq
<1>3. t \in Seq(R) /\ Len(t) = N - 1
  <2>1. LineSet(S \ {k}) /\ RowsIn(f, S \ {k}, R)
    BY DEF LineSet, RowsIn
  <2>2. QED BY <1>1, <2>1, RowListIsSeq
<1>4. /\ Len(RemoveAt(s, r)) = N - 1
      /\ \A x \in 1..(N - 1) : RemoveAt(s, r)[x] = IF x < r THEN s[x] ELSE s[x + 1]
      /\ RemoveAt(s, r) \in Seq(R)
  <2> HIDE DEF s, N
  <2>1. r \in 1..Len(s)
    BY <1>2
  <2>2. QED BY <1>2, <2>1, RemoveIndex, RemoveLine
<1>5. ASSUME NEW x \in 1..(N - 1) PROVE t[x] = RemoveAt(s, r)[x]
  <2>1. x \in Nat /\ x \in 1..N /\ x + 1 \in 1..N
    BY <1>1
  <2>2. s[x] = f[Nth(S, x)].row /\ s[x + 1] = f[Nth(S, x + 1)].row
    BY <2>1 DEF RowList
  <2>3. t[x] = f[Nth(S \ {k}, x)].row
    BY <1>1 DEF RowList
  <2> HIDE DEF s, t, N
  <2>4. CASE x < r
    BY <1>1, <1>4, <2>2, <2>3, <2>4
  <2>5. CASE ~(x < r)
    BY <1>1, <1>4, <2>2, <2>3, <2>5
  <2>6. QED BY <2>4, <2>5
<1> HIDE DEF s, t, N
<1>6. t = RemoveAt(s, r)
  BY <1>3, <1>4, <1>5, SeqEqual
<1>7. QED BY <1>2, <1>6 DEF s, t

\* With line k, which comes after the others: one row is appended.
LEMMA RowsAppended ==
    ASSUME NEW T, LineSet(T), NEW k \in T, NEW R, NEW g, RowsIn(g, T, R),
           \A i \in T : i <= k
    PROVE  RowList(g, T) = Append(RowList(g, T \ {k}), g[k].row)
<1> PICK n \in Nat : T \in SUBSET (1..n)
  BY DEF LineSet
<1> DEFINE s == RowList(g, T \ {k})  t == RowList(g, T)  N == Cardinality(T)
<1>1. Below(T, k) = T
  BY DEF Below
<1>2. /\ N \in Nat /\ N \in 1..N /\ Nth(T, N) = k /\ Cardinality(T \ {k}) = N - 1
      /\ \A x \in 1..(N - 1) : Nth(T \ {k}, x) = IF x < N THEN Nth(T, x) ELSE Nth(T, x + 1)
  <2>1. PICK r \in 1..N : /\ r = Cardinality(Below(T, k))
                          /\ N \in Nat /\ Nth(T, r) = k /\ Cardinality(T \ {k}) = N - 1
                          /\ \A x \in 1..(N - 1) :
                                Nth(T \ {k}, x) = IF x < r THEN Nth(T, x) ELSE Nth(T, x + 1)
    BY NthWithout
  <2>2. r = N
    BY <1>1, <2>1
  <2>3. QED BY <2>1, <2>2
<1>3. t \in Seq(R) /\ Len(t) = N
  BY RowListIsSeq
<1>4. s \in Seq(R) /\ Len(s) = N - 1
  <2>1. LineSet(T \ {k}) /\ RowsIn(g, T \ {k}, R)
    BY DEF LineSet, RowsIn
  <2>2. QED BY <1>2, <2>1, RowListIsSeq
<1>5. g[k].row \in R
  BY DEF RowsIn
<1>6. /\ Append(s, g[k].row) \in Seq(R) /\ Len(Append(s, g[k].row)) = N
      /\ \A x \in 1..(N - 1) : Append(s, g[k].row)[x] = s[x]
      /\ Append(s, g[k].row)[N] = g[k].row
  <2> HIDE DEF s, N
  <2>1. (N - 1) + 1 = N
    BY <1>2
  <2>2. QED BY <1>4, <1>5, <2>1, AppendProperties
<1>7. ASSUME NEW x \in 1..N PROVE t[x] = Append(s, g[k].row)[x]
  <2>1. t[x] = g[Nth(T, x)].row
    BY DEF RowList
  <2>2. CASE x = N
    BY <1>2, <1>6, <2>1, <2>2
  <2>3. CASE x # N
    <3>1. x \in 1..(N - 1) /\ x < N
      BY <1>2, <2>3
    <3>2. s[x] = g[Nth(T \ {k}, x)].row
      BY <1>2, <3>1 DEF RowList
    <3>3. Nth(T \ {k}, x) = Nth(T, x)
      BY <1>2, <3>1
    <3>4. QED BY <1>6, <2>1, <3>1, <3>2, <3>3
  <2>4. QED BY <2>2, <2>3
<1> HIDE DEF s, t, N
<1>8. t = Append(s, g[k].row)
  BY <1>3, <1>6, <1>7, SeqEqual
<1>9. QED BY <1>8 DEF s, t

\* Another row on line k: one row is rewritten in place.
LEMMA RowsReplaced ==
    ASSUME NEW S, LineSet(S), NEW k \in S, NEW f, NEW g,
           \A i \in S : i # k => g[i].row = f[i].row
    PROVE  \E r \in DOMAIN RowList(f, S) : RowList(g, S) = ReplaceAt(RowList(f, S), r, g[k].row)
<1> PICK n \in Nat : S \in SUBSET (1..n)
  BY DEF LineSet
<1> DEFINE s == RowList(f, S)  N == Cardinality(S)
<1>1. PICK r \in 1..N : Nth(S, r) = k
  BY NthWithout
<1>2. \A x \in 1..N : Nth(S, x) \in S /\ (x # r => Nth(S, x) # k)
  <2>1. \A x \in 1..N : Nth(S, x) \in S /\ Cardinality(Below(S, Nth(S, x))) = x
    BY NthFacts
  <2>2. QED BY <1>1, <2>1
<1>3. DOMAIN s = 1..N /\ \A x \in 1..N : s[x] = f[Nth(S, x)].row
  BY DEF RowList
<1>4. ReplaceAt(s, r, g[k].row) = [x \in 1..N |-> g[Nth(S, x)].row]
  <2>1. ReplaceAt(s, r, g[k].row) = [x \in 1..N |-> IF x = r THEN g[k].row ELSE s[x]]
    BY <1>3 DEF ReplaceAt
  <2>2. \A x \in 1..N : (IF x = r THEN g[k].row ELSE s[x]) = g[Nth(S, x)].row
    BY <1>1, <1>2, <1>3
  <2> HIDE DEF s
  <2>3. QED BY <2>1, <2>2
<1>5. RowList(g, S) = ReplaceAt(s, r, g[k].row)
  BY <1>4 DEF RowList
<1>6. QED BY <1>3, <1>5

(***************************************************************************)
(* What the operations on a text do to the rows of a worker.               *)
(***************************************************************************)
\* g is f without task line k: the worker of k has one row less.
LEMMA RowsOneLess ==
    ASSUME NEW L, NEW f \in Seq(L), NEW g \in Seq(L), NEW up, NEW k \in Tasks(f), NEW v,
           Embeds(g, f, up),
           \A i \in Tasks(g) : up[i] # k,
           \A i \in Tasks(f) \ {k} : \E j \in Tasks(g) : up[j] = i
    PROVE  /\ Section(f, k) # v => RowsOf(g, v) = RowsOf(f, v)
           /\ Section(f, k) = v => \E r \in DOMAIN RowsOf(f, v) :
                                      RowsOf(g, v) = RemoveAt(RowsOf(f, v), r)
<1> DEFINE S == OwnLines(g, v)
           A == OwnLines(f, v)
           T == A \ {k}
           p == [i \in S |-> up[i]]
<1>1. /\ RowsOf(g, v) = RowList(g, S) /\ LineSet(S)
      /\ RowsOf(f, v) = RowList(f, A) /\ LineSet(A)
      /\ S = {i \in Tasks(g) : Section(g, i) = v}
      /\ A = {i \in Tasks(f) : Section(f, i) = v}
  BY RowsOfIs
<1>2. /\ up \in [Tasks(g) -> Tasks(f)]
      /\ \A i, j \in Tasks(g) : i < j => up[i] < up[j]
      /\ \A i \in Tasks(g) : f[up[i]] = g[i] /\ Section(f, up[i]) = Section(g, i)
  BY DEF Embeds
<1> HIDE DEF S, A
<1>3. \A i \in S : p[i] = up[i] /\ up[i] \in T
  BY <1>1, <1>2
<1>4. p \in [S -> T]
  BY <1>3
<1>5. \A t \in T : \E i \in S : p[i] = t
  <2>1. ASSUME NEW t \in T PROVE \E i \in S : p[i] = t
    <3>1. PICK i \in Tasks(g) : up[i] = t
      BY <1>1
    <3>2. i \in S
      BY <1>1, <1>2, <3>1
    <3>3. QED BY <1>3, <3>1, <3>2
  <2>2. QED BY <2>1
<1> HIDE DEF p
<1>6. \A i, j \in S : i < j => p[i] < p[j]
  BY <1>1, <1>2, <1>3
<1>7. Carries(p, S, T)
  BY <1>4, <1>5, <1>6 DEF Carries
<1>8. SameRows(g, S, f, p)
  BY <1>1, <1>2, <1>3 DEF SameRows
<1>9. LineSet(T)
  BY <1>1 DEF LineSet
<1>10. RowList(f, T) = RowList(g, S)
  <2> HIDE DEF T
  <2>1. QED BY <1>1, <1>7, <1>8, <1>9, RowsMapped
<1>11. CASE Section(f, k) # v
  <2>1. T = A
    BY <1>1, <1>11
  <2>2. QED BY <1>1, <1>10, <1>11, <2>1
<1>12. CASE Section(f, k) = v
  <2> DEFINE R == {f[i].row : i \in A}
  <2>1. k \in A
    BY <1>1, <1>12
  <2>2. RowsIn(f, A, R)
    BY DEF RowsIn
  <2> HIDE DEF R
  <2>3. \E r \in DOMAIN RowList(f, A) : RowList(f, A \ {k}) = RemoveAt(RowList(f, A), r)
    BY <1>1, <2>1, <2>2, RowsWithout
  <2>4. QED BY <1>1, <1>10, <1>12, <2>3
<1>13. QED BY <1>11, <1>12

\* g is f with one task line more, the last of its section.
LEMMA RowsOneMore ==
    ASSUME NEW L, NEW f \in Seq(L), NEW g \in Seq(L), NEW up, NEW w, NEW x, NEW v,
           OneMore(f, g, up, w, x)
    PROVE  /\ v # w => RowsOf(g, v) = RowsOf(f, v)
           /\ v = w => RowsOf(g, v) = Append(RowsOf(f, v), x)
<1> DEFINE S == OwnLines(f, v)
           A == OwnLines(g, v)
<1>1. /\ RowsOf(f, v) = RowList(f, S) /\ LineSet(S)
      /\ RowsOf(g, v) = RowList(g, A) /\ LineSet(A) /\ \A i \in A : i \in Nat
      /\ S = {i \in Tasks(f) : Section(f, i) = v}
      /\ A = {i \in Tasks(g) : Section(g, i) = v}
  BY RowsOfIs
<1>2. /\ up \in [Tasks(f) -> Tasks(g)]
      /\ \A i, j \in Tasks(f) : i < j => up[i] < up[j]
      /\ \A i \in Tasks(f) : g[up[i]] = f[i] /\ Section(g, up[i]) = Section(f, i)
  BY DEF OneMore, Embeds
<1>3. PICK k \in Tasks(g) :
        /\ g[k] = TaskLine(x) /\ Section(g, k) = w
        /\ \A i \in Tasks(f) : up[i] # k /\ (Section(f, i) = w => up[i] < k)
        /\ \A j \in Tasks(g) \ {k} : \E i \in Tasks(f) : up[i] = j
  BY DEF OneMore
<1> HIDE DEF S, A
<1> DEFINE T == A \ {k}
           p == [i \in S |-> up[i]]
<1>4. \A i \in S : p[i] = up[i] /\ up[i] \in T
  BY <1>1, <1>2, <1>3
<1>5. p \in [S -> T]
  BY <1>4
<1>6. \A t \in T : \E i \in S : p[i] = t
  <2>1. ASSUME NEW t \in T PROVE \E i \in S : p[i] = t
    <3>1. PICK i \in Tasks(f) : up[i] = t
      BY <1>1, <1>3
    <3>2. i \in S
      BY <1>1, <1>2, <3>1
    <3>3. QED BY <1>4, <3>1, <3>2
  <2>2. QED BY <2>1
<1> HIDE DEF p
<1>7. \A i, j \in S : i < j => p[i] < p[j]
  BY <1>1, <1>2, <1>4
<1>8. Carries(p, S, T)
  BY <1>5, <1>6, <1>7 DEF Carries
<1>9. SameRows(f, S, g, p)
  BY <1>1, <1>2, <1>4 DEF SameRows
<1>10. LineSet(T)
  BY <1>1 DEF LineSet
<1>11. RowList(g, T) = RowList(f, S)
  <2> HIDE DEF T
  <2>1. QED BY <1>1, <1>8, <1>9, <1>10, RowsMapped
<1>12. CASE v # w
  <2>1. T = A
    BY <1>1, <1>3, <1>12
  <2>2. QED BY <1>1, <1>11, <1>12, <2>1
<1>13. CASE v = w
  <2> DEFINE R == {g[i].row : i \in A}
  <2>1. k \in A
    BY <1>1, <1>3, <1>13
  <2>2. RowsIn(g, A, R)
    BY DEF RowsIn
  <2>6. \A i \in A : i <= k
    <3>1. ASSUME NEW i \in A, i # k PROVE i < k
      <4>1. PICK j \in S : up[j] = i
        BY <1>4, <1>6, <3>1
      <4>2. QED BY <1>1, <1>3, <1>13, <4>1
    <3>2. \A i \in A : i \in Nat
      BY <1>1
    <3>3. QED BY <2>1, <3>1, <3>2
  <2> HIDE DEF R
  <2>3. RowList(g, A) = Append(RowList(g, A \ {k}), g[k].row)
    BY <1>1, <2>1, <2>2, <2>6, RowsAppended
  <2>4. g[k].row = x
    BY <1>3 DEF TaskLine
  <2>5. QED BY <1>1, <1>11, <1>13, <2>3, <2>4
<1>14. QED BY <1>12, <1>13

\* Another row on a task line: the worker of the line has it in that place.
LEMMA RowsRewritten ==
    ASSUME NEW L, NEW f \in Seq(L), NEW k \in 1..Len(f), f[k].kind = "Task", NEW x,
           TaskLine(x) \in L, NEW v
    PROVE  LET g == ReplaceAt(f, k, TaskLine(x))
           IN  /\ Section(f, k) # v => RowsOf(g, v) = RowsOf(f, v)
               /\ Section(f, k) = v => \E r \in DOMAIN RowsOf(f, v) :
                                          RowsOf(g, v) = ReplaceAt(RowsOf(f, v), r, x)
<1> DEFINE g == ReplaceAt(f, k, TaskLine(x))  S == OwnLines(f, v)
<1>1. TaskLine(x).kind = "Task" /\ TaskLine(x).row = x
  BY DEF TaskLine
<1>2. /\ DOMAIN g = DOMAIN f /\ g[k] = TaskLine(x)
      /\ \A i \in DOMAIN f : i # k => g[i] = f[i]
      /\ \A i \in DOMAIN f : Section(g, i) = Section(f, i)
  BY <1>1, SectionsReplaced
<1>3. k \in DOMAIN f /\ g \in Seq(L)
  BY ReplaceLine, LenProperties
<1> HIDE DEF g
<1>4. \A i \in DOMAIN f : g[i].kind = "Task" <=> f[i].kind = "Task"
  BY <1>1, <1>2
<1>5. OwnLines(g, v) = S
  BY <1>2, <1>4 DEF OwnLines
<1>6. /\ RowsOf(f, v) = RowList(f, S) /\ LineSet(S)
      /\ RowsOf(g, v) = RowList(g, S)
  BY <1>3, <1>5, RowsOfIs
<1>7. \A i \in S : i # k => g[i].row = f[i].row
  BY <1>2 DEF OwnLines
<1>8. CASE Section(f, k) # v
  <2>1. \A i \in S : i # k
    BY <1>8 DEF OwnLines
  <2> HIDE DEF S
  <2>2. LineSet(S) => \A c \in 1..Cardinality(S) : Nth(S, c) \in S
    BY NthFacts DEF LineSet
  <2>3. RowList(g, S) = RowList(f, S)
    BY <1>6, <1>7, <2>1, <2>2 DEF RowList
  <2>4. QED BY <1>6, <1>8, <2>3 DEF g
<1>9. CASE Section(f, k) = v
  <2>1. k \in S
    BY <1>3, <1>9 DEF OwnLines
  <2> HIDE DEF S
  <2>2. \E r \in DOMAIN RowList(f, S) : RowList(g, S) = ReplaceAt(RowList(f, S), r, g[k].row)
    BY <1>6, <1>7, <2>1, RowsReplaced
  <2>3. QED BY <1>1, <1>2, <1>6, <1>9, <2>2 DEF g
<1>10. QED BY <1>8, <1>9

\* A marked line is no task line any more.
LEMMA RowsMarked ==
    ASSUME NEW L, NEW f \in Seq(L), NEW k \in 1..Len(f), f[k].kind = "Task", NEW x,
           ErrorLine(x) \in L, NEW v
    PROVE  LET g == ReplaceAt(f, k, ErrorLine(x))
           IN  /\ Section(f, k) # v => RowsOf(g, v) = RowsOf(f, v)
               /\ Section(f, k) = v => \E r \in DOMAIN RowsOf(f, v) :
                                          RowsOf(g, v) = RemoveAt(RowsOf(f, v), r)
<1> DEFINE g == ReplaceAt(f, k, ErrorLine(x))
           up == [i \in Tasks(g) |-> i]
<1>1. ErrorLine(x).kind = "Error"
  BY DEF ErrorLine
<1>2. /\ DOMAIN g = DOMAIN f /\ g[k] = ErrorLine(x)
      /\ \A i \in DOMAIN f : i # k => g[i] = f[i]
      /\ \A i \in DOMAIN f : Section(g, i) = Section(f, i)
  BY <1>1, SectionsReplaced
<1>3. k \in Tasks(f) /\ g \in Seq(L)
  BY ReplaceLine, LenProperties DEF Tasks
<1> HIDE DEF g
<1>4. \A i : i \in Tasks(g) <=> i \in Tasks(f) /\ i # k
  BY <1>1, <1>2 DEF Tasks
<1>5. Embeds(g, f, up)
  BY <1>2, <1>4 DEF Embeds, Tasks
<1>6. /\ \A i \in Tasks(g) : up[i] # k
      /\ \A i \in Tasks(f) \ {k} : \E j \in Tasks(g) : up[j] = i
  BY <1>4
<1> HIDE DEF up
<1>7. /\ Section(f, k) # v => RowsOf(g, v) = RowsOf(f, v)
      /\ Section(f, k) = v => \E r \in DOMAIN RowsOf(f, v) :
                                 RowsOf(g, v) = RemoveAt(RowsOf(f, v), r)
  BY <1>3, <1>5, <1>6, RowsOneLess
<1>8. QED BY <1>7 DEF g

\* A line taken out.
LEMMA RowsRemoved ==
    ASSUME NEW L, NEW f \in Seq(L), NEW k \in 1..Len(f), f[k].kind = "Task", NEW v
    PROVE  LET g == RemoveAt(f, k)
           IN  /\ Section(f, k) # v => RowsOf(g, v) = RowsOf(f, v)
               /\ Section(f, k) = v => \E r \in DOMAIN RowsOf(f, v) :
                                          RowsOf(g, v) = RemoveAt(RowsOf(f, v), r)
<1> DEFINE g == RemoveAt(f, k)
           up == Shifted(Tasks(g), k)
<1>1. /\ Embeds(g, f, up)
      /\ \A i \in Tasks(f) \ {k} : \E j \in Tasks(g) : up[j] = i
  BY RemoveEmbeds
<1>2. g \in Seq(L) /\ k \in Tasks(f) /\ k \in Nat
  BY RemoveLine, LenProperties DEF Tasks
<1>3. \A i \in Tasks(g) : up[i] # k
  <2>1. \A i \in Tasks(g) : i \in Nat
    BY RemoveIndex, LenProperties DEF Tasks
  <2>2. \A i \in Tasks(g) : up[i] = IF i < k THEN i ELSE i + 1
    BY DEF Shifted
  <2> HIDE DEF g, up
  <2>3. QED BY <1>2, <2>1, <2>2
<1> HIDE DEF g, up
<1>4. /\ Section(f, k) # v => RowsOf(g, v) = RowsOf(f, v)
      /\ Section(f, k) = v => \E r \in DOMAIN RowsOf(f, v) :
                                 RowsOf(g, v) = RemoveAt(RowsOf(f, v), r)
  BY <1>1, <1>2, <1>3, RowsOneLess
<1>5. QED BY <1>4 DEF g

(***************************************************************************)
(* The steps.                                                              *)
(***************************************************************************)
\* One row less, one row rewritten in place, one row more at the end.
Shorter(old, new)   == \E i \in DOMAIN old : new = RemoveAt(old, i)
Rewritten(old, new) == \E i \in DOMAIN old, r \in Rows : new = ReplaceAt(old, i, r)
Longer(old, new)    == \E r \in Rows : new = Append(old, r)

LEMMA LineFacts ==
    /\ \A r \in Rows : TaskLine(r) \in Line /\ ErrorLine(r) \in Line
    /\ \A w \in Nat \ {0} : HeaderLine(w) \in Line
    /\ \A l \in Line : l.kind = "Task" => l.row \in Rows
BY DEF Line, TaskLine, ErrorLine, HeaderLine

\* A step of a consumer leaves a text, and the rows of every worker but the
\* one its ticket stands with.
LEMMA ConsumeRows ==
    ASSUME queue \in Seq(Line), NEW w \in Workers \cup {0}, NEW i \in Readable(w), Consume(w, i)
    PROVE  /\ queue' \in Seq(Line)
           /\ \E u : /\ w # 0 => u = w
                     /\ \A v : v # u => RowsOf(queue', v) = RowsOf(queue, v)
                     /\ \/ Shorter(RowsOf(queue, u), RowsOf(queue', u))
                        \/ Rewritten(RowsOf(queue, u), RowsOf(queue', u))
<1>1. PICK sel \in Selections, c \in 0..2 : i = ReadNext(queue, w, sel, c) /\ i # 0
  BY DEF Readable
<1>2. i \in 1..Len(queue) /\ queue[i] \in Line /\ queue[i].kind = "Task" /\ Found(queue, w, queue[i].row)
  BY <1>1, ReadIsTask
<1>3. PICK x \in Rows : x = queue[i].row
  BY <1>2, LineFacts
<1>4. Found(queue, w, x)
  BY <1>2, <1>3
<1> DEFINE T == TicketAt(queue, w, x)
<1>5. /\ Min(T) \in 1..Len(queue) /\ queue[Min(T)].kind = "Task" /\ Min(T) \in T
  <2>1. T \in SUBSET Nat /\ T # {}
    BY <1>4, LenProperties DEF Found, TicketAt, TaskAt
  <2>2. Min(T) \in T
    BY <2>1, MinOfNats
  <2>3. QED BY <1>4, <2>2, TicketLine
<1>6. PICK k \in 1..Len(queue) : k = Min(T) /\ queue[k].kind = "Task" /\ k \in T
  BY <1>5
<1>7. w # 0 => Section(queue, k) = w
  BY <1>6, WorkersAssumption DEF TicketAt, TaskAt, WorkerMatches
<1>8. CASE queue' = Advanced(queue, w, queue[i].row, "Remove", None)
  <2>1. queue' = RemoveAt(queue, k)
    BY <1>3, <1>6, <1>8 DEF Advanced, RemoveTicket
  <2>2. queue' \in Seq(Line)
    BY <2>1, RemoveLine
  <2>3. \A v : /\ Section(queue, k) # v => RowsOf(queue', v) = RowsOf(queue, v)
               /\ Section(queue, k) = v => Shorter(RowsOf(queue, v), RowsOf(queue', v))
    BY <1>6, <2>1, RowsRemoved DEF Shorter
  <2>4. QED BY <1>7, <2>2, <2>3
<1>9. CASE queue' = Advanced(queue, w, queue[i].row, "MarkError", None)
  <2>1. queue' = ReplaceAt(queue, k, ErrorLine(x)) /\ ErrorLine(x) \in Line
    BY <1>3, <1>6, <1>9, LineFacts DEF Advanced, ReplaceTicket
  <2>2. queue' \in Seq(Line)
    BY <2>1, ReplaceLine
  <2>3. \A v : /\ Section(queue, k) # v => RowsOf(queue', v) = RowsOf(queue, v)
               /\ Section(queue, k) = v => Shorter(RowsOf(queue, v), RowsOf(queue', v))
    BY <1>6, <2>1, RowsMarked DEF Shorter
  <2>4. QED BY <1>7, <2>2, <2>3
<1>10. ASSUME NEW n \in Rows, queue' = Advanced(queue, w, queue[i].row, "Replace", n)
       PROVE  /\ queue' \in Seq(Line)
              /\ \E u : /\ w # 0 => u = w
                        /\ \A v : v # u => RowsOf(queue', v) = RowsOf(queue, v)
                        /\ \/ Shorter(RowsOf(queue, u), RowsOf(queue', u))
                           \/ Rewritten(RowsOf(queue, u), RowsOf(queue', u))
  <2>1. queue' = ReplaceAt(queue, k, TaskLine(n)) /\ TaskLine(n) \in Line
    BY <1>3, <1>6, <1>10, LineFacts DEF Advanced, ReplaceTicket
  <2>2. queue' \in Seq(Line)
    BY <2>1, ReplaceLine
  <2>3. \A v : /\ Section(queue, k) # v => RowsOf(queue', v) = RowsOf(queue, v)
               /\ Section(queue, k) = v => Rewritten(RowsOf(queue, v), RowsOf(queue', v))
    BY <1>6, <2>1, RowsRewritten DEF Rewritten
  <2>4. QED BY <1>7, <2>2, <2>3
<1>11. QED BY <1>8, <1>9, <1>10 DEF Consume

\* Routing leaves a text, the rows of every worker but the receiver, and those
\* of the receiver with at most one row more at the end.
LEMMA RouteRows ==
    ASSUME queue \in Seq(Line), NEW w \in Workers \cup {0}, NEW x \in Rows, Route(w, x)
    PROVE  /\ queue' \in Seq(Line)
           /\ \A v : v # w => RowsOf(queue', v) = RowsOf(queue, v)
           /\ RowsOf(queue', w) = RowsOf(queue, w) \/ Longer(RowsOf(queue, w), RowsOf(queue', w))
<1>1. w \in Nat \ {0} /\ queue' = AppendUnique(queue, finished, w, x)
  BY WorkersAssumption DEF Route
<1>2. CASE Delivered(queue, finished, x)
  BY <1>1, <1>2 DEF AppendUnique
<1>3. CASE ~Delivered(queue, finished, x)
  <2>1. TaskLine(x) \in Line /\ HeaderLine(w) \in Line
    BY <1>1, LineFacts
  <2>2. queue' \in Seq(Line) /\ \E up : OneMore(queue, queue', up, w, x)
    BY <1>1, <1>3, <2>1, AppendUniqueAdds
  <2>3. \A v : /\ v # w => RowsOf(queue', v) = RowsOf(queue, v)
               /\ v = w => RowsOf(queue', v) = Append(RowsOf(queue, v), x)
    BY <2>2, RowsOneMore
  <2>4. QED BY <2>2, <2>3 DEF Longer
<1>4. QED BY <1>2, <1>3

\* The file is a text of classified lines at any time.
IsText == queue \in Seq(Line)

LEMMA QueueIsText == Spec => []IsText
<1>1. Init => IsText
  BY TextAssumption DEF Init, IsText
<1>2. IsText /\ [Next]_vars => IsText'
  <2>1. ASSUME queue \in Seq(Line), NEW w \in Workers \cup {0}, StepOf(w) PROVE queue' \in Seq(Line)
    BY <2>1, ConsumeRows, RouteRows DEF StepOf
  <2>2. ASSUME UNCHANGED vars, queue \in Seq(Line) PROVE queue' \in Seq(Line)
    BY <2>2 DEF vars
  <2>3. QED BY <2>1, <2>2 DEF Next, IsText
<1>3. QED BY <1>1, <1>2, PTL DEF Spec

\* The line advance changes is the line the consumer selected, although it is
\* looked up again by its text (worktodo.cpp, ecm_worktodo_advance): a row with
\* that text before it would have been selected.
THEOREM SelectedCorrect == Spec => []SelectedIsTaken
<1>1. ASSUME IsText PROVE SelectedIsTaken
  <2>0. queue \in Seq(Line)
    BY <1>1 DEF IsText
  <2> SUFFICES ASSUME NEW w \in Workers \cup {0}, NEW sel \in Selections, NEW c \in 0..2,
                      ReadNext(queue, w, sel, c) # 0
               PROVE  LET i == ReadNext(queue, w, sel, c)
                      IN  Min(TicketAt(queue, w, queue[i].row)) = i
    BY DEF SelectedIsTaken
  <2> DEFINE cand == Selected(queue, w, sel)
             i == ReadNext(queue, w, sel, c)
             T == TicketAt(queue, w, queue[i].row)
  <2>1. cand # {} /\ i = Min(cand)
    BY DEF ReadNext
  <2>2. TaskAt(queue, w) \in SUBSET Nat
    BY <2>0, LenProperties DEF TaskAt
  <2>3. cand \in SUBSET TaskAt(queue, w) /\ T \in SUBSET TaskAt(queue, w)
    BY DEF Selected, TicketAt
  <2>4. i \in cand /\ \A y \in cand : i <= y
    BY <2>1, <2>2, <2>3, MinOfNats
  <2>5. i \in T
    BY <2>3, <2>4 DEF TicketAt
  <2>6. ASSUME NEW y \in T PROVE y \in cand
    <3>1. y \in TaskAt(queue, w) /\ queue[y].row = queue[i].row
      BY DEF TicketAt
    <3>2. QED BY <2>4, <3>1 DEF Selected
  <2>7. Min(T) \in T /\ \A y \in T : Min(T) <= y
    BY <2>2, <2>3, <2>5, MinOfNats
  <2> HIDE DEF cand, i, T
  <2>8. Min(T) <= i /\ i <= Min(T) /\ Min(T) \in Nat /\ i \in Nat
    BY <2>2, <2>3, <2>4, <2>5, <2>6, <2>7
  <2>9. Min(T) = i
    BY <2>8
  <2>10. QED BY <2>9 DEF i, T
<1>2. QED BY <1>1, QueueIsText, PTL

\* A worker consumes and advances only its own section (worktodo.h), and a row
\* routed to it leaves the rows of everybody else, whatever headers go.
THEOREM OwnSectionCorrect == Spec => OwnSection
<1>1. ASSUME queue \in Seq(Line), NEW w \in Workers, StepOf(w), NEW v \in Workers \ {w}
      PROVE  RowsOf(queue', v) = RowsOf(queue, v)
  <2>1. w \in Workers \cup {0} /\ w # 0
    BY WorkersAssumption
  <2>2. ASSUME NEW i \in Readable(w), Consume(w, i) PROVE RowsOf(queue', v) = RowsOf(queue, v)
    BY <1>1, <2>1, <2>2, ConsumeRows
  <2>3. ASSUME NEW x \in Rows, Route(w, x) PROVE RowsOf(queue', v) = RowsOf(queue, v)
    BY <1>1, <2>1, <2>3, RouteRows
  <2>4. QED BY <1>1, <2>2, <2>3 DEF StepOf
<1>2. IsText =>
        [\A w \in Workers : StepOf(w) =>
            \A v \in Workers \ {w} : RowsOf(queue', v) = RowsOf(queue, v)]_vars
  BY <1>1 DEF IsText
<1>3. QED BY <1>2, QueueIsText, PTL DEF OwnSection

\* No step changes the order of a worker's rows: it takes one out, rewrites one
\* in place or adds one at the end.
THEOREM OrderCorrect == Spec => OrderKept
<1> DEFINE Kept(old, new) == new = old \/ Shorter(old, new) \/ Rewritten(old, new) \/ Longer(old, new)
<1>1. ASSUME queue \in Seq(Line), NEW w \in Workers \cup {0}, StepOf(w), NEW v \in Workers
      PROVE  Kept(RowsOf(queue, v), RowsOf(queue', v))
  <2>1. ASSUME NEW i \in Readable(w), Consume(w, i) PROVE Kept(RowsOf(queue, v), RowsOf(queue', v))
    <3>1. PICK u : /\ \A z : z # u => RowsOf(queue', z) = RowsOf(queue, z)
                   /\ \/ Shorter(RowsOf(queue, u), RowsOf(queue', u))
                      \/ Rewritten(RowsOf(queue, u), RowsOf(queue', u))
      BY <1>1, <2>1, ConsumeRows
    <3>2. QED BY <3>1
  <2>2. ASSUME NEW x \in Rows, Route(w, x) PROVE Kept(RowsOf(queue, v), RowsOf(queue', v))
    BY <1>1, <2>2, RouteRows
  <2>3. QED BY <1>1, <2>1, <2>2 DEF StepOf
<1>2. IsText /\ [Next]_vars =>
        [\A w \in Workers :
            LET old == RowsOf(queue, w)  new == RowsOf(queue', w) IN
              \/ new = old
              \/ \E i \in DOMAIN old : new = RemoveAt(old, i)
              \/ \E i \in DOMAIN old, r \in Rows : new = ReplaceAt(old, i, r)
              \/ \E r \in Rows : new = Append(old, r)]_vars
  BY <1>1 DEF IsText, Next, Shorter, Rewritten, Longer
<1>3. QED BY <1>2, QueueIsText, PTL DEF Spec, OrderKept
=============================================================================
