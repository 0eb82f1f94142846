--------------------------- MODULE ResearchProofs ---------------------------
(***************************************************************************)
(* Proofs about ResearchPipeline, for every set of recordings, horizons    *)
(* and artifact names, every minimum of rows and every bound on trainings  *)
(* and failures; and, at the end, about the desktop shell that runs the    *)
(* trainings (Workstation), for any number of sessions and trainings.      *)
(***************************************************************************)
EXTENDS ResearchPipeline, Workstation, FiniteSetTheorems, WellFoundedInduction, TLAPS

-----------------------------------------------------------------------------
(* Sets of naturals *)

\* A nonempty set of naturals has a least element.
LEMMA LeastExists ==
  ASSUME NEW S \in SUBSET Nat, S # {}
  PROVE  \E m \in S : \A n \in S : m <= n
<1> DEFINE less == OpToRel(<, Nat)
<1>1. \E m \in S : \A n \in S : ~ (<<n, m>> \in less)
  <2>1. IsWellFoundedOn(less, Nat)  BY NatLessThanWellFounded
  <2> HIDE DEF less
  <2> QED BY <2>1, WFMin
<1>2. \A m, n \in Nat : <<n, m>> \in less <=> n < m  BY DEF OpToRel
<1> HIDE DEF less
<1>3. PICK m \in S : \A n \in S : ~ (<<n, m>> \in less)  BY <1>1
<1>4. \A n \in S : m \in Nat /\ n \in Nat /\ ~ (n < m)  BY <1>2, <1>3
<1>5. \A n \in S : m <= n  BY <1>4
<1> QED BY <1>5

\* A set of naturals with 0 and the successor of each member holds them all.
LEMMA Induction ==
  ASSUME NEW G \in SUBSET Nat, 0 \in G, \A n \in G : n + 1 \in G
  PROVE  G = Nat
<1> SUFFICES ASSUME Nat \ G # {}  PROVE FALSE
  OBVIOUS
<1>1. PICK m \in Nat \ G : \A n \in Nat \ G : m <= n
  BY LeastExists
<1>2. m # 0 /\ m - 1 \in Nat /\ m - 1 + 1 = m  BY <1>1
<1>3. m - 1 \in G  BY <1>1, <1>2
<1> QED BY <1>1, <1>2, <1>3

\* What remains of a set of naturals below, and what is not above, one of them.
Below(S, x) == {y \in S : y < x}

\* In a finite set of naturals every rank is taken.
LEMMA RanksExist ==
  ASSUME NEW S \in SUBSET Nat, IsFiniteSet(S)
  PROVE  \A n \in 0 .. Cardinality(S) - 1 :
            \E x \in S : Cardinality(Below(S, x)) = n
<1>1. Cardinality(S) \in Nat  BY FS_CardinalityType
<1> DEFINE G == {n \in Nat : n < Cardinality(S) =>
                                \E x \in S : Cardinality(Below(S, x)) = n}
<1>2. 0 \in G
  <2> SUFFICES ASSUME 0 < Cardinality(S)
               PROVE  \E x \in S : Cardinality(Below(S, x)) = 0
    OBVIOUS
  <2>1. S # {}  BY FS_EmptySet
  <2>2. PICK x \in S : \A y \in S : x <= y  BY <2>1, LeastExists
  <2>3. Below(S, x) = {}
    <3>1. \A y \in S : y \in Nat /\ x \in Nat /\ ~ (y < x)  BY <2>2
    <3> QED BY <3>1 DEF Below
  <2> QED BY <2>3, FS_EmptySet
<1>3. ASSUME NEW n \in G  PROVE n + 1 \in G
  <2> SUFFICES ASSUME n + 1 < Cardinality(S)
               PROVE  \E x \in S : Cardinality(Below(S, x)) = n + 1
    OBVIOUS
  <2>1. PICK z \in S : Cardinality(Below(S, z)) = n  BY <1>1, <1>3
  <2> DEFINE upTo  == Below(S, z) \cup {z}
             above == {y \in S : y > z}
  <2>2. IsFiniteSet(Below(S, z))  BY FS_Subset DEF Below
  <2>3. Cardinality(upTo) = n + 1
    <3>1. z \notin Below(S, z)  BY DEF Below
    <3> QED BY <2>1, <2>2, <3>1, FS_AddElement
  <2>4. above # {}
    <3> SUFFICES ASSUME above = {}  PROVE FALSE
      OBVIOUS
    <3>1. S = upTo
      <4>1. \A y \in S : y \in Nat /\ z \in Nat /\ ~ (y > z)  OBVIOUS
      <4>2. \A y \in S : y < z \/ y = z  BY <4>1
      <4> QED BY <4>2 DEF Below
    <3> HIDE DEF upTo
    <3> QED BY <1>1, <1>3, <2>3, <3>1
  <2>5. PICK x \in above : \A y \in above : x <= y
    BY <2>4, LeastExists
  <2>6. Below(S, x) = upTo
    <3>1. x \in Nat /\ z \in Nat /\ z < x  BY <2>5
    <3>2. \A y \in S : y \in Nat /\ (y > z => x <= y)  BY <2>5
    <3>3. \A y \in S : y < x <=> y < z \/ y = z  BY <3>1, <3>2
    <3> HIDE DEF above
    <3> QED BY <3>1, <3>3 DEF Below
  <2> QED BY <2>3, <2>5, <2>6
<1>4. G = Nat
  <2> HIDE DEF G
  <2>1. G \in SUBSET Nat  BY DEF G
  <2> QED BY <1>2, <1>3, <2>1, Induction
<1>5. \A n \in 0 .. Cardinality(S) - 1 : n \in G /\ n < Cardinality(S)
  BY <1>1, <1>4
<1> QED BY <1>5

\* InOrder() of a finite set of naturals: its elements, in increasing order.
LEMMA InOrderFacts ==
  ASSUME NEW S \in SUBSET Nat, IsFiniteSet(S)
  PROVE  /\ InOrder(S) \in Seq(S) /\ Len(InOrder(S)) = Cardinality(S)
         /\ \A i, j \in DOMAIN InOrder(S) :
               i < j => InOrder(S)[i] < InOrder(S)[j]
<1> DEFINE n == Cardinality(S)
           list == InOrder(S)
<1>1. n \in Nat  BY FS_CardinalityType
<1>2. list = [i \in 1 .. n |-> CHOOSE x \in S : Cardinality(Below(S, x)) = i - 1]
  BY DEF InOrder, Below
<1> HIDE DEF list
<1>3. \A i \in 1 .. n : list[i] \in S /\ Cardinality(Below(S, list[i])) = i - 1
  <2> TAKE i \in 1 .. n
  <2>1. i - 1 \in 0 .. n - 1  BY <1>1
  <2>2. \E x \in S : Cardinality(Below(S, x)) = i - 1  BY <2>1, RanksExist
  <2>3. list[i] = CHOOSE x \in S : Cardinality(Below(S, x)) = i - 1  BY <1>2
  <2> QED BY <2>2, <2>3
<1>4. list \in Seq(S) /\ Len(list) = n /\ DOMAIN list = 1 .. n
  <2> HIDE DEF n
  <2>1. list \in [1 .. n -> S]  BY <1>2, <1>3
  <2> QED BY <1>1, <2>1
<1>5. ASSUME NEW i \in DOMAIN list, NEW j \in DOMAIN list, i < j
      PROVE  list[i] < list[j]
  <2> SUFFICES ASSUME ~ (list[i] < list[j])  PROVE FALSE
    OBVIOUS
  <2>1. /\ list[i] \in Nat /\ list[j] \in Nat
        /\ Cardinality(Below(S, list[i])) = i - 1
        /\ Cardinality(Below(S, list[j])) = j - 1
    BY <1>3, <1>4
  <2>2. Below(S, list[j]) \subseteq Below(S, list[i])
    <3>1. list[j] <= list[i]  BY <2>1
    <3>2. \A y \in S : y \in Nat /\ (y < list[j] => y < list[i])
      BY <2>1, <3>1
    <3> QED BY <3>2 DEF Below
  <2>3. IsFiniteSet(Below(S, list[i]))  BY FS_Subset DEF Below
  <2>4. Cardinality(Below(S, list[j])) <= Cardinality(Below(S, list[i]))
    BY <2>2, <2>3, FS_Subset
  <2> QED BY <1>1, <1>4, <1>5, <2>1, <2>4
<1> QED BY <1>4, <1>5 DEF list

-----------------------------------------------------------------------------
(* Recursive functions on an initial stretch of the naturals *)

\* f and g start alike and go on alike.
Alike(f, g, n) == /\ f[0] = g[0]
                  /\ \A i \in 1 .. n : f[i - 1] = g[i - 1] => f[i] = g[i]

\* Then they are one.
LEMMA RecursionIsUnique ==
  ASSUME NEW n \in Nat, NEW f, NEW g, Alike(f, g, n)
  PROVE  \A i \in 0 .. n : f[i] = g[i]
<1> USE DEF Alike
<1> DEFINE G == {i \in Nat : i <= n => f[i] = g[i]}
<1>1. 0 \in G  OBVIOUS
<1>2. ASSUME NEW i \in G  PROVE i + 1 \in G
  <2> SUFFICES ASSUME i + 1 <= n  PROVE f[i + 1] = g[i + 1]
    OBVIOUS
  <2>1. i + 1 \in 1 .. n /\ i + 1 - 1 = i /\ f[i] = g[i]  BY <1>2
  <2> QED BY <2>1
<1>3. G = Nat
  <2>1. G \in SUBSET Nat  OBVIOUS
  <2> HIDE DEF G
  <2> QED BY <1>1, <1>2, <2>1, Induction
<1>4. \A i \in 0 .. n : i \in G /\ i <= n  BY <1>3
<1> QED BY <1>4

\* f starts with v and goes on by step, for n steps in V.
Steps(V, n, step) == step \in [(1 .. n) \X V -> V]
Runs(f, V, v, n, step) == /\ f \in [0 .. n -> V] /\ f[0] = v
                          /\ \A i \in 1 .. n : f[i] = step[<<i, f[i - 1]>>]

\* There is such a function for every start and every step that stays in V.
LEMMA RecursionExists ==
  ASSUME NEW V, NEW v \in V, NEW n \in Nat, NEW step, Steps(V, n, step)
  PROVE  \E f : Runs(f, V, v, n, step)
<1> USE DEF Steps, Runs
<1> DEFINE Solves(f, m) == Runs(f, V, v, m, step)
           G == {m \in Nat : m <= n => \E f : Solves(f, m)}
<1>1. 0 \in G
  <2>1. Solves([i \in 0 .. 0 |-> v], 0)  OBVIOUS
  <2> QED BY <2>1
<1>2. ASSUME NEW m \in G  PROVE m + 1 \in G
  <2> SUFFICES ASSUME m + 1 <= n  PROVE \E f : Solves(f, m + 1)
    OBVIOUS
  <2>1. m \in Nat /\ m + 1 \in 1 .. n  BY <1>2
  <2>2. PICK f : Solves(f, m)  BY <1>2, <2>1
  <2> DEFINE next == step[<<m + 1, f[m]>>]
             g == [i \in 0 .. m + 1 |-> IF i = m + 1 THEN next ELSE f[i]]
  <2>3. next \in V  BY <2>1, <2>2
  <2> HIDE DEF next
  <2>4. g \in [0 .. m + 1 -> V] /\ g[0] = v  BY <2>1, <2>2, <2>3
  <2>5. ASSUME NEW i \in 1 .. m + 1  PROVE g[i] = step[<<i, g[i - 1]>>]
    <3>1. g[i - 1] = f[i - 1]  BY <2>1
    <3>2. CASE i = m + 1
      <4>1. g[i] = next /\ i - 1 = m  BY <2>1, <3>2
      <4> QED BY <3>1, <3>2, <4>1 DEF next
    <3>3. CASE i # m + 1
      <4>1. i \in 1 .. m /\ g[i] = f[i]  BY <2>1, <3>3
      <4> QED BY <2>2, <3>1, <4>1
    <3> QED BY <3>2, <3>3
  <2> QED BY <2>4, <2>5
<1>3. G = Nat
  <2>1. G \in SUBSET Nat  OBVIOUS
  <2> HIDE DEF G
  <2> QED BY <1>1, <1>2, <2>1, Induction
<1>4. n \in G  BY <1>3
<1>5. PICK f : Solves(f, n)  BY <1>4
<1> QED BY <1>5

-----------------------------------------------------------------------------
(* Rows and sessions *)

\* The function Stop() is read from.
Sums(sizes, k, f) ==
    f = [i \in 0 .. k |-> IF i = 0 THEN 0 ELSE f[i - 1] + sizes[i]]

\* The equations of Stop().
LEMMA StopFacts ==
  ASSUME NEW sizes \in Seq(Nat)
  PROVE  /\ Stop(sizes, 0) = 0
         /\ \A k \in 1 .. Len(sizes) :
               Stop(sizes, k) = Stop(sizes, k - 1) + sizes[k]
         /\ \A k \in 0 .. Len(sizes) : Stop(sizes, k) \in Nat
<1> DEFINE n == Len(sizes)
           step == [p \in (1 .. n) \X Nat |-> p[2] + sizes[p[1]]]
<1>1. n \in Nat /\ \A i \in 1 .. n : sizes[i] \in Nat  OBVIOUS
<1>2. PICK f : Runs(f, Nat, 0, n, step)
  <2>1. Steps(Nat, n, step)  BY <1>1 DEF Steps
  <2>2. n \in Nat /\ 0 \in Nat  BY <1>1
  <2> HIDE DEF step, n
  <2> QED BY <2>1, <2>2, RecursionExists
<1>3. \A i \in 1 .. n : f[i] = f[i - 1] + sizes[i]
  <2> TAKE i \in 1 .. n
  <2>1. f[i - 1] \in Nat  BY <1>1, <1>2 DEF Runs
  <2> QED BY <1>2, <2>1 DEF Runs
<1> HIDE DEF n
<1>4. \A k \in 0 .. n : Stop(sizes, k) = f[k]
  <2> TAKE k \in 0 .. n
  <2> DEFINE g == [i \in 0 .. k |-> f[i]]
             s == CHOOSE h : Sums(sizes, k, h)
  <2>1. k \in Nat /\ k <= n  BY <1>1
  <2>2. Sums(sizes, k, g)
    <3>1. \A i \in 0 .. k : i # 0 => i \in 1 .. n /\ i - 1 \in 0 .. k
      BY <1>1, <2>1
    <3> QED BY <1>2, <1>3, <3>1 DEF Sums, Runs
  <2>3. Sums(sizes, k, s)  BY <2>2
  <2>4. Stop(sizes, k) = s[k]  BY DEF Stop, Sums
  <2> HIDE DEF s
  <2>5. s[0] = 0 /\ \A i \in 1 .. k : s[i] = s[i - 1] + sizes[i]
    <3>1. /\ 0 \in 0 .. k
          /\ \A i \in 1 .. k : i \in 0 .. k /\ i # 0
      BY <2>1
    <3> QED BY <2>3, <3>1 DEF Sums
  <2>6. \A i \in 0 .. k : s[i] = f[i]
    <3>1. \A i \in 1 .. k : i \in 1 .. n  BY <1>1, <2>1
    <3>2. \A i \in 1 .. k : s[i - 1] = f[i - 1] => s[i] = f[i]
      BY <1>3, <2>5, <3>1
    <3>3. Alike(s, f, k)  BY <1>2, <2>5, <3>2 DEF Alike, Runs
    <3> QED BY <2>1, <3>3, RecursionIsUnique
  <2> QED BY <2>1, <2>4, <2>6
<1>5. 0 \in 0 .. n /\ \A k \in 1 .. n : k \in 0 .. n /\ k - 1 \in 0 .. n
  BY <1>1
<1> QED BY <1>2, <1>3, <1>4, <1>5 DEF n, Runs

\* More sessions have no fewer rows.
LEMMA StopGrows ==
  ASSUME NEW sizes \in Seq(Nat), NEW j \in 0 .. Len(sizes),
         NEW k \in 0 .. Len(sizes), j <= k
  PROVE  Stop(sizes, j) <= Stop(sizes, k)
<1> DEFINE n == Len(sizes)
           G == {i \in Nat : j + i <= n => Stop(sizes, j) <= Stop(sizes, j + i)}
<1>1. n \in Nat /\ j \in Nat /\ k \in Nat /\ k <= n  OBVIOUS
<1> HIDE DEF n
<1>2. /\ \A i \in 1 .. n : Stop(sizes, i) = Stop(sizes, i - 1) + sizes[i]
      /\ \A i \in 0 .. n : Stop(sizes, i) \in Nat
  BY StopFacts DEF n
<1>3. \A i \in 1 .. n : sizes[i] \in Nat  BY DEF n
<1>4. 0 \in G
  <2>1. j + 0 = j /\ j \in 0 .. n  BY <1>1 DEF n
  <2>2. Stop(sizes, j) \in Nat  BY <1>2, <2>1
  <2> QED BY <2>1, <2>2
<1>5. ASSUME NEW i \in G  PROVE i + 1 \in G
  <2> SUFFICES ASSUME j + (i + 1) <= n
               PROVE  Stop(sizes, j) <= Stop(sizes, j + (i + 1))
    OBVIOUS
  <2>1. /\ i \in Nat /\ j + i <= n /\ j + (i + 1) \in 1 .. n
        /\ j + (i + 1) - 1 = j + i /\ j + i \in 0 .. n /\ j \in 0 .. n
    BY <1>1, <1>5
  <2>2. Stop(sizes, j) <= Stop(sizes, j + i)  BY <1>5, <2>1
  <2>3. Stop(sizes, j + (i + 1)) = Stop(sizes, j + i) + sizes[j + (i + 1)]
    BY <1>2, <2>1
  <2>4. /\ Stop(sizes, j + i) \in Nat /\ Stop(sizes, j) \in Nat
        /\ sizes[j + (i + 1)] \in Nat
    BY <1>2, <1>3, <2>1
  <2> QED BY <2>2, <2>3, <2>4
<1>6. G = Nat
  <2>1. G \in SUBSET Nat  OBVIOUS
  <2> HIDE DEF G
  <2> QED BY <1>4, <1>5, <2>1, Induction
<1>7. k - j \in Nat /\ j + (k - j) = k  BY <1>1
<1>8. k - j \in G  BY <1>6, <1>7
<1> QED BY <1>1, <1>7, <1>8

\* The session of a row, and the rows of a session.
LEMMA SessionFacts ==
  ASSUME NEW sizes \in Seq(Nat), NEW row \in 1 .. Size(sizes)
  PROVE  LET s == SessionOf(sizes, row)
         IN s \in 1 .. Len(sizes) /\ Stop(sizes, s - 1) < row /\ row <= Stop(sizes, s)
<1> DEFINE n == Len(sizes)
           S == {k \in 0 .. n : row <= Stop(sizes, k)}
           s == SessionOf(sizes, row)
<1>1. n \in Nat /\ DOMAIN sizes = 1 .. n  OBVIOUS
<1>2. /\ Stop(sizes, 0) = 0
      /\ \A k \in 0 .. n : Stop(sizes, k) \in Nat
  BY StopFacts
<1>3. n \in S /\ row \in Nat /\ row > 0
  <2>1. Stop(sizes, n) \in Nat  BY <1>1, <1>2
  <2> QED BY <1>1, <2>1 DEF Size
<1>4. PICK k \in S : \A j \in S : k <= j
  <2>1. S \in SUBSET Nat /\ S # {}  BY <1>1, <1>3
  <2> HIDE DEF S
  <2> QED BY <2>1, LeastExists
<1> HIDE DEF n
<1>5. k \in 0 .. n /\ row <= Stop(sizes, k)  BY <1>4
<1>6. k # 0  BY <1>2, <1>3, <1>5
<1>7. k \in 1 .. n /\ k - 1 \in 0 .. n /\ ~ (k <= k - 1)  BY <1>1, <1>5, <1>6
<1>8. Stop(sizes, k - 1) < row
  <2>1. k - 1 \notin S  BY <1>4, <1>7
  <2>2. ~ (row <= Stop(sizes, k - 1))  BY <1>7, <2>1
  <2> QED BY <1>2, <1>3, <1>7, <2>2
<1>9. row \in RowsOf(sizes, k)
  <2>1. Stop(sizes, k) \in Nat /\ Stop(sizes, k - 1) \in Nat  BY <1>2, <1>5, <1>7
  <2> QED BY <1>3, <1>5, <1>8, <2>1 DEF RowsOf
<1>10. s \in DOMAIN sizes /\ row \in RowsOf(sizes, s)
  BY <1>1, <1>7, <1>9 DEF SessionOf
<1> HIDE DEF s
<1>11. s \in 1 .. n /\ s - 1 \in 0 .. n /\ s \in 0 .. n  BY <1>1, <1>10
<1>12. Stop(sizes, s) \in Nat /\ Stop(sizes, s - 1) \in Nat  BY <1>2, <1>11
<1>13. Stop(sizes, s - 1) < row /\ row <= Stop(sizes, s)
  BY <1>3, <1>10, <1>12 DEF RowsOf
<1> QED BY <1>11, <1>13 DEF n, s

\* The rows of the first k sessions are those whose session is one of them.
LEMMA SessionBound ==
  ASSUME NEW sizes \in Seq(Nat), NEW row \in 1 .. Size(sizes),
         NEW k \in 0 .. Len(sizes)
  PROVE  row <= Stop(sizes, k) <=> SessionOf(sizes, row) <= k
<1> DEFINE s == SessionOf(sizes, row)
           n == Len(sizes)
<1>1. s \in 1 .. n /\ Stop(sizes, s - 1) < row /\ row <= Stop(sizes, s)
  BY SessionFacts
<1>2. n \in Nat /\ Size(sizes) \in Nat /\ row \in Nat
  <2>1. Len(sizes) \in 0 .. Len(sizes)  OBVIOUS
  <2> QED BY <2>1, StopFacts DEF Size
<1> HIDE DEF s
<1>3. s - 1 \in 0 .. n /\ s \in 0 .. n  BY <1>1, <1>2
<1>4. /\ Stop(sizes, s) \in Nat /\ Stop(sizes, s - 1) \in Nat
      /\ Stop(sizes, k) \in Nat
  BY <1>3, StopFacts
<1>5. CASE s <= k
  <2>1. Stop(sizes, s) <= Stop(sizes, k)  BY <1>3, <1>5, StopGrows
  <2> QED BY <1>1, <1>2, <1>4, <1>5, <2>1 DEF s
<1>6. CASE ~ (s <= k)
  <2>1. k <= s - 1  BY <1>1, <1>2, <1>6
  <2>2. Stop(sizes, k) <= Stop(sizes, s - 1)  BY <1>3, <2>1, StopGrows
  <2>3. ~ (row <= Stop(sizes, k))  BY <1>1, <1>2, <1>4, <2>2
  <2> QED BY <1>6, <2>3 DEF s
<1> QED BY <1>5, <1>6

LEMMA SizeIsNat ==
  ASSUME NEW sizes \in Seq(Nat)
  PROVE  Size(sizes) \in Nat
<1>1. Len(sizes) \in 0 .. Len(sizes)  OBVIOUS
<1> QED BY <1>1, StopFacts DEF Size

\* A row of session s is a row of the data, and s is its session.
LEMMA RowsOfFacts ==
  ASSUME NEW sizes \in Seq(Nat), NEW s \in 1 .. Len(sizes),
         NEW row \in RowsOf(sizes, s)
  PROVE  row \in 1 .. Size(sizes) /\ SessionOf(sizes, row) = s
<1> DEFINE n == Len(sizes)
<1>1. /\ n \in Nat /\ s \in Nat /\ s <= n
      /\ s \in 0 .. n /\ s - 1 \in 0 .. n /\ n \in 0 .. n
  OBVIOUS
<1>2. /\ Stop(sizes, s) \in Nat /\ Stop(sizes, s - 1) \in Nat
      /\ Size(sizes) \in Nat
  BY <1>1, StopFacts, SizeIsNat
<1>3. row \in Nat /\ Stop(sizes, s - 1) < row /\ row <= Stop(sizes, s)
  BY <1>2 DEF RowsOf
<1>4. Stop(sizes, s) <= Size(sizes)  BY <1>1, StopGrows DEF Size
<1>5. row \in 1 .. Size(sizes)  BY <1>2, <1>3, <1>4
<1>6. SessionOf(sizes, row) \in 1 .. n  BY <1>5, SessionFacts
<1>7. SessionOf(sizes, row) <= s  BY <1>1, <1>3, <1>5, SessionBound
<1>8. ~ (SessionOf(sizes, row) <= s - 1)
  <2>1. ~ (row <= Stop(sizes, s - 1))  BY <1>2, <1>3
  <2> QED BY <1>1, <1>5, <2>1, SessionBound
<1> QED BY <1>1, <1>5, <1>6, <1>7, <1>8

\* A later row is not of an earlier session.
LEMMA SessionsGrow ==
  ASSUME NEW sizes \in Seq(Nat), NEW r \in 1 .. Size(sizes),
         NEW s \in 1 .. Size(sizes), r <= s
  PROVE  SessionOf(sizes, r) <= SessionOf(sizes, s)
<1> DEFINE k == SessionOf(sizes, s)
<1>1. k \in 1 .. Len(sizes) /\ s <= Stop(sizes, k)  BY SessionFacts
<1> HIDE DEF k
<1>2. k \in 0 .. Len(sizes)  BY <1>1
<1>3. Stop(sizes, k) \in Nat /\ Size(sizes) \in Nat
  BY <1>2, StopFacts, SizeIsNat
<1>4. r <= Stop(sizes, k)  BY <1>1, <1>3
<1> QED BY <1>2, <1>4, SessionBound DEF k

\* Products grow with their factors.
LEMMA ProductsGrow ==
  ASSUME NEW a \in Nat, NEW b \in Nat, NEW c \in Nat, a <= b
  PROVE  a * c <= b * c /\ a * c \in Nat /\ b * c \in Nat
<1> DEFINE d == b - a
<1>1. d \in Nat /\ b = a + d  OBVIOUS
<1> HIDE DEF d
<1>2. b * c = a * c + d * c  BY <1>1
<1>3. a * c \in Nat /\ d * c \in Nat /\ b * c \in Nat  BY <1>1
<1> QED BY <1>2, <1>3

\* The label of a row comes before the event of a later one that is of a later
\* session, or of the same session and more than the horizon behind.
LEMMA LabelComesBefore ==
  ASSUME NEW sizes \in Seq(Nat), NEW h \in Nat, NEW r \in 1 .. Size(sizes),
         NEW s \in 1 .. Size(sizes), r < s,
         SessionOf(sizes, r) < SessionOf(sizes, s) \/ r + h < s
  PROVE  LabelOf(sizes, h, r) < EventOf(sizes, h, s)
<1> DEFINE a == SessionOf(sizes, r)
           b == SessionOf(sizes, s)
<1>1. /\ a \in 1 .. Len(sizes) /\ b \in 1 .. Len(sizes)
      /\ Len(sizes) \in Nat /\ Size(sizes) \in Nat
  BY SessionFacts, SizeIsNat
<1>2. a <= b /\ r \in Nat /\ s \in Nat
  BY <1>1, SessionsGrow
<1>3. /\ LabelOf(sizes, h, r) = r + a * Warmup + (a - 1) * h + h
      /\ EventOf(sizes, h, s) = s + b * Warmup + (b - 1) * h
  BY DEF LabelOf, EventOf
<1>4. a \in Nat /\ b \in Nat /\ a - 1 \in Nat /\ b - 1 \in Nat /\ a - 1 <= b - 1
  BY <1>1, <1>2
<1>5. a < b \/ r + h < s  OBVIOUS
<1> HIDE DEF a, b
<1>6. Warmup \in Nat  BY SplitAssumption
<1>7. /\ a * Warmup <= b * Warmup
      /\ a * Warmup \in Nat /\ b * Warmup \in Nat
  BY <1>2, <1>4, <1>6, ProductsGrow
<1>8. /\ (a - 1) * h <= (b - 1) * h
      /\ (a - 1) * h \in Nat /\ (b - 1) * h \in Nat
  BY <1>4, ProductsGrow
<1>9. CASE a < b
  <2>1. a * h <= (b - 1) * h /\ a * h \in Nat
    <3>1. a <= b - 1  BY <1>4, <1>9
    <3> QED BY <1>4, <3>1, ProductsGrow
  <2>2. (a - 1) * h + h = a * h  BY <1>4
  <2> QED BY <1>2, <1>3, <1>7, <1>8, <2>1, <2>2
<1>10. CASE r + h < s
  BY <1>2, <1>3, <1>7, <1>8, <1>10
<1> QED BY <1>5, <1>9, <1>10

-----------------------------------------------------------------------------
(* The chronological split *)

\* The labels of R come before the events of S.
Forward(sizes, h, R, S) ==
    \A r \in R, s \in S : LabelOf(sizes, h, r) < EventOf(sizes, h, s)

\* The first t sessions train, and those up to v validate.
Chosen(sizes, c) == /\ c.t \in 1 .. Len(sizes) /\ c.v \in 1 .. Len(sizes)
                    /\ c.t < c.v /\ c.v < Len(sizes)

LEMMA CandidatesFacts ==
  ASSUME NEW sizes \in Seq(Nat), NEW c \in Candidates(sizes)
  PROVE  Chosen(sizes, c)
<1>1. Len(sizes) \in Nat  OBVIOUS
<1>2. /\ c.t \in 1 .. Len(sizes) - 2 /\ c.v \in 2 .. Len(sizes) - 1
      /\ c.t < c.v
  BY DEF Candidates
<1> QED BY <1>1, <1>2 DEF Chosen

LEMMA ScoreIsNat ==
  ASSUME NEW sizes \in Seq(Nat), NEW c, Chosen(sizes, c)
  PROVE  Score(sizes, c) \in Nat
<1>1. c.t \in 0 .. Len(sizes) /\ c.v \in 0 .. Len(sizes)  BY DEF Chosen
<1>2. /\ Stop(sizes, c.t) \in Nat /\ Stop(sizes, c.v) \in Nat
      /\ Size(sizes) \in Nat
  BY <1>1, StopFacts, SizeIsNat
<1>3. \A a, b \in Nat : Distance(a, b) \in Nat  BY DEF Distance
<1>4. \A a \in Nat : 10 * a \in Nat /\ 6 * a \in Nat /\ 8 * a \in Nat
  OBVIOUS
<1>5. \A a, b \in Nat : a + b \in Nat  OBVIOUS
<1>6. /\ Distance(10 * Stop(sizes, c.t), 6 * Size(sizes)) \in Nat
      /\ Distance(10 * Stop(sizes, c.v), 8 * Size(sizes)) \in Nat
  BY <1>2, <1>3, <1>4
<1> QED BY <1>5, <1>6 DEF Score

\* Candidates have a least one in the order of their scores.
LEMMA BestIsCandidate ==
  ASSUME NEW sizes \in Seq(Nat), Candidates(sizes) # {}
  PROVE  BestCandidate(sizes) \in Candidates(sizes)
<1> DEFINE C == Candidates(sizes)
           score(c) == Score(sizes, c)
<1>1. \A c \in C : score(c) \in Nat /\ c.t \in Nat /\ c.v \in Nat
  <2> TAKE c \in C
  <2>1. Chosen(sizes, c)  BY CandidatesFacts
  <2> QED BY <2>1, ScoreIsNat DEF Chosen
<1> HIDE DEF C, score
<1>2. PICK m \in {score(c) : c \in C} : \A n \in {score(c) : c \in C} : m <= n
  <2>1. {score(c) : c \in C} \in SUBSET Nat /\ {score(c) : c \in C} # {}
    BY <1>1 DEF C
  <2> QED BY <2>1, LeastExists
<1> DEFINE D == {c \in C : score(c) = m}
<1>3. D # {} /\ D \subseteq C  BY <1>2
<1> HIDE DEF D
<1>4. PICK t \in {c.t : c \in D} : \A n \in {c.t : c \in D} : t <= n
  <2>1. {c.t : c \in D} \in SUBSET Nat /\ {c.t : c \in D} # {}  BY <1>1, <1>3
  <2> QED BY <2>1, LeastExists
<1> DEFINE E == {c \in D : c.t = t}
<1>5. E # {} /\ E \subseteq D  BY <1>4
<1> HIDE DEF E
<1>6. PICK v \in {c.v : c \in E} : \A n \in {c.v : c \in E} : v <= n
  <2>1. {c.v : c \in E} \in SUBSET Nat /\ {c.v : c \in E} # {}
    BY <1>1, <1>3, <1>5
  <2> QED BY <2>1, LeastExists
<1>7. PICK c \in E : c.v = v  BY <1>6
<1>8. c \in C /\ score(c) = m /\ c.t = t  BY <1>3, <1>5 DEF D, E
<1>9. ASSUME NEW d \in C  PROVE Precedes(sizes, c, d)
  <2>1. /\ score(c) \in Nat /\ score(d) \in Nat /\ c.t \in Nat /\ d.t \in Nat
        /\ c.v \in Nat /\ d.v \in Nat
    BY <1>1, <1>8
  <2>2. score(c) <= score(d)  BY <1>2, <1>8
  <2>3. score(c) = score(d) => c.t <= d.t  BY <1>4, <1>8 DEF D
  <2>4. score(c) = score(d) /\ c.t = d.t => c.v <= d.v
    BY <1>6, <1>7, <1>8 DEF D, E
  <2>5. \/ score(c) < score(d)
        \/ score(c) = score(d) /\ (c.t < d.t \/ (c.t = d.t /\ c.v <= d.v))
    BY <2>1, <2>2, <2>3, <2>4
  <2> QED BY <2>5 DEF Precedes, score
<1> QED BY <1>8, <1>9 DEF BestCandidate, C

\* A split between whole sessions.
LEMMA WholeSessionsFacts ==
  ASSUME NEW sizes \in Seq(Nat), NEW c, Chosen(sizes, c), NEW h \in Nat
  PROVE  LET p == WholeSessions(sizes, c.t, c.v)
         IN /\ p.train \subseteq 1 .. Size(sizes)
            /\ p.validation \subseteq 1 .. Size(sizes)
            /\ p.test \subseteq 1 .. Size(sizes)
            /\ \A r \in p.train \cup p.validation : SessionOf(sizes, r) <= c.v
            /\ \A r \in p.test : SessionOf(sizes, r) > c.v
            /\ Forward(sizes, h, p.train, p.validation)
            /\ Forward(sizes, h, p.train \cup p.validation, p.test)
<1> DEFINE p == WholeSessions(sizes, c.t, c.v)
           n == Len(sizes)
           t == c.t
           v == c.v
<1>1. /\ p.train = 1 .. Stop(sizes, t)
      /\ p.validation = Stop(sizes, t) + 1 .. Stop(sizes, v)
      /\ p.test = Stop(sizes, v) + 1 .. Size(sizes)
  BY DEF WholeSessions, Partition
<1>2. /\ n \in Nat /\ t \in 0 .. n /\ v \in 0 .. n /\ n \in 0 .. n
      /\ t < v /\ v <= n
  BY DEF Chosen
<1> HIDE DEF p, t, v
<1>3. /\ Stop(sizes, t) \in Nat /\ Stop(sizes, v) \in Nat
      /\ Size(sizes) \in Nat
  BY <1>2, StopFacts, SizeIsNat
<1>4. Stop(sizes, t) <= Stop(sizes, v) /\ Stop(sizes, v) <= Size(sizes)
  BY <1>2, StopGrows DEF Size
<1> HIDE DEF n
<1>5. /\ p.train \subseteq 1 .. Size(sizes)
      /\ p.validation \subseteq 1 .. Size(sizes)
      /\ p.test \subseteq 1 .. Size(sizes)
  BY <1>1, <1>3, <1>4
<1>6. \A r \in 1 .. Size(sizes) :
         /\ SessionOf(sizes, r) \in Nat
         /\ r <= Stop(sizes, t) <=> SessionOf(sizes, r) <= t
         /\ r <= Stop(sizes, v) <=> SessionOf(sizes, r) <= v
  <2> TAKE r \in 1 .. Size(sizes)
  <2>1. SessionOf(sizes, r) \in Nat  BY SessionFacts
  <2> QED BY <1>2, <2>1, SessionBound DEF n
<1>7. \A r \in p.train : SessionOf(sizes, r) <= t /\ r <= Stop(sizes, t)
  BY <1>1, <1>3, <1>5, <1>6
<1>8. \A r \in p.validation : /\ SessionOf(sizes, r) > t /\ r > Stop(sizes, t)
                              /\ SessionOf(sizes, r) <= v /\ r <= Stop(sizes, v)
  <2> TAKE r \in p.validation
  <2>1. r \in 1 .. Size(sizes) /\ r \in Nat  BY <1>3, <1>5
  <2>2. r > Stop(sizes, t) /\ r <= Stop(sizes, v) /\ ~ (r <= Stop(sizes, t))
    BY <1>1, <1>3, <2>1
  <2> QED BY <1>2, <1>6, <2>1, <2>2
<1>9. \A r \in p.test : SessionOf(sizes, r) > v /\ r > Stop(sizes, v)
  <2> TAKE r \in p.test
  <2>1. r \in 1 .. Size(sizes) /\ r \in Nat  BY <1>3, <1>5
  <2>2. r > Stop(sizes, v) /\ ~ (r <= Stop(sizes, v))  BY <1>1, <1>3, <2>1
  <2> QED BY <1>2, <1>6, <2>1, <2>2
<1>10. \A r \in p.train \cup p.validation :
          SessionOf(sizes, r) <= v /\ r <= Stop(sizes, v)
  <2> TAKE r \in p.train \cup p.validation
  <2>1. CASE r \in p.train
    <3>1. r \in 1 .. Size(sizes) /\ r \in Nat  BY <1>3, <1>5, <2>1
    <3>2. r <= Stop(sizes, v)  BY <1>3, <1>4, <1>7, <2>1, <3>1
    <3> QED BY <1>6, <3>1, <3>2
  <2>2. CASE r \in p.validation  BY <1>8, <2>2
  <2> QED BY <2>1, <2>2
<1>11. Forward(sizes, h, p.train, p.validation)
  <2> SUFFICES ASSUME NEW r \in p.train, NEW s \in p.validation
               PROVE  LabelOf(sizes, h, r) < EventOf(sizes, h, s)
    BY DEF Forward
  <2>1. /\ r \in 1 .. Size(sizes) /\ s \in 1 .. Size(sizes)
        /\ SessionOf(sizes, r) \in Nat /\ SessionOf(sizes, s) \in Nat
        /\ r \in Nat /\ s \in Nat
    BY <1>3, <1>5, <1>6
  <2>2. r < s /\ SessionOf(sizes, r) < SessionOf(sizes, s)
    BY <1>2, <1>3, <1>7, <1>8, <2>1
  <2> QED BY <2>1, <2>2, LabelComesBefore
<1>12. Forward(sizes, h, p.train \cup p.validation, p.test)
  <2> SUFFICES ASSUME NEW r \in p.train \cup p.validation, NEW s \in p.test
               PROVE  LabelOf(sizes, h, r) < EventOf(sizes, h, s)
    BY DEF Forward
  <2>1. /\ r \in 1 .. Size(sizes) /\ s \in 1 .. Size(sizes)
        /\ SessionOf(sizes, r) \in Nat /\ SessionOf(sizes, s) \in Nat
        /\ r \in Nat /\ s \in Nat
    BY <1>3, <1>5, <1>6
  <2>2. r < s /\ SessionOf(sizes, r) < SessionOf(sizes, s)
    BY <1>2, <1>3, <1>9, <1>10, <2>1
  <2> QED BY <2>1, <2>2, LabelComesBefore
<1> QED BY <1>5, <1>9, <1>10, <1>11, <1>12 DEF p, v

\* A split by events: what is dropped behind each boundary is no shorter than
\* the horizon.
LEMMA PurgedEventsFacts ==
  ASSUME NEW sizes \in Seq(Nat), NEW h \in Nat
  PROVE  LET p == PurgedEvents(sizes, Purge(h))
         IN /\ p.train \subseteq 1 .. Size(sizes)
            /\ p.validation \subseteq 1 .. Size(sizes)
            /\ p.test \subseteq 1 .. Size(sizes)
            /\ Forward(sizes, h, p.train, p.validation)
            /\ Forward(sizes, h, p.train \cup p.validation, p.test)
<1> DEFINE p == PurgedEvents(sizes, Purge(h))
           n == Size(sizes)
           t == (6 * n) \div 10
           v == (8 * n) \div 10
           purge == Purge(h)
<1>1. n \in Nat  BY SizeIsNat
<1> HIDE DEF n
<1>2. t \in Nat /\ v \in Nat /\ t <= v /\ v <= n  BY <1>1
<1>3. purge \in Nat /\ purge >= h  BY SplitAssumption DEF Purge
<1>4. /\ p.train = 1 .. t /\ p.validation = t + purge + 1 .. v
      /\ p.test = v + purge + 1 .. n
  BY DEF PurgedEvents, Partition, n
<1> HIDE DEF p, t, v, purge
<1>5. /\ \A r \in p.train : r \in 1 .. n /\ r <= t
      /\ \A r \in p.validation : r \in 1 .. n /\ r > t + purge /\ r <= v
      /\ \A r \in p.test : r \in 1 .. n /\ r > v + purge
  BY <1>1, <1>2, <1>3, <1>4
<1>6. Forward(sizes, h, p.train, p.validation)
  <2> SUFFICES ASSUME NEW r \in p.train, NEW s \in p.validation
               PROVE  LabelOf(sizes, h, r) < EventOf(sizes, h, s)
    BY DEF Forward
  <2>1. r \in 1 .. n /\ s \in 1 .. n /\ r < s /\ r + h < s
    BY <1>1, <1>2, <1>3, <1>5
  <2> QED BY <2>1, LabelComesBefore DEF n
<1>7. Forward(sizes, h, p.train \cup p.validation, p.test)
  <2> SUFFICES ASSUME NEW r \in p.train \cup p.validation, NEW s \in p.test
               PROVE  LabelOf(sizes, h, r) < EventOf(sizes, h, s)
    BY DEF Forward
  <2>1. r \in 1 .. n /\ r <= v  BY <1>1, <1>2, <1>5
  <2>2. s \in 1 .. n /\ r < s /\ r + h < s
    BY <1>1, <1>2, <1>3, <1>5, <2>1
  <2> QED BY <2>1, <2>2, LabelComesBefore DEF n
<1>8. /\ p.train \subseteq 1 .. n /\ p.validation \subseteq 1 .. n
      /\ p.test \subseteq 1 .. n
  BY <1>5
<1> QED BY <1>6, <1>7, <1>8 DEF p, n

LEMMA SplitFacts ==
  ASSUME NEW sizes \in Seq(Nat), NEW h \in Nat
  PROVE  LET p == Split(sizes, h)
         IN /\ p.train \subseteq 1 .. Size(sizes)
            /\ p.validation \subseteq 1 .. Size(sizes)
            /\ p.test \subseteq 1 .. Size(sizes)
            /\ Forward(sizes, h, p.train, p.validation)
            /\ Forward(sizes, h, p.train \cup p.validation, p.test)
<1>1. CASE Candidates(sizes) # {}
  <2> DEFINE c == BestCandidate(sizes)
  <2>1. Chosen(sizes, c)  BY <1>1, BestIsCandidate, CandidatesFacts
  <2>2. Split(sizes, h) = WholeSessions(sizes, c.t, c.v)  BY <1>1 DEF Split
  <2> HIDE DEF c
  <2> QED BY <2>1, <2>2, WholeSessionsFacts
<1>2. CASE Candidates(sizes) = {}
  <2>1. Split(sizes, h) = PurgedEvents(sizes, Purge(h))  BY <1>2 DEF Split
  <2> QED BY <2>1, PurgedEventsFacts
<1> QED BY <1>1, <1>2

-----------------------------------------------------------------------------
(* The walk-forward folds *)

\* Rows of earlier sessions come before rows of later ones.
LEMMA EarlierSessionsForward ==
  ASSUME NEW sizes \in Seq(Nat), NEW h \in Nat,
         NEW R \in SUBSET (1 .. Size(sizes)), NEW S \in SUBSET (1 .. Size(sizes)),
         \A r \in R, s \in S : SessionOf(sizes, r) < SessionOf(sizes, s)
  PROVE  Forward(sizes, h, R, S)
<1> SUFFICES ASSUME NEW r \in R, NEW s \in S
             PROVE  LabelOf(sizes, h, r) < EventOf(sizes, h, s)
  BY DEF Forward
<1>1. /\ r \in 1 .. Size(sizes) /\ s \in 1 .. Size(sizes)
      /\ Size(sizes) \in Nat /\ Len(sizes) \in Nat
  BY SizeIsNat
<1>2. /\ SessionOf(sizes, r) \in 1 .. Len(sizes)
      /\ SessionOf(sizes, s) \in 1 .. Len(sizes)
  BY <1>1, SessionFacts
<1>3. r < s
  <2> SUFFICES ASSUME s <= r  PROVE FALSE
    BY <1>1
  <2>1. SessionOf(sizes, s) <= SessionOf(sizes, r)  BY <1>1, SessionsGrow
  <2> QED BY <1>1, <1>2, <2>1
<1> QED BY <1>1, <1>3, LabelComesBefore

\* The sessions with rows of a set, in their order.
LEMMA SessionsWithFacts ==
  ASSUME NEW sizes \in Seq(Nat), NEW rows
  PROVE  LET sessions == InOrder(SessionsWith(sizes, rows))
         IN /\ sessions \in Seq(SessionsWith(sizes, rows))
            /\ SessionsWith(sizes, rows) \subseteq 1 .. Len(sizes)
            /\ \A i, j \in DOMAIN sessions : i < j => sessions[i] < sessions[j]
<1> DEFINE S == SessionsWith(sizes, rows)
<1>1. Len(sizes) \in Nat /\ S \subseteq 1 .. Len(sizes)  BY DEF SessionsWith
<1> HIDE DEF S
<1>2. S \in SUBSET Nat /\ \A s \in S : s <= Len(sizes)  BY <1>1
<1>3. IsFiniteSet(S)  BY <1>1, <1>2, FS_BoundedSetOfNaturals
<1> QED BY <1>1, <1>2, <1>3, InOrderFacts DEF S

\* The places k - 2, k - 1 and k of an increasing sequence.
LEMMA PlacesOfFold ==
  ASSUME NEW n \in Nat, NEW s \in Seq(1 .. n),
         \A i, j \in DOMAIN s : i < j => s[i] < s[j],
         NEW k \in 3 .. Len(s)
  PROVE  /\ k - 2 \in DOMAIN s /\ k - 1 \in DOMAIN s /\ k \in DOMAIN s
         /\ s[k - 2] \in 1 .. n /\ s[k - 1] \in 1 .. n /\ s[k] \in 1 .. n
         /\ s[k - 2] < s[k - 1] /\ s[k - 1] < s[k]
         /\ \A i \in 1 .. k - 2 : i \in DOMAIN s /\ s[i] <= s[k - 2]
<1>1. Len(s) \in Nat /\ DOMAIN s = 1 .. Len(s)  OBVIOUS
<1>2. k \in Nat /\ 3 <= k /\ k <= Len(s)  BY <1>1
<1>3. \A i \in DOMAIN s : s[i] \in 1 .. n /\ s[i] \in Nat
  <2>1. \A x \in 1 .. n : x \in Nat  OBVIOUS
  <2>2. \A i \in DOMAIN s : s[i] \in 1 .. n  OBVIOUS
  <2> QED BY <2>1, <2>2
<1>4. /\ k - 2 \in DOMAIN s /\ k - 1 \in DOMAIN s /\ k \in DOMAIN s
      /\ k - 2 < k - 1 /\ k - 1 < k
  BY <1>1, <1>2
<1>5. s[k - 2] < s[k - 1] /\ s[k - 1] < s[k]  BY <1>4
<1>6. ASSUME NEW i \in 1 .. k - 2  PROVE i \in DOMAIN s /\ s[i] <= s[k - 2]
  <2>1. i \in DOMAIN s /\ (i < k - 2 \/ i = k - 2)  BY <1>1, <1>2
  <2>2. s[i] \in Nat /\ s[k - 2] \in Nat  BY <1>3, <1>4, <2>1
  <2>3. CASE i < k - 2
    <3>1. s[i] < s[k - 2]  BY <1>4, <2>1, <2>3
    <3> QED BY <2>1, <2>2, <3>1
  <2>4. CASE i = k - 2  BY <2>1, <2>2, <2>4
  <2> QED BY <2>1, <2>3, <2>4
<1> QED BY <1>3, <1>4, <1>5, <1>6

\* A fold of whole sessions in their order: no label of an earlier part reads
\* into a later one.
LEMMA FoldFacts ==
  ASSUME NEW sizes \in Seq(Nat), NEW h \in Nat,
         NEW sessions \in Seq(1 .. Len(sizes)),
         \A i, j \in DOMAIN sessions : i < j => sessions[i] < sessions[j],
         NEW k \in 3 .. Len(sessions)
  PROVE  LET f == FoldAt(sizes, sessions, k)
         IN /\ f.train \subseteq 1 .. Size(sizes)
            /\ f.validation \subseteq 1 .. Size(sizes)
            /\ f.test \subseteq 1 .. Size(sizes)
            /\ \A r \in f.train : SessionOf(sizes, r) <= sessions[k - 2]
            /\ \A r \in f.validation : SessionOf(sizes, r) = sessions[k - 1]
            /\ \A r \in f.test : SessionOf(sizes, r) = sessions[k]
            /\ \A r \in f.train \cup f.validation \cup f.test :
                  \E i \in DOMAIN sessions : SessionOf(sizes, r) = sessions[i]
            /\ Forward(sizes, h, f.train, f.validation)
            /\ Forward(sizes, h, f.train \cup f.validation, f.test)
<1> DEFINE f == FoldAt(sizes, sessions, k)
           n == Len(sizes)
<1>1. /\ k \in DOMAIN sessions /\ k - 1 \in DOMAIN sessions
      /\ k - 2 \in DOMAIN sessions /\ n \in Nat
      /\ sessions[k - 2] \in Nat /\ sessions[k - 1] \in Nat
      /\ sessions[k] \in Nat
      /\ sessions[k - 2] < sessions[k - 1] /\ sessions[k - 1] < sessions[k]
      /\ \A i \in 1 .. k - 2 :
            i \in DOMAIN sessions /\ sessions[i] <= sessions[k - 2]
  <2>1. Len(sizes) \in Nat  OBVIOUS
  <2>2. \A i \in 1 .. Len(sizes) : i \in Nat  BY <2>1
  <2> QED BY <2>1, <2>2, PlacesOfFold
<1>2. /\ f.train = UNION {RowsOf(sizes, sessions[i]) : i \in 1 .. k - 2}
      /\ f.validation = RowsOf(sizes, sessions[k - 1])
      /\ f.test = RowsOf(sizes, sessions[k])
  BY DEF FoldAt, Partition
<1> HIDE DEF f
<1>3. \A i \in DOMAIN sessions : sessions[i] \in 1 .. n  OBVIOUS
<1>4. \A i \in DOMAIN sessions : \A r \in RowsOf(sizes, sessions[i]) :
         r \in 1 .. Size(sizes) /\ SessionOf(sizes, r) = sessions[i]
  BY <1>3, RowsOfFacts
<1>7. \A r \in f.train :
         /\ r \in 1 .. Size(sizes) /\ SessionOf(sizes, r) <= sessions[k - 2]
         /\ SessionOf(sizes, r) \in Nat
         /\ \E i \in DOMAIN sessions : SessionOf(sizes, r) = sessions[i]
  <2> TAKE r \in f.train
  <2>1. PICK i \in 1 .. k - 2 : r \in RowsOf(sizes, sessions[i])  BY <1>2
  <2>2. i \in DOMAIN sessions /\ sessions[i] <= sessions[k - 2]  BY <1>1
  <2>3. r \in 1 .. Size(sizes) /\ SessionOf(sizes, r) = sessions[i]
    BY <1>4, <2>1, <2>2
  <2>4. sessions[i] \in Nat
    <3>1. sessions[i] \in 1 .. n  BY <1>3, <2>2
    <3> QED BY <1>1, <3>1
  <2> QED BY <2>2, <2>3, <2>4
<1>8. \A r \in f.validation :
         r \in 1 .. Size(sizes) /\ SessionOf(sizes, r) = sessions[k - 1]
  BY <1>1, <1>2, <1>4
<1>9. \A r \in f.test :
         r \in 1 .. Size(sizes) /\ SessionOf(sizes, r) = sessions[k]
  BY <1>1, <1>2, <1>4
<1>10. Forward(sizes, h, f.train, f.validation)
  <2>1. ASSUME NEW r \in f.train, NEW s \in f.validation
        PROVE  SessionOf(sizes, r) < SessionOf(sizes, s)
    <3>1. /\ SessionOf(sizes, r) \in Nat
          /\ SessionOf(sizes, r) <= sessions[k - 2]
      BY <1>7
    <3>2. SessionOf(sizes, s) = sessions[k - 1]  BY <1>8
    <3>3. /\ sessions[k - 2] \in Nat /\ sessions[k - 1] \in Nat
          /\ sessions[k - 2] < sessions[k - 1]
      BY <1>1
    <3> DEFINE a == sessions[k - 2]
               b == sessions[k - 1]
               x == SessionOf(sizes, r)
    <3>4. x \in Nat /\ a \in Nat /\ b \in Nat /\ x <= a /\ a < b
      BY <3>1, <3>3
    <3> HIDE DEF a, b, x
    <3>5. x < b  BY <3>4
    <3> QED BY <3>2, <3>5 DEF b, x
  <2>2. /\ f.train \in SUBSET (1 .. Size(sizes))
        /\ f.validation \in SUBSET (1 .. Size(sizes))
    BY <1>7, <1>8
  <2> QED BY <2>1, <2>2, EarlierSessionsForward
<1>11. Forward(sizes, h, f.train \cup f.validation, f.test)
  <2>1. ASSUME NEW r \in f.train \cup f.validation, NEW s \in f.test
        PROVE  SessionOf(sizes, r) < SessionOf(sizes, s)
    <3>1. SessionOf(sizes, s) = sessions[k]  BY <1>9
    <3>2. /\ SessionOf(sizes, r) \in Nat
          /\ \/ SessionOf(sizes, r) <= sessions[k - 2]
             \/ SessionOf(sizes, r) = sessions[k - 1]
      BY <1>1, <1>7, <1>8
    <3> DEFINE a == sessions[k - 2]
               b == sessions[k - 1]
               c == sessions[k]
               x == SessionOf(sizes, r)
    <3>3. /\ x \in Nat /\ a \in Nat /\ b \in Nat /\ c \in Nat
          /\ x <= a \/ x = b
          /\ a < b /\ b < c
      BY <1>1, <3>2
    <3> HIDE DEF a, b, c, x
    <3>4. x < c  BY <3>3
    <3> QED BY <3>1, <3>4 DEF c, x
  <2>2. /\ f.train \cup f.validation \in SUBSET (1 .. Size(sizes))
        /\ f.test \in SUBSET (1 .. Size(sizes))
    BY <1>7, <1>8, <1>9
  <2> QED BY <2>1, <2>2, EarlierSessionsForward
<1>12. \A r \in f.train \cup f.validation \cup f.test :
          \E i \in DOMAIN sessions : SessionOf(sizes, r) = sessions[i]
  BY <1>1, <1>7, <1>8, <1>9
<1> QED BY <1>7, <1>8, <1>9, <1>10, <1>11, <1>12 DEF f

\* A part that contains a large enough part is large enough.
LEMMA LargerIsLargeEnough ==
  ASSUME NEW R, NEW a \in Int, NEW b \in Int, R \subseteq a .. b,
         Cardinality(R) >= MinimumPartitionRows
  PROVE  Cardinality(a .. b) >= MinimumPartitionRows
<1>1. IsFiniteSet(a .. b)  BY FS_Interval
<1>2. /\ IsFiniteSet(R) /\ Cardinality(R) <= Cardinality(a .. b)
  BY <1>1, FS_Subset
<1>3. Cardinality(R) \in Nat /\ Cardinality(a .. b) \in Nat
  BY <1>1, <1>2, FS_CardinalityType
<1> QED BY <1>2, <1>3, SplitAssumption

\* Where a fold is long enough, so is a split between whole sessions: the
\* split by events, whose holdout may begin inside a session, has no folds.
LEMMA FoldGivesCandidate ==
  ASSUME NEW sizes \in Seq(Nat), NEW sessions \in Seq(1 .. Len(sizes)),
         \A i, j \in DOMAIN sessions : i < j => sessions[i] < sessions[j],
         NEW k \in 3 .. Len(sessions), LargeEnough(FoldAt(sizes, sessions, k))
  PROVE  Candidates(sizes) # {}
<1> DEFINE f == FoldAt(sizes, sessions, k)
           n == Len(sizes)
           t == sessions[k - 2]
           v == sessions[k - 1]
           w == sessions[k]
           c == [t |-> t, v |-> v]
           p == WholeSessions(sizes, t, v)
<1>1. /\ n \in Nat /\ t \in 1 .. n /\ v \in 1 .. n /\ w \in 1 .. n
      /\ t < v /\ v < w
  <2>1. n \in Nat  OBVIOUS
  <2> QED BY <2>1, PlacesOfFold
<1>2. /\ f.train \subseteq 1 .. Size(sizes)
      /\ f.validation \subseteq 1 .. Size(sizes)
      /\ f.test \subseteq 1 .. Size(sizes)
      /\ \A r \in f.train : SessionOf(sizes, r) <= t
      /\ \A r \in f.validation : SessionOf(sizes, r) = v
      /\ \A r \in f.test : SessionOf(sizes, r) = w
  <2>1. 0 \in Nat  OBVIOUS
  <2> QED BY <2>1, FoldFacts
<1>3. /\ Cardinality(f.train) >= MinimumPartitionRows
      /\ Cardinality(f.validation) >= MinimumPartitionRows
      /\ Cardinality(f.test) >= MinimumPartitionRows
  BY DEF LargeEnough
<1> HIDE DEF f, n, t, v, w
<1>4. t \in 0 .. n /\ v \in 0 .. n  BY <1>1
<1>5. /\ Stop(sizes, t) \in Nat /\ Stop(sizes, v) \in Nat
      /\ Size(sizes) \in Nat
  BY <1>4, StopFacts, SizeIsNat DEF n
<1>6. \A r \in 1 .. Size(sizes) :
         /\ r <= Stop(sizes, t) <=> SessionOf(sizes, r) <= t
         /\ r <= Stop(sizes, v) <=> SessionOf(sizes, r) <= v
  BY <1>4, SessionBound DEF n
<1>7. /\ p.train = 1 .. Stop(sizes, t)
      /\ p.validation = Stop(sizes, t) + 1 .. Stop(sizes, v)
      /\ p.test = Stop(sizes, v) + 1 .. Size(sizes)
  BY DEF WholeSessions, Partition
<1>8. f.train \subseteq p.train
  <2> SUFFICES ASSUME NEW r \in f.train  PROVE r \in p.train
    OBVIOUS
  <2>1. r \in 1 .. Size(sizes) /\ SessionOf(sizes, r) <= t  BY <1>2
  <2>2. r <= Stop(sizes, t)  BY <1>6, <2>1
  <2> QED BY <1>5, <1>7, <2>1, <2>2
<1>9. f.validation \subseteq p.validation
  <2> SUFFICES ASSUME NEW r \in f.validation  PROVE r \in p.validation
    OBVIOUS
  <2>1. r \in 1 .. Size(sizes) /\ SessionOf(sizes, r) = v  BY <1>2
  <2>2. r <= Stop(sizes, v)
    <3>1. SessionOf(sizes, r) <= v  BY <1>1, <2>1
    <3> QED BY <1>6, <2>1, <3>1
  <2>3. ~ (r <= Stop(sizes, t))
    <3>1. ~ (SessionOf(sizes, r) <= t)  BY <1>1, <2>1
    <3> QED BY <1>6, <2>1, <3>1
  <2> QED BY <1>5, <1>7, <2>1, <2>2, <2>3
<1>10. f.test \subseteq p.test
  <2> SUFFICES ASSUME NEW r \in f.test  PROVE r \in p.test
    OBVIOUS
  <2>1. r \in 1 .. Size(sizes) /\ SessionOf(sizes, r) = w  BY <1>2
  <2>2. ~ (r <= Stop(sizes, v))
    <3>1. ~ (SessionOf(sizes, r) <= v)  BY <1>1, <2>1
    <3> QED BY <1>6, <2>1, <3>1
  <2> QED BY <1>5, <1>7, <2>1, <2>2
<1>11. LargeEnough(p)
  <2> DEFINE x == Stop(sizes, t)
             y == Stop(sizes, v)
             z == Size(sizes)
  <2>0. /\ 1 \in Int /\ x \in Int /\ y \in Int /\ z \in Int
        /\ x + 1 \in Int /\ y + 1 \in Int
    BY <1>5
  <2>1. Cardinality(p.train) >= MinimumPartitionRows
    <3>1. f.train \subseteq 1 .. x  BY <1>7, <1>8
    <3> HIDE DEF x, p
    <3>2. Cardinality(1 .. x) >= MinimumPartitionRows
      BY <1>3, <2>0, <3>1, LargerIsLargeEnough
    <3> QED BY <1>7, <3>2 DEF x
  <2>2. Cardinality(p.validation) >= MinimumPartitionRows
    <3>1. f.validation \subseteq x + 1 .. y  BY <1>7, <1>9
    <3> HIDE DEF x, y, p
    <3>2. Cardinality(x + 1 .. y) >= MinimumPartitionRows
      BY <1>3, <2>0, <3>1, LargerIsLargeEnough
    <3> QED BY <1>7, <3>2 DEF x, y
  <2>3. Cardinality(p.test) >= MinimumPartitionRows
    <3>1. f.test \subseteq y + 1 .. z  BY <1>7, <1>10
    <3> HIDE DEF y, z, p
    <3>2. Cardinality(y + 1 .. z) >= MinimumPartitionRows
      BY <1>3, <2>0, <3>1, LargerIsLargeEnough
    <3> QED BY <1>7, <3>2 DEF y, z
  <2> HIDE DEF p
  <2> QED BY <2>1, <2>2, <2>3 DEF LargeEnough
<1>12. c \in [t : 1 .. n - 2, v : 2 .. n - 1] /\ c.t = t /\ c.v = v
  BY <1>1
<1> QED BY <1>1, <1>11, <1>12 DEF Candidates, n

\* Every fold is evaluated forward, and wholly before the holdout.
LEMMA FoldsFacts ==
  ASSUME NEW sizes \in Seq(Nat), NEW h \in Nat,
         NEW f \in Folds(sizes, Split(sizes, h))
  PROVE  /\ Forward(sizes, h, f.train, f.validation)
         /\ Forward(sizes, h, f.train \cup f.validation, f.test)
         /\ Forward(sizes, h, f.train \cup f.validation \cup f.test,
                    Split(sizes, h).test)
<1> DEFINE split == Split(sizes, h)
           pretest == split.train \cup split.validation
           S == SessionsWith(sizes, pretest)
           sessions == InOrder(S)
<1>1. /\ sessions \in Seq(S) /\ S \subseteq 1 .. Len(sizes)
      /\ \A i, j \in DOMAIN sessions : i < j => sessions[i] < sessions[j]
  BY SessionsWithFacts
<1>2. PICK k \in 3 .. Len(sessions) : /\ f = FoldAt(sizes, sessions, k)
                                      /\ LargeEnough(f)
  BY DEF Folds, PretestSessions
<1> HIDE DEF sessions
<1> HIDE DEF S
<1>3. sessions \in Seq(1 .. Len(sizes))
  <2> DEFINE T == 1 .. Len(sizes)
  <2>1. sessions \in Seq(S) /\ S \subseteq T  BY <1>1
  <2> HIDE DEF T
  <2>2. sessions \in Seq(T)  BY <2>1
  <2> QED BY <2>2 DEF T
<1> USE DEF S
<1>4. /\ f.train \subseteq 1 .. Size(sizes)
      /\ f.validation \subseteq 1 .. Size(sizes)
      /\ f.test \subseteq 1 .. Size(sizes)
      /\ \A r \in f.train \cup f.validation \cup f.test :
            \E i \in DOMAIN sessions : SessionOf(sizes, r) = sessions[i]
      /\ Forward(sizes, h, f.train, f.validation)
      /\ Forward(sizes, h, f.train \cup f.validation, f.test)
  BY <1>1, <1>2, <1>3, FoldFacts
<1> DEFINE c == BestCandidate(sizes)
<1>5. Candidates(sizes) # {}  BY <1>1, <1>2, <1>3, FoldGivesCandidate
<1>6. Chosen(sizes, c)  BY <1>5, BestIsCandidate, CandidatesFacts
<1>7. split = WholeSessions(sizes, c.t, c.v)  BY <1>5 DEF Split
<1> HIDE DEF c, split
<1>8. /\ pretest \subseteq 1 .. Size(sizes)
      /\ split.test \subseteq 1 .. Size(sizes)
      /\ \A r \in pretest : SessionOf(sizes, r) <= c.v
      /\ \A r \in split.test : SessionOf(sizes, r) > c.v
  BY <1>6, <1>7, WholeSessionsFacts
<1> HIDE DEF pretest
<1>9. \A s \in S : s \in 1 .. Len(sizes) /\ s <= c.v
  <2> TAKE s \in S
  <2>1. s \in 1 .. Len(sizes)  BY <1>1
  <2>2. PICK r \in RowsOf(sizes, s) : r \in pretest  BY DEF SessionsWith
  <2>3. SessionOf(sizes, r) = s  BY <2>1, <2>2, RowsOfFacts
  <2> QED BY <1>8, <2>1, <2>2, <2>3
<1> HIDE DEF S
<1>10. \A r \in f.train \cup f.validation \cup f.test :
          SessionOf(sizes, r) \in Nat /\ SessionOf(sizes, r) <= c.v
  <2> TAKE r \in f.train \cup f.validation \cup f.test
  <2>1. PICK i \in DOMAIN sessions : SessionOf(sizes, r) = sessions[i]  BY <1>4
  <2>2. sessions[i] \in S  BY <1>1
  <2> QED BY <1>9, <2>1, <2>2
<1>11. \A r \in f.train \cup f.validation \cup f.test, s \in split.test :
          SessionOf(sizes, r) < SessionOf(sizes, s)
  <2> TAKE r \in f.train \cup f.validation \cup f.test, s \in split.test
  <2>1. s \in 1 .. Size(sizes) /\ c.v \in Nat  BY <1>6, <1>8 DEF Chosen
  <2>2. SessionOf(sizes, s) \in Nat  BY <2>1, SessionFacts
  <2> QED BY <1>8, <1>10, <2>1, <2>2
<1>12. Forward(sizes, h, f.train \cup f.validation \cup f.test, split.test)
  <2>1. /\ f.train \cup f.validation \cup f.test \in SUBSET (1 .. Size(sizes))
        /\ split.test \in SUBSET (1 .. Size(sizes))
    BY <1>4, <1>8
  <2> QED BY <1>11, <2>1, EarlierSessionsForward
<1> QED BY <1>4, <1>12 DEF split

\* Whatever is evaluated of a split.
LEMMA EvaluationsAreForward ==
  ASSUME NEW sizes \in Seq(Nat), NEW h \in Nat,
         NEW e \in Evaluations(sizes, Split(sizes, h))
  PROVE  /\ Forward(sizes, h, e.train, e.validation)
         /\ Forward(sizes, h, e.train \cup e.validation, e.test)
         /\ e.test # Split(sizes, h).test =>
               Forward(sizes, h, e.train \cup e.validation \cup e.test,
                       Split(sizes, h).test)
<1> DEFINE split == Split(sizes, h)
<1>1. /\ Forward(sizes, h, split.train, split.validation)
      /\ Forward(sizes, h, split.train \cup split.validation, split.test)
  BY SplitFacts
<1> HIDE DEF split
<1>2. CASE e = Model(split)
  BY <1>1, <1>2 DEF Model, Partition, split
<1>3. CASE e = Baseline(split)
  <2>1. /\ e.train = {} /\ e.validation = split.validation
        /\ e.test = split.test
    BY <1>3 DEF Baseline, Partition
  <2> QED BY <1>1, <2>1 DEF Forward, split
<1>4. CASE e \in Folds(sizes, split)
  BY <1>4, FoldsFacts DEF split
<1> QED BY <1>2, <1>3, <1>4 DEF Evaluations, split

-----------------------------------------------------------------------------
(* The rows that are traded *)

TradeStates(n) == [session : Nat, next : Nat, rows : SUBSET (1 .. n)]

\* Behind row r: what was traded so far, in which session, and from where on
\* the next trade of that session may begin.
TradesTo(sizes, h, rows, signals, r, t) ==
    /\ t \in TradeStates(Size(sizes))
    /\ t.rows \subseteq rows \cap signals
    /\ \A a \in t.rows : a <= r
    /\ \A q \in 1 .. Size(sizes) : q > r => t.session <= SessionOf(sizes, q)
    /\ \A a \in t.rows :
          /\ SessionOf(sizes, a) <= t.session
          /\ SessionOf(sizes, a) = t.session => EventIndex(sizes, a) + h <= t.next
    /\ \A a, b \in t.rows :
          a < b /\ SessionOf(sizes, a) = SessionOf(sizes, b) =>
              EventIndex(sizes, b) >= EventIndex(sizes, a) + h

\* A row has a session and an event within it.
LEMMA EventIndexIsNat ==
  ASSUME NEW sizes \in Seq(Nat), NEW row \in 1 .. Size(sizes)
  PROVE  EventIndex(sizes, row) \in Nat /\ SessionOf(sizes, row) \in Nat
<1> DEFINE s == SessionOf(sizes, row)
<1>1. s \in 1 .. Len(sizes) /\ Stop(sizes, s - 1) < row  BY SessionFacts
<1>2. Len(sizes) \in Nat /\ row \in Nat  BY SizeIsNat
<1> HIDE DEF s
<1>3. s - 1 \in 0 .. Len(sizes)  BY <1>1, <1>2
<1>4. Stop(sizes, s - 1) \in Nat  BY <1>3, StopFacts
<1>5. row - Stop(sizes, s - 1) \in Nat  BY <1>1, <1>2, <1>4
<1> QED BY <1>1, <1>2, <1>5 DEF EventIndex, s

LEMMA TradeRowFacts ==
  ASSUME NEW sizes \in Seq(Nat), NEW h \in Nat,
         NEW rows \in SUBSET (1 .. Size(sizes)), NEW signals,
         NEW r \in 1 .. Size(sizes), NEW t,
         TradesTo(sizes, h, rows, signals, r - 1, t)
  PROVE  TradesTo(sizes, h, rows, signals, r,
                  IF r \in rows THEN TradeRow(sizes, h, signals, t, r) ELSE t)
<1> DEFINE n == Size(sizes)
           S(q) == SessionOf(sizes, q)
           E(q) == EventIndex(sizes, q)
           u == TradeRow(sizes, h, signals, t, r)
<1>1. n \in Nat /\ \A q \in 1 .. n : q \in Nat /\ S(q) \in Nat /\ E(q) \in Nat
  BY SizeIsNat, EventIndexIsNat
<1>2. \A q \in 1 .. n : r <= q => S(r) <= S(q)
  BY SessionsGrow
<1> HIDE DEF n, S, E
<1>3. /\ t \in TradeStates(n)
      /\ t.rows \subseteq rows \cap signals
      /\ \A a \in t.rows : a <= r - 1
      /\ \A q \in 1 .. n : q > r - 1 => t.session <= S(q)
      /\ \A a \in t.rows : /\ S(a) <= t.session
                           /\ S(a) = t.session => E(a) + h <= t.next
      /\ \A a, b \in t.rows : a < b /\ S(a) = S(b) => E(b) >= E(a) + h
  BY DEF TradesTo, n, S, E
<1>4. /\ t.session \in Nat /\ t.next \in Nat /\ t.rows \subseteq 1 .. n
      /\ t.rows \subseteq rows /\ t.rows \subseteq signals
      /\ t = [session |-> t.session, next |-> t.next, rows |-> t.rows]
  BY <1>3 DEF TradeStates
<1>5. r \in 1 .. n /\ r \in Nat /\ t.session <= S(r) /\ S(r) \in Nat /\ E(r) \in Nat
  <2>1. r \in 1 .. n  BY DEF n
  <2>2. r > r - 1  BY <1>1, <2>1
  <2> QED BY <1>1, <1>3, <2>1, <2>2
<1>6. \A a \in t.rows : /\ a \in 1 .. n /\ a \in Nat /\ S(a) \in Nat /\ E(a) \in Nat
                        /\ a < r /\ S(a) <= t.session
                        /\ S(a) = t.session => E(a) + h <= t.next
  <2> TAKE a \in t.rows
  <2>1. a \in 1 .. n /\ a \in Nat /\ S(a) \in Nat /\ E(a) \in Nat
    BY <1>1, <1>4
  <2>2. a < r  BY <1>3, <1>5, <2>1
  <2> QED BY <1>3, <2>1, <2>2
<1>7. CASE r \notin rows
  <2>1. \A q \in 1 .. n : q > r => q > r - 1  BY <1>1, <1>5
  <2>2. \A a \in t.rows : a <= r  BY <1>5, <1>6
  <2> QED BY <1>3, <1>7, <2>1, <2>2 DEF TradesTo, n, S, E
<1>8. CASE r \in rows
  <2> DEFINE fresh == t.session # S(r)
  <2>1. u = IF r \notin signals \/ (~ fresh /\ E(r) < t.next)
            THEN [t EXCEPT !.session = S(r), !.next = IF fresh THEN 0 ELSE @]
            ELSE [session |-> S(r), next |-> E(r) + h, rows |-> t.rows \cup {r}]
    BY DEF TradeRow, NextEligible, S, E
  <2>2. \A a \in t.rows : S(a) <= S(r) /\ (fresh => S(a) < S(r))
    <3> TAKE a \in t.rows
    <3>1. S(a) <= t.session /\ S(a) \in Nat  BY <1>6
    <3> QED BY <1>4, <1>5, <3>1
  <2>3. \A q \in 1 .. n : q > r => S(r) <= S(q)  BY <1>1, <1>2, <1>5
  <2> HIDE DEF u
  <2>4. CASE r \notin signals \/ (~ fresh /\ E(r) < t.next)
    <3>1. /\ u.session = S(r) /\ u.rows = t.rows
          /\ u.next = IF fresh THEN 0 ELSE t.next
          /\ u = [session |-> S(r), next |-> IF fresh THEN 0 ELSE t.next,
                  rows |-> t.rows]
      <4>1. u = [session |-> S(r), next |-> IF fresh THEN 0 ELSE t.next,
                 rows |-> t.rows]
        BY <1>4, <2>1, <2>4
      <4> HIDE DEF fresh
      <4> QED BY <4>1
    <3>2. u \in TradeStates(n)
      <4>1. (IF fresh THEN 0 ELSE t.next) \in Nat  BY <1>4
      <4> HIDE DEF fresh
      <4> QED BY <1>4, <1>5, <3>1, <4>1 DEF TradeStates
    <3>3. \A a \in u.rows : a <= r  BY <1>5, <1>6, <3>1
    <3>4. \A a \in u.rows : /\ S(a) <= u.session
                            /\ S(a) = u.session => E(a) + h <= u.next
      <4> SUFFICES ASSUME NEW a \in t.rows
                   PROVE  /\ S(a) <= S(r)
                          /\ S(a) = S(r) => E(a) + h <= u.next
        BY <3>1
      <4>1. CASE fresh
        <5>1. S(a) < S(r) /\ S(a) \in Nat  BY <1>6, <2>2, <4>1
        <5> QED BY <1>5, <5>1
      <4>2. CASE ~ fresh  BY <1>6, <2>2, <3>1, <4>2
      <4> QED BY <4>1, <4>2
    <3>5. \A a, b \in u.rows : a < b /\ S(a) = S(b) => E(b) >= E(a) + h
      BY <1>3, <3>1
    <3>6. /\ u.rows \subseteq rows \cap signals
          /\ \A q \in 1 .. n : q > r => u.session <= S(q)
      BY <1>3, <2>3, <3>1
    <3> QED BY <1>8, <3>2, <3>3, <3>4, <3>5, <3>6 DEF TradesTo, n, S, E, u
  <2>5. CASE r \in signals /\ (fresh \/ ~ (E(r) < t.next))
    <3>1. u = [session |-> S(r), next |-> E(r) + h, rows |-> t.rows \cup {r}]
      BY <2>1, <2>5
    <3> HIDE DEF fresh
    <3>2. /\ u.session = S(r) /\ u.next = E(r) + h /\ u.rows = t.rows \cup {r}
          /\ u \in TradeStates(n)
      <4>1. E(r) + h \in Nat  BY <1>5
      <4> QED BY <1>4, <1>5, <3>1, <4>1 DEF TradeStates
    <3>3. \A a \in t.rows : S(a) = S(r) => E(r) >= E(a) + h
      <4> SUFFICES ASSUME NEW a \in t.rows, S(a) = S(r)
                   PROVE  E(r) >= E(a) + h
        OBVIOUS
      <4>1. ~ fresh
        <5>1. fresh => S(a) < S(r)  BY <2>2
        <5> QED BY <1>5, <5>1
      <4>2. S(a) = t.session  BY <4>1 DEF fresh
      <4>3. E(a) + h <= t.next /\ E(a) \in Nat  BY <1>6, <4>2
      <4>4. ~ (E(r) < t.next)  BY <2>5, <4>1
      <4> QED BY <1>4, <1>5, <4>3, <4>4
    <3>4. \A a \in u.rows : a <= r
      BY <1>5, <1>6, <3>2
    <3>5. \A a \in u.rows : /\ S(a) <= u.session
                            /\ S(a) = u.session => E(a) + h <= u.next
      <4> TAKE a \in u.rows
      <4>1. CASE a = r  BY <1>5, <3>2, <4>1
      <4>2. CASE a \in t.rows
        <5>1. S(a) <= S(r) /\ E(a) \in Nat  BY <1>6, <2>2, <4>2
        <5>2. S(a) = S(r) => E(r) >= E(a) + h  BY <3>3, <4>2
        <5> QED BY <1>5, <3>2, <5>1, <5>2
      <4> QED BY <3>2, <4>1, <4>2
    <3>6. \A a, b \in u.rows : a < b /\ S(a) = S(b) => E(b) >= E(a) + h
      <4> SUFFICES ASSUME NEW a \in u.rows, NEW b \in u.rows, a < b, S(a) = S(b)
                   PROVE  E(b) >= E(a) + h
        OBVIOUS
      <4>1. a # r
        <5>1. b <= r /\ (b = r \/ b < r)  BY <1>6, <3>2, <3>4
        <5> QED BY <1>5, <1>6, <3>2, <5>1
      <4>2. a \in t.rows  BY <3>2, <4>1
      <4>3. CASE b = r  BY <3>3, <4>2, <4>3
      <4>4. CASE b \in t.rows  BY <1>3, <4>2, <4>4
      <4> QED BY <3>2, <4>3, <4>4
    <3>7. /\ u.rows \subseteq rows \cap signals
          /\ \A q \in 1 .. n : q > r => u.session <= S(q)
      BY <1>3, <1>8, <2>3, <2>5, <3>2
    <3> QED BY <1>8, <3>2, <3>4, <3>5, <3>6, <3>7 DEF TradesTo, n, S, E, u
  <2> QED BY <2>4, <2>5
<1> QED BY <1>7, <1>8

\* The function Trades() is read from.
TradesOf(sizes, h, rows, signals, f) ==
    f = [r \in 0 .. Size(sizes) |->
            IF r = 0 THEN [session |-> 0, next |-> 0, rows |-> {}]
            ELSE IF r \in rows
                 THEN TradeRow(sizes, h, signals, f[r - 1], r)
                 ELSE f[r - 1]]

\* Trades are made on signalled rows, and those of a session are at least the
\* horizon apart.
LEMMA TradesFacts ==
  ASSUME NEW sizes \in Seq(Nat), NEW h \in Nat,
         NEW rows \in SUBSET (1 .. Size(sizes)), NEW signals
  PROVE  LET traded == Trades(sizes, h, rows, signals)
         IN /\ traded \subseteq signals
            /\ \A a, b \in traded :
                  a < b /\ SessionOf(sizes, a) = SessionOf(sizes, b) =>
                      EventIndex(sizes, b) >= EventIndex(sizes, a) + h
<1> DEFINE n == Size(sizes)
           V == TradeStates(n)
           start == [session |-> 0, next |-> 0, rows |-> {}]
           next(r, t) == IF r \in rows THEN TradeRow(sizes, h, signals, t, r) ELSE t
           step == [p \in (1 .. n) \X V |-> next(p[1], p[2])]
           s == CHOOSE f : TradesOf(sizes, h, rows, signals, f)
<1>1. n \in Nat  BY SizeIsNat
<1>2. start \in V  BY DEF TradeStates
<1>3. \A r \in 1 .. n : \A t \in V : next(r, t) \in V
  <2> TAKE r \in 1 .. n
  <2> TAKE t \in V
  <2>1. EventIndex(sizes, r) \in Nat /\ SessionOf(sizes, r) \in Nat
    BY EventIndexIsNat
  <2>2. /\ t.session \in Nat /\ t.next \in Nat /\ t.rows \subseteq 1 .. n
        /\ t = [session |-> t.session, next |-> t.next, rows |-> t.rows]
    BY DEF TradeStates
  <2>3. EventIndex(sizes, r) + h \in Nat  BY <2>1
  <2> HIDE DEF n
  <2>4. TradeRow(sizes, h, signals, t, r) \in V
    BY <2>1, <2>2, <2>3 DEF TradeRow, NextEligible, TradeStates
  <2> QED BY <2>4
<1> HIDE DEF n, V
<1>4. PICK f : Runs(f, V, start, n, step)
  <2>1. Steps(V, n, step)
    <3> HIDE DEF next
    <3> QED BY <1>3 DEF Steps
  <2> HIDE DEF step, start
  <2> QED BY <1>1, <1>2, <2>1, RecursionExists
<1>5. TradesOf(sizes, h, rows, signals, f)
  <2>1. \A r \in 1 .. n : f[r] = next(r, f[r - 1])
    <3> TAKE r \in 1 .. n
    <3>1. r - 1 \in 0 .. n  BY <1>1
    <3>2. f[r - 1] \in V /\ f[r] = step[<<r, f[r - 1]>>]  BY <1>4, <3>1 DEF Runs
    <3> HIDE DEF next
    <3> QED BY <3>2
  <2>2. f \in [0 .. n -> V] /\ f[0] = start  BY <1>4 DEF Runs
  <2>3. \A r \in 0 .. n : r # 0 => r \in 1 .. n  BY <1>1
  <2> HIDE DEF step, start
  <2>4. \A r \in 0 .. n : f[r] = IF r = 0 THEN start ELSE next(r, f[r - 1])
    <3> HIDE DEF next
    <3> QED BY <2>1, <2>2, <2>3
  <2>5. f = [r \in 0 .. n |-> IF r = 0 THEN start ELSE next(r, f[r - 1])]
    <3> HIDE DEF next
    <3> QED BY <2>2, <2>4
  <2> QED BY <2>5 DEF TradesOf, n, start
<1>6. TradesOf(sizes, h, rows, signals, s)  BY <1>5
<1>7. Trades(sizes, h, rows, signals) = s[n].rows
  BY DEF Trades, TradesOf, n
<1> HIDE DEF s
<1>8. s[0] = start /\ \A r \in 1 .. n : s[r] = next(r, s[r - 1])
  <2>1. 0 \in 0 .. n /\ \A r \in 1 .. n : r \in 0 .. n /\ r # 0  BY <1>1
  <2>2. s = [r \in 0 .. n |-> IF r = 0 THEN start ELSE next(r, s[r - 1])]
    BY <1>6 DEF TradesOf, n
  <2> HIDE DEF next, start
  <2> QED BY <2>1, <2>2
<1> DEFINE Inv(r) == TradesTo(sizes, h, rows, signals, r, s[r])
           G == {r \in Nat : r <= n => Inv(r)}
<1>9. 0 \in G
  <2>1. \A q \in 1 .. n : 0 <= SessionOf(sizes, q)
    <3> TAKE q \in 1 .. n
    <3>1. SessionOf(sizes, q) \in Nat  BY EventIndexIsNat DEF n
    <3> QED BY <3>1
  <2>2. start \in TradeStates(n)  BY <1>2 DEF V
  <2>3. start.rows = {} /\ start.session = 0  OBVIOUS
  <2> HIDE DEF start
  <2>4. TradesTo(sizes, h, rows, signals, 0, start)
    BY <2>1, <2>2, <2>3 DEF TradesTo, n
  <2> QED BY <1>8, <2>4
<1>10. ASSUME NEW r \in G  PROVE r + 1 \in G
  <2> SUFFICES ASSUME r + 1 <= n  PROVE Inv(r + 1)
    OBVIOUS
  <2>1. r \in Nat /\ r + 1 \in 1 .. n /\ r + 1 - 1 = r /\ r <= n
    BY <1>1, <1>10
  <2>2. Inv(r)  BY <1>10, <2>1
  <2> DEFINE q == r + 1
  <2>3. TradesTo(sizes, h, rows, signals, q - 1, s[q - 1]) /\ q \in 1 .. n
    BY <2>1, <2>2
  <2>4. s[q] = next(q, s[q - 1])  BY <1>8, <2>3
  <2> HIDE DEF q
  <2>5. TradesTo(sizes, h, rows, signals, q, next(q, s[q - 1]))
    BY <2>3, TradeRowFacts DEF n
  <2> HIDE DEF next
  <2> QED BY <2>4, <2>5 DEF q
<1>11. G = Nat
  <2>1. G \in SUBSET Nat  OBVIOUS
  <2> HIDE DEF G
  <2> QED BY <1>9, <1>10, <2>1, Induction
<1>12. n \in G  BY <1>1, <1>11
<1>13. Inv(n)  BY <1>1, <1>12
<1> QED BY <1>7, <1>13 DEF TradesTo

-----------------------------------------------------------------------------
(* The inductive invariant *)

Parts == 1 .. 4   \* DOMAIN Artifacts
Files == [Parts -> Nat]
UndoSteps == {"remove", "restore"} \X Parts

LogEntries ==
    [name : Names,
     fingerprint : [of : SUBSET (Nat \cup Nat \X Nat), horizon : Nat],
     held_out : UNION {[D -> Nat] : D \in SUBSET Nat},
     reused : BOOLEAN, overwrite : BOOLEAN, outcome : Outcomes]

Evaluated == [phase : {"evaluated"}, name : Names, sizes : Seq(Nat),
              horizon : Horizons, overwrite : BOOLEAN, before : Files]
Publishing == [phase : {"backing_up", "committing"}, name : Names,
               before : Files, k : Parts, backups : Seq(Parts),
               committed : Seq(Parts)]
RollingBack == [phase : {"rolling_back"}, name : Names, before : Files,
                undo : Seq(UndoSteps), clean : BOOLEAN]

Types ==
    /\ program \in {"top_of_book", "l2"} /\ market \in Markets
    /\ disk \in [Names -> Files] /\ log \in Seq(LogEntries)
    /\ training \in {Idle} \cup Evaluated \cup Publishing \cup RollingBack
    /\ Len(log) <= MaxTrainings /\ failures \in 0 .. MaxFailures
    /\ hidden \subseteq DOMAIN log

\* The trainings whose files may lie under a name.
FileOf(l, n, id) == /\ id \in DOMAIN l /\ l[id].name = n
                    /\ l[id].outcome # "failed"

Logged ==
    /\ \A i \in DOMAIN log :
        /\ (log[i].outcome = "running") <=> (training # Idle /\ i = Len(log))
        /\ log[i].overwrite => program = "top_of_book"
    /\ \A n \in Names, k \in Parts : disk[n][k] # 0 => FileOf(log, n, disk[n][k])
    /\ training # Idle =>
        /\ Len(log) > 0 /\ log[Len(log)].name = training.name
        /\ log[Len(log)].overwrite <=> \E k \in Parts : training.before[k] # 0
        /\ \A k \in Parts : training.before[k] # 0 =>
                FileOf(log, training.name, training.before[k])
                /\ training.before[k] < Len(log)

InRange(x, s) == \E i \in DOMAIN s : s[i] = x
OneToOne(s) == \A i, j \in DOMAIN s : s[i] = s[j] => i = j

Found == disk[training.name]   \* now, under the name of the training

EvaluatedOK == /\ Found = training.before
               /\ log[Len(log)].overwrite = training.overwrite

\* Which artifacts are backed up, and which are there.
BackingUpOK ==
    /\ log[Len(log)].overwrite /\ training.committed = <<>>
    /\ OneToOne(training.backups)
    /\ \A a \in Parts :
        /\ a < training.k => Found[a] = 0
        /\ a >= training.k => Found[a] = training.before[a]
        /\ InRange(a, training.backups) <=>
              a < training.k /\ training.before[a] # 0

CommittingOK ==
    /\ OneToOne(training.backups) /\ OneToOne(training.committed)
    /\ \A a \in Parts :
        /\ a < training.k => Found[a] = Len(log)
        /\ a >= training.k => Found[a] = 0
        /\ InRange(a, training.backups) <=> training.before[a] # 0
        /\ InRange(a, training.committed) <=> a < training.k

Pending(op, a) == InRange(<<op, a>>, training.undo)

RollingBackOK ==
    /\ training.undo # <<>> /\ OneToOne(training.undo)
    /\ \A i, j \in DOMAIN training.undo :
          i < j /\ training.undo[j][1] = "remove" => training.undo[i][1] = "remove"
    /\ program = "l2" => training.clean
    /\ Found[4] \in {0, training.before[4]}
    /\ \A a \in Parts :
        /\ Pending("remove", a) => Found[a] = Len(log)
        /\ Pending("restore", a) => training.before[a] # 0
    /\ training.clean => \A a \in Parts :
        /\ \/ Pending("remove", a) /\ (training.before[a] = 0 \/ Pending("restore", a))
           \/ Pending("restore", a) /\ Found[a] \in {0, training.before[a]}
           \/ Found[a] = training.before[a]
        /\ Found[4] # 0 => ~ Pending("remove", a)

Phases == /\ training.phase = "evaluated" => EvaluatedOK
          /\ training.phase = "backing_up" => BackingUpOK
          /\ training.phase = "committing" => CommittingOK
          /\ training.phase = "rolling_back" => RollingBackOK

Whole(d) == d[4] # 0 => \A k \in Parts : d[k] = d[4]

WholeSets ==
    /\ \A n \in Names : ~ Broken(n) /\ (training # Idle => training.name # n) =>
                            Whole(disk[n])
    /\ training # Idle /\ ~ Broken(training.name) => Whole(training.before)

\* The predictions of training o, read under a name, are still there, or were
\* rolled back, or lie in a set left incomplete, which nobody trains again.
ReadOK(n, o) ==
    \/ disk[n][2] = o
    \/ log[o].outcome = "rolled_back"
    \/ /\ disk[n][2] = 0 /\ \E k \in Parts : disk[n][k] # 0
       /\ training # Idle /\ training.name = n =>
              training.phase = "rolling_back" /\ o = Len(log)

StudyReadOK == /\ program = "l2" /\ study.name \in Names
               /\ study.orders \in DOMAIN log
               /\ ReadOK(study.name, study.orders)

StudyAcceptedOK ==
    /\ study.report \in DOMAIN log /\ study.orders \in DOMAIN log
    /\ study.mapping = log[study.report].held_out
    /\ study.orders = study.report \/ log[study.orders].outcome = "rolled_back"

Studied == /\ study.phase \in {"none", "read", "accepted"}
           /\ study.phase = "none" => study = NoStudy
           /\ study.phase = "read" => StudyReadOK
           /\ study.phase = "accepted" => StudyAcceptedOK

\* What became of the report of a training that was published.
Remembered ==
    \A i \in DOMAIN log : log[i].outcome = "published" =>
        \/ disk[log[i].name][4] = i
        \/ training # Idle /\ training.name = log[i].name /\ training.before[4] = i
        \/ \E k \in i + 1 .. Len(log) :
              /\ log[k].name = log[i].name /\ log[k].overwrite
              /\ log[k].outcome \in {"published", "incomplete", "crashed"}

IInv == /\ Types /\ Logged /\ Phases /\ WholeSets /\ Studied /\ Remembered
        /\ HoldoutRemembered

-----------------------------------------------------------------------------
(* What the invariant says of a training and of the log *)

LEMMA ArtifactFacts ==
  /\ DOMAIN Artifacts = Parts /\ Len(Artifacts) = 4
  /\ Report = 4 /\ Predictions = 2
  /\ \A k \in Parts : CommitOrder[k] = k
<1>1. Len(Artifacts) = 4 /\ DOMAIN Artifacts = 1 .. 4  BY DEF Artifacts
<1>2. \A k \in 1 .. 4 : CommitOrder[k] = k
  <2>1. /\ CommitOrder[1] = 1 /\ CommitOrder[2] = 2 /\ CommitOrder[3] = 3
        /\ CommitOrder[4] = 4
    BY DEF CommitOrder
  <2>2. \A k \in 1 .. 4 : k = 1 \/ k = 2 \/ k = 3 \/ k = 4  OBVIOUS
  <2> HIDE DEF CommitOrder
  <2> QED BY <2>1, <2>2
<1> QED BY <1>1, <1>2 DEF Report, Predictions, Parts

\* A training has the fields of its phase.
LEMMA ShapeFacts ==
  ASSUME Types
  PROVE  /\ training.phase = "evaluated" => training \in Evaluated
         /\ training.phase \in {"backing_up", "committing"} =>
                training \in Publishing
         /\ training.phase = "rolling_back" => training \in RollingBack
         /\ training # Idle =>
                /\ training.name \in Names /\ training.before \in Files
                /\ training.phase \in {"evaluated", "backing_up", "committing",
                                      "rolling_back"}
                /\ Found \in Files
<1>1. training = Idle => training.phase = "idle"  BY DEF Idle
<1>2. training \in Evaluated =>
         /\ training.phase = "evaluated" /\ training.name \in Names
         /\ training.before \in Files
  BY DEF Evaluated
<1>3. training \in Publishing =>
         /\ training.phase \in {"backing_up", "committing"}
         /\ training.name \in Names /\ training.before \in Files
  BY DEF Publishing
<1>4. training \in RollingBack =>
         /\ training.phase = "rolling_back" /\ training.name \in Names
         /\ training.before \in Files
  BY DEF RollingBack
<1>5. \/ training = Idle \/ training \in Evaluated
      \/ training \in Publishing \/ training \in RollingBack
  BY DEF Types
<1>6. training # Idle => training.name \in Names /\ training.before \in Files
  BY <1>2, <1>3, <1>4, <1>5
<1>7. training # Idle => Found \in Files  BY <1>6 DEF Types, Found
<1> QED BY <1>1, <1>2, <1>3, <1>4, <1>5, <1>6, <1>7

\* While a training runs, the report found under its name is the one it found.
LEMMA ReportIsOld ==
  ASSUME Types, Phases, training # Idle
  PROVE  Found[4] \in {0, training.before[4]}
<1>1. 4 \in Parts  BY DEF Parts
<1>2. CASE training.phase = "evaluated"  BY <1>2 DEF Phases, EvaluatedOK
<1>3. CASE training.phase = "backing_up"
  <2>1. training.k \in Nat  BY <1>3, ShapeFacts DEF Publishing, Parts
  <2> QED BY <1>1, <1>3, <2>1 DEF Phases, BackingUpOK
<1>4. CASE training.phase = "committing"
  <2>1. training.k \in Parts  BY <1>4, ShapeFacts DEF Publishing
  <2>2. 4 >= training.k  BY <2>1 DEF Parts
  <2> QED BY <1>1, <1>4, <2>2 DEF Phases, CommittingOK
<1>5. CASE training.phase = "rolling_back"
  BY <1>5 DEF Phases, RollingBackOK
<1> QED BY <1>2, <1>3, <1>4, <1>5, ShapeFacts

\* What ends a training ends its evaluation, and nothing else in the log.
LEMMA EndsFacts ==
  ASSUME Types, Logged, training # Idle,
         NEW outcome \in Outcomes \ {"running"}, EndsAs(outcome)
  PROVE  LET last == Len(log)
         IN /\ training' = Idle /\ log' \in Seq(LogEntries)
            /\ last \in DOMAIN log
            /\ Len(log') = last /\ DOMAIN log' = DOMAIN log
            /\ DOMAIN log = 1 .. last /\ last \in Nat
            /\ \A i \in DOMAIN log : i # last => log'[i] = log[i]
            /\ log[last].name = training.name
            /\ log'[last].name = training.name
            /\ log'[last].fingerprint = log[last].fingerprint
            /\ log'[last].held_out = log[last].held_out
            /\ log'[last].reused = log[last].reused
            /\ log'[last].overwrite = log[last].overwrite
            /\ log'[last].outcome = outcome
<1> DEFINE last == Len(log)
           e == [log[last] EXCEPT !.outcome = outcome]
<1>1. log \in Seq(LogEntries) /\ last \in Nat /\ DOMAIN log = 1 .. last
  BY DEF Types
<1>2. last > 0 /\ log[last].name = training.name  BY DEF Logged
<1>3. last \in DOMAIN log  BY <1>1, <1>2
<1>4. log' = [log EXCEPT ![last] = e] /\ training' = Idle  BY DEF EndsAs
<1>5. log[last] \in LogEntries  BY <1>1, <1>3
<1>6. /\ e \in LogEntries
      /\ e.name = log[last].name /\ e.fingerprint = log[last].fingerprint
      /\ e.held_out = log[last].held_out /\ e.reused = log[last].reused
      /\ e.overwrite = log[last].overwrite /\ e.outcome = outcome
  BY <1>5 DEF LogEntries
<1> HIDE DEF e
<1>7. /\ log' \in Seq(LogEntries) /\ Len(log') = last
      /\ DOMAIN log' = DOMAIN log /\ log'[last] = e
      /\ \A i \in DOMAIN log : i # last => log'[i] = log[i]
  BY <1>1, <1>3, <1>4, <1>6
<1> QED BY <1>1, <1>2, <1>3, <1>4, <1>6, <1>7

-----------------------------------------------------------------------------
(* A step of a training that goes on, and one that ends it *)

OnlyItsFiles ==
    /\ disk' \in [Names -> Files]
    /\ \A n \in Names : n # training.name => disk'[n] = disk[n]
    /\ \A k \in Parts : disk'[training.name][k] \in
                            {0, Len(log), Found[k], training.before[k]}

GoesOn == /\ training # Idle /\ training' # Idle
          /\ training'.name = training.name
          /\ training'.before = training.before
          /\ log' = log /\ program' = program /\ OnlyItsFiles

LEMMA GoesOnFacts ==
  ASSUME Types, Logged, Phases, WholeSets, Remembered, HoldoutRemembered, GoesOn
  PROVE  /\ Logged' /\ WholeSets' /\ Remembered' /\ HoldoutRemembered'
<1> DEFINE name == training.name
           last == Len(log)
<1>1. /\ training # Idle /\ training' # Idle /\ training'.name = name
      /\ training'.before = training.before /\ log' = log /\ program' = program
      /\ disk' \in [Names -> Files]
      /\ \A n \in Names : n # name => disk'[n] = disk[n]
      /\ \A k \in Parts : disk'[name][k] \in {0, last, Found[k], training.before[k]}
  BY DEF GoesOn, OnlyItsFiles
<1>2. name \in Names /\ 4 \in Parts /\ log \in Seq(LogEntries)
  BY <1>1, ShapeFacts DEF Types, Parts
<1>3. Logged'
  <2>1. \A i \in DOMAIN log' :
         /\ (log'[i].outcome = "running") <=> (training' # Idle /\ i = Len(log'))
         /\ log'[i].overwrite => program' = "top_of_book"
    BY <1>1 DEF Logged
  <2>2. last \in DOMAIN log /\ FileOf(log, name, last)
    <3>1. last > 0 /\ log[last].name = name  BY <1>1 DEF Logged
    <3>2. last \in DOMAIN log  BY <1>2, <3>1
    <3>3. log[last].outcome = "running"  BY <1>1, <3>2 DEF Logged
    <3> QED BY <3>1, <3>2, <3>3 DEF FileOf
  <2>3. ASSUME NEW n \in Names, NEW k \in Parts, disk'[n][k] # 0
        PROVE  FileOf(log, n, disk'[n][k])
    <3>1. CASE n # name  BY <1>1, <2>3, <3>1 DEF Logged
    <3>2. CASE n = name
      <4>1. CASE disk'[n][k] = last  BY <2>2, <3>2, <4>1
      <4>2. CASE disk'[n][k] = disk[n][k]  BY <2>3, <4>2 DEF Logged
      <4>3. CASE disk'[n][k] = training.before[k]
        BY <1>1, <2>3, <3>2, <4>3 DEF Logged
      <4> QED BY <1>1, <2>3, <3>2, <4>1, <4>2, <4>3 DEF Found
    <3> QED BY <3>1, <3>2
  <2>5. /\ Len(log') > 0 /\ log'[Len(log')].name = training'.name
        /\ log'[Len(log')].overwrite <=> \E k \in Parts : training'.before[k] # 0
        /\ \A k \in Parts : training'.before[k] # 0 =>
                FileOf(log, training'.name, training'.before[k])
                /\ training'.before[k] < Len(log')
    BY <1>1 DEF Logged
  <2>6. \A n \in Names, k \in Parts : disk'[n][k] # 0 => FileOf(log', n, disk'[n][k])
    BY <1>1, <2>3
  <2>7. \A k \in Parts : training'.before[k] # 0 =>
                FileOf(log', training'.name, training'.before[k])
                /\ training'.before[k] < Len(log')
    BY <1>1, <2>5
  <2> QED BY <2>1, <2>5, <2>6, <2>7 DEF Logged
<1>4. WholeSets'
  <2>1. \A n : Broken(n)' <=> Broken(n)  BY <1>1 DEF Broken
  <2>2. ASSUME NEW n \in Names, ~ Broken(n)', training' # Idle => training'.name # n
        PROVE  Whole(disk'[n])
    <3>1. n # name /\ ~ Broken(n)  BY <1>1, <2>1, <2>2
    <3> QED BY <1>1, <3>1 DEF WholeSets
  <2>3. ~ Broken(name)' => Whole(training'.before)
    BY <1>1, <2>1 DEF WholeSets
  <2> QED BY <1>1, <2>2, <2>3 DEF WholeSets, Whole, Broken
<1>5. Remembered'
  <2> SUFFICES ASSUME NEW i \in DOMAIN log, log[i].outcome = "published"
               PROVE  \/ disk'[log[i].name][4] = i
                      \/ name = log[i].name /\ training.before[4] = i
                      \/ \E k \in i + 1 .. Len(log) :
                            /\ log[k].name = log[i].name /\ log[k].overwrite
                            /\ log[k].outcome \in {"published", "incomplete", "crashed"}
    BY <1>1 DEF Remembered
  <2>1. log[i].name \in Names /\ i # 0
    <3>1. log[i] \in LogEntries  BY <1>2
    <3> QED BY <1>2, <3>1 DEF LogEntries
  <2>2. CASE disk[log[i].name][4] = i
    <3>1. CASE log[i].name = name
      <4>1. Found[4] = i  BY <2>2, <3>1 DEF Found
      <4>2. training.before[4] = i  BY <1>1, <2>1, <4>1, ReportIsOld
      <4> QED BY <3>1, <4>2
    <3>2. CASE log[i].name # name  BY <1>1, <2>1, <2>2, <3>2
    <3> QED BY <3>1, <3>2
  <2> QED BY <2>2 DEF Remembered
<1>6. HoldoutRemembered'
  BY <1>1 DEF HoldoutRemembered
<1> QED BY <1>3, <1>4, <1>5, <1>6

Ends(outcome) ==
    /\ training # Idle /\ EndsAs(outcome) /\ program' = program /\ OnlyItsFiles
    /\ outcome \in Outcomes \ {"running"}
    /\ outcome = "published" =>
          \A k \in Parts : disk'[training.name][k] = Len(log)
    /\ outcome \in {"failed", "rolled_back"} =>
          disk'[training.name] = training.before
    /\ outcome \in {"incomplete", "crashed"} =>
          log[Len(log)].overwrite \/ disk'[training.name][4] = 0

LEMMA EndsGivesLogged ==
  ASSUME Types, Logged, NEW outcome, Ends(outcome)
  PROVE  Logged'
<1> DEFINE name == training.name
           last == Len(log)
<1>1. /\ training # Idle /\ program' = program /\ outcome \in Outcomes \ {"running"}
      /\ \A n \in Names : n # name => disk'[n] = disk[n]
      /\ \A k \in Parts : disk'[name][k] \in {0, last, Found[k], training.before[k]}
      /\ outcome = "failed" => disk'[name] = training.before
  BY DEF Ends, OnlyItsFiles
<1>2. /\ training' = Idle /\ Len(log') = last /\ DOMAIN log' = DOMAIN log
      /\ last \in DOMAIN log
      /\ \A i \in DOMAIN log : i # last => log'[i] = log[i]
      /\ log[last].name = name /\ log'[last].name = name
      /\ log'[last].overwrite = log[last].overwrite
      /\ log'[last].outcome = outcome
  BY <1>1, EndsFacts DEF Ends
<1>3. ASSUME NEW i \in DOMAIN log'
      PROVE  /\ (log'[i].outcome = "running") <=> (training' # Idle /\ i = Len(log'))
             /\ log'[i].overwrite => program' = "top_of_book"
  <2>1. log'[i].overwrite => log[i].overwrite  BY <1>2
  <2>2. log'[i].outcome # "running"
    BY <1>1, <1>2 DEF Logged
  <2> QED BY <1>1, <1>2, <2>1, <2>2 DEF Logged
<1>4. ASSUME NEW n, NEW id, FileOf(log, n, id), id # last \/ outcome # "failed"
      PROVE  FileOf(log', n, id)
  BY <1>2, <1>4 DEF FileOf
<1>5. ASSUME NEW n \in Names, NEW k \in Parts, disk'[n][k] # 0
      PROVE  FileOf(log', n, disk'[n][k])
  <2>1. CASE n # name
    <3>1. FileOf(log, n, disk'[n][k])  BY <1>1, <1>5, <2>1 DEF Logged
    <3>2. disk'[n][k] # last  BY <1>2, <2>1, <3>1 DEF FileOf
    <3> QED BY <1>4, <3>1, <3>2
  <2>2. CASE n = name
    <3>1. CASE disk'[n][k] = training.before[k]
      <4>1. FileOf(log, n, disk'[n][k]) /\ disk'[n][k] < last
        BY <1>1, <1>5, <2>2, <3>1 DEF Logged
      <4>2. disk'[n][k] \in Nat /\ last \in Nat
        BY <1>1, <2>2, <3>1, ShapeFacts DEF Types, Files
      <4>3. disk'[n][k] # last  BY <4>1, <4>2
      <4> QED BY <1>4, <4>1, <4>3
    <3>2. CASE disk'[n][k] # training.before[k]
      <4>1. outcome # "failed"  BY <1>1, <2>2, <3>2
      <4>2. FileOf(log, name, last)
        BY <1>1, <1>2 DEF FileOf, Logged
      <4>3. FileOf(log, n, disk'[n][k])
        <5>1. CASE disk'[n][k] = last  BY <2>2, <4>2, <5>1
        <5>2. CASE disk'[n][k] = disk[n][k]  BY <1>5, <5>2 DEF Logged
        <5> QED BY <1>1, <1>5, <2>2, <3>2, <5>1, <5>2 DEF Found
      <4> QED BY <1>4, <4>1, <4>3
    <3> QED BY <3>1, <3>2
  <2> QED BY <2>1, <2>2
<1> QED BY <1>2, <1>3, <1>5 DEF Logged

\* Only a publication ends the damage of a name, and only one that overwrote
\* may bring it about.
LEMMA EndsGivesWholeSets ==
  ASSUME Types, Logged, WholeSets, NEW outcome, Ends(outcome)
  PROVE  WholeSets'
<1> DEFINE name == training.name
           last == Len(log)
<1>1. /\ training # Idle /\ outcome \in Outcomes \ {"running"}
      /\ \A n \in Names : n # name => disk'[n] = disk[n]
      /\ outcome = "published" => \A k \in Parts : disk'[name][k] = last
      /\ outcome \in {"failed", "rolled_back"} => disk'[name] = training.before
      /\ outcome \in {"incomplete", "crashed"} =>
            log[last].overwrite \/ disk'[name][4] = 0
  BY DEF Ends, OnlyItsFiles
<1>2. /\ training' = Idle /\ Len(log') = last /\ DOMAIN log' = DOMAIN log
      /\ DOMAIN log = 1 .. last /\ last \in Nat /\ last \in DOMAIN log
      /\ \A i \in DOMAIN log : i # last => log'[i] = log[i]
      /\ log[last].name = name /\ log'[last].name = name
      /\ log'[last].overwrite = log[last].overwrite
      /\ log'[last].outcome = outcome
  BY <1>1, EndsFacts DEF Ends
<1>3. log[last].outcome = "running"  BY <1>1, <1>2 DEF Logged
<1>4. ASSUME NEW n, Broken(n), n # name \/ outcome # "published"
      PROVE  Broken(n)'
  <2>1. PICK i \in DOMAIN log :
           /\ log[i].name = n /\ log[i].overwrite
           /\ log[i].outcome \in {"incomplete", "crashed"}
           /\ \A j \in i + 1 .. last : log[j].name = n => log[j].outcome # "published"
    BY <1>4 DEF Broken
  <2>2. i # last /\ log'[i] = log[i]  BY <1>2, <1>3, <2>1
  <2>3. ASSUME NEW j \in i + 1 .. last, log'[j].name = n
        PROVE  log'[j].outcome # "published"
    <3>1. j \in DOMAIN log  BY <1>2
    <3>2. CASE j = last  BY <1>2, <1>4, <2>3, <3>2
    <3>3. CASE j # last  BY <1>2, <2>1, <2>3, <3>1, <3>3
    <3> QED BY <3>2, <3>3
  <2> QED BY <1>2, <2>1, <2>2, <2>3 DEF Broken
<1>5. \A n \in Names : n # name /\ ~ Broken(n) => Whole(disk[n])
  BY DEF WholeSets
<1>6. ~ Broken(name) => Whole(training.before)
  BY <1>1 DEF WholeSets
<1>7. ASSUME NEW n \in Names, ~ Broken(n)'
      PROVE  Whole(disk'[n])
  <2>1. CASE n # name  BY <1>1, <1>4, <1>5, <1>7, <2>1
  <2>2. CASE n = name /\ outcome = "published"
    <3>1. 4 \in Parts  BY DEF Parts
    <3> QED BY <1>1, <2>2, <3>1 DEF Whole
  <2>3. CASE n = name /\ outcome \in {"failed", "rolled_back"}
    <3>1. ~ Broken(name)  BY <1>4, <1>7, <2>3
    <3> QED BY <1>1, <1>6, <2>3, <3>1
  <2>4. CASE n = name /\ outcome \in {"incomplete", "crashed"}
    <3>1. ~ log[last].overwrite
      <4> SUFFICES ASSUME log[last].overwrite  PROVE Broken(n)'
        BY <1>7
      <4>1. ~ \E j \in last + 1 .. last : TRUE  BY <1>2
      <4> QED BY <1>2, <2>4, <4>1 DEF Broken
    <3>2. disk'[n][4] = 0  BY <1>1, <2>4, <3>1
    <3> QED BY <3>2 DEF Whole
  <2> QED BY <1>1, <2>1, <2>2, <2>3, <2>4 DEF Outcomes
<1> QED BY <1>2, <1>7 DEF WholeSets, Whole, Broken

LEMMA EndsGivesRemembered ==
  ASSUME Types, Logged, Phases, Remembered, NEW outcome, Ends(outcome)
  PROVE  Remembered'
<1> DEFINE name == training.name
           last == Len(log)
<1>1. /\ training # Idle /\ outcome \in Outcomes \ {"running"}
      /\ \A n \in Names : n # name => disk'[n] = disk[n]
      /\ outcome = "published" => \A k \in Parts : disk'[name][k] = last
      /\ outcome \in {"failed", "rolled_back"} => disk'[name] = training.before
  BY DEF Ends, OnlyItsFiles
<1>2. /\ training' = Idle /\ Len(log') = last /\ DOMAIN log' = DOMAIN log
      /\ DOMAIN log = 1 .. last /\ last \in Nat /\ last \in DOMAIN log
      /\ \A i \in DOMAIN log : i # last => log'[i] = log[i]
      /\ log[last].name = name /\ log'[last].name = name
      /\ log'[last].overwrite = log[last].overwrite
      /\ log'[last].outcome = outcome
  BY <1>1, EndsFacts DEF Ends
<1>3. 4 \in Parts  BY DEF Parts
<1> DEFINE Replaced(i, L) == \E k \in i + 1 .. last :
              /\ L[k].name = L[i].name /\ L[k].overwrite
              /\ L[k].outcome \in {"published", "incomplete", "crashed"}
<1> SUFFICES ASSUME NEW i \in DOMAIN log, log'[i].outcome = "published"
             PROVE  disk'[log'[i].name][4] = i \/ Replaced(i, log')
  BY <1>2 DEF Remembered
<1>4. CASE i = last
  BY <1>1, <1>2, <1>3, <1>4
<1>5. CASE i # last
  <2>1. log'[i] = log[i] /\ i \in Nat /\ i # 0 /\ i < last  BY <1>2, <1>5
  <2>2. log[i].name \in Names
    <3>1. log[i] \in LogEntries  BY DEF Types
    <3> QED BY <3>1 DEF LogEntries
  <2>3. CASE log[i].name # name /\ disk[log[i].name][4] = i
    BY <1>1, <2>1, <2>2, <2>3
  <2>4. CASE log[i].name = name /\ training.before[4] = i
    <3>1. log'[last].overwrite  BY <1>1, <1>2, <1>3, <2>1, <2>4 DEF Logged
    <3>2. last \in i + 1 .. last  BY <1>2, <2>1
    <3>3. CASE outcome \in {"failed", "rolled_back"}
      BY <1>1, <2>1, <2>4, <3>3
    <3>4. CASE outcome \in {"published", "incomplete", "crashed"}
      BY <1>2, <2>1, <2>4, <3>1, <3>2, <3>4
    <3> QED BY <1>1, <3>3, <3>4 DEF Outcomes
  <2>5. CASE Replaced(i, log)
    <3>1. PICK k \in i + 1 .. last :
              /\ log[k].name = log[i].name /\ log[k].overwrite
              /\ log[k].outcome \in {"published", "incomplete", "crashed"}
      BY <2>5
    <3>2. k \in DOMAIN log  BY <1>2
    <3>3. k # last  BY <1>1, <3>1, <3>2 DEF Logged
    <3> QED BY <1>2, <2>1, <3>1, <3>2, <3>3
  <2>6. CASE log[i].name = name /\ disk[log[i].name][4] = i
    <3>1. Found[4] = i  BY <2>6 DEF Found
    <3>2. training.before[4] = i  BY <1>1, <2>1, <3>1, ReportIsOld
    <3> QED BY <2>4, <2>6, <3>2
  <2>7. \/ disk[log[i].name][4] = i
        \/ training.name = log[i].name /\ training.before[4] = i
        \/ Replaced(i, log)
    BY <1>1, <2>1 DEF Remembered
  <2> QED BY <2>3, <2>4, <2>5, <2>6, <2>7
<1> QED BY <1>4, <1>5

LEMMA EndsGivesHoldout ==
  ASSUME Types, Logged, HoldoutRemembered, NEW outcome, Ends(outcome)
  PROVE  HoldoutRemembered'
<1> DEFINE last == Len(log)
<1>1. training # Idle /\ outcome \in Outcomes \ {"running"} /\ EndsAs(outcome)
  BY DEF Ends
<1>2. /\ DOMAIN log' = DOMAIN log /\ DOMAIN log = 1 .. last /\ last \in Nat
      /\ last \in DOMAIN log
      /\ \A i \in DOMAIN log : i # last => log'[i] = log[i]
      /\ log'[last].fingerprint = log[last].fingerprint
      /\ log'[last].reused = log[last].reused
  BY <1>1, EndsFacts
<1> SUFFICES ASSUME NEW i \in DOMAIN log, NEW j \in DOMAIN log, i < j,
                    log'[i].fingerprint = log'[j].fingerprint,
                    log'[i].outcome = "published", ~ log'[j].reused
             PROVE  \E k \in i + 1 .. j - 1 :
                       /\ log'[k].name = log'[i].name /\ log'[k].overwrite
                       /\ log'[k].outcome \in {"published", "incomplete", "crashed"}
  BY <1>2 DEF HoldoutRemembered
<1>3. i # last /\ log'[i] = log[i]  BY <1>2
<1>4. log[j].fingerprint = log'[j].fingerprint /\ log[j].reused = log'[j].reused
  BY <1>2
<1>5. PICK k \in i + 1 .. j - 1 :
         /\ log[k].name = log[i].name /\ log[k].overwrite
         /\ log[k].outcome \in {"published", "incomplete", "crashed"}
  BY <1>3, <1>4 DEF HoldoutRemembered
<1>6. k \in DOMAIN log /\ k # last
  <2>1. i \in 1 .. last /\ j \in 1 .. last /\ last \in Nat  BY <1>2
  <2> HIDE DEF last
  <2>2. k \in 1 .. last /\ k # last  BY <2>1
  <2> QED BY <1>2, <2>2
<1> QED BY <1>2, <1>3, <1>5, <1>6

-----------------------------------------------------------------------------
(* The steps of a training *)

LEMMA IdlePhases ==
  ASSUME training' = Idle
  PROVE  Phases'
<1>1. training'.phase = "idle"  BY DEF Idle
<1> QED BY <1>1 DEF Phases

\* What a study read or found is not touched by a step that keeps its files
\* readable.
LEMMA StudyIsKept ==
  ASSUME Studied, study' = study, program' = program,
         DOMAIN log \subseteq DOMAIN log',
         \A i \in DOMAIN log :
            /\ log'[i].held_out = log[i].held_out
            /\ log[i].outcome = "rolled_back" => log'[i].outcome = "rolled_back",
         \A n \in Names, o \in DOMAIN log :
            program = "l2" /\ ReadOK(n, o) => ReadOK(n, o)'
  PROVE  Studied'
<1>1. study.phase = "read" => StudyReadOK'
  BY DEF Studied, StudyReadOK, ReadOK
<1>2. study.phase = "accepted" => StudyAcceptedOK'
  BY DEF Studied, StudyAcceptedOK
<1> QED BY <1>1, <1>2 DEF Studied

\* A step that touches no file, of a training that ends or does not roll back.
LEMMA ReadOKWithoutFiles ==
  ASSUME NEW n \in Names, NEW o \in DOMAIN log, ReadOK(n, o),
         training # Idle, disk' = disk,
         training' = Idle \/ training.phase # "rolling_back",
         training' # Idle => training'.name = training.name,
         log[o].outcome = "rolled_back" => log'[o].outcome = "rolled_back"
  PROVE  ReadOK(n, o)'
<1>1. CASE disk[n][2] = o  BY <1>1 DEF ReadOK
<1>2. CASE log[o].outcome = "rolled_back"  BY <1>2 DEF ReadOK
<1>3. CASE /\ disk[n][2] = 0 /\ \E k \in Parts : disk[n][k] # 0
           /\ training # Idle /\ training.name = n =>
                  training.phase = "rolling_back" /\ o = Len(log)
  BY <1>3 DEF ReadOK
<1> QED BY <1>1, <1>2, <1>3 DEF ReadOK

\* What is rolled back stays so: only the last evaluation changes.
LEMMA LogIsKept ==
  ASSUME Types, Logged, training # Idle,
         \/ log' = log
         \/ \E outcome \in Outcomes \ {"running"} : EndsAs(outcome)
  PROVE  /\ DOMAIN log \subseteq DOMAIN log'
         /\ \A i \in DOMAIN log :
               /\ log'[i].held_out = log[i].held_out
               /\ log[i].outcome = "rolled_back" => log'[i].outcome = "rolled_back"
<1>1. CASE log' = log  BY <1>1
<1>2. ASSUME NEW outcome \in Outcomes \ {"running"}, EndsAs(outcome)
      PROVE  /\ DOMAIN log \subseteq DOMAIN log'
             /\ \A i \in DOMAIN log :
                   /\ log'[i].held_out = log[i].held_out
                   /\ log[i].outcome = "rolled_back" =>
                          log'[i].outcome = "rolled_back"
  <2>1. /\ DOMAIN log' = DOMAIN log
        /\ \A i \in DOMAIN log : i # Len(log) => log'[i] = log[i]
        /\ log'[Len(log)].held_out = log[Len(log)].held_out
        /\ Len(log) \in DOMAIN log
    BY <1>2, EndsFacts
  <2>2. log[Len(log)].outcome = "running"  BY <2>1 DEF Logged
  <2> QED BY <2>1, <2>2
<1> QED BY <1>1, <1>2

\* RollbackRestores, of one step.
Restored == \A i \in DOMAIN log :
    log[i].outcome = "running" /\ log'[i].outcome = "rolled_back" =>
        disk'[training.name] = training.before

LEMMA SameLogRestores ==
  ASSUME log' = log
  PROVE  Restored
BY DEF Restored

LEMMA EndsRestores ==
  ASSUME Types, Logged, NEW outcome, Ends(outcome)
  PROVE  Restored
<1>1. /\ DOMAIN log' = DOMAIN log
      /\ \A i \in DOMAIN log : i # Len(log) => log'[i] = log[i]
      /\ log'[Len(log)].outcome = outcome
  BY EndsFacts DEF Ends
<1> QED BY <1>1 DEF Restored, Ends

\* All the rest of the invariant, of a step that goes on and of one that ends.
LEMMA RestOfGoesOn ==
  ASSUME IInv, GoesOn, Types', Phases', Studied'
  PROVE  IInv' /\ Restored
<1>1. log' = log  BY DEF GoesOn
<1> QED BY <1>1, GoesOnFacts, SameLogRestores DEF IInv

LEMMA RestOfEnds ==
  ASSUME IInv, NEW outcome, Ends(outcome), Studied',
         market' = market, hidden' \subseteq DOMAIN log,
         failures' \in 0 .. MaxFailures
  PROVE  IInv' /\ Restored
<1>1. outcome \in Outcomes \ {"running"}  BY DEF Ends
<1>2. Types'
  <2>1. /\ log' \in Seq(LogEntries) /\ Len(log') = Len(log)
        /\ DOMAIN log' = DOMAIN log /\ training' = Idle
    BY <1>1, EndsFacts DEF Ends, IInv
  <2> QED BY <2>1 DEF Types, IInv, Ends, OnlyItsFiles
<1>3. Phases'
  <2>1. training' = Idle  BY DEF Ends, EndsAs
  <2> QED BY <2>1, IdlePhases
<1>4. Logged'  BY EndsGivesLogged DEF IInv
<1>5. WholeSets'  BY EndsGivesWholeSets DEF IInv
<1>6. Remembered'  BY EndsGivesRemembered DEF IInv
<1>7. HoldoutRemembered'  BY EndsGivesHoldout DEF IInv
<1>8. Restored  BY EndsRestores DEF IInv
<1> QED BY <1>2, <1>3, <1>4, <1>5, <1>6, <1>7, <1>8 DEF IInv

\* A step that touches no file keeps the rest of them.
LEMMA NoFiles ==
  ASSUME Types, training # Idle, disk' = disk
  PROVE  OnlyItsFiles
<1>1. training.name \in Names  BY ShapeFacts
<1> QED BY <1>1 DEF OnlyItsFiles, Found, Types

LEMMA StagesKeeps ==
  ASSUME IInv, Stages
  PROVE  IInv' /\ Restored
<1> DEFINE phase == IF training.overwrite THEN "backing_up" ELSE "committing"
           next == [phase |-> phase, name |-> training.name,
                    before |-> training.before, k |-> 1,
                    backups |-> <<>>, committed |-> <<>>]
<1>1. /\ training.phase = "evaluated" /\ training' = next
      /\ UNCHANGED <<program, market, disk, hidden, log, failures, study>>
  BY DEF Stages
<1>2. training # Idle /\ training \in Evaluated
  BY <1>1, ShapeFacts DEF IInv, Idle
<1>3. Types /\ Logged /\ Phases /\ EvaluatedOK
  BY <1>1 DEF IInv, Phases
<1>4. training.name \in Names /\ training.before \in Files /\ phase \in {"backing_up", "committing"}
  BY <1>2 DEF Evaluated
<1> HIDE DEF phase
<1>5. next \in Publishing /\ next # Idle
  <2>1. 1 \in Parts /\ <<>> \in Seq(Parts)  BY DEF Parts
  <2>2. next \in Publishing  BY <1>4, <2>1 DEF Publishing
  <2>3. next.phase = phase  OBVIOUS
  <2>4. next # Idle  BY <1>4, <2>3 DEF Idle
  <2> QED BY <2>2, <2>4
<1>6. Types'  BY <1>1, <1>3, <1>5 DEF Types
<1>7. /\ training'.phase = phase /\ training'.name = training.name
      /\ training'.before = training.before /\ training'.k = 1
      /\ training'.backups = <<>> /\ training'.committed = <<>>
  BY <1>1
<1> HIDE DEF next
<1>8. GoesOn
  BY <1>1, <1>2, <1>3, <1>5, <1>7, NoFiles DEF GoesOn
<1>9. \A a : ~ InRange(a, <<>>)  BY DEF InRange
<1>10. OneToOne(<<>>)  BY DEF OneToOne
<1>11. /\ Found' = training.before /\ log' = log
       /\ log[Len(log)].overwrite = training.overwrite
  BY <1>1, <1>3, <1>7 DEF EvaluatedOK, Found
<1>12. \A a \in Parts : ~ (a < 1) /\ a >= 1  BY DEF Parts
<1>13. Phases'
  <2>1. CASE phase = "backing_up"
    <3>1. training.overwrite  BY <2>1 DEF phase
    <3>2. BackingUpOK'
      BY <1>7, <1>9, <1>10, <1>11, <1>12, <3>1 DEF BackingUpOK
    <3> QED BY <1>7, <2>1, <3>2 DEF Phases
  <2>2. CASE phase = "committing"
    <3>1. ~ training.overwrite  BY <2>2 DEF phase
    <3>2. \A a \in Parts : training.before[a] = 0
      BY <1>2, <1>3, <1>11, <3>1 DEF Logged
    <3>3. CommittingOK'
      BY <1>7, <1>9, <1>10, <1>11, <1>12, <3>2 DEF CommittingOK
    <3> QED BY <1>7, <2>2, <3>3 DEF Phases
  <2> QED BY <1>4, <2>1, <2>2
<1>14. Studied'
  <2>1. ASSUME NEW n \in Names, NEW o \in DOMAIN log, ReadOK(n, o)
        PROVE  ReadOK(n, o)'
    BY <1>1, <1>2, <1>7, <2>1, ReadOKWithoutFiles
  <2> QED BY <1>1, <2>1, StudyIsKept DEF IInv
<1> QED BY <1>6, <1>8, <1>13, <1>14, RestOfGoesOn

\* A step that ends a training and touches no file.
LEMMA EndsWithoutFiles ==
  ASSUME IInv, NEW outcome \in Outcomes \ {"running", "published"},
         training # Idle, EndsAs(outcome),
         outcome \in {"failed", "rolled_back"} => Found = training.before,
         disk' = disk, market' = market, program' = program, study' = study,
         hidden' \subseteq DOMAIN log, failures' \in 0 .. MaxFailures
  PROVE  IInv' /\ Restored
<1>1. Types /\ Logged /\ Phases /\ Studied  BY DEF IInv
<1>2. OnlyItsFiles  BY <1>1, NoFiles
<1>3. \/ log[Len(log)].overwrite
      \/ disk'[training.name][4] = 0
  <2>1. 4 \in Parts  BY DEF Parts
  <2>2. ~ log[Len(log)].overwrite => training.before[4] = 0
    BY <1>1, <2>1 DEF Logged
  <2> QED BY <1>1, <2>2, ReportIsOld DEF Found
<1>4. Ends(outcome)  BY <1>2, <1>3 DEF Ends, Found
<1>5. training' = Idle  BY DEF EndsAs
<1>6. Studied'
  <2>1. /\ DOMAIN log \subseteq DOMAIN log'
        /\ \A i \in DOMAIN log :
              /\ log'[i].held_out = log[i].held_out
              /\ log[i].outcome = "rolled_back" => log'[i].outcome = "rolled_back"
    BY <1>1, LogIsKept
  <2>2. ASSUME NEW n \in Names, NEW o \in DOMAIN log, ReadOK(n, o)
        PROVE  ReadOK(n, o)'
    BY <1>5, <2>1, <2>2, ReadOKWithoutFiles
  <2> QED BY <1>1, <2>1, <2>2, StudyIsKept
<1> QED BY <1>4, <1>6, RestOfEnds

LEMMA StagingFailsKeeps ==
  ASSUME IInv, StagingFails
  PROVE  IInv' /\ Restored
<1>1. training.phase = "evaluated" /\ training # Idle
  BY DEF StagingFails, Idle
<1>2. Found = training.before  BY <1>1 DEF IInv, Phases, EvaluatedOK
<1>3. failures' \in 0 .. MaxFailures /\ hidden' \subseteq DOMAIN log
  BY PipelineAssumption DEF StagingFails, IInv, Types
<1> QED BY <1>1, <1>2, <1>3, EndsWithoutFiles DEF StagingFails, Outcomes

LEMMA DiesKeeps ==
  ASSUME IInv, Dies
  PROVE  IInv' /\ Restored
<1>1. Len(log) \in DOMAIN log
  BY DEF IInv, Types, Logged, Dies
<1>2. failures' \in 0 .. MaxFailures /\ hidden' \subseteq DOMAIN log
  BY <1>1, PipelineAssumption DEF Dies, IInv, Types
<1> QED BY <1>2, EndsWithoutFiles DEF Dies, Outcomes

\* One artifact of the name changes.
LEMMA OneFileChanges ==
  ASSUME Types, training # Idle, NEW k \in Parts, NEW id \in Nat,
         disk' = [disk EXCEPT ![training.name][k] = id]
  PROVE  /\ disk' \in [Names -> Files]
         /\ \A n \in Names : n # training.name => disk'[n] = disk[n]
         /\ disk'[training.name][k] = id
         /\ \A a \in Parts : a # k => disk'[training.name][a] = Found[a]
<1>1. training.name \in Names /\ disk \in [Names -> Files] /\ Found \in Files
  BY ShapeFacts DEF Types
<1> DEFINE f == [Found EXCEPT ![k] = id]
<1>2. disk' = [disk EXCEPT ![training.name] = f]  BY DEF Found
<1>3. f \in Files /\ f[k] = id /\ \A a \in Parts : a # k => f[a] = Found[a]
  BY <1>1 DEF Files
<1> HIDE DEF f
<1> QED BY <1>1, <1>2, <1>3

LEMMA AppendedIsInRange ==
  ASSUME NEW S, NEW s \in Seq(S), NEW x \in S
  PROVE  /\ Append(s, x) \in Seq(S)
         /\ \A y : InRange(y, Append(s, x)) <=> InRange(y, s) \/ y = x
         /\ OneToOne(s) /\ ~ InRange(x, s) => OneToOne(Append(s, x))
<1> DEFINE t == Append(s, x)
<1>1. /\ t \in Seq(S) /\ Len(s) \in Nat /\ DOMAIN s = 1 .. Len(s)
      /\ DOMAIN t = 1 .. Len(s) + 1 /\ t[Len(s) + 1] = x
      /\ \A i \in DOMAIN s : t[i] = s[i]
  OBVIOUS
<1> HIDE DEF t
<1>2. DOMAIN t = DOMAIN s \cup {Len(s) + 1} /\ Len(s) + 1 \notin DOMAIN s
  BY <1>1
<1>3. \A y : InRange(y, t) <=> InRange(y, s) \/ y = x
  BY <1>1, <1>2 DEF InRange
<1>4. OneToOne(s) /\ ~ InRange(x, s) => OneToOne(t)
  BY <1>1, <1>2 DEF InRange, OneToOne
<1> QED BY <1>1, <1>3, <1>4 DEF t

LEMMA BacksUpKeeps ==
  ASSUME IInv, BacksUp
  PROVE  IInv' /\ Restored
<1> DEFINE name == training.name
           k == training.k
           backups == IF Found[k] = 0 THEN training.backups
                      ELSE Append(training.backups, k)
           next == [phase |-> IF k = 4 THEN "committing" ELSE "backing_up",
                    name |-> name, before |-> training.before,
                    k |-> IF k = 4 THEN 1 ELSE k + 1,
                    backups |-> backups, committed |-> training.committed]
<1>1. training.phase = "backing_up"  BY DEF BacksUp
<1>2. Types /\ Logged /\ Phases /\ Studied /\ BackingUpOK
  BY <1>1 DEF IInv, Phases
<1>3. training \in Publishing /\ training # Idle
  BY <1>1, <1>2, ShapeFacts DEF Idle
<1>4. /\ name \in Names /\ k \in Parts /\ training.before \in Files
      /\ training.backups \in Seq(Parts) /\ training.committed \in Seq(Parts)
      /\ training = [phase |-> training.phase, name |-> name,
                     before |-> training.before, k |-> k,
                     backups |-> training.backups,
                     committed |-> training.committed]
  BY <1>3 DEF Publishing
<1>5. CommitOrder[k] = k /\ Len(Artifacts) = 4  BY <1>4, ArtifactFacts
<1>6. disk' = [disk EXCEPT ![name][k] = 0]
  BY <1>5 DEF BacksUp, Holds, NoTraining
<1>7. training' = next
  <2>1. training' = [training EXCEPT !.backups = backups,
                         !.phase = IF k = 4 THEN "committing" ELSE @,
                         !.k = IF k = 4 THEN 1 ELSE @ + 1]
    BY <1>5 DEF BacksUp, NoTraining, Found
  <2> HIDE DEF backups
  <2> QED BY <1>1, <1>3, <2>1 DEF Publishing
<1>8. UNCHANGED <<program, market, hidden, log, failures, study>>
  BY DEF BacksUp
<1>9. /\ disk' \in [Names -> Files]
      /\ \A n \in Names : n # name => disk'[n] = disk[n]
      /\ disk'[name][k] = 0
      /\ \A a \in Parts : a # k => disk'[name][a] = Found[a]
  <2>1. 0 \in Nat  OBVIOUS
  <2> QED BY <1>2, <1>3, <1>4, <1>6, <2>1, OneFileChanges
<1> HIDE DEF k, name, next
<1>10. \A a \in Parts : a \in Nat /\ a <= 4 /\ a >= 1  BY DEF Parts
<1>11. \A a \in Parts : a < k + 1 <=> (a < k \/ a = k)  BY <1>4, <1>10
<1>12. /\ \A a \in Parts : a < k => Found[a] = 0
       /\ \A a \in Parts : a >= k => Found[a] = training.before[a]
       /\ \A a \in Parts : InRange(a, training.backups) <=>
                               a < k /\ training.before[a] # 0
       /\ OneToOne(training.backups) /\ training.committed = <<>>
       /\ log[Len(log)].overwrite
  BY <1>2 DEF BackingUpOK, k
<1>13. Found[k] = training.before[k] /\ ~ InRange(k, training.backups)
  BY <1>4, <1>10, <1>12
<1>14. /\ backups \in Seq(Parts) /\ OneToOne(backups)
       /\ \A a \in Parts : InRange(a, backups) <=>
                               a < k + 1 /\ training.before[a] # 0
  <2>1. CASE Found[k] = 0
    BY <1>4, <1>11, <1>12, <1>13, <2>1
  <2>2. CASE Found[k] # 0
    <3>1. backups = Append(training.backups, k)  BY <2>2
    <3> HIDE DEF backups
    <3>2. /\ backups \in Seq(Parts) /\ OneToOne(backups)
          /\ \A a : InRange(a, backups) <=> InRange(a, training.backups) \/ a = k
      BY <1>4, <1>12, <1>13, <3>1, AppendedIsInRange
    <3> QED BY <1>4, <1>11, <1>12, <1>13, <2>2, <3>2
  <2> QED BY <2>1, <2>2
<1>15. \A a \in Parts : a < k + 1 => disk'[name][a] = 0
  BY <1>9, <1>11, <1>12
<1>16. \A a \in Parts : a >= k + 1 => disk'[name][a] = training.before[a]
  <2>1. \A a \in Parts : a >= k + 1 => a >= k /\ a # k  BY <1>4, <1>10
  <2> QED BY <1>9, <1>12, <2>1
<1> HIDE DEF backups
<1>17. /\ training'.phase = IF k = 4 THEN "committing" ELSE "backing_up"
       /\ training'.name = name /\ training'.before = training.before
       /\ training'.k = IF k = 4 THEN 1 ELSE k + 1
       /\ training'.backups = backups /\ training'.committed = <<>>
  BY <1>7, <1>12 DEF next
<1>18. training' \in Publishing /\ training' # Idle
  <2>1. (IF k = 4 THEN 1 ELSE k + 1) \in Parts  BY <1>4 DEF Parts
  <2>2. (IF k = 4 THEN "committing" ELSE "backing_up")
            \in {"backing_up", "committing"}
    OBVIOUS
  <2>3. training' \in Publishing
    BY <1>4, <1>7, <1>14, <2>1, <2>2 DEF Publishing, next
  <2> QED BY <1>17, <2>3 DEF Idle
<1>19. Types'  BY <1>2, <1>8, <1>9, <1>18 DEF Types
<1>20. GoesOn
  <2>1. \A a \in Parts : disk'[name][a] \in
                            {0, Len(log), Found[a], training.before[a]}
    BY <1>9
  <2> QED BY <1>3, <1>8, <1>9, <1>17, <1>18, <2>1 DEF GoesOn, OnlyItsFiles, name
<1>21. Found' = disk'[name]  BY <1>17 DEF Found
<1>22. Phases'
  <2>1. CASE k = 4
    <3>1. \A a \in Parts : a < k + 1  BY <1>10, <2>1
    <3>2. \A a \in Parts : ~ (a < 1) /\ a >= 1  BY <1>10
    <3>3. OneToOne(<<>>) /\ \A a : ~ InRange(a, <<>>)  BY DEF OneToOne, InRange
    <3>4. CommittingOK'
      BY <1>14, <1>15, <1>17, <1>21, <2>1, <3>1, <3>2, <3>3 DEF CommittingOK
    <3> QED BY <1>17, <2>1, <3>4 DEF Phases
  <2>2. CASE k # 4
    <3>1. BackingUpOK'
      BY <1>8, <1>12, <1>14, <1>15, <1>16, <1>17, <1>21, <2>2 DEF BackingUpOK
    <3> QED BY <1>17, <2>2, <3>1 DEF Phases
  <2> QED BY <2>1, <2>2
<1>23. Studied'
  <2>1. program # "l2"
    BY <1>2, <1>3, <1>12 DEF Logged, Types
  <2> QED BY <1>2, <1>8, <2>1, StudyIsKept
<1> QED BY <1>19, <1>20, <1>22, <1>23, RestOfGoesOn

LEMMA CommitsKeeps ==
  ASSUME IInv, Commits
  PROVE  IInv' /\ Restored
<1> DEFINE name == training.name
           k == training.k
           last == Len(log)
<1>1. training.phase = "committing"  BY DEF Commits
<1>2. Types /\ Logged /\ Phases /\ Studied /\ CommittingOK
  BY <1>1 DEF IInv, Phases
<1>3. training \in Publishing /\ training # Idle
  BY <1>1, <1>2, ShapeFacts DEF Idle
<1>4. /\ name \in Names /\ k \in Parts /\ training.before \in Files
      /\ training.backups \in Seq(Parts) /\ training.committed \in Seq(Parts)
      /\ training = [phase |-> training.phase, name |-> name,
                     before |-> training.before, k |-> k,
                     backups |-> training.backups,
                     committed |-> training.committed]
  BY <1>3 DEF Publishing
<1>5. CommitOrder[k] = k /\ Len(Artifacts) = 4 /\ last \in Nat
  BY <1>2, <1>4, ArtifactFacts DEF Types
<1>6. disk' = [disk EXCEPT ![name][k] = last]
  BY <1>5 DEF Commits, Holds
<1>7. UNCHANGED <<program, market, hidden, failures, study>>
  BY DEF Commits
<1>8. /\ disk' \in [Names -> Files]
      /\ \A n \in Names : n # name => disk'[n] = disk[n]
      /\ disk'[name][k] = last
      /\ \A a \in Parts : a # k => disk'[name][a] = Found[a]
  BY <1>2, <1>3, <1>4, <1>5, <1>6, OneFileChanges
<1>9. OnlyItsFiles
  BY <1>8 DEF OnlyItsFiles
<1>10. \A a \in Parts : a \in Nat /\ a <= 4 /\ a >= 1  BY DEF Parts
<1>11. /\ \A a \in Parts : a < k => Found[a] = last
       /\ \A a \in Parts : a >= k => Found[a] = 0
       /\ \A a \in Parts : InRange(a, training.backups) <=> training.before[a] # 0
       /\ \A a \in Parts : InRange(a, training.committed) <=> a < k
       /\ OneToOne(training.backups) /\ OneToOne(training.committed)
  BY <1>2 DEF CommittingOK
<1>12. ASSUME NEW n \in Names, NEW o \in DOMAIN log, ReadOK(n, o),
              log[o].outcome = "rolled_back" => log'[o].outcome = "rolled_back",
              training' # Idle => training'.name = name
       PROVE  ReadOK(n, o)'
  <2>1. CASE disk[n][2] = o
    <3>1. o # 0 /\ 2 \in Parts  BY <1>2 DEF Types, Parts
    <3>2. disk'[n][2] = o
      <4>1. CASE n # name  BY <1>8, <2>1, <4>1
      <4>2. CASE n = name
        <5>1. Found[2] # 0  BY <2>1, <3>1, <4>2 DEF Found
        <5>2. ~ (2 >= k)  BY <1>11, <3>1, <5>1
        <5>3. 2 # k  BY <1>4, <1>10, <5>2
        <5> QED BY <1>8, <2>1, <3>1, <4>2, <5>3 DEF Found
      <4> QED BY <4>1, <4>2
    <3> QED BY <3>2 DEF ReadOK
  <2>2. CASE log[o].outcome = "rolled_back"  BY <1>12, <2>2 DEF ReadOK
  <2>3. CASE /\ disk[n][2] = 0 /\ \E a \in Parts : disk[n][a] # 0
             /\ training # Idle /\ training.name = n =>
                    training.phase = "rolling_back" /\ o = Len(log)
    <3>1. n # name  BY <1>1, <1>3, <2>3
    <3> QED BY <1>8, <1>12, <2>3, <3>1 DEF ReadOK
  <2> QED BY <1>12, <2>1, <2>2, <2>3 DEF ReadOK
<1>13. CASE k < 4
  <2> DEFINE committed == Append(training.committed, k)
             next == [phase |-> "committing", name |-> name,
                      before |-> training.before, k |-> k + 1,
                      backups |-> training.backups, committed |-> committed]
  <2>1. log' = log  BY <1>5, <1>13 DEF Commits
  <2>2. training' = next
    <3>1. training' = [training EXCEPT !.k = @ + 1, !.committed = committed]
      BY <1>5, <1>13 DEF Commits
    <3> HIDE DEF committed
    <3> QED BY <1>1, <1>3, <3>1 DEF Publishing
  <2>3. /\ committed \in Seq(Parts) /\ OneToOne(committed)
        /\ \A a : InRange(a, committed) <=> InRange(a, training.committed) \/ a = k
    <3>1. ~ (k < k)  BY <1>4, <1>10
    <3> QED BY <1>4, <1>11, <3>1, AppendedIsInRange
  <2> HIDE DEF committed, k, name
  <2>4. k + 1 \in Parts /\ \A a \in Parts : a < k + 1 <=> (a < k \/ a = k)
    BY <1>4, <1>10, <1>13 DEF Parts
  <2>5. training' \in Publishing  BY <1>4, <2>2, <2>3, <2>4 DEF Publishing
  <2>6. /\ training'.phase = "committing" /\ training'.name = name
        /\ training'.before = training.before /\ training'.k = k + 1
        /\ training'.backups = training.backups
        /\ training'.committed = committed
    BY <2>2
  <2>7. training' # Idle  BY <2>6 DEF Idle
  <2> HIDE DEF next
  <2>8. Types'  BY <1>2, <1>7, <1>8, <2>1, <2>5 DEF Types
  <2>9. GoesOn  BY <1>3, <1>7, <1>9, <2>1, <2>6, <2>7 DEF GoesOn, name
  <2>10. CommittingOK'
    <3>1. Found' = disk'[name] /\ Len(log') = last  BY <2>1, <2>6 DEF Found
    <3>2. \A a \in Parts : a < k + 1 => disk'[name][a] = last
      BY <1>8, <1>11, <2>4
    <3>3. \A a \in Parts : a >= k + 1 => disk'[name][a] = 0
      <4>1. \A a \in Parts : a >= k + 1 => a >= k /\ a # k  BY <1>4, <1>10
      <4> QED BY <1>8, <1>11, <4>1
    <3> QED BY <1>11, <2>3, <2>4, <2>6, <3>1, <3>2, <3>3 DEF CommittingOK
  <2>11. Phases'  BY <2>6, <2>10 DEF Phases
  <2>12. Studied'
    <3>1. \A n \in Names, o \in DOMAIN log : ReadOK(n, o) => ReadOK(n, o)'
      BY <1>12, <2>1, <2>6
    <3> QED BY <1>2, <1>7, <2>1, <3>1, StudyIsKept
  <2> QED BY <2>8, <2>9, <2>11, <2>12, RestOfGoesOn
<1>14. CASE ~ (k < 4)
  <2>1. k = 4  BY <1>4, <1>10, <1>14
  <2>2. EndsAs("published") /\ training' = Idle
    BY <1>5, <1>14 DEF Commits, EndsAs
  <2>3. \A a \in Parts : disk'[name][a] = last
    <3>1. \A a \in Parts : a # k => a < k  BY <1>10, <2>1
    <3> QED BY <1>8, <1>11, <3>1
  <2>4. Ends("published")
    BY <1>3, <1>7, <1>9, <2>2, <2>3 DEF Ends, Outcomes
  <2>5. Studied'
    <3>1. /\ DOMAIN log \subseteq DOMAIN log'
          /\ \A i \in DOMAIN log :
                /\ log'[i].held_out = log[i].held_out
                /\ log[i].outcome = "rolled_back" =>
                       log'[i].outcome = "rolled_back"
      BY <1>2, <1>3, <2>2, LogIsKept DEF Outcomes
    <3>2. \A n \in Names, o \in DOMAIN log : ReadOK(n, o) => ReadOK(n, o)'
      BY <1>12, <2>2, <3>1
    <3> QED BY <1>2, <1>7, <3>1, <3>2, StudyIsKept
  <2>6. /\ market' = market /\ hidden' \subseteq DOMAIN log
        /\ failures' \in 0 .. MaxFailures
    BY <1>2, <1>7 DEF Types
  <2> QED BY <2>4, <2>5, <2>6, RestOfEnds
<1> QED BY <1>13, <1>14

\* The steps that undo a sequence of operations: one for each, the last first.
LEMMA UndoFacts ==
  ASSUME NEW op \in {"remove", "restore"}, NEW s \in Seq(Parts), OneToOne(s)
  PROVE  LET u == Undo(op, s)
         IN /\ u \in Seq(UndoSteps) /\ OneToOne(u) /\ Len(u) = Len(s)
            /\ \A i \in DOMAIN u : u[i][1] = op
            /\ \A a : InRange(<<op, a>>, u) <=> InRange(a, s)
<1> DEFINE n == Len(s)
           pairs == [i \in DOMAIN s |-> <<op, s[i]>>]
           u == Undo(op, s)
<1>1. n \in Nat /\ DOMAIN s = 1 .. n /\ \A i \in 1 .. n : s[i] \in Parts
  OBVIOUS
<1>2. Len(pairs) = n  BY <1>1
<1> HIDE DEF n
<1>3. \A i \in 1 .. n : n - i + 1 \in 1 .. n /\ n - (n - i + 1) + 1 = i
  BY <1>1
<1>4. u = [i \in 1 .. n |-> <<op, s[n - i + 1]>>]
  <2>1. u = [i \in 1 .. n |-> pairs[n - i + 1]]
    BY <1>2 DEF Undo, Reverse
  <2>2. \A i \in 1 .. n : pairs[n - i + 1] = <<op, s[n - i + 1]>>
    BY <1>1, <1>3
  <2> HIDE DEF pairs
  <2> QED BY <2>1, <2>2
<1> HIDE DEF u
<1>5. u \in Seq(UndoSteps) /\ Len(u) = n /\ DOMAIN u = 1 .. n
  <2>1. \A i \in 1 .. n : <<op, s[n - i + 1]>> \in UndoSteps
    BY <1>1, <1>3 DEF UndoSteps
  <2>2. u \in [1 .. n -> UndoSteps]  BY <1>4, <2>1
  <2> QED BY <1>1, <2>2
<1>6. \A i \in DOMAIN u : u[i] = <<op, s[n - i + 1]>>  BY <1>4, <1>5
<1>7. OneToOne(u)
  <2> SUFFICES ASSUME NEW i \in 1 .. n, NEW j \in 1 .. n, u[i] = u[j]
               PROVE  i = j
    BY <1>5 DEF OneToOne
  <2>0. u[i] = u[j]  OBVIOUS
  <2>1. s[n - i + 1] = s[n - j + 1]
    <3> DEFINE x == s[n - i + 1]
               y == s[n - j + 1]
    <3>1. u[i] = <<op, x>> /\ u[j] = <<op, y>>  BY <1>5, <1>6
    <3> HIDE DEF x, y
    <3>2. <<op, x>>[2] = x /\ <<op, y>>[2] = y  OBVIOUS
    <3>3. x = y  BY <2>0, <3>1, <3>2
    <3> QED BY <3>3 DEF x, y
  <2>2. n - i + 1 = n - j + 1  BY <1>1, <1>3, <2>1 DEF OneToOne
  <2> QED BY <1>1, <2>2
<1>8. ASSUME NEW a  PROVE InRange(<<op, a>>, u) <=> InRange(a, s)
  <2>1. ASSUME NEW i \in DOMAIN u, u[i] = <<op, a>>  PROVE InRange(a, s)
    <3>1. s[n - i + 1] = a /\ n - i + 1 \in DOMAIN s
      BY <1>1, <1>3, <1>5, <1>6, <2>1
    <3> QED BY <3>1 DEF InRange
  <2>2. ASSUME NEW i \in DOMAIN s, s[i] = a  PROVE InRange(<<op, a>>, u)
    <3>1. n - i + 1 \in DOMAIN u /\ u[n - i + 1] = <<op, s[n - (n - i + 1) + 1]>>
      BY <1>1, <1>3, <1>5, <1>6
    <3>2. n - (n - i + 1) + 1 = i  BY <1>1, <1>3
    <3> QED BY <2>2, <3>1, <3>2 DEF InRange
  <2> QED BY <2>1, <2>2 DEF InRange
<1>9. \A i \in DOMAIN u : u[i][1] = op  BY <1>6
<1> QED BY <1>5, <1>7, <1>8, <1>9 DEF u, n

LEMMA ConcatenationFacts ==
  ASSUME NEW S, NEW s \in Seq(S), NEW t \in Seq(S), OneToOne(s), OneToOne(t),
         \A x : ~ (InRange(x, s) /\ InRange(x, t))
  PROVE  LET u == s \o t
         IN /\ u \in Seq(S) /\ OneToOne(u) /\ Len(u) = Len(s) + Len(t)
            /\ \A x : InRange(x, u) <=> InRange(x, s) \/ InRange(x, t)
            /\ \A i \in DOMAIN u :
                  \/ i <= Len(s) /\ i \in DOMAIN s /\ u[i] = s[i]
                  \/ i > Len(s) /\ i - Len(s) \in DOMAIN t /\ u[i] = t[i - Len(s)]
<1> DEFINE u == s \o t
           m == Len(s)
           n == Len(t)
<1>1. /\ m \in Nat /\ n \in Nat /\ DOMAIN s = 1 .. m /\ DOMAIN t = 1 .. n
      /\ u \in Seq(S) /\ Len(u) = m + n /\ DOMAIN u = 1 .. m + n
  OBVIOUS
<1>2. \A i \in 1 .. m + n : u[i] = IF i <= m THEN s[i] ELSE t[i - m]
  OBVIOUS
<1> HIDE DEF u, m, n
<1>3. ASSUME NEW i \in DOMAIN u
      PROVE  \/ i <= m /\ i \in DOMAIN s /\ u[i] = s[i]
             \/ i > m /\ i - m \in DOMAIN t /\ u[i] = t[i - m]
  <2>1. CASE i <= m
    BY <1>1, <1>2, <2>1
  <2>2. CASE ~ (i <= m)
    <3>1. i > m /\ i - m \in DOMAIN t  BY <1>1, <2>2
    <3> QED BY <1>1, <1>2, <2>2, <3>1
  <2> QED BY <2>1, <2>2
<1>4. \A i \in DOMAIN s : i \in DOMAIN u /\ u[i] = s[i]
  <2> TAKE i \in DOMAIN s
  <2>1. i \in DOMAIN u /\ i <= m  BY <1>1
  <2> QED BY <1>1, <1>2, <2>1
<1>5. \A i \in DOMAIN t : i + m \in DOMAIN u /\ u[i + m] = t[i]
  <2> TAKE i \in DOMAIN t
  <2>1. i + m \in DOMAIN u /\ ~ (i + m <= m) /\ i + m - m = i  BY <1>1
  <2> QED BY <1>1, <1>2, <2>1
<1>6. \A x : InRange(x, u) <=> InRange(x, s) \/ InRange(x, t)
  BY <1>3, <1>4, <1>5 DEF InRange
<1>7. ASSUME NEW i \in DOMAIN u, NEW j \in DOMAIN u, u[i] = u[j]
      PROVE  i = j
  <2>1. CASE i <= m /\ j <= m
    <3>1. /\ i \in DOMAIN s /\ u[i] = s[i] /\ j \in DOMAIN s /\ u[j] = s[j]
      BY <1>1, <1>3, <2>1
    <3> QED BY <1>7, <3>1 DEF OneToOne
  <2>2. CASE i > m /\ j > m
    <3>1. /\ i - m \in DOMAIN t /\ u[i] = t[i - m]
          /\ j - m \in DOMAIN t /\ u[j] = t[j - m]
      BY <1>1, <1>3, <2>2
    <3>2. i - m = j - m  BY <1>7, <3>1 DEF OneToOne
    <3> QED BY <1>1, <3>2
  <2>3. CASE i <= m /\ j > m
    <3>1. i \in DOMAIN s /\ u[i] = s[i] /\ j - m \in DOMAIN t /\ u[j] = t[j - m]
      BY <1>1, <1>3, <2>3
    <3> QED BY <1>7, <3>1 DEF InRange
  <2>4. CASE i > m /\ j <= m
    <3>1. j \in DOMAIN s /\ u[j] = s[j] /\ i - m \in DOMAIN t /\ u[i] = t[i - m]
      BY <1>1, <1>3, <2>4
    <3> QED BY <1>7, <3>1 DEF InRange
  <2>5. i \in Nat /\ j \in Nat /\ m \in Nat  BY <1>1
  <2> QED BY <2>1, <2>2, <2>3, <2>4, <2>5
<1> QED BY <1>1, <1>3, <1>6, <1>7 DEF OneToOne, u, m, n

\* What a rollback is to do, after what was committed and backed up.
LEMMA RollbackFacts ==
  ASSUME training.committed \in Seq(Parts), training.backups \in Seq(Parts),
         OneToOne(training.committed), OneToOne(training.backups)
  PROVE  /\ Rollback \in Seq(UndoSteps) /\ OneToOne(Rollback)
         /\ \A a : InRange(<<"remove", a>>, Rollback) <=>
                      InRange(a, training.committed)
         /\ \A a : InRange(<<"restore", a>>, Rollback) <=>
                      InRange(a, training.backups)
         /\ \A i, j \in DOMAIN Rollback :
               i < j /\ Rollback[j][1] = "remove" => Rollback[i][1] = "remove"
         /\ Rollback = <<>> => \A x : ~ InRange(x, Rollback)
<1> DEFINE s == Undo("remove", training.committed)
           t == Undo("restore", training.backups)
           u == Rollback
<1>1. /\ s \in Seq(UndoSteps) /\ OneToOne(s)
      /\ \A i \in DOMAIN s : s[i][1] = "remove"
      /\ \A a : InRange(<<"remove", a>>, s) <=> InRange(a, training.committed)
  BY UndoFacts
<1>2. /\ t \in Seq(UndoSteps) /\ OneToOne(t)
      /\ \A i \in DOMAIN t : t[i][1] = "restore"
      /\ \A a : InRange(<<"restore", a>>, t) <=> InRange(a, training.backups)
  BY UndoFacts
<1>3. u = s \o t  BY DEF Rollback
<1> HIDE DEF s, t, u
<1>4. \A x : ~ (InRange(x, s) /\ InRange(x, t))
  BY <1>1, <1>2 DEF InRange
<1>5. /\ u \in Seq(UndoSteps) /\ OneToOne(u)
      /\ \A x : InRange(x, u) <=> InRange(x, s) \/ InRange(x, t)
      /\ \A i \in DOMAIN u :
            \/ i <= Len(s) /\ i \in DOMAIN s /\ u[i] = s[i]
            \/ i > Len(s) /\ i - Len(s) \in DOMAIN t /\ u[i] = t[i - Len(s)]
  BY <1>1, <1>2, <1>3, <1>4, ConcatenationFacts
<1>6. \A a : ~ InRange(<<"remove", a>>, t) /\ ~ InRange(<<"restore", a>>, s)
  <2> TAKE a
  <2>1. <<"remove", a>>[1] = "remove" /\ <<"restore", a>>[1] = "restore"
    OBVIOUS
  <2> QED BY <1>1, <1>2, <2>1 DEF InRange
<1>7. ASSUME NEW i \in DOMAIN u, NEW j \in DOMAIN u, i < j, u[j][1] = "remove"
      PROVE  u[i][1] = "remove"
  <2>1. j <= Len(s)  BY <1>2, <1>5, <1>7
  <2>2. i \in Nat /\ j \in Nat /\ Len(s) \in Nat  BY <1>1, <1>5
  <2>3. ~ (i > Len(s))  BY <1>7, <2>1, <2>2
  <2> QED BY <1>1, <1>5, <2>3
<1>8. ASSUME u = <<>>  PROVE \A x : ~ InRange(x, u)
  BY <1>8 DEF InRange
<1> QED BY <1>1, <1>2, <1>5, <1>6, <1>7, <1>8 DEF u

LEMMA PublicationFailsKeeps ==
  ASSUME IInv, PublicationFails
  PROVE  IInv' /\ Restored
<1> DEFINE name == training.name
           last == Len(log)
           u == Rollback
<1>1. /\ training.phase \in {"backing_up", "committing"}
      /\ UNCHANGED <<program, market, disk, hidden, study>>
  BY DEF PublicationFails
<1>2. Types /\ Logged /\ Phases /\ Studied
  BY DEF IInv
<1>3. training \in Publishing /\ training # Idle
  BY <1>1, <1>2, ShapeFacts DEF Idle
<1>4. /\ name \in Names /\ training.k \in Parts /\ training.before \in Files
      /\ training.backups \in Seq(Parts) /\ training.committed \in Seq(Parts)
  BY <1>3 DEF Publishing
<1>5. OneToOne(training.backups) /\ OneToOne(training.committed)
  BY <1>1, <1>2 DEF Phases, BackingUpOK, CommittingOK, OneToOne
<1>6. /\ u \in Seq(UndoSteps) /\ OneToOne(u)
      /\ \A a : InRange(<<"remove", a>>, u) <=> InRange(a, training.committed)
      /\ \A a : InRange(<<"restore", a>>, u) <=> InRange(a, training.backups)
      /\ \A i, j \in DOMAIN u :
            i < j /\ u[j][1] = "remove" => u[i][1] = "remove"
      /\ u = <<>> => \A x : ~ InRange(x, u)
  BY <1>4, <1>5, RollbackFacts
<1> DEFINE removes(a) == InRange(<<"remove", a>>, u)
           restores(a) == InRange(<<"restore", a>>, u)
\* where every artifact stands when the rollback begins
<1>7. ASSUME NEW a \in Parts
      PROVE  /\ removes(a) => Found[a] = last
             /\ restores(a) => training.before[a] # 0
             /\ \/ removes(a) /\ (training.before[a] = 0 \/ restores(a))
                \/ restores(a) /\ Found[a] = 0
                \/ Found[a] = training.before[a]
  <2>1. CASE training.phase = "backing_up"
    <3>1. BackingUpOK  BY <1>2, <2>1 DEF Phases
    <3>2. ~ removes(a)  BY <1>6, <3>1 DEF BackingUpOK, InRange
    <3>3. restores(a) <=> a < training.k /\ training.before[a] # 0
      BY <1>6, <3>1 DEF BackingUpOK
    <3>4. a < training.k \/ a >= training.k  BY <1>4 DEF Parts
    <3> HIDE DEF removes, restores
    <3> QED BY <3>1, <3>2, <3>3, <3>4 DEF BackingUpOK
  <2>2. CASE training.phase = "committing"
    <3>1. CommittingOK  BY <1>2, <2>2 DEF Phases
    <3>2. removes(a) <=> a < training.k  BY <1>6, <3>1 DEF CommittingOK
    <3>3. restores(a) <=> training.before[a] # 0
      BY <1>6, <3>1 DEF CommittingOK
    <3>4. a < training.k \/ a >= training.k  BY <1>4 DEF Parts
    <3> HIDE DEF removes, restores
    <3> QED BY <3>1, <3>2, <3>3, <3>4 DEF CommittingOK
  <2> QED BY <1>1, <2>1, <2>2
<1>8. \A a \in Parts : Found[4] # 0 => ~ removes(a)
  <2> TAKE a \in Parts
  <2>1. CASE training.phase = "backing_up"
    <3>1. BackingUpOK  BY <1>2, <2>1 DEF Phases
    <3> QED BY <1>6, <3>1 DEF BackingUpOK, InRange
  <2>2. CASE training.phase = "committing"
    <3>1. CommittingOK  BY <1>2, <2>2 DEF Phases
    <3>2. 4 \in Parts /\ 4 >= training.k  BY <1>4 DEF Parts
    <3> QED BY <3>1, <3>2 DEF CommittingOK
  <2> QED BY <1>1, <2>1, <2>2
<1>9. failures' \in 0 .. MaxFailures
  BY <1>2, PipelineAssumption DEF PublicationFails, Types
<1>10. CASE u = <<>>
  <2>1. EndsAs("rolled_back")  BY <1>10 DEF PublicationFails
  <2>2. \A a \in Parts : Found[a] = training.before[a]
    BY <1>6, <1>7, <1>10
  <2>3. Found = training.before
    <3>1. Found \in Files /\ training.before \in Files
      BY <1>2, <1>3, ShapeFacts
    <3> QED BY <2>2, <3>1 DEF Files
  <2>4. hidden' \subseteq DOMAIN log  BY <1>1, <1>2 DEF Types
  <2> QED BY <1>1, <1>3, <1>9, <2>1, <2>3, <2>4, EndsWithoutFiles DEF Outcomes
<1>11. CASE u # <<>>
  <2> DEFINE next == [phase |-> "rolling_back", name |-> name,
                      before |-> training.before, undo |-> u, clean |-> TRUE]
  <2>1. training' = next /\ log' = log  BY <1>11 DEF PublicationFails
  <2> HIDE DEF u
  <2>2. /\ training'.phase = "rolling_back" /\ training'.name = name
        /\ training'.before = training.before /\ training'.undo = u
        /\ training'.clean = TRUE
    BY <2>1
  <2>3. training' \in RollingBack  BY <1>4, <1>6, <2>1 DEF RollingBack
  <2>4. training' # Idle  BY <2>2 DEF Idle
  <2> HIDE DEF next
  <2>5. Types'  BY <1>1, <1>2, <1>9, <2>1, <2>3 DEF Types
  <2>6. GoesOn  BY <1>1, <1>2, <1>3, <2>1, <2>2, <2>4, NoFiles DEF GoesOn
  <2>7. RollingBackOK'
    <3>1. Found' = Found /\ Len(log') = last  BY <1>1, <2>1, <2>2 DEF Found
    <3>2. Found[4] \in {0, training.before[4]}  BY <1>2, <1>3, ReportIsOld
    <3>3. \A op, a : Pending(op, a)' <=> InRange(<<op, a>>, u)
      BY <2>2 DEF Pending
    <3>4. /\ training'.undo # <<>> /\ OneToOne(training'.undo)
          /\ \A i, j \in DOMAIN training'.undo :
                i < j /\ training'.undo[j][1] = "remove" =>
                    training'.undo[i][1] = "remove"
          /\ program' = "l2" => training'.clean
      BY <1>6, <1>11, <2>2
    <3>5. \A a \in Parts :
             /\ Pending("remove", a)' => Found'[a] = Len(log')
             /\ Pending("restore", a)' => training'.before[a] # 0
      BY <1>7, <2>2, <3>1, <3>3
    <3>6. \A a \in Parts :
             /\ \/ Pending("remove", a)'
                      /\ (training'.before[a] = 0 \/ Pending("restore", a)')
                \/ Pending("restore", a)' /\ Found'[a] \in {0, training'.before[a]}
                \/ Found'[a] = training'.before[a]
             /\ Found'[4] # 0 => ~ Pending("remove", a)'
      BY <1>7, <1>8, <2>2, <3>1, <3>3
    <3> QED BY <2>2, <3>1, <3>2, <3>4, <3>5, <3>6 DEF RollingBackOK
  <2>8. Phases'  BY <2>2, <2>7 DEF Phases
  <2>9. Studied'
    <3>1. ASSUME NEW n \in Names, NEW o \in DOMAIN log, ReadOK(n, o)
          PROVE  ReadOK(n, o)'
      BY <1>1, <1>3, <2>1, <2>2, <3>1, ReadOKWithoutFiles
    <3> QED BY <1>1, <1>2, <2>1, <3>1, StudyIsKept
  <2> QED BY <2>5, <2>6, <2>8, <2>9, RestOfGoesOn
<1> QED BY <1>10, <1>11

LEMMA TailFacts ==
  ASSUME NEW S, NEW u \in Seq(S), u # <<>>, OneToOne(u)
  PROVE  LET t == Tail(u)
         IN /\ Head(u) \in S /\ 1 \in DOMAIN u /\ u[1] = Head(u)
            /\ t \in Seq(S) /\ OneToOne(t)
            /\ \A x : InRange(x, u) <=> x = Head(u) \/ InRange(x, t)
            /\ ~ InRange(Head(u), t)
            /\ \A i \in DOMAIN t : i \in Nat /\ i > 0 /\ i + 1 \in DOMAIN u
                                   /\ t[i] = u[i + 1]
            /\ Len(u) = 1 => t = <<>>
            /\ Len(u) # 1 => 1 \in DOMAIN t
<1> DEFINE t == Tail(u)
           n == Len(u)
<1>1. /\ n \in Nat /\ n >= 1 /\ DOMAIN u = 1 .. n /\ Head(u) = u[1]
      /\ t \in Seq(S) /\ Len(t) = n - 1 /\ DOMAIN t = 1 .. n - 1
      /\ \A i \in 1 .. n : u[i] \in S
  OBVIOUS
<1>2. \A i \in 1 .. n - 1 : t[i] = u[i + 1]  OBVIOUS
<1> HIDE DEF t, n
<1>3. \A i \in DOMAIN t : i \in Nat /\ i > 0 /\ i + 1 \in DOMAIN u
                          /\ t[i] = u[i + 1]
  BY <1>1, <1>2
<1>4. 1 \in DOMAIN u  BY <1>1
<1>5. OneToOne(t)
  <2> SUFFICES ASSUME NEW i \in DOMAIN t, NEW j \in DOMAIN t, t[i] = t[j]
               PROVE  i = j
    BY DEF OneToOne
  <2>1. i + 1 = j + 1  BY <1>3 DEF OneToOne
  <2> QED BY <1>3, <2>1
<1>6. ASSUME NEW x  PROVE InRange(x, u) <=> x = Head(u) \/ InRange(x, t)
  <2>1. ASSUME NEW i \in DOMAIN u, u[i] = x  PROVE x = Head(u) \/ InRange(x, t)
    <3>1. CASE i = 1  BY <1>1, <2>1, <3>1
    <3>2. CASE i # 1
      <4>1. i - 1 \in DOMAIN t /\ i - 1 + 1 = i  BY <1>1, <3>2
      <4>2. t[i - 1] = u[i]  BY <1>1, <1>2, <4>1
      <4> QED BY <2>1, <4>1, <4>2 DEF InRange
    <3> QED BY <3>1, <3>2
  <2> QED BY <1>1, <1>3, <1>4, <2>1 DEF InRange
<1>7. ~ InRange(Head(u), t)
  <2> SUFFICES ASSUME NEW i \in DOMAIN t, t[i] = Head(u)  PROVE FALSE
    BY DEF InRange
  <2>1. i + 1 = 1  BY <1>1, <1>3, <1>4 DEF OneToOne
  <2> QED BY <1>3, <2>1
<1>8. n = 1 => t = <<>>  BY <1>1
<1>9. n # 1 => 1 \in DOMAIN t  BY <1>1
<1> QED BY <1>1, <1>3, <1>4, <1>5, <1>6, <1>7, <1>8, <1>9 DEF t, n

\* The next step of a rollback, and what is pending behind it.
LEMMA RollbackStepFacts ==
  ASSUME Types, Logged, Phases, training.phase = "rolling_back"
  PROVE  LET step == Head(training.undo)
             t == Tail(training.undo)
         IN /\ training \in RollingBack /\ training # Idle /\ RollingBackOK
            /\ step[1] \in {"remove", "restore"} /\ step[2] \in Parts
            /\ Pending(step[1], step[2])
            /\ t \in Seq(UndoSteps) /\ OneToOne(t)
            /\ \A op, a : Pending(op, a) <=>
                  (op = step[1] /\ a = step[2]) \/ InRange(<<op, a>>, t)
            /\ ~ InRange(<<step[1], step[2]>>, t)
            /\ \A i, j \in DOMAIN t : i < j /\ t[j][1] = "remove" => t[i][1] = "remove"
            /\ step[1] = "restore" => \A a : ~ InRange(<<"remove", a>>, t)
            /\ Len(training.undo) = 1 => \A x : ~ InRange(x, t)
            /\ Len(training.undo) # 1 =>
                  t # <<>> /\ \E op \in {"remove", "restore"}, a \in Parts :
                                  InRange(<<op, a>>, t)
<1> DEFINE u == training.undo
           step == Head(u)
           t == Tail(u)
<1>1. training \in RollingBack /\ training # Idle /\ RollingBackOK
  BY ShapeFacts DEF Idle, Phases
<1>2. /\ u \in Seq(UndoSteps) /\ u # <<>> /\ OneToOne(u)
      /\ \A i, j \in DOMAIN u : i < j /\ u[j][1] = "remove" => u[i][1] = "remove"
  BY <1>1 DEF RollingBack, RollingBackOK
<1>3. /\ step \in UndoSteps /\ 1 \in DOMAIN u /\ u[1] = step
      /\ t \in Seq(UndoSteps) /\ OneToOne(t)
      /\ \A x : InRange(x, u) <=> x = step \/ InRange(x, t)
      /\ ~ InRange(step, t)
      /\ \A i \in DOMAIN t : i \in Nat /\ i > 0 /\ i + 1 \in DOMAIN u
                             /\ t[i] = u[i + 1]
      /\ Len(u) = 1 => t = <<>>
      /\ Len(u) # 1 => 1 \in DOMAIN t
  BY <1>2, TailFacts
<1> HIDE DEF u, step, t
<1>4. /\ step[1] \in {"remove", "restore"} /\ step[2] \in Parts
      /\ step = <<step[1], step[2]>>
  BY <1>3 DEF UndoSteps
<1>5. ASSUME NEW op, NEW a
      PROVE  <<op, a>> = step <=> op = step[1] /\ a = step[2]
  BY <1>4
<1>6. \A op, a : Pending(op, a) <=> InRange(<<op, a>>, u)
  BY DEF Pending, u
<1>7. \A op, a : Pending(op, a) <=>
                    (op = step[1] /\ a = step[2]) \/ InRange(<<op, a>>, t)
  BY <1>3, <1>5, <1>6
<1>8. ASSUME NEW i \in DOMAIN t, NEW j \in DOMAIN t, i < j, t[j][1] = "remove"
      PROVE  t[i][1] = "remove"
  <2>1. /\ i + 1 \in DOMAIN u /\ j + 1 \in DOMAIN u /\ i + 1 < j + 1
        /\ t[i] = u[i + 1] /\ t[j] = u[j + 1]
    BY <1>3, <1>8
  <2> QED BY <1>2, <1>8, <2>1
<1>9. ASSUME step[1] = "restore", NEW a, InRange(<<"remove", a>>, t)
      PROVE  FALSE
  <2>1. PICK i \in DOMAIN t : t[i] = <<"remove", a>>  BY <1>9 DEF InRange
  <2>2. /\ i + 1 \in DOMAIN u /\ 1 < i + 1 /\ u[i + 1] = <<"remove", a>>
    BY <1>3, <2>1
  <2>3. u[i + 1][1] = "remove"  BY <2>2
  <2>4. u[1][1] = "remove"  BY <1>2, <1>3, <2>2, <2>3
  <2> QED BY <1>3, <1>9, <2>4
<1>10. Len(u) = 1 => \A x : ~ InRange(x, t)
  BY <1>3 DEF InRange
<1>11. ASSUME Len(u) # 1
       PROVE  t # <<>> /\ \E op \in {"remove", "restore"}, a \in Parts :
                              InRange(<<op, a>>, t)
  <2>1. 1 \in DOMAIN t  BY <1>3, <1>11
  <2>2. t[1] \in UndoSteps  BY <1>3, <2>1
  <2>3. /\ t[1][1] \in {"remove", "restore"} /\ t[1][2] \in Parts
        /\ t[1] = <<t[1][1], t[1][2]>>
    BY <2>2 DEF UndoSteps
  <2> QED BY <2>1, <2>3 DEF InRange
<1> QED BY <1>1, <1>3, <1>4, <1>7, <1>8, <1>9, <1>10, <1>11 DEF u, step, t

\* The L2 program has nothing to restore.
LEMMA NothingToRestore ==
  ASSUME Types, Logged, training # Idle, program = "l2"
  PROVE  \A a \in Parts : training.before[a] = 0
<1>1. Len(log) \in DOMAIN log  BY DEF Types, Logged
<1>2. ~ log[Len(log)].overwrite  BY <1>1 DEF Logged
<1> QED BY <1>2 DEF Logged

LEMMA RollsBackKeeps ==
  ASSUME IInv, RollsBack
  PROVE  IInv' /\ Restored
<1> DEFINE name == training.name
           last == Len(log)
           step == Head(training.undo)
           op == step[1]
           a == step[2]
           t == Tail(training.undo)
           id == IF op = "remove" THEN 0 ELSE training.before[a]
           after(o, b) == InRange(<<o, b>>, t)
           one == Len(training.undo) = 1
<1>1. /\ training.phase = "rolling_back" /\ RollsBackOne(TRUE)
      /\ UNCHANGED <<program, market, hidden, failures, study>>
  BY DEF RollsBack
<1>2. Types /\ Logged /\ Phases /\ Studied
  BY DEF IInv
<1>3. /\ training \in RollingBack /\ training # Idle /\ RollingBackOK
      /\ op \in {"remove", "restore"} /\ a \in Parts
      /\ t \in Seq(UndoSteps) /\ OneToOne(t)
      /\ \A o, b : Pending(o, b) <=> (o = op /\ b = a) \/ after(o, b)
      /\ ~ after(op, a)
      /\ \A i, j \in DOMAIN t : i < j /\ t[j][1] = "remove" => t[i][1] = "remove"
      /\ op = "restore" => \A b : ~ after("remove", b)
      /\ one => \A o, b : ~ after(o, b)
      /\ ~ one => t # <<>> /\ \E o \in {"remove", "restore"}, b \in Parts : after(o, b)
  BY <1>1, <1>2, RollbackStepFacts
<1>4. /\ name \in Names /\ training.before \in Files /\ training.clean \in BOOLEAN
      /\ training = [phase |-> training.phase, name |-> name,
                     before |-> training.before, undo |-> training.undo,
                     clean |-> training.clean]
  BY <1>3 DEF RollingBack
<1>5. /\ disk' = [disk EXCEPT ![name][a] = id]
      /\ IF one
         THEN EndsAs(IF training.clean THEN "rolled_back" ELSE "incomplete")
         ELSE /\ training' = [training EXCEPT !.undo = t, !.clean = training.clean]
              /\ log' = log
  <2>1. (training.clean /\ TRUE) = training.clean  BY <1>4
  <2> QED BY <1>1, <2>1 DEF RollsBackOne, NoTraining
<1>6. id \in Nat /\ id \in {0, training.before[a]}
  BY <1>3, <1>4 DEF Files
<1> HIDE DEF id, op, a, step, t
<1>7. /\ disk' \in [Names -> Files]
      /\ \A n \in Names : n # name => disk'[n] = disk[n]
      /\ disk'[name][a] = id
      /\ \A b \in Parts : b # a => disk'[name][b] = Found[b]
  BY <1>2, <1>3, <1>5, <1>6, OneFileChanges
<1>8. OnlyItsFiles
  <2>1. \A b \in Parts : disk'[name][b] \in
                            {0, Len(log), Found[b], training.before[b]}
    BY <1>6, <1>7
  <2> QED BY <1>7, <2>1 DEF OnlyItsFiles
<1>9. /\ program = "l2" => training.clean
      /\ Found[4] \in {0, training.before[4]}
      /\ \A b \in Parts : /\ Pending("remove", b) => Found[b] = last
                          /\ Pending("restore", b) => training.before[b] # 0
      /\ training.clean => \A b \in Parts :
           /\ \/ Pending("remove", b) /\ (training.before[b] = 0 \/ Pending("restore", b))
              \/ Pending("restore", b) /\ Found[b] \in {0, training.before[b]}
              \/ Found[b] = training.before[b]
           /\ Found[4] # 0 => ~ Pending("remove", b)
  BY <1>3 DEF RollingBackOK
<1>10. 4 \in Parts /\ 2 \in Parts /\ last \in Nat /\ last > 0
  BY <1>2, <1>3 DEF Parts, Types, Logged
<1>11. disk'[name][4] \in {0, training.before[4]}
  BY <1>6, <1>7, <1>9, <1>10
\* where every artifact stands behind this step
<1>12. ASSUME training.clean, NEW b \in Parts
       PROVE  \/ after("remove", b) /\ (training.before[b] = 0 \/ after("restore", b))
              \/ after("restore", b) /\ disk'[name][b] \in {0, training.before[b]}
              \/ disk'[name][b] = training.before[b]
  <2>1. CASE b # a
    <3>1. /\ Pending("remove", b) <=> after("remove", b)
          /\ Pending("restore", b) <=> after("restore", b)
      BY <1>3, <2>1
    <3>2. disk'[name][b] = Found[b]  BY <1>7, <2>1
    <3> HIDE DEF after
    <3> QED BY <1>9, <1>12, <3>1, <3>2
  <2>2. CASE b = a /\ op = "restore"
    <3>1. id = training.before[a]  BY <2>2 DEF id
    <3> QED BY <1>7, <2>2, <3>1
  <2>3. CASE b = a /\ op = "remove"
    <3>1. id = 0  BY <2>3 DEF id
    <3>2. Pending("restore", b) <=> after("restore", b)  BY <1>3, <2>3
    <3>3. Pending("remove", b)  BY <1>3, <2>3
    <3>4. training.before[b] = 0 \/ Pending("restore", b)
      <4>1. Found[b] = last  BY <1>9, <3>3
      <4>2. training.before[b] # last \/ training.before[b] = 0
        <5>1. training.before[b] \in Nat  BY <1>4 DEF Files
        <5>2. training.before[b] # 0 => training.before[b] < last
          BY <1>2, <1>3 DEF Logged
        <5> QED BY <1>10, <5>1, <5>2
      <4> QED BY <1>9, <1>12, <4>1, <4>2
    <3> QED BY <1>7, <2>3, <3>1, <3>2, <3>4
  <2> QED BY <1>3, <2>1, <2>2, <2>3
\* what is left to do for the L2 program is to remove
<1>13. ASSUME program = "l2"
       PROVE  /\ op = "remove" /\ Found[a] = last /\ training.clean
              /\ ~ one => \E b \in Parts : b # a /\ disk'[name][b] = last
  <2>1. \A b \in Parts : ~ Pending("restore", b)
    BY <1>2, <1>3, <1>9, <1>13, NothingToRestore
  <2>2. op = "remove"  BY <1>3, <2>1
  <2>3. Pending("remove", a)  BY <1>3, <2>2
  <2>4. ASSUME ~ one  PROVE \E b \in Parts : b # a /\ disk'[name][b] = last
    <3>1. PICK o \in {"remove", "restore"}, b \in Parts : after(o, b)
      BY <1>3, <2>4
    <3>2. o = "remove" /\ Pending("remove", b)  BY <1>3, <2>1, <3>1
    <3>3. b # a  BY <1>3, <2>2, <3>1, <3>2
    <3>4. disk'[name][b] = last  BY <1>7, <1>9, <3>2, <3>3
    <3> QED BY <3>3, <3>4
  <2> QED BY <1>3, <1>9, <1>13, <2>2, <2>3, <2>4
<1>14. ASSUME program = "l2", NEW n \in Names, NEW o \in DOMAIN log, ReadOK(n, o),
              log[o].outcome = "rolled_back" => log'[o].outcome = "rolled_back",
              IF one THEN training' = Idle /\ log'[last].outcome = "rolled_back"
                     ELSE /\ training'.name = name /\ log' = log
                          /\ training'.phase = "rolling_back"
       PROVE  ReadOK(n, o)'
  <2>1. o # 0  BY <1>2 DEF Types
  <2>2. CASE n # name
    BY <1>7, <1>14, <2>2 DEF ReadOK
  <2>3. CASE n = name /\ (o = last \/ log[o].outcome = "rolled_back") /\ one
    BY <1>14, <2>3 DEF ReadOK
  <2>4. CASE n = name /\ disk'[n][2] = o
    BY <2>4 DEF ReadOK
  <2>5. CASE n = name /\ log[o].outcome = "rolled_back"
    BY <1>14, <2>5 DEF ReadOK
  <2>6. CASE n = name /\ o = last /\ disk'[n][2] = 0 /\ ~ one
    <3>1. \E b \in Parts : disk'[n][b] # 0  BY <1>10, <1>13, <1>14, <2>6
    <3> QED BY <1>14, <2>6, <3>1 DEF ReadOK
  <2>7. n = name => \/ disk'[n][2] = o \/ log[o].outcome = "rolled_back"
                    \/ o = last /\ disk'[n][2] = 0
    <3> SUFFICES ASSUME n = name, log[o].outcome # "rolled_back"
                 PROVE  disk'[n][2] = o \/ (o = last /\ disk'[n][2] = 0)
      OBVIOUS
    <3>1. Found[2] = o \/ (Found[2] = 0 /\ o = last)
      BY <1>3, <1>14 DEF ReadOK, Found
    <3>2. CASE a # 2  BY <1>7, <1>10, <3>1, <3>2
    <3>3. CASE a = 2
      <4>1. id = 0 /\ Found[2] = last  BY <1>13, <1>14, <3>3 DEF id
      <4> QED BY <1>7, <1>10, <3>1, <3>3, <4>1
    <3> QED BY <3>2, <3>3
  <2> QED BY <2>2, <2>3, <2>4, <2>5, <2>6, <2>7
<1>15. CASE one
  <2> DEFINE outcome == IF training.clean THEN "rolled_back" ELSE "incomplete"
  <2>1. EndsAs(outcome) /\ outcome \in Outcomes \ {"running"} /\ training' = Idle
    BY <1>5, <1>15 DEF Outcomes, EndsAs
  <2>2. training.clean => disk'[name] = training.before
    <3>1. training.clean => \A b \in Parts : disk'[name][b] = training.before[b]
      BY <1>3, <1>12, <1>15
    <3>2. disk'[name] \in Files  BY <1>4, <1>7
    <3> QED BY <1>4, <3>1, <3>2 DEF Files
  <2>3. log[last].overwrite \/ disk'[name][4] = 0
    <3>1. ~ log[last].overwrite => training.before[4] = 0
      BY <1>2, <1>3, <1>10 DEF Logged
    <3> QED BY <1>11, <3>1
  <2>4. /\ outcome \in {"failed", "rolled_back"} => training.clean
        /\ outcome # "published"
    OBVIOUS
  <2>5. training.clean => outcome = "rolled_back"  OBVIOUS
  <2> HIDE DEF outcome
  <2>6. Ends(outcome)
    BY <1>1, <1>3, <1>8, <2>1, <2>2, <2>3, <2>4 DEF Ends
  <2>7. Studied'
    <3>1. /\ DOMAIN log \subseteq DOMAIN log'
          /\ \A i \in DOMAIN log :
                /\ log'[i].held_out = log[i].held_out
                /\ log[i].outcome = "rolled_back" =>
                       log'[i].outcome = "rolled_back"
      BY <1>2, <1>3, <2>1, LogIsKept
    <3>2. log'[last].outcome = outcome  BY <1>2, <1>3, <2>1, EndsFacts
    <3>3. ASSUME NEW n \in Names, NEW o \in DOMAIN log, program = "l2", ReadOK(n, o)
          PROVE  ReadOK(n, o)'
      <4>1. training' = Idle /\ log'[last].outcome = "rolled_back"
        BY <1>13, <2>1, <2>5, <3>2, <3>3
      <4>2. log[o].outcome = "rolled_back" => log'[o].outcome = "rolled_back"
        BY <3>1
      <4> QED BY <1>14, <1>15, <3>3, <4>1, <4>2
    <3> QED BY <1>1, <1>2, <3>1, <3>3, StudyIsKept
  <2>8. /\ market' = market /\ hidden' \subseteq DOMAIN log
        /\ failures' \in 0 .. MaxFailures
    BY <1>1, <1>2 DEF Types
  <2> QED BY <2>6, <2>7, <2>8, RestOfEnds
<1>16. CASE ~ one
  <2> DEFINE next == [phase |-> "rolling_back", name |-> name,
                      before |-> training.before, undo |-> t,
                      clean |-> training.clean]
  <2>1. log' = log  BY <1>5, <1>16
  <2>2. training' = next
    <3>1. training' = [training EXCEPT !.undo = t, !.clean = training.clean]
      BY <1>5, <1>16
    <3> QED BY <1>1, <1>3, <3>1 DEF RollingBack
  <2>3. /\ training'.phase = "rolling_back" /\ training'.name = name
        /\ training'.before = training.before /\ training'.undo = t
        /\ training'.clean = training.clean
    BY <2>2
  <2>4. training' \in RollingBack  BY <1>3, <1>4, <2>2 DEF RollingBack
  <2>5. training' # Idle  BY <2>3 DEF Idle
  <2> HIDE DEF next
  <2>6. Types'  BY <1>1, <1>2, <1>7, <2>1, <2>4 DEF Types
  <2>7. GoesOn  BY <1>1, <1>3, <1>8, <2>1, <2>3, <2>5 DEF GoesOn
  <2>8. RollingBackOK'
    <3>1. Found' = disk'[name] /\ Len(log') = last  BY <2>1, <2>3 DEF Found
    <3>2. \A o, b : Pending(o, b)' <=> after(o, b)  BY <2>3 DEF Pending
    <3>3. /\ training'.undo # <<>> /\ OneToOne(training'.undo)
          /\ \A i, j \in DOMAIN training'.undo :
                i < j /\ training'.undo[j][1] = "remove" =>
                    training'.undo[i][1] = "remove"
          /\ program' = "l2" => training'.clean
      BY <1>1, <1>3, <1>9, <1>16, <2>3
    <3>4. \A b \in Parts : b = a => ~ after("remove", b)
      BY <1>3
    <3>5. \A b \in Parts : /\ after("remove", b) => disk'[name][b] = last
                           /\ after("restore", b) => training.before[b] # 0
      BY <1>3, <1>7, <1>9, <3>4
    <3>6. ASSUME training.clean, NEW b \in Parts, disk'[name][4] # 0
          PROVE  ~ after("remove", b)
      <4>1. CASE op = "restore"  BY <1>3, <4>1
      <4>2. CASE op = "remove"
        <5>1. a # 4  BY <1>7, <3>6, <4>2 DEF id
        <5>2. Found[4] # 0  BY <1>7, <1>10, <3>6, <5>1
        <5> QED BY <1>3, <1>9, <3>6, <4>2, <5>2
      <4> QED BY <1>3, <4>1, <4>2
    <3> HIDE DEF after
    <3> QED BY <1>11, <1>12, <2>3, <3>1, <3>2, <3>3, <3>5, <3>6 DEF RollingBackOK
  <2>9. Phases'  BY <2>3, <2>8 DEF Phases
  <2>10. Studied'
    <3>1. \A n \in Names, o \in DOMAIN log :
             program = "l2" /\ ReadOK(n, o) => ReadOK(n, o)'
      BY <1>14, <1>16, <2>1, <2>3
    <3> QED BY <1>1, <1>2, <2>1, <3>1, StudyIsKept
  <2> QED BY <2>6, <2>7, <2>9, <2>10, RestOfGoesOn
<1> QED BY <1>15, <1>16

LEMMA RollbackFailsKeeps ==
  ASSUME IInv, RollbackFails
  PROVE  IInv' /\ Restored
<1> DEFINE name == training.name
           last == Len(log)
           step == Head(training.undo)
           t == Tail(training.undo)
           one == Len(training.undo) = 1
<1>1. /\ training.phase = "rolling_back" /\ RollsBackOne(FALSE)
      /\ UNCHANGED <<program, market, hidden, study>>
      /\ failures < MaxFailures /\ failures' = failures + 1
  BY DEF RollbackFails
<1>2. Types /\ Logged /\ Phases /\ Studied
  BY DEF IInv
<1>3. /\ training \in RollingBack /\ training # Idle /\ RollingBackOK
      /\ t \in Seq(UndoSteps) /\ OneToOne(t)
      /\ \A op, a : Pending(op, a) <=>
            (op = step[1] /\ a = step[2]) \/ InRange(<<op, a>>, t)
      /\ \A i, j \in DOMAIN t : i < j /\ t[j][1] = "remove" => t[i][1] = "remove"
      /\ ~ one => t # <<>>
  BY <1>1, <1>2, RollbackStepFacts
<1>4. /\ disk' = disk
      /\ IF one \/ program = "l2" THEN EndsAs("incomplete")
         ELSE /\ training' = [training EXCEPT !.undo = t, !.clean = FALSE]
              /\ log' = log
  BY <1>1 DEF RollsBackOne
<1>5. failures' \in 0 .. MaxFailures
  BY <1>1, <1>2, PipelineAssumption DEF Types
<1> HIDE DEF step, t
<1>6. CASE one \/ program = "l2"
  <2>1. hidden' \subseteq DOMAIN log  BY <1>1, <1>2 DEF Types
  <2> QED BY <1>1, <1>3, <1>4, <1>5, <1>6, <2>1, EndsWithoutFiles DEF Outcomes
<1>7. CASE ~ (one \/ program = "l2")
  <2> DEFINE next == [phase |-> "rolling_back", name |-> name,
                      before |-> training.before, undo |-> t, clean |-> FALSE]
  <2>1. log' = log  BY <1>4, <1>7
  <2>2. training' = next
    <3>1. training' = [training EXCEPT !.undo = t, !.clean = FALSE]
      BY <1>4, <1>7
    <3> QED BY <1>1, <1>3, <3>1 DEF RollingBack
  <2>3. /\ training'.phase = "rolling_back" /\ training'.name = name
        /\ training'.before = training.before /\ training'.undo = t
        /\ training'.clean = FALSE
    BY <2>2
  <2>4. training' \in RollingBack  BY <1>3, <2>2 DEF RollingBack
  <2>5. training' # Idle  BY <2>3 DEF Idle
  <2> HIDE DEF next
  <2>6. Types'  BY <1>1, <1>2, <1>4, <1>5, <2>1, <2>4 DEF Types
  <2>7. GoesOn  BY <1>1, <1>2, <1>3, <1>4, <2>1, <2>3, <2>5, NoFiles DEF GoesOn
  <2>8. RollingBackOK'
    <3>1. Found' = Found /\ Len(log') = last /\ program' # "l2"
      BY <1>1, <1>4, <1>7, <2>1, <2>3 DEF Found
    <3>2. \A op, a : Pending(op, a)' => Pending(op, a)
      BY <1>3, <2>3 DEF Pending
    <3>3. /\ Found[4] \in {0, training.before[4]}
          /\ \A a \in Parts :
                /\ Pending("remove", a) => Found[a] = last
                /\ Pending("restore", a) => training.before[a] # 0
      BY <1>3 DEF RollingBackOK
    <3> QED BY <1>3, <1>7, <2>3, <3>1, <3>2, <3>3 DEF RollingBackOK
  <2>9. Phases'  BY <2>3, <2>8 DEF Phases
  <2>10. Studied'
    BY <1>1, <1>2, <1>7, <2>1, StudyIsKept
  <2> QED BY <2>6, <2>7, <2>9, <2>10, RestOfGoesOn
<1> QED BY <1>6, <1>7

\* What is trained on: rows of sessions of the market, in their order.
LEMMA DataFacts ==
  ASSUME market \in Markets, NEW S \in Select
  PROVE  LET chosen == InOrder(S)
         IN /\ chosen \in Seq(Nat) /\ Data(chosen) \in Seq(Nat)
            /\ Len(Data(chosen)) = Len(chosen)
            /\ Len(chosen) \in Nat /\ DOMAIN Data(chosen) = DOMAIN chosen
<1> DEFINE chosen == InOrder(S)
<1>1. market \in Seq(Nat)  BY PipelineAssumption
<1>2. S \subseteq DOMAIN market  BY PipelineAssumption DEF Select
<1>3. S \in SUBSET Nat /\ IsFiniteSet(S)
  <2>1. Len(market) \in Nat /\ DOMAIN market = 1 .. Len(market)  BY <1>1
  <2>2. \A x \in S : x \in Nat /\ x <= Len(market)  BY <1>2, <2>1
  <2> QED BY <2>1, <2>2, FS_BoundedSetOfNaturals
<1>4. chosen \in Seq(S)  BY <1>3, InOrderFacts
<1> HIDE DEF chosen
<1>5. /\ Len(chosen) \in Nat /\ DOMAIN chosen = 1 .. Len(chosen)
      /\ \A i \in DOMAIN chosen : chosen[i] \in S
  BY <1>4
<1>6. \A i \in DOMAIN chosen : chosen[i] \in Nat /\ market[chosen[i]] \in Nat
  BY <1>1, <1>2, <1>3, <1>5
<1>7. chosen \in Seq(Nat)
  <2> DEFINE T == Nat
  <2>1. S \subseteq T  BY <1>3
  <2> HIDE DEF T
  <2>2. chosen \in Seq(T)  BY <1>4, <2>1
  <2> QED BY <2>2 DEF T
<1> DEFINE n == Len(chosen)
<1>8. Data(chosen) \in [1 .. n -> Nat] /\ n \in Nat  BY <1>5, <1>6 DEF Data
<1> HIDE DEF n
<1>9. Data(chosen) \in Seq(Nat) /\ Len(Data(chosen)) = n  BY <1>8
<1> QED BY <1>5, <1>7, <1>9 DEF Data, chosen, n

LEMMA EntryFacts ==
  ASSUME market \in Markets, NEW S \in Select, NEW h \in Horizons
  PROVE  LET chosen == InOrder(S)
             test   == Split(Data(chosen), h).test
         IN /\ HeldOut(chosen, test) \in UNION {[D -> Nat] : D \in SUBSET Nat}
            /\ Fingerprint(chosen, h, test) \in
                  [of : SUBSET (Nat \cup Nat \X Nat), horizon : Nat]
<1> DEFINE chosen == InOrder(S)
           sizes  == Data(chosen)
           test   == Split(sizes, h).test
<1>1. /\ chosen \in Seq(Nat) /\ sizes \in Seq(Nat) /\ Len(chosen) \in Nat
      /\ Len(sizes) = Len(chosen) /\ DOMAIN sizes = DOMAIN chosen
  BY DataFacts
<1>2. h \in Nat  BY PipelineAssumption
<1>3. test \subseteq 1 .. Size(sizes)  BY <1>1, <1>2, SplitFacts
<1> HIDE DEF chosen, test
<1>4. \A i \in DOMAIN chosen : chosen[i] \in Nat /\ i \in Nat  BY <1>1
<1> DEFINE D == SessionsWith(sizes, test)
<1>5. D \subseteq DOMAIN chosen  BY <1>1 DEF SessionsWith
<1>6. HeldOut(chosen, test) = [i \in D |-> chosen[i]]  BY DEF HeldOut
<1> HIDE DEF D
<1>7. HeldOut(chosen, test) \in [D -> Nat] /\ D \in SUBSET Nat
  BY <1>4, <1>5, <1>6
<1>8. HeldOut(chosen, test) \in UNION {[E -> Nat] : E \in SUBSET Nat}
  BY <1>7
<1>9. Period(chosen, test) \in
          [of : SUBSET (Nat \cup Nat \X Nat), horizon : Nat]
  <2>1. Range(HeldOut(chosen, test)) \subseteq Nat  BY <1>7 DEF Range
  <2> QED BY <2>1 DEF Period
<1>10. Examples(chosen, h, test) \in
          [of : SUBSET (Nat \cup Nat \X Nat), horizon : Nat]
  <2>1. ASSUME NEW r \in test
        PROVE  <<chosen[SessionOf(sizes, r)], EventIndex(sizes, r)>> \in Nat \X Nat
    <3>1. r \in 1 .. Size(sizes)  BY <1>3
    <3> HIDE DEF sizes
    <3>2. SessionOf(sizes, r) \in 1 .. Len(sizes) /\ EventIndex(sizes, r) \in Nat
      BY <1>1, <3>1, SessionFacts, EventIndexIsNat
    <3>3. SessionOf(sizes, r) \in DOMAIN chosen  BY <1>1, <3>2
    <3> QED BY <1>4, <3>2, <3>3
  <2> DEFINE of == {<<chosen[SessionOf(sizes, r)], EventIndex(sizes, r)>> : r \in test}
  <2>2. of \in SUBSET (Nat \cup Nat \X Nat)  BY <2>1
  <2>3. Examples(chosen, h, test) = [of |-> of, horizon |-> h]  BY DEF Examples
  <2> HIDE DEF of
  <2> QED BY <1>2, <2>2, <2>3
<1> QED BY <1>8, <1>9, <1>10 DEF Fingerprint, chosen, test

LEMMA TrainsKeeps ==
  ASSUME IInv, Trains
  PROVE  IInv' /\ Restored
<1>1. /\ training = Idle /\ Len(log) < MaxTrainings
      /\ UNCHANGED <<program, market, disk, hidden, failures, study>>
  BY DEF Trains
<1>2. PICK name \in Names, horizon \in Horizons, S \in Select :
         TrainsOn(name, horizon, InOrder(S))
  BY DEF Trains
<1>3. /\ Types /\ Logged /\ Phases /\ WholeSets /\ Studied /\ Remembered
      /\ HoldoutRemembered
  BY DEF IInv
<1> DEFINE chosen == InOrder(S)
           sizes == Data(chosen)
           split == Split(sizes, horizon)
           fp == Fingerprint(chosen, horizon, split.test)
           overwrite == Exists(name)
           reused == Prior(name, fp) # {}
           held == HeldOut(chosen, split.test)
           e == [name |-> name, fingerprint |-> fp, held_out |-> held,
                 reused |-> reused, overwrite |-> overwrite,
                 outcome |-> "running"]
           next == [phase |-> "evaluated", name |-> name, sizes |-> sizes,
                    horizon |-> horizon, overwrite |-> overwrite,
                    before |-> disk[name]]
           L == Len(log)
<1>4. /\ MayTrain(name, horizon) /\ training' = next /\ log' = Append(log, e)
  BY <1>2 DEF TrainsOn
<1>5. sizes \in Seq(Nat)  BY <1>3, DataFacts DEF Types
<1>6. /\ held \in UNION {[D -> Nat] : D \in SUBSET Nat}
      /\ fp \in [of : SUBSET (Nat \cup Nat \X Nat), horizon : Nat]
  BY <1>3, EntryFacts DEF Types
<1>7. overwrite \in BOOLEAN /\ reused \in BOOLEAN  BY DEF Exists
<1>8. overwrite <=> \E k \in Parts : disk[name][k] # 0
  BY ArtifactFacts DEF Exists, NoTraining
<1>9. ~ reused => \A r \in Reports : log[r].fingerprint # fp
  BY DEF Prior
<1> HIDE DEF held, fp, overwrite, reused, sizes
<1>10. e \in LogEntries
  BY <1>6, <1>7 DEF LogEntries, Outcomes
<1>11. /\ e.name = name /\ e.fingerprint = fp /\ e.reused = reused
       /\ e.overwrite = overwrite /\ e.outcome = "running"
  OBVIOUS
<1>12. next \in Evaluated
  BY <1>2, <1>3, <1>5, <1>7 DEF Evaluated, Types
<1>13. /\ training'.phase = "evaluated" /\ training'.name = name
       /\ training'.before = disk[name] /\ training'.overwrite = overwrite
  BY <1>4
<1>14. training' # Idle  BY <1>13 DEF Idle
<1> HIDE DEF e, next
<1>15. /\ L \in Nat /\ DOMAIN log = 1 .. L /\ log \in Seq(LogEntries)
       /\ Len(log') = L + 1 /\ DOMAIN log' = 1 .. L + 1
       /\ log' \in Seq(LogEntries) /\ log'[L + 1] = e
       /\ \A i \in 1 .. L : log'[i] = log[i]
  BY <1>3, <1>4, <1>10 DEF Types
<1>16. /\ L + 1 \in DOMAIN log' /\ DOMAIN log' = DOMAIN log \cup {L + 1}
       /\ L + 1 \notin DOMAIN log /\ L + 1 > 0
       /\ \A i \in DOMAIN log : log'[i] = log[i] /\ i \in Nat /\ i < L + 1 /\ i # 0
  BY <1>15
<1>17. Types'
  <2>1. training' \in Evaluated  BY <1>4, <1>12
  <2>2. L + 1 <= MaxTrainings  BY <1>1, <1>15, PipelineAssumption
  <2>3. hidden \subseteq DOMAIN log'  BY <1>3, <1>16 DEF Types
  <2> QED BY <1>1, <1>3, <1>15, <2>1, <2>2, <2>3 DEF Types
<1>18. Logged'
  <2>1. ASSUME NEW i \in DOMAIN log'
        PROVE  /\ (log'[i].outcome = "running") <=> (training' # Idle /\ i = Len(log'))
               /\ log'[i].overwrite => program' = "top_of_book"
    <3>1. CASE i \in DOMAIN log
      <4>1. log'[i] = log[i] /\ i # L + 1  BY <1>16, <3>1
      <4>2. log[i].outcome # "running"  BY <1>1, <1>3, <3>1 DEF Logged
      <4> QED BY <1>1, <1>3, <1>15, <3>1, <4>1, <4>2 DEF Logged
    <3>2. CASE i = L + 1
      <4>1. overwrite => program = "top_of_book"
        <5>1. overwrite => program # "l2"
          BY <1>4 DEF MayTrain, overwrite
        <5> QED BY <1>3, <5>1 DEF Types
      <4> QED BY <1>1, <1>11, <1>14, <1>15, <3>2, <4>1
    <3> QED BY <1>16, <3>1, <3>2
  <2>2. ASSUME NEW n \in Names, NEW k \in Parts, disk[n][k] # 0
        PROVE  FileOf(log', n, disk[n][k]) /\ disk[n][k] < L + 1
    <3>1. FileOf(log, n, disk[n][k])  BY <1>3, <2>2 DEF Logged
    <3> QED BY <1>16, <3>1 DEF FileOf
  <2> QED BY <1>1, <1>2, <1>8, <1>11, <1>13, <1>15, <1>16, <2>1, <2>2 DEF Logged
<1>19. Phases'
  BY <1>1, <1>11, <1>13, <1>15 DEF Phases, EvaluatedOK, Found
<1>20. ASSUME NEW n, Broken(n)  PROVE Broken(n)'
  <2>1. PICK i \in DOMAIN log :
           /\ log[i].name = n /\ log[i].overwrite
           /\ log[i].outcome \in {"incomplete", "crashed"}
           /\ \A j \in i + 1 .. L : log[j].name = n => log[j].outcome # "published"
    BY <1>20 DEF Broken
  <2>2. ASSUME NEW j \in i + 1 .. L + 1, log'[j].name = n
        PROVE  log'[j].outcome # "published"
    <3>1. j \in 1 .. L + 1  BY <1>16, <2>1
    <3>2. CASE j = L + 1  BY <1>11, <1>15, <3>2
    <3>3. CASE j # L + 1
      <4>1. j \in DOMAIN log /\ j \in i + 1 .. L  BY <1>15, <1>16, <3>1, <3>3
      <4> QED BY <1>16, <2>1, <2>2, <4>1
    <3> QED BY <3>2, <3>3
  <2>3. log'[i] = log[i] /\ i \in DOMAIN log'  BY <1>16, <2>1
  <2> QED BY <1>15, <2>1, <2>2, <2>3 DEF Broken
<1>21. WholeSets'
  <2>1. \A n \in Names : ~ Broken(n) => Whole(disk[n])
    BY <1>1, <1>3 DEF WholeSets
  <2>2. ASSUME NEW n \in Names, ~ Broken(n)'  PROVE Whole(disk[n])
    BY <1>20, <2>1, <2>2
  <2>3. ASSUME NEW n \in Names, ~ Broken(n)'  PROVE Whole(disk'[n])
    BY <1>1, <2>2, <2>3
  <2>4. ~ Broken(name)' => Whole(training'.before)
    BY <1>2, <1>13, <2>2
  <2> QED BY <1>13, <2>3, <2>4 DEF WholeSets, Whole, Broken
<1>22. Studied'
  <2>1. ASSUME NEW n \in Names, NEW o \in DOMAIN log, program = "l2", ReadOK(n, o)
        PROVE  ReadOK(n, o)'
    <3>1. ~ Exists(name)  BY <1>4, <2>1 DEF MayTrain
    <3>2. \A k \in Parts : disk[name][k] = 0
      BY <3>1, ArtifactFacts DEF Exists, NoTraining
    <3>3. CASE disk[n][2] = o  BY <1>1, <3>3 DEF ReadOK
    <3>4. CASE log[o].outcome = "rolled_back"
      BY <1>16, <3>4 DEF ReadOK
    <3>5. CASE disk[n][2] = 0 /\ \E k \in Parts : disk[n][k] # 0
      <4>1. n # name  BY <3>2, <3>5
      <4> QED BY <1>1, <1>13, <3>5, <4>1 DEF ReadOK
    <3> QED BY <2>1, <3>3, <3>4, <3>5 DEF ReadOK
  <2>2. /\ DOMAIN log \subseteq DOMAIN log'
        /\ \A i \in DOMAIN log :
              /\ log'[i].held_out = log[i].held_out
              /\ log[i].outcome = "rolled_back" => log'[i].outcome = "rolled_back"
    BY <1>16
  <2> QED BY <1>1, <1>3, <2>1, <2>2, StudyIsKept
<1>23. Remembered'
  <2> SUFFICES ASSUME NEW i \in DOMAIN log', log'[i].outcome = "published"
               PROVE  \/ disk[log'[i].name][4] = i
                      \/ \E k \in i + 1 .. L + 1 :
                            /\ log'[k].name = log'[i].name /\ log'[k].overwrite
                            /\ log'[k].outcome \in {"published", "incomplete", "crashed"}
    BY <1>1, <1>15 DEF Remembered
  <2>1. i \in DOMAIN log /\ log'[i] = log[i]  BY <1>11, <1>15, <1>16
  <2>2. CASE disk[log[i].name][4] = i  BY <2>1, <2>2
  <2>3. ASSUME NEW k \in i + 1 .. L,
               /\ log[k].name = log[i].name /\ log[k].overwrite
               /\ log[k].outcome \in {"published", "incomplete", "crashed"}
        PROVE  \E q \in i + 1 .. L + 1 :
                  /\ log'[q].name = log'[i].name /\ log'[q].overwrite
                  /\ log'[q].outcome \in {"published", "incomplete", "crashed"}
    <3>1. k \in DOMAIN log /\ k \in i + 1 .. L + 1  BY <1>15, <1>16, <2>1
    <3> QED BY <1>16, <2>1, <2>3, <3>1
  <2> QED BY <1>1, <1>3, <2>1, <2>2, <2>3 DEF Remembered
<1>24. HoldoutRemembered'
  <2> SUFFICES ASSUME NEW i \in DOMAIN log', NEW j \in DOMAIN log', i < j,
                      log'[i].fingerprint = log'[j].fingerprint,
                      log'[i].outcome = "published", ~ log'[j].reused
               PROVE  \E k \in i + 1 .. j - 1 :
                         /\ log'[k].name = log'[i].name /\ log'[k].overwrite
                         /\ log'[k].outcome \in {"published", "incomplete", "crashed"}
    BY DEF HoldoutRemembered
  <2>1. i \in DOMAIN log /\ log'[i] = log[i]  BY <1>11, <1>15, <1>16
  <2>2. CASE j \in DOMAIN log
    <3>1. PICK k \in i + 1 .. j - 1 :
             /\ log[k].name = log[i].name /\ log[k].overwrite
             /\ log[k].outcome \in {"published", "incomplete", "crashed"}
      BY <1>3, <1>16, <2>1, <2>2 DEF HoldoutRemembered
    <3>2. k \in DOMAIN log  BY <1>15, <1>16, <2>1, <2>2
    <3> QED BY <1>16, <2>1, <3>1, <3>2
  <2>3. CASE j = L + 1
    <3>1. ~ reused /\ log[i].fingerprint = fp
      BY <1>11, <1>15, <2>1, <2>3
    <3>2. log[i].name \in Names
      <4>1. log[i] \in LogEntries  BY <1>15, <2>1
      <4> QED BY <4>1 DEF LogEntries
    <3>3. disk[log[i].name][4] # i
      <4> SUFFICES ASSUME disk[log[i].name][4] = i  PROVE FALSE
        OBVIOUS
      <4>1. i \in Reports
        BY <1>16, <2>1, <3>2, ArtifactFacts DEF Reports, NoTraining
      <4> QED BY <1>9, <3>1, <4>1
    <3>4. PICK k \in i + 1 .. L :
             /\ log[k].name = log[i].name /\ log[k].overwrite
             /\ log[k].outcome \in {"published", "incomplete", "crashed"}
      BY <1>1, <1>3, <2>1, <3>3 DEF Remembered
    <3>5. k \in DOMAIN log /\ k \in i + 1 .. j - 1  BY <1>15, <1>16, <2>1, <2>3
    <3> QED BY <1>16, <2>1, <3>4, <3>5
  <2> QED BY <1>16, <2>2, <2>3
<1>25. Restored
  <2>1. \A i \in DOMAIN log : log'[i] = log[i]  BY <1>16
  <2> QED BY <2>1 DEF Restored
<1> QED BY <1>17, <1>18, <1>19, <1>21, <1>22, <1>23, <1>24, <1>25 DEF IInv

-----------------------------------------------------------------------------
(* The steps of a study *)

LEMMA StudyReadsKeeps ==
  ASSUME IInv, StudyReads
  PROVE  IInv' /\ Restored
<1>1. /\ program = "l2"
      /\ UNCHANGED <<program, market, disk, hidden, log, training, failures>>
  BY DEF StudyReads
<1>2. PICK n \in Names :
         /\ disk[n][2] # 0
         /\ study' = [phase |-> "read", name |-> n, orders |-> disk[n][2]]
  BY ArtifactFacts DEF StudyReads, NoTraining
<1>3. disk[n][2] \in DOMAIN log
  <2>1. 2 \in Parts  BY DEF Parts
  <2> QED BY <1>2, <2>1 DEF IInv, Logged, FileOf
<1>4. /\ study'.phase = "read" /\ study'.name = n /\ study'.orders = disk[n][2]
  BY <1>2
<1>5. StudyReadOK'
  BY <1>1, <1>2, <1>3, <1>4 DEF StudyReadOK, ReadOK
<1>6. Studied'  BY <1>4, <1>5 DEF Studied
<1>7. /\ Types' /\ Logged' /\ Phases' /\ WholeSets' /\ Remembered'
      /\ HoldoutRemembered'
  BY <1>1 DEF IInv, Types, Logged, Phases, EvaluatedOK, BackingUpOK,
              CommittingOK, RollingBackOK, Pending, Found, WholeSets, Broken,
              Remembered, HoldoutRemembered
<1> QED BY <1>1, <1>6, <1>7, SameLogRestores DEF IInv

LEMMA StudyVerifiesKeeps ==
  ASSUME IInv, NEW name \in Names, NEW mapping, StudyVerifies(name, mapping)
  PROVE  IInv' /\ Restored
<1> DEFINE r == disk[name][4]
           o == study.orders
<1>1. /\ study.phase = "read"
      /\ UNCHANGED <<program, market, disk, hidden, log, training, failures>>
  BY DEF StudyVerifies
<1>2. /\ r # 0 /\ disk[study.name][2] = r /\ mapping = log[r].held_out
      /\ study' = [phase |-> "accepted", orders |-> o, report |-> r,
                   mapping |-> mapping]
  BY ArtifactFacts DEF StudyVerifies, NoTraining, Hashed
<1>3. StudyReadOK  BY <1>1 DEF IInv, Studied
<1>4. r \in DOMAIN log /\ o \in DOMAIN log
  <2>1. 4 \in Parts  BY DEF Parts
  <2> QED BY <1>2, <1>3, <2>1 DEF IInv, Logged, FileOf, StudyReadOK
<1>5. o = r \/ log[o].outcome = "rolled_back"
  BY <1>2, <1>3 DEF StudyReadOK, ReadOK
<1>6. /\ study'.phase = "accepted" /\ study'.orders = o /\ study'.report = r
      /\ study'.mapping = mapping
  BY <1>2
<1>7. StudyAcceptedOK'
  BY <1>1, <1>2, <1>4, <1>5, <1>6 DEF StudyAcceptedOK
<1>8. Studied'  BY <1>6, <1>7 DEF Studied
<1>9. /\ Types' /\ Logged' /\ Phases' /\ WholeSets' /\ Remembered'
      /\ HoldoutRemembered'
  BY <1>1 DEF IInv, Types, Logged, Phases, EvaluatedOK, BackingUpOK,
              CommittingOK, RollingBackOK, Pending, Found, WholeSets, Broken,
              Remembered, HoldoutRemembered
<1> QED BY <1>1, <1>8, <1>9, SameLogRestores DEF IInv

-----------------------------------------------------------------------------
(* The theorems *)

LEMMA InitHolds == Init => IInv
<1> SUFFICES ASSUME Init  PROVE IInv
  OBVIOUS
<1>1. /\ program \in {"top_of_book", "l2"} /\ market \in Markets
      /\ disk = [n \in Names |-> [k \in Parts |-> 0]]
      /\ hidden = {} /\ log = <<>> /\ training = Idle /\ failures = 0
      /\ study = NoStudy
  BY ArtifactFacts DEF Init, NoTraining
<1>2. /\ disk \in [Names -> Files]
      /\ \A n \in Names, k \in Parts : disk[n][k] = 0
  BY <1>1 DEF Files
<1>3. log \in Seq(LogEntries) /\ Len(log) = 0 /\ DOMAIN log = {}
  BY <1>1
<1>4. Types  BY <1>1, <1>2, <1>3, PipelineAssumption DEF Types
<1>5. Logged  BY <1>1, <1>2, <1>3 DEF Logged
<1>6. training.phase = "idle"  BY <1>1 DEF Idle
<1>7. Phases  BY <1>6 DEF Phases
<1>8. WholeSets
  <2>1. 4 \in Parts  BY DEF Parts
  <2> QED BY <1>1, <1>2, <2>1 DEF WholeSets, Whole
<1>9. Studied  BY <1>1 DEF Studied, NoStudy
<1>10. Remembered /\ HoldoutRemembered
  BY <1>3 DEF Remembered, HoldoutRemembered
<1> QED BY <1>4, <1>5, <1>7, <1>8, <1>9, <1>10 DEF IInv

LEMMA StepKeeps == IInv /\ [Next]_vars => IInv' /\ Restored
<1> SUFFICES ASSUME IInv, [Next]_vars  PROVE IInv' /\ Restored
  OBVIOUS
<1>1. CASE UNCHANGED vars
  <2>1. UNCHANGED <<program, market, disk, hidden, log, training, failures, study>>
    BY <1>1 DEF vars
  <2>2. /\ Types' /\ Logged' /\ Phases' /\ WholeSets' /\ Remembered'
        /\ HoldoutRemembered'
    BY <2>1 DEF IInv, Types, Logged, Phases, EvaluatedOK, BackingUpOK,
                CommittingOK, RollingBackOK, Pending, Found, WholeSets, Broken,
                Remembered, HoldoutRemembered
  <2>3. Studied'
    BY <2>1 DEF IInv, Studied, StudyReadOK, ReadOK, StudyAcceptedOK
  <2> QED BY <2>1, <2>2, <2>3, SameLogRestores DEF IInv
<1>2. CASE Trains  BY <1>2, TrainsKeeps
<1>3. CASE Stages  BY <1>3, StagesKeeps
<1>4. CASE StagingFails  BY <1>4, StagingFailsKeeps
<1>5. CASE BacksUp  BY <1>5, BacksUpKeeps
<1>6. CASE Commits  BY <1>6, CommitsKeeps
<1>7. CASE PublicationFails  BY <1>7, PublicationFailsKeeps
<1>8. CASE RollsBack  BY <1>8, RollsBackKeeps
<1>9. CASE RollbackFails  BY <1>9, RollbackFailsKeeps
<1>10. CASE Dies  BY <1>10, DiesKeeps
<1>11. CASE StudyReads  BY <1>11, StudyReadsKeeps
<1>12. ASSUME NEW name \in Names, NEW mapping \in Mappings,
              StudyVerifies(name, mapping)
       PROVE  IInv' /\ Restored
  BY <1>12, StudyVerifiesKeeps
<1> QED BY <1>1, <1>2, <1>3, <1>4, <1>5, <1>6, <1>7, <1>8, <1>9, <1>10,
           <1>11, <1>12 DEF Next

\* The inductive invariant: how far each training has come with its files, what
\* a rollback still has to do, and what became of each published report.
THEOREM InvariantHolds == Spec => []IInv
<1>1. Init => IInv  BY InitHolds
<1>2. IInv /\ [Next]_vars => IInv'  BY StepKeeps
<1> QED BY <1>1, <1>2, PTL DEF Spec

-----------------------------------------------------------------------------
(* Files of other trainings beside a report *)

\* Every file of d beside its report is the report's own or missing, or is one
\* of those left over by a rollback.
Apart(d, left) == d[4] # 0 =>
    \A k \in Parts : d[k] \in {0, d[4]} \/ <<d[k], k>> \in left

\* A rollback, whichever of its steps fail, has removed what was committed, or
\* has given it up, before it moves the report back.
RemovesFirst ==
    /\ \A k \in Parts : \/ Found[k] \in {0, training.before[k]}
                        \/ Pending("remove", k)
                        \/ <<Found[k], k>> \in unremoved
    /\ Found[4] # 0 => \A k \in Parts : ~ Pending("remove", k)

OwnFiles ==
    /\ \A n \in Names : Apart(disk[n], unremoved)
    /\ training # Idle => Apart(training.before, unremoved)
    /\ training.phase = "rolling_back" => RemovesFirst

\* What is left of a set, and what could not be removed, stands apart as the set
\* did, if its report is the same or missing.
LEMMA PartOfApart ==
  ASSUME NEW d, NEW b, NEW left, Apart(b, left), d[4] \in {0, b[4]},
         d[4] # 0 => \A k \in Parts : d[k] \in {0, b[k]} \/ <<d[k], k>> \in left
  PROVE  Apart(d, left)
<1> SUFFICES ASSUME d[4] # 0, NEW k \in Parts
             PROVE  d[k] \in {0, d[4]} \/ <<d[k], k>> \in left
  BY DEF Apart
<1>1. d[4] = b[4] /\ b[4] # 0  OBVIOUS
<1>2. d[k] = b[k] => b[k] \in {0, d[4]} \/ <<d[k], k>> \in left
  BY <1>1 DEF Apart
<1> QED BY <1>2

\* A step that touches no file, of a training that does not roll back behind it.
LEMMA OwnWithoutFiles ==
  ASSUME OwnFiles, disk' = disk, unremoved \subseteq unremoved',
         training' # Idle => training # Idle /\ training'.before = training.before,
         training'.phase = "rolling_back" => RemovesFirst'
  PROVE  OwnFiles'
<1>1. \A n \in Names : Apart(disk'[n], unremoved')  BY DEF OwnFiles, Apart
<1>2. training' # Idle => Apart(training'.before, unremoved')
  BY DEF OwnFiles, Apart
<1> QED BY <1>1, <1>2 DEF OwnFiles

\* A step that keeps all names but its own, and knows what it leaves there.
LEMMA OwnOfOneName ==
  ASSUME OwnFiles, training # Idle, unremoved' = unremoved,
         \A n \in Names : n # training.name => disk'[n] = disk[n],
         Apart(disk'[training.name], unremoved),
         training' # Idle => training'.before = training.before,
         training'.phase = "rolling_back" => RemovesFirst'
  PROVE  OwnFiles'
<1>1. \A n \in Names : Apart(disk'[n], unremoved')  BY DEF OwnFiles
<1>2. training' # Idle => Apart(training'.before, unremoved')  BY DEF OwnFiles
<1> QED BY <1>1, <1>2 DEF OwnFiles

LEMMA TrainsOwn ==
  ASSUME OwnFiles, Trains
  PROVE  OwnFiles'
<1>1. disk' = disk /\ unremoved' = unremoved  BY DEF Trains
<1>2. PICK name \in Names, horizon \in Horizons, S \in Select :
         TrainsOn(name, horizon, InOrder(S))
  BY DEF Trains
<1>3. training'.before = disk[name] /\ training'.phase = "evaluated"
  BY <1>2 DEF TrainsOn
<1>4. Apart(training'.before, unremoved')  BY <1>1, <1>3 DEF OwnFiles
<1> QED BY <1>1, <1>3, <1>4 DEF OwnFiles

LEMMA BacksUpOwn ==
  ASSUME IInv, OwnFiles, BacksUp
  PROVE  OwnFiles'
<1> DEFINE name == training.name
           k == training.k
<1>1. training.phase = "backing_up" /\ unremoved' = unremoved  BY DEF BacksUp
<1>2. Types /\ BackingUpOK  BY <1>1 DEF IInv, Phases
<1>3. training \in Publishing /\ training # Idle
  BY <1>1, <1>2, ShapeFacts DEF Idle
<1>4. k \in Parts /\ CommitOrder[k] = k
  BY <1>3, ArtifactFacts DEF Publishing
<1>5. /\ training'.before = training.before
      /\ training'.phase \in {"backing_up", "committing"}
  BY <1>1, <1>3 DEF BacksUp, Publishing
<1>6. disk' = [disk EXCEPT ![name][k] = 0]
  BY <1>4 DEF BacksUp, Holds, NoTraining
<1>7. /\ \A n \in Names : n # name => disk'[n] = disk[n]
      /\ disk'[name][k] = 0
      /\ \A a \in Parts : a # k => disk'[name][a] = Found[a]
  BY <1>2, <1>3, <1>4, <1>6, OneFileChanges
<1>8. ASSUME NEW a \in Parts  PROVE disk'[name][a] \in {0, training.before[a]}
  <2>1. a < k \/ a >= k  BY <1>4 DEF Parts
  <2>2. Found[a] \in {0, training.before[a]}  BY <1>2, <2>1 DEF BackingUpOK
  <2> QED BY <1>7, <2>2
<1>9. Apart(disk'[name], unremoved)
  <2>1. 4 \in Parts  BY DEF Parts
  <2>2. Apart(training.before, unremoved)  BY <1>3 DEF OwnFiles
  <2> QED BY <1>8, <2>1, <2>2, PartOfApart
<1> QED BY <1>1, <1>3, <1>5, <1>7, <1>9, OwnOfOneName

LEMMA CommitsOwn ==
  ASSUME IInv, OwnFiles, Commits
  PROVE  OwnFiles'
<1> DEFINE name == training.name
           k == training.k
           last == Len(log)
<1>1. training.phase = "committing" /\ unremoved' = unremoved  BY DEF Commits
<1>2. Types /\ CommittingOK  BY <1>1 DEF IInv, Phases
<1>3. training \in Publishing /\ training # Idle
  BY <1>1, <1>2, ShapeFacts DEF Idle
<1>4. k \in Parts /\ CommitOrder[k] = k /\ last \in Nat
  BY <1>2, <1>3, ArtifactFacts DEF Publishing, Types
<1>5. /\ training' # Idle => training'.before = training.before
      /\ training'.phase # "rolling_back"
  <2>1. CASE k < Len(Artifacts)
    BY <1>1, <1>3, <2>1 DEF Commits, Publishing
  <2>2. CASE ~ (k < Len(Artifacts))
    BY <2>2 DEF Commits, EndsAs, Idle
  <2> QED BY <2>1, <2>2
<1>6. disk' = [disk EXCEPT ![name][k] = last]
  BY <1>4 DEF Commits, Holds
<1>7. /\ \A n \in Names : n # name => disk'[n] = disk[n]
      /\ disk'[name][k] = last
      /\ \A a \in Parts : a # k => disk'[name][a] = Found[a]
  BY <1>2, <1>3, <1>4, <1>6, OneFileChanges
<1>8. Apart(disk'[name], unremoved)
  <2>1. CASE k # 4
    <3>1. 4 \in Parts /\ 4 >= k  BY <1>4, <2>1 DEF Parts
    <3>2. disk'[name][4] = 0  BY <1>2, <1>7, <2>1, <3>1 DEF CommittingOK
    <3> QED BY <3>2 DEF Apart
  <2>2. CASE k = 4
    <3>1. \A a \in Parts : a # 4 => a < k  BY <2>2 DEF Parts
    <3>2. \A a \in Parts : disk'[name][a] = last
      BY <1>2, <1>7, <2>2, <3>1 DEF CommittingOK
    <3>3. 4 \in Parts  BY DEF Parts
    <3> QED BY <3>2, <3>3 DEF Apart
  <2> QED BY <2>1, <2>2
<1> QED BY <1>1, <1>3, <1>5, <1>7, <1>8, OwnOfOneName

\* A rollback begins with all of its steps before it.
LEMMA PublicationFailsOwn ==
  ASSUME IInv, IInv', OwnFiles, PublicationFails
  PROVE  OwnFiles'
<1>1. disk' = disk /\ unremoved' = unremoved /\ training # Idle
  BY DEF PublicationFails, Idle
<1>2. CASE Rollback = <<>>
  <2>1. training' = Idle  BY <1>2 DEF PublicationFails, EndsAs
  <2> QED BY <1>1, <2>1, OwnWithoutFiles DEF Idle
<1>3. CASE Rollback # <<>>
  <2>1. /\ training'.phase = "rolling_back" /\ training'.clean
        /\ training'.before = training.before
    BY <1>3 DEF PublicationFails
  <2>2. RollingBackOK'  BY <2>1 DEF IInv, Phases
  <2>3. RemovesFirst'  BY <2>1, <2>2 DEF RollingBackOK, RemovesFirst
  <2> QED BY <1>1, <2>1, <2>3, OwnWithoutFiles
<1> QED BY <1>2, <1>3

LEMMA RollsBackOwn ==
  ASSUME IInv, OwnFiles, RollsBack
  PROVE  OwnFiles'
<1> DEFINE name == training.name
           step == Head(training.undo)
           op == step[1]
           a == step[2]
           t == Tail(training.undo)
           id == IF op = "remove" THEN 0 ELSE training.before[a]
           after(o, b) == InRange(<<o, b>>, t)
<1>1. /\ training.phase = "rolling_back" /\ RollsBackOne(TRUE)
      /\ unremoved' = unremoved
  BY DEF RollsBack
<1>2. Types /\ Logged /\ Phases  BY DEF IInv
<1>3. /\ training \in RollingBack /\ training # Idle /\ RollingBackOK
      /\ op \in {"remove", "restore"} /\ a \in Parts
      /\ \A o, b : Pending(o, b) <=> (o = op /\ b = a) \/ after(o, b)
      /\ op = "restore" => \A b : ~ after("remove", b)
  BY <1>1, <1>2, RollbackStepFacts
<1>4. RemovesFirst /\ Apart(training.before, unremoved)
  BY <1>1, <1>3 DEF OwnFiles
<1>5. /\ disk' = [disk EXCEPT ![name][a] = id]
      /\ \/ training' = Idle
         \/ training' = [training EXCEPT !.undo = t,
                                         !.clean = training.clean /\ TRUE]
  BY <1>1 DEF RollsBackOne, NoTraining, EndsAs
<1>6. \/ training' = Idle
      \/ /\ training'.before = training.before /\ training'.undo = t
         /\ training'.name = name
  BY <1>3, <1>5 DEF RollingBack
<1>7. id \in Nat  BY <1>3 DEF RollingBack, Files
<1> HIDE DEF id, op, a, step, t
<1>8. /\ \A n \in Names : n # name => disk'[n] = disk[n]
      /\ disk'[name][a] = id
      /\ \A b \in Parts : b # a => disk'[name][b] = Found[b]
  BY <1>2, <1>3, <1>5, <1>7, OneFileChanges
\* what stands there behind this step
<1>9. ASSUME NEW b \in Parts
      PROVE  \/ disk'[name][b] \in {0, training.before[b]}
             \/ after("remove", b)
             \/ <<disk'[name][b], b>> \in unremoved
  <2>1. CASE b = a  BY <1>8, <2>1 DEF id
  <2>2. CASE b # a
    <3>1. Pending("remove", b) => after("remove", b)  BY <1>3, <2>2
    <3>2. disk'[name][b] = Found[b]  BY <1>8, <2>2
    <3> HIDE DEF after
    <3> QED BY <1>4, <3>1, <3>2 DEF RemovesFirst
  <2> QED BY <2>1, <2>2
<1>10. 4 \in Parts  BY DEF Parts
<1>11. ASSUME disk'[name][4] # 0, NEW b \in Parts
       PROVE  ~ after("remove", b)
  <2>1. CASE op = "restore"  BY <1>3, <2>1
  <2>2. CASE op = "remove"
    <3>1. a # 4  BY <1>8, <1>11, <2>2 DEF id
    <3>2. Found[4] # 0  BY <1>8, <1>10, <1>11, <3>1
    <3>3. ~ Pending("remove", b)  BY <1>4, <3>2 DEF RemovesFirst
    <3> QED BY <1>3, <3>3
  <2> QED BY <1>3, <2>1, <2>2
<1>12. disk'[name][4] \in {0, training.before[4]}
  <2>1. Found[4] \in {0, training.before[4]}  BY <1>3 DEF RollingBackOK
  <2> QED BY <1>8, <1>10, <2>1 DEF id
<1>13. Apart(disk'[name], unremoved)
  <2> HIDE DEF after
  <2> QED BY <1>4, <1>9, <1>11, <1>12, PartOfApart
<1>14. training'.phase = "rolling_back" => RemovesFirst'
  <2> SUFFICES ASSUME training'.phase = "rolling_back"  PROVE RemovesFirst'
    OBVIOUS
  <2>1. training' # Idle  BY DEF Idle
  <2>2. /\ training'.before = training.before /\ Found' = disk'[name]
        /\ \A o, b : Pending(o, b)' <=> after(o, b)
    BY <1>6, <2>1 DEF Found, Pending
  <2> HIDE DEF after
  <2> QED BY <1>1, <1>9, <1>11, <2>2 DEF RemovesFirst
<1> QED BY <1>1, <1>3, <1>6, <1>8, <1>13, <1>14, OwnOfOneName

LEMMA RollbackFailsOwn ==
  ASSUME IInv, OwnFiles, RollbackFails
  PROVE  OwnFiles'
<1> DEFINE last == Len(log)
           step == Head(training.undo)
           t == Tail(training.undo)
<1>1. /\ training.phase = "rolling_back" /\ RollsBackOne(FALSE)
      /\ unremoved' = IF step[1] = "restore" THEN unremoved
                      ELSE unremoved \cup {<<last, step[2]>>}
  BY DEF RollbackFails
<1>2. Types /\ Logged /\ Phases  BY DEF IInv
<1>3. /\ training \in RollingBack /\ training # Idle /\ RollingBackOK
      /\ step[1] \in {"remove", "restore"} /\ step[2] \in Parts
      /\ \A op, a : Pending(op, a) <=>
            (op = step[1] /\ a = step[2]) \/ InRange(<<op, a>>, t)
  BY <1>1, <1>2, RollbackStepFacts
<1>4. /\ disk' = disk
      /\ \/ training' = Idle
         \/ training' = [training EXCEPT !.undo = t, !.clean = training.clean /\ FALSE]
  BY <1>1 DEF RollsBackOne, EndsAs
<1>5. \/ training' = Idle
      \/ /\ training'.before = training.before /\ training'.undo = t
         /\ training'.name = training.name
  BY <1>3, <1>4 DEF RollingBack
<1> HIDE DEF step, t
<1>6. unremoved \subseteq unremoved'  BY <1>1
<1>7. training'.phase = "rolling_back" => RemovesFirst'
  <2> SUFFICES ASSUME training'.phase = "rolling_back"  PROVE RemovesFirst'
    OBVIOUS
  <2>1. RemovesFirst  BY <1>1 DEF OwnFiles
  <2>2. training' # Idle  BY DEF Idle
  <2>3. /\ training'.before = training.before /\ Found' = Found
        /\ \A op, a : Pending(op, a)' <=> InRange(<<op, a>>, t)
    BY <1>4, <1>5, <2>2 DEF Found, Pending
  <2>4. ASSUME NEW k \in Parts
        PROVE  \/ Found[k] \in {0, training.before[k]}
               \/ InRange(<<"remove", k>>, t)
               \/ <<Found[k], k>> \in unremoved'
    <3>1. CASE step[1] = "remove" /\ k = step[2]
      <4>1. Pending("remove", k)  BY <1>3, <3>1
      <4>2. Found[k] = last  BY <1>3, <4>1 DEF RollingBackOK
      <4> QED BY <1>1, <3>1, <4>2
    <3>2. CASE ~ (step[1] = "remove" /\ k = step[2])
      <4>1. Pending("remove", k) => InRange(<<"remove", k>>, t)  BY <1>3, <3>2
      <4> QED BY <1>6, <2>1, <4>1 DEF RemovesFirst
    <3> QED BY <3>1, <3>2
  <2>5. Found[4] # 0 => \A k \in Parts : ~ InRange(<<"remove", k>>, t)
    BY <1>3, <2>1 DEF RemovesFirst
  <2> QED BY <2>3, <2>4, <2>5 DEF RemovesFirst
<1> QED BY <1>3, <1>4, <1>5, <1>6, <1>7, OwnWithoutFiles

LEMMA OwnFilesHold == Spec => []OwnFiles
<1>1. Init => OwnFiles
  <2> SUFFICES ASSUME Init  PROVE OwnFiles
    OBVIOUS
  <2>1. /\ disk = [n \in Names |-> [k \in Parts |-> 0]]
        /\ training = Idle /\ training.phase = "idle"
    BY ArtifactFacts DEF Init, NoTraining, Idle
  <2>2. 4 \in Parts  BY DEF Parts
  <2>3. \A n \in Names : disk[n][4] = 0  BY <2>1, <2>2
  <2> QED BY <2>1, <2>3 DEF OwnFiles, Apart
<1>2. IInv /\ IInv' /\ OwnFiles /\ [Next]_vars => OwnFiles'
  <2> SUFFICES ASSUME IInv, IInv', OwnFiles, [Next]_vars  PROVE OwnFiles'
    OBVIOUS
  <2>1. ASSUME disk' = disk, unremoved' = unremoved,
               \/ training' = training
               \/ training' = Idle
               \/ /\ training # Idle /\ training'.before = training.before
                  /\ training'.phase # "rolling_back"
        PROVE  OwnFiles'
    <3>1. CASE training' = training
      <4>1. RemovesFirst' <=> RemovesFirst
        BY <2>1, <3>1 DEF RemovesFirst, Found, Pending
      <4> QED BY <2>1, <3>1, <4>1, OwnWithoutFiles DEF OwnFiles
    <3>2. CASE training' = Idle
      BY <2>1, <3>2, OwnWithoutFiles DEF Idle
    <3> QED BY <2>1, <3>1, <3>2, OwnWithoutFiles
  <2>2. CASE UNCHANGED vars  BY <2>1, <2>2 DEF vars
  <2>3. CASE Trains  BY <2>3, TrainsOwn
  <2>4. CASE Stages
    <3>1. /\ training # Idle /\ training'.before = training.before
          /\ training'.phase # "rolling_back"
      BY <2>4 DEF Stages, Idle
    <3> QED BY <2>1, <2>4, <3>1 DEF Stages
  <2>5. CASE StagingFails  BY <2>1, <2>5 DEF StagingFails, EndsAs
  <2>6. CASE BacksUp  BY <2>6, BacksUpOwn
  <2>7. CASE Commits  BY <2>7, CommitsOwn
  <2>8. CASE PublicationFails  BY <2>8, PublicationFailsOwn
  <2>9. CASE RollsBack  BY <2>9, RollsBackOwn
  <2>10. CASE RollbackFails  BY <2>10, RollbackFailsOwn
  <2>11. CASE Dies  BY <2>1, <2>11 DEF Dies, EndsAs
  <2>12. CASE StudyReads  BY <2>1, <2>12 DEF StudyReads
  <2>13. ASSUME NEW name \in Names, NEW mapping \in Mappings,
                StudyVerifies(name, mapping)
         PROVE  OwnFiles'
    BY <2>1, <2>13 DEF StudyVerifies
  <2> QED BY <2>2, <2>3, <2>4, <2>5, <2>6, <2>7, <2>8, <2>9, <2>10, <2>11,
             <2>12, <2>13 DEF Next
<1> QED BY <1>1, <1>2, InvariantHolds, PTL DEF Spec

-----------------------------------------------------------------------------
(* What the invariants give *)

\* Type correctness of the research programs: an evaluation runs exactly as
\* long as its training, and every file is of a training of its name.
THEOREM TypesHold == Spec => []TypeOK
<1>1. IInv => TypeOK
  <2> SUFFICES ASSUME IInv  PROVE TypeOK
    OBVIOUS
  <2>1. Types /\ Logged  BY DEF IInv
  <2>2. \A i \in DOMAIN log : log[i].outcome \in Outcomes
    <3> TAKE i \in DOMAIN log
    <3>1. log[i] \in LogEntries  BY <2>1 DEF Types
    <3> QED BY <3>1 DEF LogEntries
  <2>3. \A n \in Names, k \in DOMAIN Artifacts :
           disk[n][k] # NoTraining => /\ disk[n][k] \in DOMAIN log
                                      /\ log[disk[n][k]].name = n
                                      /\ log[disk[n][k]].outcome # "failed"
    BY <2>1, ArtifactFacts DEF Logged, FileOf, NoTraining
  <2> QED BY <2>1, <2>2, <2>3 DEF TypeOK, Types, Logged
<1> QED BY <1>1, InvariantHolds, PTL

\* The data of a training that has been evaluated.
LEMMA EvaluatedData ==
  ASSUME IInv, training.phase = "evaluated"
  PROVE  training.sizes \in Seq(Nat) /\ training.horizon \in Nat
<1>1. training \in Evaluated  BY ShapeFacts DEF IInv
<1> QED BY <1>1, PipelineAssumption DEF Evaluated

\* Nothing that is fitted or chosen knows the rows it is scored on, for every
\* recording, horizon and minimum of rows.
THEOREM EvaluationLooksForward == Spec => []EvaluationIsForward
<1>1. IInv => EvaluationIsForward
  <2> SUFFICES ASSUME IInv, training.phase = "evaluated",
                      NEW e \in Evaluations(training.sizes,
                                    Split(training.sizes, training.horizon))
               PROVE  LET sizes == training.sizes
                          h     == training.horizon
                          split == Split(sizes, h)
                          Before(R, S) == \A r \in R, s \in S :
                              LabelOf(sizes, h, r) < EventOf(sizes, h, s)
                      IN /\ Before(e.train, e.validation)
                         /\ Before(e.train \cup e.validation, e.test)
                         /\ e.test # split.test =>
                               Before(e.train \cup e.validation \cup e.test,
                                      split.test)
    BY DEF EvaluationIsForward
  <2>1. training.sizes \in Seq(Nat) /\ training.horizon \in Nat
    BY EvaluatedData
  <2> QED BY <2>1, EvaluationsAreForward DEF Forward
<1> QED BY <1>1, InvariantHolds, PTL

\* The holding periods of two trades of one session never overlap, whatever is
\* signalled and however late.
THEOREM TradesAreApart == Spec => []TradesDoNotOverlap
<1>1. IInv => TradesDoNotOverlap
  <2> SUFFICES ASSUME IInv, training.phase = "evaluated"
               PROVE  LET sizes == training.sizes
                          h     == training.horizon
                          test  == Split(sizes, h).test
                      IN \A signals \in SUBSET test, delay \in 0 .. 2 :
                          LET delayed == Delayed(sizes, test, signals, delay)
                              traded  == Trades(sizes, h, test, delayed)
                          IN /\ traded \subseteq delayed
                             /\ \A a, b \in traded :
                                  a < b /\ SessionOf(sizes, a) = SessionOf(sizes, b) =>
                                     EventIndex(sizes, b) >= EventIndex(sizes, a) + h
    BY DEF TradesDoNotOverlap
  <2> DEFINE sizes == training.sizes
             h     == training.horizon
             test  == Split(sizes, h).test
  <2>1. sizes \in Seq(Nat) /\ h \in Nat  BY EvaluatedData
  <2> HIDE DEF sizes, h
  <2>2. test \in SUBSET (1 .. Size(sizes))  BY <2>1, SplitFacts
  <2> HIDE DEF test
  <2>3. \A signals \in SUBSET test, delay \in 0 .. 2 :
           LET delayed == Delayed(sizes, test, signals, delay)
               traded  == Trades(sizes, h, test, delayed)
           IN /\ traded \subseteq delayed
              /\ \A a, b \in traded :
                    a < b /\ SessionOf(sizes, a) = SessionOf(sizes, b) =>
                        EventIndex(sizes, b) >= EventIndex(sizes, a) + h
    BY <2>1, <2>2, TradesFacts
  <2> QED BY <2>3 DEF test, sizes, h
<1> QED BY <1>1, InvariantHolds, PTL

\* Whichever operation of a publication or of its rollback fails, and wherever
\* the program dies: a file beside a report is the report's own or missing, or
\* is one its own rollback could not remove, and none is missing unless the name
\* is or was being overwritten.  A study is accepted on held-out evidence.
THEOREM ReportsStayUsable == Spec => []ReportsAreUsable
<1>1. IInv /\ OwnFiles => ReportsAreUsable
  <2> SUFFICES ASSUME IInv, OwnFiles  PROVE ReportsAreUsable
    OBVIOUS
  <2>1. /\ Types /\ Logged /\ Phases /\ WholeSets /\ Studied  BY DEF IInv
  <2>2. study.phase = "accepted" =>
           /\ study.mapping = log[study.report].held_out
           /\ \/ study.orders = study.report
              \/ log[study.orders].outcome = "rolled_back"
    BY <2>1 DEF Studied, StudyAcceptedOK
  <2>3. ASSUME NEW n \in Names, disk[n][4] # 0, ~ Damaged(n), NEW k \in Parts
        PROVE  \/ disk[n][k] = disk[n][4]
               \/ Overwritten(n) /\ disk[n][k] = 0
                                 /\ training # Idle /\ training.name = n
                                 /\ training.phase \in {"backing_up", "rolling_back"}
    <3>1. ~ Broken(n)  BY <2>3 DEF Damaged
    <3>2. CASE training # Idle => training.name # n
      BY <2>1, <2>3, <3>1, <3>2 DEF WholeSets, Whole
    <3>3. CASE training # Idle /\ training.name = n
      <4> DEFINE before == training.before
      <4>1. /\ Found = disk[n] /\ Found[4] = before[4]
            /\ Found[4] # 0 /\ 4 \in Parts
        BY <2>1, <2>3, <3>3, ReportIsOld DEF Found, Parts
      <4>2. before[k] = before[4]
        BY <2>1, <3>1, <3>3, <4>1 DEF WholeSets, Whole
      <4>3. Overwritten(n)
        <5>1. /\ Len(log) \in DOMAIN log /\ log[Len(log)].name = n
              /\ log[Len(log)].overwrite
          BY <2>1, <3>3, <4>1 DEF Types, Logged
        <5> QED BY <5>1 DEF Overwritten
      <4>4. \/ Found[k] = before[k]
            \/ Found[k] = 0 /\ training.phase \in {"backing_up", "rolling_back"}
        <5>1. CASE training.phase = "evaluated"
          BY <2>1, <5>1 DEF Phases, EvaluatedOK
        <5>2. CASE training.phase = "backing_up"
          <6>1. training.k \in Parts  BY <2>1, <5>2, ShapeFacts DEF Publishing
          <6>2. k < training.k \/ k >= training.k  BY <6>1 DEF Parts
          <6> QED BY <2>1, <5>2, <6>2 DEF Phases, BackingUpOK
        <5>3. CASE training.phase = "committing"
          <6>1. training.k \in Parts  BY <2>1, <5>3, ShapeFacts DEF Publishing
          <6>2. 4 >= training.k  BY <6>1 DEF Parts
          <6>3. Found[4] = 0  BY <2>1, <4>1, <5>3, <6>2 DEF Phases, CommittingOK
          <6> QED BY <4>1, <6>3
        <5>4. CASE training.phase = "rolling_back"
          <6>1. training.clean  BY <2>3, <3>3, <5>4 DEF Damaged
          <6>2. RollingBackOK  BY <2>1, <5>4 DEF Phases
          <6>3. ~ Pending("remove", k)  BY <4>1, <6>1, <6>2 DEF RollingBackOK
          <6>4. \/ Found[k] \in {0, before[k]}
                \/ Found[k] = before[k]
            BY <6>1, <6>2, <6>3 DEF RollingBackOK
          <6> QED BY <5>4, <6>4
        <5> QED BY <2>1, <3>3, <5>1, <5>2, <5>3, <5>4, ShapeFacts
      <4> QED BY <3>3, <4>1, <4>2, <4>3, <4>4
    <3> QED BY <3>2, <3>3
  <2>4. ASSUME NEW n \in Names, disk[n][4] # 0, Damaged(n), NEW k \in Parts
        PROVE  \/ disk[n][k] = disk[n][4]
               \/ <<disk[n][k], k>> \in unremoved
               \/ /\ disk[n][k] = 0 /\ Overwritten(n)
                  /\ \/ Broken(n)
                     \/ training # Idle /\ training.name = n
                          /\ training.phase \in {"backing_up", "rolling_back"}
    <3>1. disk[n][k] \in {0, disk[n][4]} \/ <<disk[n][k], k>> \in unremoved
      BY <2>4 DEF OwnFiles, Apart
    <3>2. CASE Broken(n)
      <4>1. Overwritten(n)  BY <3>2 DEF Broken, Overwritten
      <4> QED BY <3>1, <3>2, <4>1
    <3>3. CASE training.phase = "rolling_back" /\ training.name = n
      <4>1. training # Idle  BY <3>3 DEF Idle
      <4>2. Found[4] = disk[n][4] /\ 4 \in Parts  BY <3>3 DEF Found, Parts
      <4>3. training.before[4] # 0  BY <2>1, <2>4, <4>1, <4>2, ReportIsOld
      <4>4. /\ Len(log) \in DOMAIN log /\ log[Len(log)].name = n
            /\ log[Len(log)].overwrite
        BY <2>1, <3>3, <4>1, <4>2, <4>3 DEF Types, Logged
      <4>5. Overwritten(n)  BY <4>4 DEF Overwritten
      <4> QED BY <3>1, <3>3, <4>1, <4>5
    <3> QED BY <2>4, <3>2, <3>3 DEF Damaged
  <2> QED BY <2>2, <2>3, <2>4, ArtifactFacts DEF ReportsAreUsable, NoTraining
<1> QED BY <1>1, InvariantHolds, OwnFilesHold, PTL

\* No held-out period is evaluated twice in silence, unless the earlier report
\* is gone for good.
THEOREM HoldoutsAreRemembered == Spec => []HoldoutRemembered
<1>1. IInv => HoldoutRemembered  BY DEF IInv
<1> QED BY <1>1, InvariantHolds, PTL

\* A rollback that fails at no step leaves every file as the training found it.
THEOREM RollbackIsExact == Spec => RollbackRestores
<1>1. IInv /\ [Next]_vars =>
         [\A i \in DOMAIN log :
             log[i].outcome = "running" /\ log'[i].outcome = "rolled_back" =>
                 disk'[training.name] = training.before]_vars
  BY StepKeeps DEF Restored
<1>2. Spec => [][Next]_vars  BY DEF Spec
<1> QED BY <1>1, <1>2, InvariantHolds, PTL DEF RollbackRestores

-----------------------------------------------------------------------------
(***************************************************************************)
(* The desktop shell, whose training threads run the programs above: its   *)
(* own variables, for any number of sessions and trainings.                *)
(***************************************************************************)

(* Its inductive invariant *)

\* The button is off exactly while the window knows a training, and the event
\* of a training is the only one and finds none running.
TrainingSound ==
    /\ train_button <=> training_thread = None
    /\ \A t \in DOMAIN trainings : trainings[t].state = "running" =>
          training_thread = t /\ (closing => trainings[t].late)
    /\ \A i \in DOMAIN events : events[i].kind = "trained" =>
          /\ training_thread # None
          /\ \A t \in DOMAIN trainings : trainings[t].state # "running"
          /\ \A j \in DOMAIN events : events[j].kind = "trained" => i = j

\* A session that began with nothing pending stays the one the window knows,
\* alone and without an end event, until it reports.
SessionSound ==
    \A t \in DOMAIN runners : runners[t].state = "running" /\ ~ runners[t].stale =>
        /\ engine_runner = t /\ ~ destroyed
        /\ \A i \in DOMAIN events : events[i].kind # "end"
        /\ \A u \in DOMAIN runners : u # t => runners[u].state # "running"

ShellInv == ShellTypeOK /\ TrainingSound /\ SessionSound

-----------------------------------------------------------------------------
(* Sequences *)

LEMMA ReplacedFacts ==
  ASSUME NEW S, NEW s \in Seq(S), NEW t \in DOMAIN s, NEW v \in S
  PROVE  LET r == [s EXCEPT ![t] = v]
         IN /\ r \in Seq(S) /\ Len(r) = Len(s) /\ DOMAIN r = DOMAIN s
            /\ r[t] = v /\ \A u \in DOMAIN s : u # t => r[u] = s[u]
OBVIOUS

LEMMA AppendFacts ==
  ASSUME NEW S, NEW s \in Seq(S), NEW v \in S
  PROVE  LET r == Append(s, v)
         IN /\ r \in Seq(S) /\ Len(r) = Len(s) + 1
            /\ DOMAIN r = DOMAIN s \cup {Len(s) + 1}
            /\ DOMAIN s = 1 .. Len(s) /\ Len(s) \in Nat
            /\ r[Len(s) + 1] = v /\ \A u \in DOMAIN s : r[u] = s[u]
OBVIOUS

LEMMA EventTailFacts ==
  ASSUME NEW S, NEW s \in Seq(S), s # <<>>
  PROVE  /\ Tail(s) \in Seq(S) /\ 1 \in DOMAIN s /\ Head(s) = s[1]
         /\ \A i \in DOMAIN Tail(s) :
               i + 1 \in DOMAIN s /\ Tail(s)[i] = s[i + 1] /\ i + 1 # 1
               /\ i \in Nat
OBVIOUS

-----------------------------------------------------------------------------
(* Every step preserves the invariant *)

\* A thread that runs is no dead one.
LEMMA RunningFacts ==
  /\ Dead.state = "dead"
  /\ \A r \in Runner : r.state # "dead" =>
        /\ r \in [mode : {"live", "replay"}, asked : BOOLEAN,
                  state : {"running", "reported"}, stale : BOOLEAN]
        /\ [r EXCEPT !.state = "reported"] \in Runner
        /\ [r EXCEPT !.asked = TRUE] \in Runner
  /\ \A r \in Training : r.state # "dead" =>
        [r EXCEPT !.state = "reported"] \in Training
<1>1. Dead.state = "dead"  BY DEF Dead
<1>2. ASSUME NEW r \in Runner, r.state # "dead"
      PROVE  /\ r \in [mode : {"live", "replay"}, asked : BOOLEAN,
                       state : {"running", "reported"}, stale : BOOLEAN]
             /\ [r EXCEPT !.state = "reported"] \in Runner
             /\ [r EXCEPT !.asked = TRUE] \in Runner
  <2>1. r \in [mode : {"live", "replay"}, asked : BOOLEAN,
               state : {"running", "reported"}, stale : BOOLEAN]
    BY <1>1, <1>2 DEF Runner
  <2>2. [r EXCEPT !.state = "reported"] \in Runner  BY <2>1 DEF Runner
  <2>3. [r EXCEPT !.asked = TRUE] \in Runner  BY <2>1 DEF Runner
  <2> QED BY <2>1, <2>2, <2>3
<1>3. ASSUME NEW r \in Training, r.state # "dead"
      PROVE  [r EXCEPT !.state = "reported"] \in Training
  <2>1. r \in [state : {"running", "reported"}, late : BOOLEAN]
    BY <1>1, <1>3 DEF Training
  <2> QED BY <2>1 DEF Training
<1> QED BY <1>1, <1>2, <1>3

LEMMA InitEstablishes == ShellInit => ShellInv
<1> SUFFICES ASSUME ShellInit PROVE ShellInv
  OBVIOUS
<1>1. ShellTypeOK
  <2>1. /\ runners \in Seq(Runner) /\ trainings \in Seq(Training)
        /\ events \in Seq(Event)
    BY DEF ShellInit
  <2>2. engine_runner \in 0 .. Len(runners)
        /\ training_thread \in 0 .. Len(trainings)
    BY DEF ShellInit, None
  <2>3. /\ live_start \in BOOLEAN /\ train_button \in BOOLEAN
        /\ closing \in BOOLEAN /\ destroyed \in BOOLEAN
    BY DEF ShellInit
  <2> QED BY <2>1, <2>2, <2>3 DEF ShellInit, ShellTypeOK
<1>2. TrainingSound  BY DEF ShellInit, TrainingSound
<1>3. SessionSound  BY DEF ShellInit, SessionSound
<1> QED BY <1>1, <1>2, <1>3 DEF ShellInv

\* A session starts.
LEMMA StartsPreserves ==
  ASSUME ShellInv, NEW mode \in {"live", "replay"}, Starts(mode),
         live_start' \in BOOLEAN
  PROVE  ShellInv'
<1> USE DEF ShellInv, Starts
<1> DEFINE new == [mode |-> mode, state |-> "running", asked |-> FALSE,
                   stale |-> EndPending]
           n == Len(runners) + 1
<1>1. /\ EndPending \in BOOLEAN /\ new \in Runner
      /\ new.state = "running" /\ new.stale = EndPending
  BY DEF EndPending, Runner
<1> HIDE DEF new
<1>2. /\ runners' = Append(runners, new) /\ runners' \in Seq(Runner)
      /\ Len(runners') = n /\ DOMAIN runners' = DOMAIN runners \cup {n}
      /\ n \notin DOMAIN runners /\ n # None /\ n \in Nat
      /\ runners'[n] = new /\ \A u \in DOMAIN runners : runners'[u] = runners[u]
  BY <1>1, AppendFacts DEF ShellTypeOK, None, new
<1>3. ShellTypeOK'  BY <1>2 DEF ShellTypeOK
<1>4. TrainingSound'  BY DEF TrainingSound
<1>5. SessionSound'
  <2> SUFFICES ASSUME NEW t \in DOMAIN runners', runners'[t].state = "running",
                      ~ runners'[t].stale
               PROVE  /\ engine_runner' = t /\ ~ destroyed'
                      /\ \A i \in DOMAIN events' : events'[i].kind # "end"
                      /\ \A u \in DOMAIN runners' :
                            u # t => runners'[u].state # "running"
    BY DEF SessionSound
  <2>1. CASE t = n
    BY <1>1, <1>2, <2>1 DEF EndPending, MainThread
  <2>2. CASE t \in DOMAIN runners
    <3>1. engine_runner = t  BY <1>2, <2>2 DEF SessionSound
    <3>2. RunnerBusy
      BY <1>2, <2>2, <3>1 DEF RunnerBusy, RunnerRuns, Alive, None, ShellTypeOK
    <3> QED BY <3>2
  <2> QED BY <1>2, <2>1, <2>2
<1> QED BY <1>3, <1>4, <1>5

\* A session that runs is asked to stop.
LEMMA AskedFacts ==
  ASSUME ShellTypeOK, RunnerBusy
  PROVE  LET r == Asked(engine_runner)
         IN /\ engine_runner \in DOMAIN runners
            /\ r \in Seq(Runner) /\ Len(r) = Len(runners)
            /\ DOMAIN r = DOMAIN runners
            /\ \A t \in DOMAIN r : /\ r[t].state = runners[t].state
                                   /\ r[t].state = "running" =>
                                        r[t].stale = runners[t].stale
<1> DEFINE e == engine_runner
           v == [runners[e] EXCEPT !.asked = TRUE]
<1>1. /\ e \in DOMAIN runners /\ runners[e] \in Runner
      /\ runners[e].state # "dead"
  BY DEF ShellTypeOK, RunnerBusy, RunnerRuns, Alive, None
<1>2. runners[e] \in [mode : {"live", "replay"}, asked : BOOLEAN,
                      state : {"running", "reported"}, stale : BOOLEAN]
  BY <1>1, RunningFacts
<1>3. /\ v \in Runner /\ v.state = runners[e].state
      /\ v.stale = runners[e].stale
  BY <1>1, <1>2, RunningFacts
<1>4. Asked(e) = [runners EXCEPT ![e] = v]  BY DEF Asked
<1> HIDE DEF v, e
<1>5. LET r == [runners EXCEPT ![e] = v]
      IN /\ r \in Seq(Runner) /\ Len(r) = Len(runners)
         /\ DOMAIN r = DOMAIN runners
         /\ r[e] = v /\ \A u \in DOMAIN runners : u # e => r[u] = runners[u]
  BY <1>1, <1>3, ReplacedFacts DEF ShellTypeOK
<1> QED BY <1>1, <1>3, <1>4, <1>5 DEF e

\* Nothing but the mark of a session changes, or the window with it.
LEMMA AskingPreserves ==
  ASSUME ShellInv, StopEngine \/ OnClose
  PROVE  ShellInv'
<1> USE DEF ShellInv
<1>1. /\ runners' \in Seq(Runner) /\ Len(runners') = Len(runners)
      /\ DOMAIN runners' = DOMAIN runners
      /\ \A t \in DOMAIN runners' :
            /\ runners'[t].state = runners[t].state
            /\ runners'[t].state = "running" =>
                  runners'[t].stale = runners[t].stale
  BY AskedFacts DEF StopEngine, OnClose, ClosesRunner, ShellTypeOK
<1>2. /\ UNCHANGED <<engine_runner, trainings, training_thread, events,
                     train_button, poll>>
      /\ live_start' \in BOOLEAN /\ closing' \in BOOLEAN
      /\ destroyed' \in BOOLEAN
  BY DEF StopEngine, OnClose, ShellTypeOK
<1>3. destroyed' => destroyed \/ ~ RunnerBusy
  BY DEF StopEngine, OnClose
<1>4. closing' => closing \/ ~ Alive(trainings, training_thread)
  BY DEF StopEngine, OnClose
<1>5. ShellTypeOK'  BY <1>1, <1>2 DEF ShellTypeOK
<1>6. TrainingSound'
  <2>1. ASSUME NEW t \in DOMAIN trainings, trainings[t].state = "running"
        PROVE  closing' => trainings[t].late
    <3>1. training_thread = t  BY <2>1 DEF TrainingSound
    <3>2. Alive(trainings, training_thread)
      BY <2>1, <3>1 DEF Alive, None, ShellTypeOK
    <3> QED BY <1>4, <2>1, <3>2 DEF TrainingSound
  <2> QED BY <1>2, <2>1 DEF TrainingSound
<1>7. SessionSound'
  <2> SUFFICES ASSUME NEW t \in DOMAIN runners, runners[t].state = "running",
                      ~ runners[t].stale
               PROVE  /\ engine_runner = t /\ ~ destroyed'
                      /\ \A i \in DOMAIN events : events[i].kind # "end"
                      /\ \A u \in DOMAIN runners :
                            u # t => runners[u].state # "running"
    BY <1>1, <1>2 DEF SessionSound
  <2>1. engine_runner = t /\ ~ destroyed  BY DEF SessionSound
  <2>2. RunnerBusy
    BY <2>1 DEF RunnerBusy, RunnerRuns, Alive, None, ShellTypeOK
  <2> QED BY <1>3, <2>1, <2>2 DEF SessionSound
<1> QED BY <1>5, <1>6, <1>7

\* A session reports, or dies.
LEMMA RunnerPreserves ==
  ASSUME ShellInv, NEW t \in DOMAIN runners, RunnerReports(t) \/ RunnerDies(t)
  PROVE  ShellInv'
<1> USE DEF ShellInv
<1>1. /\ runners' \in Seq(Runner) /\ Len(runners') = Len(runners)
      /\ DOMAIN runners' = DOMAIN runners
      /\ runners'[t].state # "running"
      /\ \A u \in DOMAIN runners : u # t => runners'[u] = runners[u]
  <2>1. runners[t] \in Runner  BY DEF ShellTypeOK
  <2>2. CASE RunnerReports(t)
    <3> DEFINE v == [runners[t] EXCEPT !.state = "reported"]
    <3>1. v \in Runner  BY <2>1, <2>2, RunningFacts DEF RunnerReports
    <3>2. runners[t] \in [mode : {"live", "replay"}, asked : BOOLEAN,
                          state : {"running", "reported"}, stale : BOOLEAN]
      BY <2>1, <2>2, RunningFacts DEF RunnerReports
    <3>3. v.state = "reported"  BY <3>2
    <3>4. runners' = [runners EXCEPT ![t] = v]  BY <2>2 DEF RunnerReports
    <3> HIDE DEF v
    <3> QED BY <3>1, <3>3, <3>4, ReplacedFacts DEF ShellTypeOK
  <2>3. CASE RunnerDies(t)
    <3>1. Dead \in Runner  BY DEF Runner
    <3>2. runners' = [runners EXCEPT ![t] = Dead]  BY <2>3 DEF RunnerDies
    <3> QED BY <3>1, <3>2, ReplacedFacts, RunningFacts DEF ShellTypeOK
  <2> QED BY <2>2, <2>3
<1>2. /\ events' \in Seq(Event) /\ DOMAIN events \subseteq DOMAIN events'
      /\ \A i \in DOMAIN events : events'[i] = events[i]
      /\ \A i \in DOMAIN events' \ DOMAIN events :
            events'[i].kind = "end" /\ runners[t].state = "running"
  <2>1. CASE RunnerReports(t)
    <3>1. PICK kind \in {"complete", "error"} :
            events' = Append(events, [kind |-> "end", outcome |-> kind])
      BY <2>1 DEF RunnerReports
    <3>2. [kind |-> "end", outcome |-> kind] \in Event  BY DEF Event
    <3> QED BY <2>1, <3>1, <3>2, AppendFacts DEF ShellTypeOK, RunnerReports
  <2>2. CASE RunnerDies(t)  BY <2>2 DEF RunnerDies, ShellTypeOK
  <2> QED BY <2>1, <2>2
<1>3. UNCHANGED <<engine_runner, trainings, training_thread, live_start,
                  train_button, poll, closing, destroyed>>
  BY DEF RunnerReports, RunnerDies
<1>4. ShellTypeOK'  BY <1>1, <1>2, <1>3 DEF ShellTypeOK
<1>5. TrainingSound'
  <2>1. \A i \in DOMAIN events' : events'[i].kind = "trained" =>
           i \in DOMAIN events /\ events[i].kind = "trained"
    BY <1>2
  <2> QED BY <1>3, <2>1 DEF TrainingSound
<1>6. SessionSound'
  <2> SUFFICES ASSUME NEW u \in DOMAIN runners, runners'[u].state = "running",
                      ~ runners'[u].stale
               PROVE  /\ engine_runner = u /\ ~ destroyed
                      /\ \A i \in DOMAIN events' : events'[i].kind # "end"
                      /\ \A w \in DOMAIN runners :
                            w # u => runners'[w].state # "running"
    BY <1>1, <1>3 DEF SessionSound
  <2>1. u # t /\ runners[u].state = "running" /\ ~ runners[u].stale
    BY <1>1
  <2>2. runners[t].state # "running"  BY <2>1 DEF SessionSound
  <2> QED BY <1>1, <1>2, <2>1, <2>2 DEF SessionSound
<1> QED BY <1>4, <1>5, <1>6

LEMMA StartTrainingPreserves ==
  ASSUME ShellInv, StartTraining
  PROVE  ShellInv'
<1> USE DEF ShellInv, StartTraining
<1> DEFINE new == [state |-> "running", late |-> closing]
           n == Len(trainings) + 1
<1>1. new \in Training /\ new.late = closing
  BY DEF ShellTypeOK, Training
<1> HIDE DEF new
<1>2. /\ trainings' = Append(trainings, new) /\ trainings' \in Seq(Training)
      /\ Len(trainings') = n /\ DOMAIN trainings' = DOMAIN trainings \cup {n}
      /\ n # None /\ n \in Nat /\ trainings'[n] = new
      /\ \A u \in DOMAIN trainings : trainings'[u] = trainings[u]
  BY <1>1, AppendFacts DEF ShellTypeOK, None, new
<1>3. ShellTypeOK'
  <2>1. training_thread' \in 0 .. Len(trainings')  BY <1>2
  <2>2. train_button' \in BOOLEAN  BY DEF TrainButtonOff
  <2> QED BY <1>2, <2>1, <2>2 DEF ShellTypeOK
<1>4. /\ training_thread = None
      /\ \A t \in DOMAIN trainings : trainings[t].state # "running"
      /\ \A i \in DOMAIN events : events[i].kind # "trained"
  BY DEF TrainingSound, ShellTypeOK, None
<1>5. TrainingSound'
  BY <1>1, <1>2, <1>4 DEF TrainingSound, TrainButtonOff
<1>6. SessionSound'  BY DEF SessionSound
<1> QED BY <1>3, <1>5, <1>6

\* A training reports, or dies.
LEMMA TrainingPreserves ==
  ASSUME ShellInv, NEW t \in DOMAIN trainings, TrainingReports(t) \/ TrainingDies(t)
  PROVE  ShellInv'
<1> USE DEF ShellInv
<1>1. /\ trainings' \in Seq(Training) /\ Len(trainings') = Len(trainings)
      /\ DOMAIN trainings' = DOMAIN trainings
      /\ trainings'[t].state # "running"
      /\ \A u \in DOMAIN trainings : u # t => trainings'[u] = trainings[u]
  <2>1. trainings[t] \in Training  BY DEF ShellTypeOK
  <2>2. CASE TrainingReports(t)
    <3> DEFINE v == [trainings[t] EXCEPT !.state = "reported"]
    <3>1. v \in Training  BY <2>1, <2>2, RunningFacts DEF TrainingReports
    <3>2. v.state = "reported"
      BY <2>1, <2>2 DEF TrainingReports, Training, Dead
    <3>3. trainings' = [trainings EXCEPT ![t] = v]
      BY <2>2 DEF TrainingReports
    <3> HIDE DEF v
    <3> QED BY <3>1, <3>2, <3>3, ReplacedFacts DEF ShellTypeOK
  <2>3. CASE TrainingDies(t)
    <3>1. Dead \in Training  BY DEF Training
    <3>2. trainings' = [trainings EXCEPT ![t] = Dead]
      BY <2>3 DEF TrainingDies
    <3> QED BY <3>1, <3>2, ReplacedFacts, RunningFacts DEF ShellTypeOK
  <2> QED BY <2>2, <2>3
<1>2. /\ events' \in Seq(Event) /\ DOMAIN events \subseteq DOMAIN events'
      /\ \A i \in DOMAIN events : events'[i] = events[i]
      /\ \A i, j \in DOMAIN events' \ DOMAIN events : i = j
      /\ \A i \in DOMAIN events' \ DOMAIN events :
            events'[i].kind = "trained" /\ trainings[t].state = "running"
  <2>1. CASE TrainingReports(t)
    <3>1. PICK outcome \in {"complete", "error"} :
            events' = Append(events, [kind |-> "trained", outcome |-> outcome])
      BY <2>1 DEF TrainingReports
    <3>2. [kind |-> "trained", outcome |-> outcome] \in Event  BY DEF Event
    <3> QED BY <2>1, <3>1, <3>2, AppendFacts DEF ShellTypeOK, TrainingReports
  <2>2. CASE TrainingDies(t)  BY <2>2 DEF TrainingDies, ShellTypeOK
  <2> QED BY <2>1, <2>2
<1>3. UNCHANGED <<runners, engine_runner, training_thread, live_start,
                  train_button, poll, closing, destroyed>>
  BY DEF TrainingReports, TrainingDies
<1>4. ShellTypeOK'  BY <1>1, <1>2, <1>3 DEF ShellTypeOK
<1>5. TrainingSound'
  <2>1. \A u \in DOMAIN trainings' : trainings'[u].state = "running" =>
           training_thread = u /\ (closing => trainings'[u].late)
    BY <1>1 DEF TrainingSound
  <2>2. ASSUME NEW i \in DOMAIN events', events'[i].kind = "trained"
        PROVE  /\ training_thread # None
               /\ \A u \in DOMAIN trainings' : trainings'[u].state # "running"
               /\ \A j \in DOMAIN events' : events'[j].kind = "trained" => i = j
    <3>1. CASE trainings[t].state = "running"
      <4>1. training_thread = t /\ t # None
        BY <3>1 DEF TrainingSound, ShellTypeOK, None
      <4>2. \A j \in DOMAIN events : events[j].kind # "trained"
        BY <3>1 DEF TrainingSound
      <4> QED BY <1>1, <1>2, <2>1, <2>2, <4>1, <4>2
    <3>2. CASE trainings[t].state # "running"
      <4>1. DOMAIN events' = DOMAIN events  BY <1>2, <3>2
      <4> QED BY <1>1, <1>2, <2>2, <4>1 DEF TrainingSound
    <3> QED BY <3>1, <3>2
  <2> QED BY <1>3, <2>1, <2>2 DEF TrainingSound
<1>6. SessionSound'
  <2>1. \A i \in DOMAIN events' : events'[i].kind = "end" =>
           i \in DOMAIN events /\ events[i].kind = "end"
    BY <1>2
  <2> QED BY <1>3, <2>1 DEF SessionSound
<1> QED BY <1>4, <1>5, <1>6

\* The poll handles an event, of either kind.
LEMMA HandlerPreserves ==
  ASSUME ShellInv, HandleEnd \/ HandleTrained
  PROVE  ShellInv'
<1> USE DEF ShellInv
<1>1. /\ events' = Tail(events) /\ events \in Seq(Event) /\ events # <<>>
      /\ UNCHANGED <<runners, trainings, closing>>
  BY DEF HandleEnd, HandleTrained, ShellTypeOK
<1>2. /\ events' \in Seq(Event) /\ 1 \in DOMAIN events
      /\ Head(events) = events[1]
      /\ \A i \in DOMAIN events' :
            i + 1 \in DOMAIN events /\ events'[i] = events[i + 1] /\ i + 1 # 1
            /\ i \in Nat
  BY <1>1, EventTailFacts
<1>3. ShellTypeOK'
  <2>1. /\ engine_runner' \in {engine_runner, 0}
        /\ training_thread' \in {training_thread, 0}
        /\ poll' \in {poll, "lost"}
    BY DEF HandleEnd, HandleTrained, None
  <2>2. /\ live_start' \in BOOLEAN /\ train_button' \in BOOLEAN
        /\ destroyed' \in BOOLEAN
    BY DEF HandleEnd, HandleTrained, ShellTypeOK
  <2> QED BY <1>1, <1>2, <2>1, <2>2 DEF ShellTypeOK
<1>4. CASE HandleEnd
  <2>1. events[1].kind = "end" /\ UNCHANGED <<training_thread, train_button>>
    BY <1>2, <1>4 DEF HandleEnd
  <2>2. TrainingSound'
    <3>1. ASSUME NEW i \in DOMAIN events', events'[i].kind = "trained"
          PROVE  \A j \in DOMAIN events' : events'[j].kind = "trained" => i = j
      <4>1. events[i + 1].kind = "trained"  BY <1>2, <3>1
      <4>2. \A j \in DOMAIN events' : events'[j].kind = "trained" =>
               i + 1 = j + 1
        BY <1>2, <4>1 DEF TrainingSound
      <4> QED BY <1>2, <4>2
    <3> QED BY <1>1, <1>2, <2>1, <3>1 DEF TrainingSound
  <2>3. SessionSound'  BY <1>1, <1>2, <2>1 DEF SessionSound
  <2> QED BY <1>3, <2>2, <2>3
<1>5. CASE HandleTrained
  <2>1. /\ events[1].kind = "trained" /\ training_thread' = None
        /\ train_button' = TRUE /\ UNCHANGED <<engine_runner, destroyed>>
    BY <1>2, <1>5 DEF HandleTrained
  <2>2. \A i \in DOMAIN events' : events'[i].kind # "trained"
    BY <1>2, <2>1 DEF TrainingSound
  <2>3. \A t \in DOMAIN trainings : trainings[t].state # "running"
    BY <1>2, <2>1 DEF TrainingSound
  <2>4. TrainingSound'  BY <1>1, <2>1, <2>2, <2>3 DEF TrainingSound
  <2>5. SessionSound'  BY <1>1, <1>2, <2>1 DEF SessionSound
  <2> QED BY <1>3, <2>4, <2>5
<1> QED BY <1>4, <1>5

\* The poll begins, or ends: it destroys the window only without a session.
LEMMA PollPreserves ==
  ASSUME ShellInv, PollBegins \/ PollEnds
  PROVE  ShellInv'
<1> USE DEF ShellInv
<1>1. /\ UNCHANGED <<runners, engine_runner, trainings, training_thread,
                     events, live_start, train_button, closing>>
      /\ poll' \in {"scheduled", "draining"} /\ destroyed' \in BOOLEAN
      /\ destroyed' => destroyed \/ engine_runner = None
  BY DEF PollBegins, PollEnds, ShellTypeOK
<1>2. ShellTypeOK'  BY <1>1 DEF ShellTypeOK
<1>3. TrainingSound'  BY <1>1 DEF TrainingSound
<1>4. SessionSound'
  <2>1. \A t \in DOMAIN runners : t # None  BY DEF ShellTypeOK, None
  <2> QED BY <1>1, <2>1 DEF SessionSound
<1> QED BY <1>2, <1>3, <1>4

LEMMA StepsPreserve ==
  ASSUME ShellInv, [ShellNext]_shellVars
  PROVE  ShellInv'
<1>1. CASE StartLiveCapture
  BY <1>1, StartsPreserves DEF StartLiveCapture
<1>2. CASE \E mode \in {"live", "replay"} : StartAlpha(mode)
  <2>1. PICK mode \in {"live", "replay"} : StartAlpha(mode)  BY <1>2
  <2>2. live_start' \in BOOLEAN  BY <2>1 DEF StartAlpha, ShellInv, ShellTypeOK
  <2> QED BY <2>1, <2>2, StartsPreserves DEF StartAlpha
<1>3. CASE StopEngine \/ OnClose  BY <1>3, AskingPreserves
<1>4. CASE StartTraining  BY <1>4, StartTrainingPreserves
<1>5. CASE PollBegins \/ PollEnds  BY <1>5, PollPreserves
<1>6. CASE HandleEnd \/ HandleTrained  BY <1>6, HandlerPreserves
<1>7. CASE \E t \in DOMAIN runners : RunnerReports(t) \/ RunnerDies(t)
  BY <1>7, RunnerPreserves
<1>8. CASE \E t \in DOMAIN trainings : TrainingReports(t) \/ TrainingDies(t)
  BY <1>8, TrainingPreserves
<1>9. CASE UNCHANGED shellVars
  BY <1>9 DEF shellVars, ShellInv, ShellTypeOK, TrainingSound, SessionSound
<1> QED BY <1>1, <1>2, <1>3, <1>4, <1>5, <1>6, <1>7, <1>8, <1>9 DEF ShellNext

-----------------------------------------------------------------------------
\* The inductive invariant of the desktop shell.
THEOREM ShellInvariantHolds == ShellSpec => []ShellInv
<1>1. ShellInit => ShellInv  BY InitEstablishes
<1>2. ShellInv /\ [ShellNext]_shellVars => ShellInv'  BY StepsPreserve
<1> QED BY <1>1, <1>2, PTL DEF ShellSpec

\* The window never knows a thread that was not started, and every event is
\* one a handler expects.
THEOREM ShellTypesHold == ShellSpec => []ShellTypeOK
<1>1. ShellInv => ShellTypeOK  BY DEF ShellInv
<1> QED BY <1>1, ShellInvariantHolds, PTL

\* However often its button is pressed and whenever it reports, one training
\* runs at a time and the window does not close over it.
THEOREM TrainingsAreSerialized == ShellSpec => []TrainingIsSerialized
<1>1. ShellInv => TrainingIsSerialized
  BY DEF ShellInv, TrainingSound, TrainingIsSerialized
<1> QED BY <1>1, ShellInvariantHolds, PTL

\* A session that began with nothing pending keeps the window until it ends.
THEOREM SessionsStayOwned == ShellSpec => []SessionsAreOwned
<1>1. ShellInv => SessionsAreOwned  BY DEF ShellInv, SessionSound, SessionsAreOwned
<1> QED BY <1>1, ShellInvariantHolds, PTL
=============================================================================
