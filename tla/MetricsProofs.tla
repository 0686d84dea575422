----------------------------- MODULE MetricsProofs -----------------------------
(***************************************************************************)
(* Theorems about the report: its figures agree, for any number of rows of *)
(* any kinds.                                                              *)
(***************************************************************************)
EXTENDS Metrics, SelectionLemmas

\* any rows, logged one after the other
RowsSpec == InitRows /\ [][LogRow]_rows

LEMMA RowsTyped == RowsSpec => [](rows \in Seq(RowKinds))
  <1>1. InitRows => rows \in Seq(RowKinds)
    BY DEF InitRows
  <1>2. rows \in Seq(RowKinds) /\ [LogRow]_rows => (rows \in Seq(RowKinds))'
    BY DEF LogRow
  <1>3. QED
    BY <1>1, <1>2, PTL DEF RowsSpec

-----------------------------------------------------------------------------
(* Sums.                                                                   *)

Sums(s, n, f) ==
  /\ f \in [0..n -> Int]
  /\ f[0] = 0
  /\ \A k \in 1..n : f[k] = f[k - 1] + s[k]

LEMMA SumsExist ==
  ASSUME NEW n \in Nat, NEW s, \A k \in 1..n : s[k] \in Int
  PROVE  \E f : Sums(s, n, f)
  <1> DEFINE S == {m \in Nat : m <= n => \E f : Sums(s, m, f)}
  <1>1. 0 \in S
    <2>1. Sums(s, 0, [k \in 0..0 |-> 0])
      BY DEF Sums
    <2>2. QED
      BY <2>1
  <1>2. ASSUME NEW m \in Nat, m \in S
        PROVE  m + 1 \in S
    <2> SUFFICES ASSUME m + 1 <= n
                 PROVE  \E f : Sums(s, m + 1, f)
      OBVIOUS
    <2>1. PICK f : Sums(s, m, f)
      BY <1>2
    <2> DEFINE g == [k \in 0..(m + 1) |-> IF k = m + 1 THEN f[m] + s[m + 1] ELSE f[k]]
    <2>2. f[m] \in Int /\ s[m + 1] \in Int
      BY <2>1 DEF Sums
    <2>3. g \in [0..(m + 1) -> Int] /\ g[0] = 0
      BY <2>1, <2>2 DEF Sums
    <2>4. ASSUME NEW k \in 1..(m + 1)
          PROVE  g[k] = g[k - 1] + s[k]
      <3>1. CASE k = m + 1
        BY <3>1
      <3>2. CASE k # m + 1
        <4>1. k \in 1..m
          BY <3>2
        <4>2. f[k] = f[k - 1] + s[k]
          BY <2>1, <4>1 DEF Sums
        <4>3. g[k] = f[k] /\ g[k - 1] = f[k - 1]
          BY <4>1
        <4>4. QED
          BY <4>2, <4>3
      <3>3. QED
        BY <3>1, <3>2
    <2>5. QED
      BY <2>3, <2>4 DEF Sums
  <1> HIDE DEF S
  <1>3. Nat \subseteq S
    BY <1>1, <1>2, SetInduction
  <1>4. QED
    BY <1>3 DEF S

LEMMA SumFacts ==
  ASSUME NEW s, Len(s) \in Nat, \A k \in 1..Len(s) : s[k] \in Int
  PROVE  \E f : Sums(s, Len(s), f) /\ SumOf(s) = f[Len(s)]
  <1> DEFINE n == Len(s)
             Def(f) == [k \in 0..n |-> IF k = 0 THEN 0 ELSE f[k - 1] + s[k]]
             upTo == CHOOSE f : f = Def(f)
  <1>1. n \in Nat
    OBVIOUS
  <1> HIDE DEF n
  <1>2. \E f : f = Def(f)
    <2>1. PICK f : Sums(s, n, f)
      BY <1>1, SumsExist DEF n
    <2>2. f = Def(f)
      BY <2>1 DEF Sums
    <2>3. QED
      BY <2>2
  <1>3. upTo = Def(upTo)
    BY <1>2
  <1> HIDE DEF upTo
  <1>4. SumOf(s) = upTo[n]
    BY DEF SumOf, upTo, n
  <1>5. /\ DOMAIN upTo = 0..n /\ upTo[0] = 0
        /\ \A k \in 1..n : upTo[k] = upTo[k - 1] + s[k]
    BY <1>1, <1>3
  <1> DEFINE S == {m \in Nat : m <= n => upTo[m] \in Int}
  <1>6. Nat \subseteq S
    <2>1. 0 \in S
      BY <1>5
    <2>2. ASSUME NEW m \in Nat, m \in S
          PROVE  m + 1 \in S
      <3> SUFFICES ASSUME m + 1 <= n
                   PROVE  upTo[m + 1] \in Int
        OBVIOUS
      <3>1. upTo[m] \in Int /\ upTo[m + 1] = upTo[m] + s[m + 1] /\ s[m + 1] \in Int
        BY <1>1, <1>5, <2>2 DEF n
      <3>2. QED
        BY <3>1
    <2> HIDE DEF S
    <2>3. QED
      BY <2>1, <2>2, SetInduction
  <1>7. upTo = [k \in 0..n |-> upTo[k]]
    BY <1>3
  <1>8. Sums(s, n, upTo)
    <2>1. \A m \in 0..n : upTo[m] \in Int
      BY <1>1, <1>6
    <2>2. QED
      BY <1>5, <1>7, <2>1 DEF Sums
  <1>9. QED
    BY <1>4, <1>8 DEF n

LEMMA Multiples ==
  ASSUME NEW x \in Int, NEW k \in Nat
  PROVE  x * (k + 1) = x * k + x
  OBVIOUS

LEMMA SumBetween ==
  ASSUME NEW s, Len(s) \in Nat, \A k \in 1..Len(s) : s[k] \in Int,
         NEW low \in Int, NEW high \in Int,
         \A k \in 1..Len(s) : low <= s[k] /\ s[k] <= high
  PROVE  low * Len(s) <= SumOf(s) /\ SumOf(s) <= high * Len(s)
  <1> DEFINE n == Len(s)
  <1>1. PICK f : Sums(s, n, f) /\ SumOf(s) = f[n]
    BY SumFacts
  <1>2. n \in Nat /\ \A k \in 1..n : s[k] \in Int /\ low <= s[k] /\ s[k] <= high
    OBVIOUS
  <1> HIDE DEF n
  <1> DEFINE S == {m \in Nat : m <= n => low * m <= f[m] /\ f[m] <= high * m}
  <1>3. 0 \in S
    BY <1>1 DEF Sums
  <1>4. ASSUME NEW m \in Nat, m \in S
        PROVE  m + 1 \in S
    <2> SUFFICES ASSUME m + 1 <= n
                 PROVE  low * (m + 1) <= f[m + 1] /\ f[m + 1] <= high * (m + 1)
      OBVIOUS
    <2>1. /\ f[m] \in Int /\ f[m + 1] = f[m] + s[m + 1]
          /\ s[m + 1] \in Int /\ low <= s[m + 1] /\ s[m + 1] <= high
      BY <1>1, <1>2 DEF Sums
    <2>2. low * m <= f[m] /\ f[m] <= high * m
      BY <1>2, <1>4
    <2>3. /\ low * (m + 1) = low * m + low /\ high * (m + 1) = high * m + high
          /\ low * m \in Int /\ high * m \in Int
      BY Multiples
    <2> DEFINE a == low * m
               b == high * m
               c == low * (m + 1)
               d == high * (m + 1)
    <2>4. a <= f[m] /\ f[m] <= b /\ c = a + low /\ d = b + high /\ a \in Int /\ b \in Int
      BY <2>2, <2>3
    <2> HIDE DEF a, b, c, d
    <2>5. c <= f[m + 1] /\ f[m + 1] <= d
      BY <2>1, <2>4
    <2>6. QED
      BY <2>5 DEF c, d
  <1> HIDE DEF S
  <1>5. n \in S
    BY <1>2, <1>3, <1>4, SetInduction
  <1>6. QED
    BY <1>1, <1>2, <1>5 DEF S, n

LEMMA DisjointUnion ==
  ASSUME NEW A, NEW B, IsFiniteSet(A), IsFiniteSet(B), A \cap B = {}
  PROVE  Cardinality(A \cup B) = Cardinality(A) + Cardinality(B)
  <1>1. Cardinality(A \cup B) = Cardinality(A) + Cardinality(B) - Cardinality({})
    BY FS_Union
  <1>2. Cardinality({}) = 0 /\ Cardinality(A) \in Nat /\ Cardinality(B) \in Nat
    BY FS_EmptySet, FS_CardinalityType
  <1>3. QED
    BY <1>1, <1>2

OfClass(X, class, c) == Cardinality({x \in X : class[x] = c})

\* s counts X by its classes, in their order
CountsClasses(s, X, class, m, order) ==
  /\ IsFiniteSet(X) /\ m \in Nat
  /\ \A k, l \in 1..m : order[k] = order[l] => k = l
  /\ \A x \in X : \E k \in 1..m : class[x] = order[k]
  /\ Len(s) = m
  /\ \A k \in 1..m : s[k] = OfClass(X, class, order[k])

\* What is counted class by class is counted once.
LEMMA SumOfClasses ==
  ASSUME NEW s, NEW X, NEW class, NEW m, NEW order, CountsClasses(s, X, class, m, order)
  PROVE  SumOf(s) = Cardinality(X)
  <1> USE DEF CountsClasses
  <1> DEFINE Class(k) == {x \in X : class[x] = order[k]}
             First(k) == {x \in X : \E l \in 1..k : class[x] = order[l]}
  <1>1. ASSUME NEW k
        PROVE  /\ IsFiniteSet(Class(k)) /\ IsFiniteSet(First(k))
               /\ Cardinality(Class(k)) \in Nat
    <2>1. IsFiniteSet(Class(k)) /\ IsFiniteSet(First(k))
      BY FS_Subset
    <2>2. QED
      BY <2>1, FS_CardinalityType
  <1> HIDE DEF Class
  <1>2. PICK f : Sums(s, m, f) /\ SumOf(s) = f[m]
    <2>1. ASSUME NEW k \in 1..m PROVE s[k] \in Int
      <3>1. s[k] = Cardinality(Class(k))
        BY DEF OfClass, Class
      <3>2. Cardinality(Class(k)) \in Nat
        BY <1>1
      <3>3. QED
        BY <3>1, <3>2
    <2>2. QED
      BY <2>1, SumFacts
  <1> DEFINE S == {k \in Nat : k <= m => f[k] = Cardinality(First(k))}
  <1>3. 0 \in S
    <2>1. First(0) = {}
      OBVIOUS
    <2>2. QED
      BY <1>2, <2>1, FS_EmptySet DEF Sums
  <1>4. ASSUME NEW k \in Nat, k \in S
        PROVE  k + 1 \in S
    <2> HIDE DEF First
    <2> SUFFICES ASSUME k + 1 <= m
                 PROVE  f[k + 1] = Cardinality(First(k + 1))
      OBVIOUS
    <2> USE DEF First, Class
    <2>1. f[k + 1] = f[k] + s[k + 1] /\ s[k + 1] = Cardinality(Class(k + 1))
      BY <1>2 DEF Sums, OfClass
    <2>2. f[k] = Cardinality(First(k))
      BY <1>4
    <2>3. First(k + 1) = First(k) \cup Class(k + 1)
      OBVIOUS
    <2>4. First(k) \cap Class(k + 1) = {}
      OBVIOUS
    <2>5. Cardinality(First(k + 1)) = Cardinality(First(k)) + Cardinality(Class(k + 1))
      <3>1. IsFiniteSet(First(k)) /\ IsFiniteSet(Class(k + 1))
        BY <1>1
      <3>2. Cardinality(First(k) \cup Class(k + 1))
              = Cardinality(First(k)) + Cardinality(Class(k + 1))
        BY <2>4, <3>1, DisjointUnion
      <3>3. QED
        BY <2>3, <3>2
    <2>6. QED
      BY <2>1, <2>2, <2>5
  <1> HIDE DEF S
  <1>5. m \in S
    BY <1>3, <1>4, SetInduction
  <1>6. First(m) = X
    OBVIOUS
  <1> HIDE DEF First
  <1>7. f[m] = Cardinality(First(m))
    BY <1>5 DEF S
  <1>8. QED
    BY <1>2, <1>6, <1>7

-----------------------------------------------------------------------------
(* Sorting.                                                                *)

LEMMA LargestExists ==
  ASSUME NEW n \in Nat, NEW v, \A k \in 1..n : v[k] \in Int, n > 0
  PROVE  \E j \in 1..n : \A k \in 1..n : v[k] <= v[j]
  <1> DEFINE S == {m \in Nat : m <= n /\ m > 0 => \E j \in 1..m : \A k \in 1..m : v[k] <= v[j]}
  <1>1. 0 \in S
    OBVIOUS
  <1>2. ASSUME NEW m \in Nat, m \in S
        PROVE  m + 1 \in S
    <2> SUFFICES ASSUME m + 1 <= n
                 PROVE  \E j \in 1..(m + 1) : \A k \in 1..(m + 1) : v[k] <= v[j]
      OBVIOUS
    <2>1. CASE m = 0
      BY <2>1
    <2>2. CASE m > 0
      <3>1. PICK j \in 1..m : \A k \in 1..m : v[k] <= v[j]
        BY <1>2, <2>2
      <3>2. v[j] \in Int /\ v[m + 1] \in Int /\ \A k \in 1..m : v[k] \in Int
        OBVIOUS
      <3>3. CASE v[m + 1] <= v[j]
        BY <3>1, <3>3
      <3>4. CASE v[j] < v[m + 1]
        BY <3>1, <3>2, <3>4
      <3>5. QED
        BY <3>2, <3>3, <3>4
    <2>3. QED
      BY <2>1, <2>2
  <1> HIDE DEF S
  <1>3. n \in S
    BY <1>1, <1>2, SetInduction
  <1>4. QED
    BY <1>3 DEF S

\* p takes the places 1..n to themselves, those of smaller items of v first
SortedBy(p, v, n) ==
  /\ p \in [1..n -> 1..n]
  /\ \A a, b \in 1..n : p[a] = p[b] => a = b
  /\ \A t \in 1..n : \E a \in 1..n : p[a] = t
  /\ \A a, b \in 1..n : a < b => v[p[a]] <= v[p[b]]

\* The largest comes last, in exchange with the last; the others are sorted before it.
LEMMA LargestLast ==
  ASSUME NEW n \in Nat, NEW v \in [1..(n + 1) -> Int],
         NEW j \in 1..(n + 1), \A k \in 1..(n + 1) : v[k] <= v[j],
         NEW p, SortedBy(p, [k \in 1..n |-> IF k = j THEN v[n + 1] ELSE v[k]], n)
  PROVE  \E q : SortedBy(q, v, n + 1)
  <1> DEFINE w == [k \in 1..n |-> IF k = j THEN v[n + 1] ELSE v[k]]
             from == [k \in 1..n |-> IF k = j THEN n + 1 ELSE k]
             q == [k \in 1..(n + 1) |-> IF k = n + 1 THEN j ELSE from[p[k]]]
  <1>1. /\ p \in [1..n -> 1..n]
        /\ \A a, b \in 1..n : p[a] = p[b] => a = b
        /\ \A t \in 1..n : \E a \in 1..n : p[a] = t
        /\ \A a, b \in 1..n : a < b => w[p[a]] <= w[p[b]]
    BY DEF SortedBy
  <1>2. \A k \in 1..n : w[k] = v[from[k]] /\ from[k] \in 1..(n + 1) /\ from[k] # j
    OBVIOUS
  <1>3. \A k, l \in 1..n : from[k] = from[l] => k = l
    OBVIOUS
  <1>4. \A t \in 1..(n + 1) : t # j => \E k \in 1..n : from[k] = t
    <2> SUFFICES ASSUME NEW t \in 1..(n + 1), t # j
                 PROVE  \E k \in 1..n : from[k] = t
      OBVIOUS
    <2>1. CASE t = n + 1
      BY <2>1
    <2>2. CASE t # n + 1
      BY <2>2
    <2>3. QED
      BY <2>1, <2>2
  <1> HIDE DEF w, from
  <1>5. /\ \A a \in 1..n : q[a] = from[p[a]] /\ p[a] \in 1..n
        /\ q[n + 1] = j
        /\ q \in [1..(n + 1) -> 1..(n + 1)]
    <2>1. \A a \in 1..n : p[a] \in 1..n /\ from[p[a]] \in 1..(n + 1)
      BY <1>1, <1>2
    <2>2. \A a \in 1..n : a \in 1..(n + 1) /\ a # n + 1
      OBVIOUS
    <2>3. \A a \in 1..(n + 1) : a # n + 1 => a \in 1..n
      OBVIOUS
    <2>4. n + 1 \in 1..(n + 1)
      OBVIOUS
    <2>5. QED
      BY <2>1, <2>2, <2>3, <2>4
  <1> HIDE DEF q
  <1>6. ASSUME NEW a \in 1..(n + 1), NEW b \in 1..(n + 1), q[a] = q[b]
        PROVE  a = b
    <2>1. \A c \in 1..(n + 1) : c = n + 1 \/ c \in 1..n
      OBVIOUS
    <2>2. \A c \in 1..n : q[c] = from[p[c]] /\ p[c] \in 1..n /\ from[p[c]] # j
      BY <1>2, <1>5
    <2>3. CASE a \in 1..n /\ b \in 1..n
      <3>1. from[p[a]] = from[p[b]] /\ p[a] \in 1..n /\ p[b] \in 1..n
        BY <1>6, <2>2, <2>3
      <3>2. p[a] = p[b]
        BY <1>3, <3>1
      <3>3. QED
        BY <1>1, <2>3, <3>2
    <2>4. CASE a = n + 1 /\ b \in 1..n
      BY <1>5, <1>6, <2>2, <2>4
    <2>5. CASE b = n + 1 /\ a \in 1..n
      BY <1>5, <1>6, <2>2, <2>5
    <2>6. QED
      BY <2>1, <2>3, <2>4, <2>5
  <1>7. ASSUME NEW t \in 1..(n + 1)
        PROVE  \E a \in 1..(n + 1) : q[a] = t
    <2>1. CASE t = j
      BY <1>5, <2>1
    <2>2. CASE t # j
      <3>1. PICK k \in 1..n : from[k] = t
        BY <1>4, <2>2
      <3>2. PICK a \in 1..n : p[a] = k
        BY <1>1
      <3>3. a \in 1..(n + 1)
        OBVIOUS
      <3>4. q[a] = from[p[a]]
        BY <1>5
      <3>5. QED
        BY <3>1, <3>2, <3>3, <3>4
    <2>3. QED
      BY <2>1, <2>2
  <1>8. ASSUME NEW a \in 1..(n + 1), NEW b \in 1..(n + 1), a < b
        PROVE  v[q[a]] <= v[q[b]]
    <2>1. CASE b = n + 1
      BY <1>5, <2>1
    <2>2. CASE b # n + 1
      <3>1. a \in 1..n /\ b \in 1..n
        BY <1>8, <2>2
      <3>2. w[p[a]] <= w[p[b]]
        BY <1>1, <1>8, <3>1
      <3>3. /\ q[a] = from[p[a]] /\ p[a] \in 1..n
            /\ q[b] = from[p[b]] /\ p[b] \in 1..n
        BY <1>5, <3>1
      <3>4. w[p[a]] = v[q[a]] /\ w[p[b]] = v[q[b]]
        BY <1>2, <3>3
      <3>5. QED
        BY <3>2, <3>4
    <2>3. QED
      BY <2>1, <2>2
  <1>9. QED
    BY <1>5, <1>6, <1>7, <1>8 DEF SortedBy

LEMMA SortingExists ==
  ASSUME NEW n \in Nat, NEW v \in [1..n -> Int]
  PROVE  \E p : SortedBy(p, v, n)
  <1> DEFINE S == {m \in Nat : \A u \in [1..m -> Int] : \E p : SortedBy(p, u, m)}
  <1>1. 0 \in S
    <2>1. \A u : SortedBy([k \in 1..0 |-> k], u, 0)
      BY DEF SortedBy
    <2>2. QED
      BY <2>1
  <1>2. ASSUME NEW m \in Nat, m \in S
        PROVE  m + 1 \in S
    <2> SUFFICES ASSUME NEW u \in [1..(m + 1) -> Int]
                 PROVE  \E p : SortedBy(p, u, m + 1)
      OBVIOUS
    <2>1. PICK j \in 1..(m + 1) : \A k \in 1..(m + 1) : u[k] <= u[j]
      <3>1. m + 1 \in Nat /\ m + 1 > 0 /\ \A k \in 1..(m + 1) : u[k] \in Int
        OBVIOUS
      <3>2. QED
        BY <3>1, LargestExists
    <2> DEFINE w == [k \in 1..m |-> IF k = j THEN u[m + 1] ELSE u[k]]
    <2>2. w \in [1..m -> Int]
      OBVIOUS
    <2>3. PICK p : SortedBy(p, w, m)
      BY <1>2, <2>2
    <2>4. QED
      BY <2>1, <2>3, LargestLast
  <1> HIDE DEF S
  <1>3. n \in S
    BY <1>1, <1>2, SetInduction
  <1>4. QED
    BY <1>3 DEF S

LEMMA SortedFacts ==
  ASSUME NEW n \in Nat, NEW v \in [1..n -> Int]
  PROVE  /\ Sorted(v) \in [1..n -> Int]
         /\ \A a, b \in 1..n : a <= b => Sorted(v)[a] <= Sorted(v)[b]
         /\ \E p \in Bijection(1..n, 1..n) : \A a \in 1..n : Sorted(v)[a] = v[p[a]]
  <1> DEFINE Ascends(p) == \A i, k \in DOMAIN v : i < k => v[p[i]] <= v[p[k]]
             order == CHOOSE p \in Bijection(DOMAIN v, DOMAIN v) : Ascends(p)
  <1>1. DOMAIN v = 1..n
    OBVIOUS
  <1>2. \E p \in Bijection(DOMAIN v, DOMAIN v) : Ascends(p)
    <2>1. PICK p : SortedBy(p, v, n)
      BY SortingExists
    <2>2. p \in Bijection(1..n, 1..n)
      BY <2>1 DEF SortedBy, Bijection, Injection, Surjection, IsInjective
    <2>3. QED
      BY <1>1, <2>1, <2>2 DEF SortedBy
  <1>3. order \in Bijection(1..n, 1..n) /\ Ascends(order)
    BY <1>1, <1>2
  <1>4. Sorted(v) = [i \in 1..n |-> v[order[i]]]
    BY <1>1 DEF Sorted
  <1> HIDE DEF order
  <1>5. order \in [1..n -> 1..n]
    BY <1>3 DEF Bijection, Injection
  <1>6. \A a \in 1..n : Sorted(v)[a] = v[order[a]] /\ v[order[a]] \in Int
    BY <1>4, <1>5
  <1>7. \A a, b \in 1..n : a <= b => Sorted(v)[a] <= Sorted(v)[b]
    BY <1>1, <1>3, <1>6
  <1>8. QED
    BY <1>3, <1>4, <1>6, <1>7

-----------------------------------------------------------------------------
(* Percentiles.                                                            *)

Weighted(a, b, w) == a * (100 - w) + b * w

LEMMA WeightedForm ==
  ASSUME NEW a \in Int, NEW b \in Int, NEW w \in 0..100
  PROVE  Weighted(a, b, w) = a * 100 + (b - a) * w
  BY DEF Weighted

LEMMA WeightedFacts ==
  ASSUME NEW a \in Int, NEW b \in Int, a <= b, NEW w \in 0..100
  PROVE  /\ Weighted(a, b, w) \in Int
         /\ a * 100 <= Weighted(a, b, w)
         /\ Weighted(a, b, w) <= b * 100
         /\ \A u \in 0..w : Weighted(a, b, u) <= Weighted(a, b, w)
  <1> DEFINE d == b - a
  <1>1. d \in Nat /\ \A u \in 0..100 : Weighted(a, b, u) = a * 100 + d * u
    BY WeightedForm
  <1>2. b * 100 = a * 100 + d * 100
    OBVIOUS
  <1> HIDE DEF d
  <1>3. \A u \in 0..w : u \in 0..100 /\ d * u <= d * w
    BY <1>1
  <1>4. 0 <= d * w /\ d * w <= d * 100 /\ d * w \in Int
    BY <1>1
  <1>5. ASSUME NEW u \in 0..w
        PROVE  Weighted(a, b, u) <= Weighted(a, b, w)
    <2>1. d * u <= d * w /\ d * u \in Int
      BY <1>1, <1>3
    <2>2. Weighted(a, b, u) = a * 100 + d * u /\ Weighted(a, b, w) = a * 100 + d * w
      BY <1>1, <1>3
    <2> DEFINE x == d * u
               y == d * w
    <2>3. x <= y /\ x \in Int /\ y \in Int
      BY <1>4, <2>1
    <2> HIDE DEF x, y
    <2>4. a * 100 + x <= a * 100 + y
      BY <2>3
    <2>5. QED
      BY <2>2, <2>4 DEF x, y
  <1>6. Weighted(a, b, w) = a * 100 + d * w
    BY <1>1
  <1> DEFINE y == d * w
             z == d * 100
  <1>7. 0 <= y /\ y <= z /\ y \in Int /\ Weighted(a, b, w) = a * 100 + y /\ b * 100 = a * 100 + z
    BY <1>2, <1>4, <1>6
  <1>8. z \in Int
    BY <1>1
  <1> HIDE DEF y, z
  <1>9. QED
    BY <1>5, <1>7, <1>8

\* _percentile takes two neighbours, the second of which is the last when the first is.
Ranked(n, percent, lower, next, weight) ==
  /\ lower \in 1..n /\ next \in 1..n /\ weight \in 0..99
  /\ next = lower + 1 \/ (lower = n /\ next = n)
  /\ percent * (n - 1) = 100 * (lower - 1) + weight

LEMMA PercentileForm ==
  ASSUME NEW n \in Nat, n > 0, NEW s \in [1..n -> Int], NEW percent \in 0..100
  PROVE  \E lower, next, weight :
           /\ Ranked(n, percent, lower, next, weight)
           /\ Percentile(s, percent) = Weighted(s[lower], s[next], weight)
  <1> DEFINE rank == percent * (n - 1)
             lower == rank \div 100 + 1
             next == Min({lower + 1, n})
             weight == rank % 100
  <1>1. s \in Seq(Int) /\ Len(s) = n /\ s # <<>>
    <2>1. s \in Seq(Int) /\ Len(s) = n
      OBVIOUS
    <2>2. QED
      BY <2>1
  <1>2. Percentile(s, percent) = Weighted(s[lower], s[next], weight)
    BY <1>1 DEF Percentile, Weighted
  <1>3. rank \in Int /\ 0 <= rank /\ rank <= 100 * (n - 1)
    <2> DEFINE left == n - 1
    <2>1. left \in Nat
      OBVIOUS
    <2> HIDE DEF left
    <2>2. percent * left \in Int /\ 0 <= percent * left /\ percent * left <= 100 * left
      BY <2>1
    <2>3. QED
      BY <2>2 DEF left
  <1> HIDE DEF rank
  <1>4. /\ rank = 100 * (rank \div 100) + weight /\ weight \in 0..99
        /\ rank \div 100 \in Int
    BY <1>3
  <1> HIDE DEF weight
  <1>5. rank = 100 * (lower - 1) + weight /\ lower \in 1..n
    BY <1>3, <1>4
  <1> HIDE DEF lower
  <1>6. next \in 1..n /\ (next = lower + 1 \/ (lower = n /\ next = n))
    <2>1. CASE lower = n
      <3>1. n \in {lower + 1, n} /\ \A y \in {lower + 1, n} : n <= y
        BY <2>1
      <3>2. \A x \in {lower + 1, n} : (\A y \in {lower + 1, n} : x <= y) => x = n
        BY <2>1
      <3>3. next = n
        BY <3>1, <3>2 DEF Min
      <3>4. QED
        BY <2>1, <3>3
    <2>2. CASE lower # n
      <3>1. lower + 1 <= n /\ lower + 1 \in 1..n
        BY <1>5, <2>2
      <3>2. \A y \in {lower + 1, n} : lower + 1 <= y
        BY <1>5, <3>1
      <3>3. \A x \in {lower + 1, n} : (\A y \in {lower + 1, n} : x <= y) => x = lower + 1
        BY <1>5, <3>1
      <3>4. next = lower + 1
        BY <3>2, <3>3 DEF Min
      <3>5. QED
        BY <3>1, <3>4
    <2>3. QED
      BY <2>1, <2>2
  <1> HIDE DEF next
  <1>7. Ranked(n, percent, lower, next, weight)
    BY <1>4, <1>5, <1>6 DEF Ranked, rank
  <1>8. QED
    BY <1>2, <1>7

Increasing(s, n) == \A a, b \in 1..n : a <= b => s[a] <= s[b]

\* The percentile lies between the two, and between the first item and the last.
Lies(s, n, percent, lower, next, weight) ==
  /\ Ranked(n, percent, lower, next, weight)
  /\ Percentile(s, percent) = Weighted(s[lower], s[next], weight)
  /\ Percentile(s, percent) \in Int
  /\ s[lower] * 100 <= Percentile(s, percent)
  /\ Percentile(s, percent) <= s[next] * 100
  /\ s[1] * 100 <= Percentile(s, percent)
  /\ Percentile(s, percent) <= s[n] * 100

LEMMA PercentileFacts ==
  ASSUME NEW n \in Nat, n > 0, NEW s \in [1..n -> Int], Increasing(s, n),
         NEW percent \in 0..100
  PROVE  \E lower, next, weight : Lies(s, n, percent, lower, next, weight)
  <1>1. PICK lower, next, weight :
          /\ Ranked(n, percent, lower, next, weight)
          /\ Percentile(s, percent) = Weighted(s[lower], s[next], weight)
    BY PercentileForm
  <1>2. /\ lower \in 1..n /\ next \in 1..n /\ lower <= next /\ weight \in 0..100
        /\ 1 \in 1..n /\ n \in 1..n
    BY <1>1 DEF Ranked
  <1> DEFINE a == s[lower]
             b == s[next]
             p == Percentile(s, percent)
  <1>3. /\ a \in Int /\ b \in Int /\ a <= b
        /\ s[1] \in Int /\ s[n] \in Int /\ s[1] <= a /\ b <= s[n]
    BY <1>2 DEF Increasing
  <1>4. p = Weighted(a, b, weight)
    BY <1>1
  <1> HIDE DEF a, b, p
  <1>5. p \in Int /\ a * 100 <= p /\ p <= b * 100
    <2>1. a \in Int /\ b \in Int /\ a <= b /\ weight \in 0..100
      BY <1>2, <1>3
    <2>2. /\ Weighted(a, b, weight) \in Int
          /\ a * 100 <= Weighted(a, b, weight)
          /\ Weighted(a, b, weight) <= b * 100
      BY ONLY <2>1, WeightedFacts
    <2>3. QED
      BY <1>4, <2>2
  <1>6. s[1] * 100 <= p /\ p <= s[n] * 100
    BY <1>3, <1>5
  <1>7. Lies(s, n, percent, lower, next, weight)
    BY <1>1, <1>5, <1>6 DEF a, b, p, Lies
  <1>8. QED
    BY <1>7

LEMMA Scaled ==
  ASSUME NEW a \in Nat, NEW b \in Nat, NEW c \in Nat, a <= b
  PROVE  a * c <= b * c
  <1> DEFINE d == b - a
  <1>1. d \in Nat /\ b = a + d
    OBVIOUS
  <1> HIDE DEF d
  <1>2. (a + d) * c = a * c + d * c /\ d * c \in Nat /\ a * c \in Nat
    BY <1>1
  <1>3. QED
    BY <1>1, <1>2

LEMMA PercentilesAscend ==
  ASSUME NEW n \in Nat, n > 0, NEW s \in [1..n -> Int], Increasing(s, n),
         NEW low \in 0..100, NEW high \in 0..100, low <= high
  PROVE  Percentile(s, low) <= Percentile(s, high)
  <1>1. PICK i, j, w : Lies(s, n, low, i, j, w)
    BY PercentileFacts
  <1>2. PICK k, l, u : Lies(s, n, high, k, l, u)
    BY PercentileFacts
  <1>3. /\ i \in 1..n /\ j \in 1..n /\ k \in 1..n /\ l \in 1..n
        /\ w \in 0..99 /\ u \in 0..99
        /\ 100 * (i - 1) + w <= 100 * (k - 1) + u
    <2>1. low * (n - 1) <= high * (n - 1)
      <3>1. n - 1 \in Nat /\ low \in Nat /\ high \in Nat
        OBVIOUS
      <3>2. QED
        BY <3>1, Scaled
    <2>2. QED
      BY <1>1, <1>2, <2>1 DEF Ranked, Lies
  <1>4. /\ j = i + 1 \/ (i = n /\ j = n)
        /\ l = k + 1 \/ (k = n /\ l = n)
    BY <1>1, <1>2 DEF Ranked, Lies
  <1>5. /\ Percentile(s, low) = Weighted(s[i], s[j], w)
        /\ Percentile(s, low) \in Int /\ Percentile(s, low) <= s[j] * 100
        /\ Percentile(s, high) = Weighted(s[k], s[l], u)
        /\ Percentile(s, high) \in Int /\ s[k] * 100 <= Percentile(s, high)
    BY <1>1, <1>2 DEF Lies
  <1>6. CASE i = k
    <2>1. j = l /\ w <= u /\ k <= l
      BY <1>3, <1>4, <1>6
    <2>2. s[k] \in Int /\ s[l] \in Int /\ s[k] <= s[l]
      BY <1>3, <2>1 DEF Increasing
    <2>3. w \in 0..u /\ u \in 0..100
      BY <1>3, <2>1
    <2>4. Weighted(s[k], s[l], w) <= Weighted(s[k], s[l], u)
      BY <2>2, <2>3, WeightedFacts
    <2>5. QED
      BY <1>5, <1>6, <2>1, <2>4
  <1>7. CASE i < k
    <2>1. j <= k
      BY <1>3, <1>4, <1>7
    <2>2. s[j] \in Int /\ s[k] \in Int /\ s[j] <= s[k]
      BY <1>3, <2>1 DEF Increasing
    <2>3. QED
      BY <1>5, <2>2
  <1>8. QED
    BY <1>3, <1>6, <1>7

\* how many of the n items of v are within bound, in hundredths
Within(v, n, bound) == Cardinality({i \in 1..n : v[i] * 100 <= bound})

\* No percentile is beyond what its share of the items took.
LEMMA ShareWithin ==
  ASSUME NEW n \in Nat, n > 0, NEW v \in [1..n -> Int], NEW percent \in 0..100
  PROVE  Within(v, n, Percentile(Sorted(v), percent)) * 100 >= percent * (n - 1)
  <1> DEFINE s == Sorted(v)
             T == {i \in 1..n : v[i] * 100 <= Percentile(s, percent)}
  <1>1. s \in [1..n -> Int] /\ Increasing(s, n)
    BY SortedFacts DEF Increasing
  <1>2. PICK p \in Bijection(1..n, 1..n) : \A a \in 1..n : s[a] = v[p[a]]
    <2> HIDE DEF s
    <2> QED
      BY SortedFacts DEF s
  <1> HIDE DEF s
  <1>3. PICK lower, next, weight : Lies(s, n, percent, lower, next, weight)
    BY <1>1, PercentileFacts
  <1>4. Percentile(s, percent) \in Int /\ s[lower] * 100 <= Percentile(s, percent)
    BY <1>3 DEF Lies
  <1>5. /\ lower \in 1..n /\ weight \in 0..99
        /\ percent * (n - 1) = 100 * (lower - 1) + weight
    BY <1>3 DEF Ranked, Lies
  <1> DEFINE f == [k \in 1..lower |-> p[k]]
  <1>6. \A k \in 1..lower : k \in 1..n /\ p[k] \in 1..n /\ s[k] = v[p[k]]
    <2>1. \A k \in 1..lower : k \in 1..n
      BY <1>5
    <2>2. p \in [1..n -> 1..n]
      BY DEF Bijection, Injection
    <2>3. QED
      BY <1>2, <2>1, <2>2
  <1>7. ASSUME NEW k \in 1..lower PROVE p[k] \in T
    <2>1. s[k] \in Int /\ s[lower] \in Int /\ s[k] <= s[lower]
      BY <1>1, <1>5, <1>6 DEF Increasing
    <2>2. s[k] * 100 <= Percentile(s, percent)
      BY <1>4, <2>1
    <2>3. QED
      BY <1>6, <2>2
  <1> HIDE DEF T
  <1>8. f \in Injection(1..lower, T)
    BY <1>2, <1>6, <1>7 DEF Bijection, Injection, IsInjective
  <1>9. IsFiniteSet(T) /\ Cardinality(T) \in Nat
    <2>1. IsFiniteSet(1..n) /\ T \in SUBSET (1..n)
      BY FS_Interval DEF T
    <2>2. QED
      BY <2>1, FS_Subset, FS_CardinalityType
  <1>10. lower <= Cardinality(T)
    <2>1. Cardinality(1..lower) <= Cardinality(T)
      BY <1>8, <1>9, FS_Injection
    <2>2. Cardinality(1..lower) = lower
      BY <1>5, FS_Interval
    <2>3. QED
      BY <2>1, <2>2
  <1> HIDE DEF f
  <1>11. Cardinality(T) * 100 >= percent * (n - 1)
    <2> DEFINE share == percent * (n - 1)
               c == Cardinality(T)
    <2>1. share = 100 * (lower - 1) + weight /\ c \in Nat /\ lower <= c
      BY <1>5, <1>9, <1>10
    <2> HIDE DEF share, c
    <2>2. c * 100 >= share
      BY <1>5, <2>1
    <2>3. QED
      BY <2>2 DEF share, c
  <1>12. QED
    BY <1>11 DEF T, s, Within

-----------------------------------------------------------------------------
(* The report.                                                             *)

LEMMA StagesFit ==
  ASSUME rows \in Seq(RowKinds)
  PROVE  StagesWithinWhole
  <1>1. ASSUME NEW i \in DOMAIN rows
        PROVE  rows[i].timing \in [Stamps -> Nat \cup {Absent}]
    BY MetricsAssumption
  <1>2. QED
    BY <1>1 DEF StagesWithinWhole, Breakdown, Between, Absent, Stamps

LEMMA LatenciesTyped ==
  ASSUME rows \in Seq(RowKinds)
  PROVE  latencies \in Seq(Int)
  <1> DEFINE totals == [i \in DOMAIN rows |-> Total(rows[i])]
             S == {i \in DOMAIN rows : totals[i] \notin {Missing, 0}}
  <1>1. ASSUME NEW i \in DOMAIN rows
        PROVE  Total(rows[i]) \in Int
    <2> DEFINE t == rows[i].timing
    <2>1. t \in [Stamps -> Nat \cup {Absent}]
      BY MetricsAssumption
    <2>2. t["gateway_ingested"] \in Int /\ t["persister_completed"] \in Int
      BY <2>1 DEF Stamps, Absent
    <2> HIDE DEF t
    <2>3. Between(t, "gateway_ingested", "persister_completed") \in Int
      BY <2>2 DEF Between, Missing
    <2>4. QED
      BY <2>3 DEF Total, Breakdown, t
  <1>2. totals \in Seq(Int)
    <2>1. DOMAIN rows = 1..Len(rows) /\ Len(rows) \in Nat
      OBVIOUS
    <2>2. QED
      BY <1>1, <2>1
  <1>3. latencies = Pick(totals, S)
    BY DEF latencies
  <1>4. S \in SUBSET DOMAIN totals /\ \A i \in S : totals[i] \in Int
    BY <1>1
  <1> HIDE DEF totals, S
  <1>5. Pick(totals, S) \in Seq(Int)
    BY <1>2, <1>4, PickFacts
  <1>6. QED
    BY <1>3, <1>5

LEMMA PercentilesFit ==
  ASSUME rows \in Seq(RowKinds)
  PROVE  PercentilesInOrder
  <1> DEFINE v == latencies
             n == Len(v)
             s == Sorted(v)
             first == s[1]
             last == s[n]
  <1> SUFFICES ASSUME n > 0
               PROVE  \E a, b \in {v[i] : i \in 1..n} :
                 /\ \A i \in 1..n : a <= v[i] /\ v[i] <= b
                 /\ a * n <= SumOf(v) /\ SumOf(v) <= b * n
                 /\ a * 100 <= Percentile(s, 95) /\ Percentile(s, 95) <= Percentile(s, 99)
                 /\ Percentile(s, 99) <= b * 100
                 /\ \A q \in {<<95, Percentile(s, 95)>>, <<99, Percentile(s, 99)>>} :
                      Within(v, n, q[2]) * 100 >= q[1] * (n - 1)
    BY DEF PercentilesInOrder, report, Within
  <1>1. v \in Seq(Int) /\ n \in Nat /\ v \in [1..n -> Int]
    BY LatenciesTyped
  <1> HIDE DEF v, n
  <1>2. s \in [1..n -> Int] /\ Increasing(s, n)
    BY <1>1, SortedFacts DEF Increasing
  <1>3. PICK p \in Bijection(1..n, 1..n) : \A a \in 1..n : s[a] = v[p[a]]
    BY <1>1, SortedFacts
  <1>4. 1 \in 1..n /\ n \in 1..n
    BY <1>1
  <1>5. first \in {v[i] : i \in 1..n} /\ last \in {v[i] : i \in 1..n}
    BY <1>3, <1>4 DEF Bijection, Injection
  <1> HIDE DEF s
  <1>6. ASSUME NEW i \in 1..n
        PROVE  first <= v[i] /\ v[i] <= last
    <2>1. PICK a \in 1..n : p[a] = i
      BY <1>3 DEF Bijection, Surjection
    <2>2. s[a] = v[i]
      BY <1>3, <2>1
    <2>3. 1 <= a /\ a <= n
      OBVIOUS
    <2>4. s[1] <= s[a] /\ s[a] <= s[n]
      BY <1>2, <1>4, <2>3 DEF Increasing
    <2>5. QED
      BY <2>2, <2>4
  <1>7. first \in Int /\ last \in Int
    BY <1>2, <1>4
  <1> HIDE DEF first, last
  <1>8. first * n <= SumOf(v) /\ SumOf(v) <= last * n
    <2>1. Len(v) \in Nat /\ \A k \in 1..Len(v) : v[k] \in Int /\ first <= v[k] /\ v[k] <= last
      BY <1>1, <1>6 DEF n
    <2>2. first * Len(v) <= SumOf(v) /\ SumOf(v) <= last * Len(v)
      BY <1>7, <2>1, SumBetween
    <2>3. QED
      BY <2>2 DEF n
  <1>9. ASSUME NEW percent \in 0..100
        PROVE  first * 100 <= Percentile(s, percent) /\ Percentile(s, percent) <= last * 100
    <2>1. PICK lower, next, weight : Lies(s, n, percent, lower, next, weight)
      BY <1>1, <1>2, PercentileFacts
    <2>2. QED
      BY <2>1 DEF first, last, Lies
  <1>10. Percentile(s, 95) <= Percentile(s, 99)
    <2>1. 95 \in 0..100 /\ 99 \in 0..100 /\ 95 <= 99
      OBVIOUS
    <2>2. QED
      BY <1>1, <1>2, <2>1, PercentilesAscend
  <1>11. \A percent \in 0..100 : Within(v, n, Percentile(s, percent)) * 100 >= percent * (n - 1)
    BY <1>1, ShareWithin DEF s
  <1>12. /\ first * 100 <= Percentile(s, 95) /\ Percentile(s, 99) <= last * 100
         /\ Within(v, n, Percentile(s, 95)) * 100 >= 95 * (n - 1)
         /\ Within(v, n, Percentile(s, 99)) * 100 >= 99 * (n - 1)
    <2>1. 95 \in 0..100 /\ 99 \in 0..100
      OBVIOUS
    <2>2. QED
      BY <1>9, <1>11, <2>1
  <1>13. \A q \in {<<95, Percentile(s, 95)>>, <<99, Percentile(s, 99)>>} :
           Within(v, n, q[2]) * 100 >= q[1] * (n - 1)
    BY <1>12
  <1>14. QED
    BY ONLY <1>5, <1>6, <1>8, <1>10, <1>12, <1>13

\* What a figure counts, all in all and of one source.
Counted(figure) ==
  IF figure = "total" THEN DOMAIN rows
  ELSE {i \in DOMAIN rows : rows[i].status = (IF figure = "failed" THEN "failed" ELSE "success")}

LEMMA FiguresCount ==
  ASSUME rows \in Seq(RowKinds), NEW figure \in {"total", "successful", "failed"}
  PROVE  /\ report.figures[figure] = Cardinality(Counted(figure))
         /\ \A source \in {rows[i].source : i \in DOMAIN rows} :
              report.per_source[source][figure]
                = Cardinality({i \in Counted(figure) : rows[i].source = source})
  <1>1. \A i \in DOMAIN rows : rows[i].status # "success" <=> rows[i].status = "failed"
    BY MetricsAssumption
  <1>2. report.figures[figure] = Cardinality(Counted(figure))
    <2>1. report.figures = Figures(DOMAIN rows)
      BY DEF report
    <2>2. Figures(DOMAIN rows)[figure] = Cardinality(Counted(figure))
      <3>1. CASE figure = "total"
        BY <3>1 DEF Figures, Counted
      <3>2. CASE figure = "successful"
        <4>1. Counted(figure) = {i \in DOMAIN rows : rows[i].status = "success"}
          BY <3>2 DEF Counted
        <4>2. QED
          BY <3>2, <4>1 DEF Figures
      <3>3. CASE figure = "failed"
        <4>1. Counted(figure) = {i \in DOMAIN rows : rows[i].status = "failed"}
          BY <3>3 DEF Counted
        <4>2. QED
          BY <3>3, <4>1 DEF Figures
      <3>4. QED
        BY <3>1, <3>2, <3>3
    <2>3. QED
      BY <2>1, <2>2
  <1>3. ASSUME NEW source \in {rows[i].source : i \in DOMAIN rows}
        PROVE  report.per_source[source][figure]
                 = Cardinality({i \in Counted(figure) : rows[i].source = source})
    <2> DEFINE some == {i \in DOMAIN rows : rows[i].source = source}
    <2>1. report.per_source[source] = SourceFigures(some)
      BY DEF report
    <2> HIDE DEF some
    <2>2. /\ SourceFigures(some)["total"] = Cardinality(some)
          /\ SourceFigures(some)["successful"]
               = Cardinality({i \in some : rows[i].status = "success"})
          /\ SourceFigures(some)["failed"]
               = Cardinality({i \in some : rows[i].status # "success"})
      BY DEF SourceFigures, Figures
    <2> DEFINE these == {i \in Counted(figure) : rows[i].source = source}
    <2>3. CASE figure = "total"
      <3>1. these = some
        BY <2>3 DEF Counted, some
      <3>2. QED
        BY <2>1, <2>2, <2>3, <3>1
    <2>4. CASE figure = "successful"
      <3>1. these = {i \in some : rows[i].status = "success"}
        BY <2>4 DEF Counted, some
      <3>2. QED
        BY <2>1, <2>2, <2>4, <3>1
    <2>5. CASE figure = "failed"
      <3>1. these = {i \in some : rows[i].status # "success"}
        BY <1>1, <2>5 DEF Counted, some
      <3>2. QED
        BY <2>1, <2>2, <2>5, <3>1
    <2>6. QED
      BY <2>3, <2>4, <2>5
  <1>4. QED
    BY <1>2, <1>3

LEMMA SourcesFit ==
  ASSUME rows \in Seq(RowKinds)
  PROVE  SourcesAddUp
  <1> DEFINE sources == {rows[i].source : i \in DOMAIN rows}
             m == Cardinality(sources)
  <1>1. DOMAIN report.per_source = sources
    BY DEF report
  <1>2. IsFiniteSet(DOMAIN rows)
    <2>1. DOMAIN rows = 1..Len(rows) /\ Len(rows) \in Nat
      OBVIOUS
    <2>2. QED
      BY <2>1, FS_Interval
  <1>3. m \in Nat
    <2> DEFINE f == [i \in DOMAIN rows |-> rows[i].source]
    <2>1. f \in Surjection(DOMAIN rows, sources)
      BY DEF Surjection
    <2>2. IsFiniteSet(sources)
      BY <1>2, <2>1, FS_Surjection
    <2>3. QED
      BY <2>2, FS_CardinalityType
  <1> HIDE DEF sources, m
  <1>4. ASSUME NEW figure \in {"total", "successful", "failed"}, NEW order \in Bijection(1..m, sources)
        PROVE  SumOf(OfEach(order, figure)) = report.figures[figure]
    <2> DEFINE X == Counted(figure)
               class == [i \in X |-> rows[i].source]
               s == OfEach(order, figure)
    <2>1. /\ order \in [1..m -> sources]
          /\ \A k, l \in 1..m : order[k] = order[l] => k = l
          /\ \A src \in sources : \E k \in 1..m : order[k] = src
      BY DEF Bijection, Injection, Surjection, IsInjective
    <2>2. X \in SUBSET DOMAIN rows
      BY DEF Counted
    <2>3. IsFiniteSet(X)
      BY <1>2, <2>2, FS_Subset
    <2>4. DOMAIN s = 1..m /\ \A k \in 1..m : s[k] = report.per_source[order[k]][figure]
      BY <2>1 DEF OfEach
    <2>5. Len(s) = m
      BY <1>3, <2>4
    <2>6. \A src \in sources :
            report.per_source[src][figure] = Cardinality({i \in X : rows[i].source = src})
      BY FiguresCount DEF sources
    <2>7. report.figures[figure] = Cardinality(X)
      BY FiguresCount
    <2> HIDE DEF X, s
    <2>8. ASSUME NEW k \in 1..m
          PROVE  s[k] = OfClass(X, class, order[k])
      <3>1. order[k] \in sources
        BY <2>1
      <3>2. s[k] = Cardinality({i \in X : rows[i].source = order[k]})
        BY <2>4, <2>6, <3>1
      <3>3. {i \in X : rows[i].source = order[k]} = {i \in X : class[i] = order[k]}
        OBVIOUS
      <3>4. QED
        BY <3>2, <3>3 DEF OfClass
    <2>9. \A i \in X : \E k \in 1..m : class[i] = order[k]
      <3>1. \A i \in X : class[i] \in sources
        BY <2>2 DEF sources
      <3>2. QED
        BY <2>1, <3>1
    <2> HIDE DEF class
    <2>10. SumOf(s) = Cardinality(X)
      <3>1. \A k \in 1..m : s[k] = OfClass(X, class, order[k])
        BY <2>8
      <3>2. \A k, l \in 1..m : order[k] = order[l] => k = l
        BY <2>1
      <3>3. CountsClasses(s, X, class, m, order)
        BY <1>3, <2>3, <2>5, <2>9, <3>1, <3>2 DEF CountsClasses
      <3>4. QED
        BY <3>3, SumOfClasses
    <2>11. QED
      BY <2>7, <2>10 DEF s
  <1>5. QED
    BY <1>1, <1>4 DEF SourcesAddUp, m

\* However many rows of whatever kinds were logged, in whatever order: the sources add up
\* to the whole, the average and the percentiles lie in their order between the shortest and
\* the longest latency and are within reach of their share of the rows, and the stages of a
\* message fit into its whole (queries.py: get_metrics_aggregation).
THEOREM ReportCoherent == RowsSpec => []ReportIsCoherent
  <1>1. rows \in Seq(RowKinds) => ReportIsCoherent
    BY SourcesFit, PercentilesFit, StagesFit DEF ReportIsCoherent
  <1>2. QED
    BY <1>1, RowsTyped, PTL

=============================================================================
