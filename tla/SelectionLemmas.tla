---------------------------- MODULE SelectionLemmas ----------------------------
(* What Pick keeps of a sequence, and of its order. *)
EXTENDS Selections, FiniteSetTheorems, TLAPS

LEMMA PlaceFacts ==
  ASSUME NEW n \in Nat, NEW S \in SUBSET (1..n)
  PROVE  /\ IsFiniteSet(S)
         /\ Cardinality(S) \in 0..n
         /\ \A k \in 1..Cardinality(S) :
              Place(S, k) \in S /\ Cardinality({j \in S : j <= Place(S, k)}) = k
         /\ \A i \in S : \E k \in 1..Cardinality(S) : Place(S, k) = i
  <1> DEFINE Below(i) == {j \in S : j <= i}
             rank == [i \in S |-> Cardinality(Below(i))]
             N == Cardinality(S)
  <1>1. /\ IsFiniteSet(S)
        /\ N \in 0..n
        /\ \A i \in S : IsFiniteSet(Below(i)) /\ Cardinality(Below(i)) \in Nat
                          /\ Cardinality(Below(i)) <= N
    <2>1. IsFiniteSet(1..n) /\ Cardinality(1..n) = n
      BY FS_Interval
    <2>2. IsFiniteSet(S) /\ N <= n
      BY <2>1, FS_Subset
    <2>3. \A T \in SUBSET S : IsFiniteSet(T) /\ Cardinality(T) <= N
      BY <2>2, FS_Subset
    <2>4. \A T \in SUBSET S : Cardinality(T) \in Nat
      BY <2>3, FS_CardinalityType
    <2>5. N \in Nat
      BY <2>2, FS_CardinalityType
    <2>6. QED
      BY <2>2, <2>3, <2>4, <2>5
  <1>2. \A i \in S : Cardinality(Below(i)) \in 1..N
    <2> SUFFICES ASSUME NEW i \in S PROVE Cardinality(Below(i)) # 0
      BY <1>1
    <2>1. i \in Below(i)
      OBVIOUS
    <2>2. QED
      BY <1>1, <2>1, FS_EmptySet
  <1>3. ASSUME NEW i \in S, NEW j \in S, i < j
        PROVE  Cardinality(Below(i)) < Cardinality(Below(j))
    <2>1. Below(i) \in SUBSET Below(j) /\ j \in Below(j) /\ j \notin Below(i)
      <3>1. i \in Int /\ j \in Int /\ \A l \in S : l \in Int
        OBVIOUS
      <3>2. \A l \in S : l <= i => l <= j
        BY <1>3, <3>1
      <3>3. j <= j /\ ~(j <= i)
        BY <1>3, <3>1
      <3>4. QED
        BY <3>2, <3>3
    <2>2. /\ Cardinality(Below(i)) <= Cardinality(Below(j))
          /\ Cardinality(Below(j)) = Cardinality(Below(i)) => Below(j) = Below(i)
      BY <1>1, <2>1, FS_Subset
    <2>3. Below(i) # Below(j)
      BY <2>1
    <2>4. QED
      BY <1>1, <2>2, <2>3
  <1>4. \A i, j \in S : Cardinality(Below(i)) = Cardinality(Below(j)) => i = j
    <2> SUFFICES ASSUME NEW i \in S, NEW j \in S, i # j
                 PROVE  Cardinality(Below(i)) # Cardinality(Below(j))
      OBVIOUS
    <2>1. i < j \/ j < i
      OBVIOUS
    <2>2. QED
      BY <1>1, <1>3, <2>1
  <1>5. rank \in Injection(S, 1..N)
    <2>1. rank \in [S -> 1..N]
      BY <1>2
    <2>2. \A i, j \in S : rank[i] = rank[j] => i = j
      BY <1>4
    <2>3. QED
      BY <2>1, <2>2 DEF Injection, IsInjective
  <1>6. rank \in Surjection(S, 1..N)
    <2>1. IsFiniteSet(1..N) /\ Cardinality(1..N) = N
      BY <1>1, FS_Interval
    <2>2. QED
      BY <1>5, <2>1, FS_Injection
  <1>7. \A k \in 1..N : \E i \in S : Cardinality(Below(i)) = k
    BY <1>6 DEF Surjection
  <1>8. \A k \in 1..N : Place(S, k) \in S /\ Cardinality(Below(Place(S, k))) = k
    BY <1>7 DEF Place
  <1>9. \A i \in S : \E k \in 1..N : Place(S, k) = i
    <2> SUFFICES ASSUME NEW i \in S PROVE Place(S, Cardinality(Below(i))) = i
      BY <1>2
    <2>1. /\ Place(S, Cardinality(Below(i))) \in S
          /\ Cardinality(Below(Place(S, Cardinality(Below(i))))) = Cardinality(Below(i))
      BY <1>2, <1>8
    <2>2. QED
      BY <1>4, <2>1
  <1>10. QED
    BY <1>1, <1>8, <1>9

LEMMA LeastPlace ==
  ASSUME NEW n \in Nat, NEW S \in SUBSET (1..n), S # {}
  PROVE  /\ Place(S, 1) \in S
         /\ \A i \in S : Place(S, 1) <= i
  <1> DEFINE p == Place(S, 1)
  <1>1. IsFiniteSet(S) /\ Cardinality(S) \in 0..n /\ Cardinality(S) # 0
    BY PlaceFacts, FS_EmptySet
  <1>2. p \in S /\ Cardinality({j \in S : j <= p}) = 1
    BY <1>1, PlaceFacts
  <1> HIDE DEF p
  <1>3. ASSUME NEW i \in S PROVE p <= i
    <2>1. CASE i <= p
      <3>1. i \in {j \in S : j <= p} /\ p \in {j \in S : j <= p}
        BY <1>2, <1>3, <2>1
      <3>2. PICK x : {j \in S : j <= p} = {x}
        <4>1. IsFiniteSet({j \in S : j <= p})
          BY <1>1, FS_Subset
        <4>2. QED
          BY <1>2, <4>1, FS_Singleton
      <3>3. QED
        BY <1>2, <3>1, <3>2
    <2>2. QED
      BY <1>2, <1>3, <2>1
  <1>4. QED
    BY <1>2, <1>3 DEF p

\* Induction over the naturals, for a set in place of a predicate.
LEMMA SetInduction ==
  ASSUME NEW S, 0 \in S, \A k \in Nat : k \in S => k + 1 \in S
  PROVE  Nat \subseteq S
  <1> SUFFICES ASSUME NEW n \in Nat, n \notin S
               PROVE  FALSE
    OBVIOUS
  <1> DEFINE missing == {k \in 1..n : k \notin S}
             m == Place(missing, 1)
  <1>1. missing \in SUBSET (1..n) /\ missing # {}
    OBVIOUS
  <1>2. m \in missing /\ \A i \in missing : m <= i
    BY <1>1, LeastPlace
  <1> HIDE DEF m
  <1>3. m \in 1..n /\ m \notin S /\ m - 1 \notin missing
    BY <1>2
  <1>4. m - 1 \in S
    BY <1>3
  <1>5. QED
    BY <1>3, <1>4

LEMMA PlacesOfAll ==
  ASSUME NEW n \in Nat, NEW k \in 1..n
  PROVE  Place(1..n, k) = k
  <1>1. Cardinality(1..n) = n
    BY FS_Interval
  <1>2. Place(1..n, k) \in 1..n /\ Cardinality({j \in 1..n : j <= Place(1..n, k)}) = k
    BY <1>1, PlaceFacts
  <1>3. {j \in 1..n : j <= Place(1..n, k)} = 1..Place(1..n, k)
    BY <1>2
  <1>4. Cardinality(1..Place(1..n, k)) = Place(1..n, k)
    BY <1>2, FS_Interval
  <1>5. QED
    BY <1>2, <1>3, <1>4

LEMMA PickFacts ==
  ASSUME NEW T, NEW s \in Seq(T), NEW S \in SUBSET DOMAIN s,
         NEW U, \A i \in S : s[i] \in U
  PROVE  /\ Pick(s, S) \in Seq(U)
         /\ Len(Pick(s, S)) = Cardinality(S)
         /\ Len(Pick(s, S)) <= Len(s)
         /\ DOMAIN Pick(s, S) = 1..Cardinality(S)
         /\ Range(Pick(s, S)) = {s[i] : i \in S}
         /\ IsInjective(s) => IsInjective(Pick(s, S))
         /\ (Pick(s, S) = <<>>) <=> (S = {})
         /\ Len(Pick(s, S)) = Len(s) => Pick(s, S) = s
  <1> DEFINE N == Cardinality(S)
             p == Pick(s, S)
  <1>0. DOMAIN s = 1..Len(s) /\ Len(s) \in Nat
    OBVIOUS
  <1>1. /\ IsFiniteSet(S)
        /\ N \in Nat /\ N <= Len(s)
        /\ \A k \in 1..N :
              Place(S, k) \in S /\ Cardinality({j \in S : j <= Place(S, k)}) = k
        /\ \A i \in S : \E k \in 1..N : Place(S, k) = i
    BY <1>0, PlaceFacts
  <1>2. p = [k \in 1..N |-> s[Place(S, k)]]
    BY DEF Pick
  <1>3. p \in Seq(U) /\ Len(p) = N /\ DOMAIN p = 1..N
    <2>1. p \in [1..N -> U]
      BY <1>1, <1>2
    <2>2. QED
      BY <1>1, <2>1
  <1>4. Range(p) = {s[i] : i \in S}
    <2>1. ASSUME NEW x \in Range(p) PROVE \E i \in S : x = s[i]
      <3>1. PICK k \in 1..N : x = s[Place(S, k)]
        BY <1>2, <1>3, <2>1 DEF Range
      <3>2. QED
        BY <1>1, <3>1
    <2>2. ASSUME NEW i \in S PROVE s[i] \in Range(p)
      <3>1. PICK k \in 1..N : Place(S, k) = i
        BY <1>1
      <3>2. p[k] = s[i] /\ k \in DOMAIN p
        BY <1>2, <1>3, <3>1
      <3>3. QED
        BY <3>2 DEF Range
    <2>3. QED
      BY <2>1, <2>2
  <1>5. ASSUME IsInjective(s) PROVE IsInjective(p)
    <2> SUFFICES ASSUME NEW k \in 1..N, NEW l \in 1..N, p[k] = p[l] PROVE k = l
      BY <1>3 DEF IsInjective
    <2>1. Place(S, k) \in DOMAIN s /\ Place(S, l) \in DOMAIN s
      BY <1>1
    <2>2. Place(S, k) = Place(S, l)
      BY <1>2, <1>5, <2>1 DEF IsInjective
    <2>3. QED
      BY <1>1, <2>2
  <1>6. (p = <<>>) <=> (S = {})
    <2>1. (p = <<>>) <=> (N = 0)
      BY <1>3
    <2>2. QED
      BY <1>1, <2>1, FS_EmptySet
  <1>7. ASSUME Len(p) = Len(s) PROVE p = s
    <2>1. IsFiniteSet(1..Len(s)) /\ Cardinality(1..Len(s)) = Len(s)
      BY <1>0, FS_Interval
    <2>2. S = 1..Len(s)
      BY <1>0, <1>3, <1>7, <2>1, FS_Subset
    <2>3. \A k \in 1..Len(s) : p[k] = s[k]
      BY <1>0, <1>2, <1>3, <1>7, <2>2, PlacesOfAll
    <2>4. QED
      BY <1>0, <1>2, <1>3, <1>7, <2>3
  <1>8. QED
    BY <1>1, <1>3, <1>4, <1>5, <1>6, <1>7

-----------------------------------------------------------------------------
(* Which elements sequences have, and whether they have one twice.         *)

LEMMA EmptyFacts == Range(<<>>) = {} /\ IsInjective(<<>>)
  <1>1. DOMAIN <<>> = {}
    OBVIOUS
  <1>2. QED
    BY <1>1 DEF Range, IsInjective

LEMMA RangeType ==
  ASSUME NEW T, NEW s \in Seq(T)
  PROVE  /\ Range(s) \subseteq T
         /\ (Range(s) = {}) <=> (s = <<>>)
  <1>1. DOMAIN s = 1..Len(s) /\ Len(s) \in Nat /\ (s = <<>> <=> Len(s) = 0)
    OBVIOUS
  <1>2. Range(s) \subseteq T
    BY <1>1 DEF Range
  <1>3. ASSUME s # <<>> PROVE s[1] \in Range(s)
    BY <1>1, <1>3 DEF Range
  <1>4. s = <<>> => Range(s) = {}
    BY EmptyFacts
  <1>5. QED
    BY <1>2, <1>3, <1>4

LEMMA SingletonFacts ==
  ASSUME NEW T, NEW d \in T
  PROVE  Range(<<d>>) = {d} /\ IsInjective(<<d>>) /\ <<d>> \in Seq(T) /\ Len(<<d>>) = 1
  BY DEF Range, IsInjective

LEMMA ConcatFacts ==
  ASSUME NEW T, NEW p \in Seq(T), NEW q \in Seq(T)
  PROVE  /\ p \o q \in Seq(T)
         /\ Range(p \o q) = Range(p) \cup Range(q)
         /\ IsInjective(p) /\ IsInjective(q) /\ Range(p) \cap Range(q) = {}
              <=> IsInjective(p \o q)
  <1>1. /\ p \o q \in Seq(T)
        /\ Len(p) \in Nat /\ Len(q) \in Nat
        /\ DOMAIN p = 1..Len(p) /\ DOMAIN q = 1..Len(q)
        /\ DOMAIN (p \o q) = 1..(Len(p) + Len(q))
        /\ \A i \in 1..Len(p) : (p \o q)[i] = p[i]
        /\ \A i \in 1..Len(q) : (p \o q)[Len(p) + i] = q[i]
    OBVIOUS
  <1>2. \A k \in 1..(Len(p) + Len(q)) : k \in 1..Len(p) \/ \E i \in 1..Len(q) : k = Len(p) + i
    <2> SUFFICES ASSUME NEW k \in 1..(Len(p) + Len(q)), k \notin 1..Len(p)
                 PROVE  k - Len(p) \in 1..Len(q) /\ k = Len(p) + (k - Len(p))
      OBVIOUS
    <2>1. QED
      BY <1>1
  <1>3. Range(p \o q) = Range(p) \cup Range(q)
    <2>1. ASSUME NEW x \in Range(p \o q) PROVE x \in Range(p) \cup Range(q)
      BY <1>1, <1>2 DEF Range
    <2>2. ASSUME NEW x \in Range(p) PROVE x \in Range(p \o q)
      <3>1. PICK i \in 1..Len(p) : x = p[i]
        BY <1>1 DEF Range
      <3>2. i \in DOMAIN (p \o q) /\ (p \o q)[i] = x
        BY <1>1, <3>1
      <3>3. QED
        BY <3>2 DEF Range
    <2>3. ASSUME NEW x \in Range(q) PROVE x \in Range(p \o q)
      <3>1. PICK i \in 1..Len(q) : x = q[i]
        BY <1>1 DEF Range
      <3>2. Len(p) + i \in DOMAIN (p \o q) /\ (p \o q)[Len(p) + i] = x
        BY <1>1, <3>1
      <3>3. QED
        BY <3>2 DEF Range
    <2>4. QED
      BY <2>1, <2>2, <2>3
  <1>4. ASSUME IsInjective(p), IsInjective(q), Range(p) \cap Range(q) = {}
        PROVE  IsInjective(p \o q)
    <2> SUFFICES ASSUME NEW k \in DOMAIN (p \o q), NEW l \in DOMAIN (p \o q),
                        (p \o q)[k] = (p \o q)[l]
                 PROVE  k = l
      BY DEF IsInjective
    <2>1. \A i \in 1..Len(p) : p[i] \in Range(p)
      BY <1>1 DEF Range
    <2>2. \A i \in 1..Len(q) : q[i] \in Range(q)
      BY <1>1 DEF Range
    <2>3. CASE k \in 1..Len(p) /\ l \in 1..Len(p)
      BY <1>1, <1>4, <2>3 DEF IsInjective
    <2>4. CASE \E i, j \in 1..Len(q) : k = Len(p) + i /\ l = Len(p) + j
      <3>1. PICK i \in 1..Len(q), j \in 1..Len(q) : k = Len(p) + i /\ l = Len(p) + j
        BY <2>4
      <3>2. q[i] = q[j]
        BY <1>1, <3>1
      <3>3. i = j
        BY <1>1, <1>4, <3>2 DEF IsInjective
      <3>4. QED
        BY <3>1, <3>3
    <2>5. CASE k \in 1..Len(p) /\ \E j \in 1..Len(q) : l = Len(p) + j
      BY <1>1, <1>4, <2>1, <2>2, <2>5
    <2>6. CASE l \in 1..Len(p) /\ \E i \in 1..Len(q) : k = Len(p) + i
      BY <1>1, <1>4, <2>1, <2>2, <2>6
    <2>7. QED
      BY <1>1, <1>2, <2>3, <2>4, <2>5, <2>6
  <1>5. ASSUME IsInjective(p \o q)
        PROVE  IsInjective(p) /\ IsInjective(q) /\ Range(p) \cap Range(q) = {}
    <2>1. IsInjective(p)
      <3> SUFFICES ASSUME NEW i \in 1..Len(p), NEW j \in 1..Len(p), p[i] = p[j] PROVE i = j
        BY <1>1 DEF IsInjective
      <3>1. i \in DOMAIN (p \o q) /\ j \in DOMAIN (p \o q) /\ (p \o q)[i] = (p \o q)[j]
        BY <1>1
      <3>2. QED
        BY <1>5, <3>1 DEF IsInjective
    <2>2. IsInjective(q)
      <3> SUFFICES ASSUME NEW i \in 1..Len(q), NEW j \in 1..Len(q), q[i] = q[j] PROVE i = j
        BY <1>1 DEF IsInjective
      <3>1. /\ Len(p) + i \in DOMAIN (p \o q) /\ Len(p) + j \in DOMAIN (p \o q)
            /\ (p \o q)[Len(p) + i] = (p \o q)[Len(p) + j]
        BY <1>1
      <3>2. Len(p) + i = Len(p) + j
        BY <1>5, <3>1 DEF IsInjective
      <3>3. QED
        BY <1>1, <3>2
    <2>3. ASSUME NEW x \in Range(p), x \in Range(q) PROVE FALSE
      <3>1. PICK i \in 1..Len(p) : x = p[i]
        BY <1>1 DEF Range
      <3>2. PICK j \in 1..Len(q) : x = q[j]
        BY <1>1, <2>3 DEF Range
      <3>3. /\ i \in DOMAIN (p \o q) /\ Len(p) + j \in DOMAIN (p \o q)
            /\ (p \o q)[i] = (p \o q)[Len(p) + j]
        <4>1. i \in 1..(Len(p) + Len(q)) /\ Len(p) + j \in 1..(Len(p) + Len(q))
          BY <1>1
        <4>2. (p \o q)[i] = x /\ (p \o q)[Len(p) + j] = x
          BY <1>1, <3>1, <3>2
        <4>3. QED
          BY <1>1, <4>1, <4>2
      <3>4. i = Len(p) + j
        BY <1>5, <3>3 DEF IsInjective
      <3>5. QED
        BY <1>1, <3>4
    <2>4. QED
      BY <2>1, <2>2, <2>3
  <1>6. QED
    BY <1>1, <1>3, <1>4, <1>5

LEMMA AppendFacts ==
  ASSUME NEW T, NEW s \in Seq(T), NEW d \in T
  PROVE  /\ Append(s, d) \in Seq(T)
         /\ Append(s, d) # <<>>
         /\ Len(Append(s, d)) = Len(s) + 1
         /\ Range(Append(s, d)) = Range(s) \cup {d}
         /\ IsInjective(s) /\ d \notin Range(s) => IsInjective(Append(s, d))
  <1>1. /\ Append(s, d) = s \o <<d>>
        /\ Append(s, d) \in Seq(T) /\ Append(s, d) # <<>> /\ Len(Append(s, d)) = Len(s) + 1
    OBVIOUS
  <1>2. <<d>> \in Seq(T) /\ Range(<<d>>) = {d} /\ IsInjective(<<d>>)
    BY SingletonFacts
  <1>3. /\ Range(s \o <<d>>) = Range(s) \cup Range(<<d>>)
        /\ IsInjective(s) /\ IsInjective(<<d>>) /\ Range(s) \cap Range(<<d>>) = {}
             <=> IsInjective(s \o <<d>>)
    BY <1>2, ConcatFacts
  <1>4. d \notin Range(s) => Range(s) \cap Range(<<d>>) = {}
    BY <1>2
  <1>5. QED
    BY <1>1, <1>2, <1>3, <1>4

LEMMA TailFacts ==
  ASSUME NEW T, NEW s \in Seq(T), s # <<>>
  PROVE  /\ s[1] \in T /\ Head(s) = s[1]
         /\ Tail(s) \in Seq(T)
         /\ Len(Tail(s)) = Len(s) - 1
         /\ s = <<s[1]>> \o Tail(s)
         /\ Range(s) = {s[1]} \cup Range(Tail(s))
         /\ IsInjective(s) => IsInjective(Tail(s)) /\ s[1] \notin Range(Tail(s))
  <1>1. /\ s[1] \in T /\ Head(s) = s[1] /\ Tail(s) \in Seq(T) /\ Len(Tail(s)) = Len(s) - 1
        /\ s = <<s[1]>> \o Tail(s)
    OBVIOUS
  <1>2. <<s[1]>> \in Seq(T) /\ Range(<<s[1]>>) = {s[1]}
    BY <1>1, SingletonFacts
  <1>3. /\ Range(<<s[1]>> \o Tail(s)) = Range(<<s[1]>>) \cup Range(Tail(s))
        /\ IsInjective(<<s[1]>> \o Tail(s)) =>
             IsInjective(Tail(s)) /\ Range(<<s[1]>>) \cap Range(Tail(s)) = {}
    BY <1>1, <1>2, ConcatFacts
  <1>4. Range(s) = {s[1]} \cup Range(Tail(s))
    BY <1>1, <1>2, <1>3
  <1>5. IsInjective(s) => IsInjective(Tail(s)) /\ s[1] \notin Range(Tail(s))
    BY <1>1, <1>2, <1>3
  <1>6. QED
    BY <1>1, <1>4, <1>5

\* Taking a sequence apart, by any set of its places.
LEMMA SplitFacts ==
  ASSUME NEW T, NEW s \in Seq(T), NEW S \in SUBSET DOMAIN s,
         NEW p, p = Pick(s, S), NEW q, q = Pick(s, DOMAIN s \ S)
  PROVE  /\ p \in Seq(T) /\ q \in Seq(T)
         /\ Range(p \o q) = Range(s)
         /\ IsInjective(s) => IsInjective(p \o q)
  <1>0. \A i \in DOMAIN s : s[i] \in T
    OBVIOUS
  <1>1. /\ p \in Seq(T) /\ Range(p) = {s[i] : i \in S}
        /\ IsInjective(s) => IsInjective(p)
    BY <1>0, PickFacts
  <1>2. /\ q \in Seq(T) /\ Range(q) = {s[i] : i \in DOMAIN s \ S}
        /\ IsInjective(s) => IsInjective(q)
    <2>1. DOMAIN s \ S \in SUBSET DOMAIN s /\ \A i \in DOMAIN s \ S : s[i] \in T
      BY <1>0
    <2>2. QED
      BY <2>1, PickFacts
  <1>3. Range(p) \cup Range(q) = Range(s)
    BY <1>1, <1>2 DEF Range
  <1>4. ASSUME IsInjective(s), NEW x \in Range(p), x \in Range(q) PROVE FALSE
    <2>1. PICK i \in S : x = s[i]
      BY <1>1
    <2>2. PICK j \in DOMAIN s \ S : x = s[j]
      BY <1>2, <1>4
    <2>3. i = j
      BY <1>4, <2>1, <2>2 DEF IsInjective
    <2>4. QED
      BY <2>3
  <1>5. /\ Range(p \o q) = Range(p) \cup Range(q)
        /\ IsInjective(p) /\ IsInjective(q) /\ Range(p) \cap Range(q) = {} => IsInjective(p \o q)
    <2>1. p \in Seq(T) /\ q \in Seq(T)
      BY <1>1, <1>2
    <2>2. QED
      BY ONLY <2>1, ConcatFacts
  <1>6. QED
    BY <1>1, <1>2, <1>3, <1>4, <1>5
=============================================================================
