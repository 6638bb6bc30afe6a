----------------------------- MODULE FastSmrProofs -----------------------------
(***************************************************************************)
(* fastsmr loses no work, counts it, misses no wakeup and keeps the grace  *)
(* period, for any number of threads and any work.                         *)
(***************************************************************************)
EXTENDS FastSmrInv, SequenceTheorems, FiniteSetTheorems, WellFoundedInduction, TLAPS

-------------------------------------------------------------------------------
(* Facts about sequences and the sets of their elements *)

LEMMA ElementsType ==
    ASSUME NEW S, NEW s \in Seq(S)
    PROVE  /\ Len(s) \in Nat /\ Elements(s) \subseteq S
           /\ \A i \in 1..Len(s) : s[i] \in Elements(s) /\ s[i] \in S
           /\ \A x \in Elements(s) : \E i \in 1..Len(s) : s[i] = x
BY ElementOfSeq, LenProperties DEF Elements

LEMMA ElementsEmpty ==
    /\ Len(<<>>) = 0 /\ Elements(<<>>) = {} /\ Distinct(<<>>)
    /\ \A S : \A s \in Seq(S) : (s = <<>> <=> Elements(s) = {}) /\ (s = <<>> <=> Len(s) = 0)
<1>1. Len(<<>>) = 0 /\ Elements(<<>>) = {} /\ Distinct(<<>>)
  BY DEF Elements, Distinct
<1>2. ASSUME NEW S, NEW s \in Seq(S)
      PROVE  (s = <<>> <=> Elements(s) = {}) /\ (s = <<>> <=> Len(s) = 0)
  <2>1. s # <<>> => Len(s) \in Nat \ {0}
    BY EmptySeq
  <2>2. s # <<>> => s[1] \in Elements(s)
    BY <2>1 DEF Elements
  <2> QED
    BY <1>1, <2>1, <2>2
<1> QED
  BY <1>1, <1>2

LEMMA ElementsConcat ==
    ASSUME NEW S, NEW s \in Seq(S), NEW u \in Seq(S)
    PROVE  /\ s \o u \in Seq(S) /\ Len(s \o u) = Len(s) + Len(u)
           /\ Elements(s \o u) = Elements(s) \union Elements(u)
<1>1. /\ s \o u \in Seq(S)
      /\ Len(s \o u) = Len(s) + Len(u)
      /\ \A i \in 1..(Len(s) + Len(u)) :
            (s \o u)[i] = IF i <= Len(s) THEN s[i] ELSE u[i - Len(s)]
      /\ Len(s) \in Nat /\ Len(u) \in Nat
  BY ConcatProperties, LenProperties
<1>2. Elements(s \o u) \subseteq Elements(s) \union Elements(u)
  <2> SUFFICES ASSUME NEW i \in 1..(Len(s) + Len(u))
               PROVE  (s \o u)[i] \in Elements(s) \union Elements(u)
    BY <1>1 DEF Elements
  <2>1. CASE i <= Len(s)
    BY <1>1, <2>1 DEF Elements
  <2>2. CASE i > Len(s)
    <3>1. i - Len(s) \in 1..Len(u)
      BY <1>1, <2>2
    <3> QED
      BY <1>1, <2>2, <3>1 DEF Elements
  <2> QED
    BY <1>1, <2>1, <2>2
<1>3. Elements(s) \subseteq Elements(s \o u)
  <2> SUFFICES ASSUME NEW i \in 1..Len(s) PROVE s[i] \in Elements(s \o u)
    BY DEF Elements
  <2>1. i \in 1..(Len(s) + Len(u)) /\ (s \o u)[i] = s[i]
    BY <1>1
  <2> QED
    BY <1>1, <2>1 DEF Elements
<1>4. Elements(u) \subseteq Elements(s \o u)
  <2> SUFFICES ASSUME NEW i \in 1..Len(u) PROVE u[i] \in Elements(s \o u)
    BY DEF Elements
  <2> DEFINE k == i + Len(s)
  <2>1. k \in 1..(Len(s) + Len(u)) /\ ~(k <= Len(s)) /\ k - Len(s) = i
    BY <1>1
  <2>2. (s \o u)[k] = u[i]
    BY <1>1, <2>1
  <2> QED
    BY <1>1, <2>1, <2>2 DEF Elements
<1> QED
  BY <1>1, <1>2, <1>3, <1>4

LEMMA DistinctConcat ==
    ASSUME NEW S, NEW s \in Seq(S), NEW u \in Seq(S),
           Distinct(s), Distinct(u), Elements(s) \intersect Elements(u) = {}
    PROVE  Distinct(s \o u)
<1>1. /\ Len(s \o u) = Len(s) + Len(u)
      /\ \A i \in 1..(Len(s) + Len(u)) :
            (s \o u)[i] = IF i <= Len(s) THEN s[i] ELSE u[i - Len(s)]
      /\ Len(s) \in Nat /\ Len(u) \in Nat
  BY ConcatProperties, LenProperties
<1>2. \A i \in 1..(Len(s) + Len(u)) :
         IF i <= Len(s) THEN i \in 1..Len(s) ELSE i - Len(s) \in 1..Len(u)
  BY <1>1
<1>3. \A i \in 1..Len(s), j \in 1..Len(u) : s[i] # u[j]
  BY DEF Elements
<1>4. ASSUME NEW i \in 1..(Len(s) + Len(u)), NEW j \in 1..(Len(s) + Len(u)),
             (s \o u)[i] = (s \o u)[j]
      PROVE  i = j
  <2>1. CASE i <= Len(s) /\ j <= Len(s)
    BY <1>1, <1>2, <1>4, <2>1 DEF Distinct
  <2>2. CASE i <= Len(s) /\ ~(j <= Len(s))
    BY <1>1, <1>2, <1>3, <1>4, <2>2
  <2>3. CASE ~(i <= Len(s)) /\ j <= Len(s)
    BY <1>1, <1>2, <1>3, <1>4, <2>3
  <2>4. CASE ~(i <= Len(s)) /\ ~(j <= Len(s))
    <3>1. i - Len(s) = j - Len(s)
      BY <1>1, <1>2, <1>4, <2>4 DEF Distinct
    <3> QED
      BY <1>1, <3>1
  <2> QED
    BY <2>1, <2>2, <2>3, <2>4
<1> QED
  BY <1>1, <1>4 DEF Distinct

LEMMA ElementsAppend ==
    ASSUME NEW S, NEW s \in Seq(S), NEW x \in S
    PROVE  /\ Append(s, x) \in Seq(S) /\ Len(Append(s, x)) = Len(s) + 1
           /\ Elements(Append(s, x)) = Elements(s) \union {x}
           /\ Distinct(s) /\ x \notin Elements(s) => Distinct(Append(s, x))
<1>1. <<x>> \in Seq(S) /\ Len(<<x>>) = 1 /\ Elements(<<x>>) = {x} /\ Distinct(<<x>>)
  BY DEF Elements, Distinct
<1>2. Append(s, x) = s \o <<x>>
  BY AppendIsConcat
<1>3. /\ s \o <<x>> \in Seq(S) /\ Len(s \o <<x>>) = Len(s) + Len(<<x>>)
      /\ Elements(s \o <<x>>) = Elements(s) \union Elements(<<x>>)
  BY <1>1, ElementsConcat
<1>4. Distinct(s) /\ x \notin Elements(s) => Distinct(s \o <<x>>)
  <2>1. x \notin Elements(s) => Elements(s) \intersect Elements(<<x>>) = {}
    BY <1>1
  <2> QED
    BY <1>1, <2>1, DistinctConcat
<1> QED
  BY <1>1, <1>2, <1>3, <1>4

LEMMA ElementsTail ==
    ASSUME NEW S, NEW s \in Seq(S), s # <<>>
    PROVE  /\ Head(s) \in S /\ Tail(s) \in Seq(S) /\ Len(Tail(s)) = Len(s) - 1
           /\ Head(s) = s[1] /\ Len(s) \in Nat \ {0}
           /\ Elements(s) = {Head(s)} \union Elements(Tail(s))
           /\ Distinct(s) => Distinct(Tail(s)) /\ Head(s) \notin Elements(Tail(s))
<1>1. /\ Head(s) \in S /\ Tail(s) \in Seq(S)
      /\ Len(Tail(s)) = Len(s) - 1
      /\ \A i \in 1..Len(Tail(s)) : Tail(s)[i] = s[i + 1]
      /\ Len(s) \in Nat \ {0} /\ Head(s) = s[1]
  BY HeadTailProperties, EmptySeq
<1>2. \A i \in 1..Len(Tail(s)) : i + 1 \in 1..Len(s) /\ i + 1 # 1
  BY <1>1
<1>3. \A j \in 1..Len(s) : j = 1 \/ (j - 1 \in 1..Len(Tail(s)) /\ (j - 1) + 1 = j)
  BY <1>1
<1>4. Elements(s) = {Head(s)} \union Elements(Tail(s))
  <2>1. \A j \in 1..Len(s) : j = 1 \/ Tail(s)[j - 1] = s[j]
    BY <1>1, <1>3
  <2>2. Elements(s) \subseteq {Head(s)} \union Elements(Tail(s))
    BY <1>1, <1>3, <2>1 DEF Elements
  <2>3. Head(s) \in Elements(s)
    BY <1>1 DEF Elements
  <2>4. Elements(Tail(s)) \subseteq Elements(s)
    BY <1>1, <1>2 DEF Elements
  <2> QED
    BY <2>2, <2>3, <2>4
<1>5. ASSUME Distinct(s)
      PROVE  Distinct(Tail(s)) /\ Head(s) \notin Elements(Tail(s))
  <2>1. ASSUME NEW i \in 1..Len(Tail(s)), NEW j \in 1..Len(Tail(s)), Tail(s)[i] = Tail(s)[j]
        PROVE  i = j
    <3>1. i + 1 = j + 1
      BY <1>1, <1>2, <1>5, <2>1 DEF Distinct
    <3> QED
      BY <3>1
  <2>2. \A i \in 1..Len(Tail(s)) : Tail(s)[i] # s[1]
    BY <1>1, <1>2, <1>5 DEF Distinct
  <2> QED
    BY <1>1, <2>1, <2>2 DEF Distinct, Elements
<1> QED
  BY <1>1, <1>4, <1>5

(* As many elements as places. *)
LEMMA DistinctCardinality ==
    ASSUME NEW S, NEW s \in Seq(S), Distinct(s)
    PROVE  IsFiniteSet(Elements(s)) /\ Cardinality(Elements(s)) = Len(s)
<1>1. s \in [1..Len(s) -> Elements(s)]
  BY LenProperties, ElementsType
<1>2. s \in Bijection(1..Len(s), Elements(s))
  BY <1>1, ElementsType DEF Distinct, Bijection, Injection, Surjection, IsInjective
<1>3. IsFiniteSet(1..Len(s)) /\ Cardinality(1..Len(s)) = Len(s)
  <2>1. Len(s) \in Nat
    BY LenProperties
  <2> QED
    BY <2>1, FS_Interval
<1> QED
  BY <1>2, <1>3, FS_Bijection DEF ExistsBijection

(* What the filter keeps, and in what order. *)
LEMMA OnlyKeeps ==
    ASSUME NEW X, NEW s \in Seq(X), NEW S
    PROVE  /\ Only(s, S) \in Seq(X) /\ Len(Only(s, S)) <= Len(s)
           /\ Elements(Only(s, S)) = Elements(s) \intersect S
           /\ \A k, l \in 1..Len(Only(s, S)) : k < l =>
                 \E i, j \in 1..Len(s) :
                    i < j /\ s[i] = Only(s, S)[k] /\ s[j] = Only(s, S)[l]
<1> DEFINE kept == {i \in 1..Len(s) : s[i] \in S}
           upto(i) == {j \in kept : j <= i}
           place(k) == CHOOSE i \in kept : Cardinality(upto(i)) = k
           n == Cardinality(kept)
           rank == [i \in kept |-> Cardinality(upto(i))]
<1>1. /\ Len(s) \in Nat /\ IsFiniteSet(1..Len(s)) /\ Cardinality(1..Len(s)) = Len(s)
      /\ IsFiniteSet(kept) /\ n \in Nat /\ n <= Len(s)
  <2>1. Len(s) \in Nat
    BY LenProperties
  <2>2. IsFiniteSet(1..Len(s)) /\ Cardinality(1..Len(s)) = Len(s)
    BY <2>1, FS_Interval
  <2>3. IsFiniteSet(kept) /\ Cardinality(kept) <= Cardinality(1..Len(s))
    BY <2>2, FS_Subset
  <2> QED
    BY <2>1, <2>2, <2>3, FS_CardinalityType
<1>2. ASSUME NEW i \in kept
      PROVE  IsFiniteSet(upto(i)) /\ Cardinality(upto(i)) \in 1..n
  <2>1. upto(i) \subseteq kept /\ i \in upto(i)
    BY <1>1
  <2>2. IsFiniteSet(upto(i)) /\ Cardinality(upto(i)) <= n
    BY <1>1, <2>1, FS_Subset
  <2>3. Cardinality(upto(i)) \in Nat /\ Cardinality(upto(i)) # 0
    BY <2>1, <2>2, FS_CardinalityType, FS_EmptySet
  <2> QED
    BY <1>1, <2>2, <2>3
<1>3. /\ \A i \in kept : i \in 1..Len(s) /\ s[i] \in S
      /\ \A i \in 1..Len(s) : s[i] \in S => i \in kept
      /\ \A i \in kept : rank[i] \in 1..n
  BY <1>2
<1>4. ASSUME NEW i \in kept, NEW j \in kept, i < j
      PROVE  rank[i] < rank[j]
  <2>1. upto(i) \subseteq upto(j) /\ j \in upto(j) /\ j \notin upto(i)
    BY <1>1, <1>4
  <2>2. /\ Cardinality(upto(i)) <= Cardinality(upto(j))
        /\ Cardinality(upto(j)) = Cardinality(upto(i)) => upto(j) = upto(i)
    BY <1>2, <2>1, FS_Subset
  <2>3. rank[i] = Cardinality(upto(i)) /\ rank[j] = Cardinality(upto(j))
    OBVIOUS
  <2> HIDE DEF upto, rank
  <2>4. upto(i) # upto(j)
    BY <2>1
  <2>5. rank[i] \in Nat /\ rank[j] \in Nat
    BY <1>1, <1>3
  <2> QED
    BY <2>2, <2>3, <2>4, <2>5
<1>5. /\ rank \in [kept -> 1..n]
      /\ \A k : \A i \in kept : rank[i] = k => place(k) \in kept /\ rank[place(k)] = k
  BY <1>2
<1>6. Only(s, S) = [k \in 1..n |-> s[place(k)]]
  BY DEF Only
<1> HIDE DEF rank, n, place, kept
<1>7. \A k \in 1..n : \E i \in kept : rank[i] = k
  <2>1. ASSUME NEW i \in kept, NEW j \in kept, rank[i] = rank[j]
        PROVE  i = j
    <3>1. i \in Int /\ j \in Int /\ rank[i] \in Int
      BY <1>1, <1>3
    <3> QED
      BY <1>4, <2>1, <3>1
  <2>2. IsFiniteSet(1..n) /\ Cardinality(1..n) = Cardinality(kept)
    <3>1. IsFiniteSet(1..n) /\ Cardinality(1..n) = n
      BY <1>1, FS_Interval
    <3>2. n = Cardinality(kept)
      BY DEF n
    <3> QED
      BY <3>1, <3>2
  <2>3. rank \in Injection(kept, 1..n)
    BY <1>5, <2>1 DEF Injection, IsInjective
  <2>4. rank \in Surjection(kept, 1..n)
    BY <2>2, <2>3, FS_Injection
  <2> QED
    BY <2>4 DEF Surjection
<1>8. \A k \in 1..n : place(k) \in kept /\ rank[place(k)] = k
  BY <1>5, <1>7
<1>9. /\ Only(s, S) \in Seq(X) /\ Len(Only(s, S)) = n
      /\ \A k \in 1..n : Only(s, S)[k] = s[place(k)]
  <2>1. \A k \in 1..n : s[place(k)] \in X
    BY <1>3, <1>8, ElementOfSeq
  <2>2. [k \in 1..n |-> s[place(k)]] \in Seq(X)
    BY <1>1, <2>1, IsASeq
  <2>3. Len([k \in 1..n |-> s[place(k)]]) = n
    BY <1>1
  <2> QED
    BY <1>6, <2>2, <2>3
<1>10. Elements(Only(s, S)) = Elements(s) \intersect S
  <2>1. ASSUME NEW i \in kept
        PROVE  rank[i] \in 1..n /\ place(rank[i]) = i
    <3>1. /\ place(rank[i]) \in kept /\ rank[place(rank[i])] = rank[i]
          /\ rank[i] \in 1..n /\ rank[i] \in Int
      BY <1>1, <1>3, <1>5
    <3>2. i \in Int /\ place(rank[i]) \in Int
      BY <1>1, <1>3, <3>1
    <3>3. ~(i < place(rank[i])) /\ ~(place(rank[i]) < i)
      BY <1>4, <3>1
    <3> QED
      BY <3>1, <3>2, <3>3
  <2>2. ASSUME NEW x \in Elements(Only(s, S))
        PROVE  x \in Elements(s) \intersect S
    <3>1. PICK k \in 1..n : x = s[place(k)]
      BY <1>9 DEF Elements
    <3> QED
      BY <1>3, <1>8, <3>1 DEF Elements
  <2>3. ASSUME NEW x \in Elements(s) \intersect S
        PROVE  x \in Elements(Only(s, S))
    <3>1. PICK i \in kept : x = s[i]
      BY <1>3 DEF Elements
    <3>2. x = Only(s, S)[rank[i]] /\ rank[i] \in 1..Len(Only(s, S))
      BY <1>9, <2>1, <3>1
    <3> QED
      BY <3>2 DEF Elements
  <2> QED
    BY <2>2, <2>3
<1>11. ASSUME NEW k \in 1..n, NEW l \in 1..n, k < l
       PROVE  \E i, j \in 1..Len(s) :
                 i < j /\ s[i] = Only(s, S)[k] /\ s[j] = Only(s, S)[l]
  <2>1. /\ place(k) \in 1..Len(s) /\ place(l) \in 1..Len(s)
        /\ place(k) \in kept /\ place(l) \in kept
        /\ Only(s, S)[k] = s[place(k)] /\ Only(s, S)[l] = s[place(l)]
    BY <1>3, <1>8, <1>9
  <2>2. place(k) # place(l) /\ ~(place(l) < place(k))
    <3>1. rank[place(k)] = k /\ rank[place(l)] = l
      BY <1>8
    <3>2. place(l) < place(k) => rank[place(l)] < rank[place(k)]
      BY <1>4, <2>1
    <3> QED
      BY <1>1, <1>11, <3>1, <3>2
  <2>3. place(k) < place(l)
    BY <1>1, <2>1, <2>2
  <2> QED
    BY <2>1, <2>3
<1> QED
  BY <1>1, <1>9, <1>10, <1>11

LEMMA OnlyDistinct ==
    ASSUME NEW X, NEW s \in Seq(X), NEW S, Distinct(s)
    PROVE  Distinct(Only(s, S))
<1> DEFINE o == Only(s, S)
<1>1. ASSUME NEW k \in 1..Len(o), NEW l \in 1..Len(o), k < l
      PROVE  o[k] # o[l]
  <2>1. PICK i, j \in 1..Len(s) : i < j /\ s[i] = o[k] /\ s[j] = o[l]
    BY <1>1, OnlyKeeps
  <2> QED
    BY <2>1, ElementsType DEF Distinct
<1>2. Len(o) \in Nat
  BY OnlyKeeps, LenProperties
<1> QED
  BY <1>1, <1>2 DEF Distinct

LEMMA LastExists ==
    ASSUME NEW n \in Nat, NEW I \in SUBSET (1..n), I # {}
    PROVE  \E i \in I : \A j \in I : j <= i
<1> DEFINE T == {n - i : i \in I}
<1>1. T \subseteq Nat /\ T # {}
  <2>1. \A i \in I : n - i \in Nat
    OBVIOUS
  <2> QED
    BY <2>1
<1>2. PICK m \in T : \A k \in T : ~(k < m)
  <2>1. PICK m \in T : \A k \in T : <<k, m>> \notin OpToRel(<, Nat)
    BY <1>1, NatLessThanWellFounded, WFMin
  <2> QED
    BY <1>1, <2>1 DEF OpToRel
<1>3. PICK i \in I : m = n - i
  OBVIOUS
<1>4. ASSUME NEW j \in I PROVE j <= i
  <2>1. ~(n - j < n - i)
    BY <1>2, <1>3
  <2> QED
    BY <2>1
<1> QED
  BY <1>4

-------------------------------------------------------------------------------
(* Facts about the operators of the model *)

Values == Work \union {NULL}
Pair == [{1, 2} -> Values]
Stores == Seq({1, 2} \X Values)

(* A hazard pointer is the last value stored, if any. *)
LEMMA FlushedValue ==
    ASSUME NEW h \in Pair, NEW b \in Stores, NEW k \in {1, 2}
    PROVE  \/ /\ \A i \in 1..Len(b) : b[i][1] # k
              /\ Flushed(h, b)[k] = h[k]
           \/ \E i \in 1..Len(b) :
                 /\ b[i][1] = k /\ Flushed(h, b)[k] = b[i][2]
                 /\ \A j \in 1..Len(b) : b[j][1] = k => j <= i
<1> DEFINE last(l) == {i \in 1..Len(b) : b[i][1] = l}
           val(l) == IF last(l) = {} THEN h[l]
                     ELSE b[CHOOSE i \in last(l) : \A j \in last(l) : j <= i][2]
<1>1. Flushed(h, b)[k] = val(k)
  <2>1. Flushed(h, b) = <<val(1), val(2)>>
    BY DEF Flushed
  <2> HIDE DEF val
  <2> QED
    BY <2>1
<1>2. CASE last(k) = {}
  BY <1>1, <1>2
<1>3. CASE last(k) # {}
  <2>1. \E i \in last(k) : \A j \in last(k) : j <= i
    <3>1. Len(b) \in Nat /\ last(k) \in SUBSET (1..Len(b))
      BY LenProperties DEF Stores
    <3> HIDE DEF last
    <3> QED
      BY <1>3, <3>1, LastExists
  <2> DEFINE i == CHOOSE i \in last(k) : \A j \in last(k) : j <= i
  <2>2. i \in last(k) /\ \A j \in last(k) : j <= i
    BY <2>1
  <2>3. Flushed(h, b)[k] = b[i][2]
    BY <1>1, <1>3
  <2> HIDE DEF i
  <2>4. \A j \in 1..Len(b) : b[j][1] = k => j \in last(k)
    OBVIOUS
  <2>5. i \in 1..Len(b) /\ b[i][1] = k
    BY <2>2
  <2> QED
    BY <2>2, <2>3, <2>4, <2>5
<1> QED
  BY <1>2, <1>3

LEMMA StoreValue ==
    ASSUME NEW b \in Stores, NEW i \in 1..Len(b)
    PROVE  b[i] = <<b[i][1], b[i][2]>> /\ b[i][1] \in {1, 2} /\ b[i][2] \in Values
BY ElementOfSeq DEF Stores

LEMMA FlushedType ==
    ASSUME NEW h \in Pair, NEW b \in Stores
    PROVE  Flushed(h, b) \in Pair
<1>1. Flushed(h, b) = <<Flushed(h, b)[1], Flushed(h, b)[2]>>
  BY DEF Flushed
<1>2. \A k \in {1, 2} : Flushed(h, b)[k] \in Values
  BY FlushedValue, StoreValue DEF Pair
<1>3. ASSUME NEW x \in Values, NEW y \in Values PROVE <<x, y>> \in Pair
  BY DEF Pair
<1> QED
  BY <1>1, <1>2, <1>3

-------------------------------------------------------------------------------
(* The types, in groups of variables that change together *)

TypeWork ==
    /\ queue0 \in [Threads -> Seq(Work)] /\ queue1 \in [Threads -> Seq(Work)]
    /\ smrQueue \in Seq(Work) /\ readyQueue \in Seq(Work)
    /\ batch \in Seq(Work) /\ run \in Seq(Work) /\ deferred \in Seq(Work)
    /\ state \in [Work -> {"live", "pass1", "smr", "pass2"}]
    /\ waiting \in [Work -> SUBSET Threads]
TypeRing ==
    /\ ring \in Seq(Threads) /\ smrNodes \in Seq(Threads)
    /\ fresh \in [Threads -> BOOLEAN] /\ rcuStop \in BOOLEAN
    /\ poll \in PollStates /\ at \in Nat
TypeScan ==
    /\ toCopy \in Seq(Threads \X {1, 2})
    /\ copied \subseteq Values
TypeCount ==
    smrCount \in Nat /\ deferredWork \in Nat /\ workcount \in Nat /\ signals \in Nat
TypeReader ==
    /\ linked \subseteq Work
    /\ hptr \in [Threads -> Pair] /\ buffer \in [Threads -> Stores]
    /\ cand \in [Threads -> Values] /\ using \in [Threads -> Values]

LEMMA TypeGroups ==
    TypeOK <=> TypeWork /\ TypeRing /\ TypeScan /\ TypeCount /\ TypeReader
BY DEF TypeOK, TypeWork, TypeRing, TypeScan, TypeCount, TypeReader, Values, Pair, Stores

LEMMA TypeGroupsNext ==
    TypeWork' /\ TypeRing' /\ TypeScan' /\ TypeCount' /\ TypeReader' => TypeOK'
BY DEF TypeOK, TypeWork, TypeRing, TypeScan, TypeCount, TypeReader, Values, Pair, Stores

-------------------------------------------------------------------------------
(* Where work goes *)

WherePlaces == RingPlaces /\ ReadyPlaces /\ SmrPlaces /\ DeferredPlaces

(* Work that leaves the queue q: its place is one of two queues.           *)
LEMMA PassSplit ==
    ASSUME TypeWork, NEW q \in Seq(Work)
    PROVE  /\ FirstPass(q) \in Seq(Work) /\ SecondPass(q) \in Seq(Work)
           /\ Elements(FirstPass(q)) = InPass(Elements(q), "pass1")
           /\ Elements(SecondPass(q)) = {w \in Elements(q) : state[w] # "pass1"}
           /\ Distinct(q) => Distinct(FirstPass(q)) /\ Distinct(SecondPass(q))
<1> DEFINE S == {w \in Work : state[w] = "pass1"}
           T == {w \in Work : state[w] # "pass1"}
<1>1. Elements(q) \subseteq Work
  BY ElementsType
<1>2. FirstPass(q) = Only(q, S) /\ SecondPass(q) = Only(q, T)
  BY DEF FirstPass, SecondPass
<1>3. Elements(q) \intersect S = InPass(Elements(q), "pass1")
  BY <1>1 DEF InPass
<1>4. Elements(q) \intersect T = {w \in Elements(q) : state[w] # "pass1"}
  BY <1>1
<1> HIDE DEF S, T
<1>5. /\ Only(q, S) \in Seq(Work) /\ Elements(Only(q, S)) = Elements(q) \intersect S
      /\ Distinct(q) => Distinct(Only(q, S))
  BY OnlyKeeps, OnlyDistinct
<1>6. /\ Only(q, T) \in Seq(Work) /\ Elements(Only(q, T)) = Elements(q) \intersect T
      /\ Distinct(q) => Distinct(Only(q, T))
  BY OnlyKeeps, OnlyDistinct
<1> QED
  BY <1>2, <1>3, <1>4, <1>5, <1>6

(* The queues of the ring after a visit. *)
LEMMA ShiftMoves ==
    ASSUME TypeWork, WherePlaces, NEW n \in Threads, Shift(n),
           UNCHANGED <<batch, run, deferred, waiting>>
    PROVE  /\ TypeWork'
           /\ queue1'[n] = queue0[n] /\ queue0'[n] = <<>>
           /\ \A m \in Threads \ {n} : queue0'[m] = queue0[m] /\ queue1'[m] = queue1[m]
           /\ Elements(smrQueue') =
                 Elements(smrQueue) \union InPass(Elements(queue1[n]), "pass1")
           /\ Elements(readyQueue') =
                 Elements(readyQueue) \union {w \in Elements(queue1[n]) : state[w] # "pass1"}
           /\ Distinct(smrQueue') /\ Distinct(readyQueue')
           /\ \A w \in Work : state'[w] =
                 IF w \in InPass(Elements(queue1[n]), "pass1") THEN "smr" ELSE state[w]
<1> DEFINE q == queue1[n]
           f == FirstPass(q)
           r == SecondPass(q)
<1>1. q \in Seq(Work) /\ queue0[n] \in Seq(Work) /\ Distinct(q)
  BY DEF TypeWork, WherePlaces, RingPlaces
<1>2. /\ f \in Seq(Work) /\ r \in Seq(Work)
      /\ Elements(f) = InPass(Elements(q), "pass1")
      /\ Elements(r) = {w \in Elements(q) : state[w] # "pass1"}
      /\ Distinct(f) /\ Distinct(r)
  BY <1>1, PassSplit
<1>3. /\ smrQueue' = smrQueue \o f /\ readyQueue' = readyQueue \o r
      /\ state' = WithState(Elements(f), "smr")
      /\ queue1' = [queue1 EXCEPT ![n] = queue0[n]]
      /\ queue0' = [queue0 EXCEPT ![n] = <<>>]
  BY DEF Shift, LeavePass
<1> HIDE DEF f, r
<1>4. Elements(smrQueue) \intersect Elements(f) = {}
  <2>1. \A w \in Elements(f) : w \in Work /\ state[w] = "pass1"
    BY <1>1, <1>2, ElementsType DEF InPass
  <2> QED
    BY <2>1 DEF WherePlaces, SmrPlaces
<1>5. Elements(readyQueue) \intersect Elements(r) = {}
  <2>1. \A w \in Elements(r) : w \in OnNode(n)
    BY <1>2 DEF OnNode
  <2> QED
    BY <2>1 DEF WherePlaces, RingPlaces, Ready
<1>6. /\ smrQueue' \in Seq(Work) /\ Elements(smrQueue') = Elements(smrQueue) \union Elements(f)
      /\ Distinct(smrQueue')
  BY <1>2, <1>3, <1>4, ElementsConcat, DistinctConcat DEF TypeWork, WherePlaces, SmrPlaces
<1>7. /\ readyQueue' \in Seq(Work) /\ Elements(readyQueue') = Elements(readyQueue) \union Elements(r)
      /\ Distinct(readyQueue')
  BY <1>2, <1>3, <1>5, ElementsConcat, DistinctConcat DEF TypeWork, WherePlaces, ReadyPlaces
<1>8. \A w \in Work : state'[w] = IF w \in Elements(f) THEN "smr" ELSE state[w]
  BY <1>3 DEF WithState
<1>9. state' \in [Work -> {"live", "pass1", "smr", "pass2"}]
  BY <1>3 DEF WithState, TypeWork
<1>10. /\ queue0' \in [Threads -> Seq(Work)] /\ queue1' \in [Threads -> Seq(Work)]
       /\ queue1'[n] = queue0[n] /\ queue0'[n] = <<>>
       /\ \A m \in Threads \ {n} : queue0'[m] = queue0[m] /\ queue1'[m] = queue1[m]
  BY <1>1, <1>3, EmptySeq DEF TypeWork
<1> QED
  BY <1>2, <1>6, <1>7, <1>8, <1>9, <1>10 DEF TypeWork

LEMMA ShiftPlaces ==
    ASSUME TypeWork, WherePlaces, NEW n \in Threads, n \in Registered, Shift(n),
           UNCHANGED <<ring, batch, run, deferred, waiting>>
    PROVE  TypeWork' /\ WherePlaces'
<1> DEFINE P == InPass(Elements(queue1[n]), "pass1")
           R == {w \in Elements(queue1[n]) : state[w] # "pass1"}
<1>1. /\ TypeWork'
      /\ queue1'[n] = queue0[n] /\ queue0'[n] = <<>>
      /\ \A m \in Threads \ {n} : queue0'[m] = queue0[m] /\ queue1'[m] = queue1[m]
      /\ Elements(smrQueue') = Elements(smrQueue) \union P
      /\ Elements(readyQueue') = Elements(readyQueue) \union R
      /\ Distinct(smrQueue') /\ Distinct(readyQueue')
      /\ \A w \in Work : state'[w] = IF w \in P THEN "smr" ELSE state[w]
  BY ShiftMoves
<1>2. /\ \A m \in Threads : Elements(queue0[m]) \subseteq Work /\ Elements(queue1[m]) \subseteq Work
      /\ Elements(readyQueue) \subseteq Work /\ Elements(batch) \subseteq Work
      /\ Elements(run) \subseteq Work /\ Elements(deferred) \subseteq Work
      /\ Elements(smrQueue) \subseteq Work
  BY ElementsType DEF TypeWork
<1>3. /\ P \union R = Elements(queue1[n]) /\ P \intersect R = {}
      /\ (\A w \in P : state[w] = "pass1") /\ (\A w \in R : state[w] # "pass1")
  BY DEF InPass
<1>4. \A w \in Elements(queue1[n]) : state[w] \in {"pass1", "pass2"} /\ w \notin Ready
  BY DEF WherePlaces, RingPlaces, OnNode
<1> HIDE DEF P, R
<1>5. /\ OnNode(n)' = Elements(queue0[n])
      /\ \A m \in Threads \ {n} : OnNode(m)' = OnNode(m)
  BY <1>1, ElementsEmpty DEF OnNode
<1>6. Ready' = Ready \union R
  BY <1>1 DEF Ready
<1>7. RingPlaces'
  <2>1. \A m \in Threads : OnNode(m)' \subseteq OnNode(m)
    BY <1>5 DEF OnNode
  <2>2. \A m \in Threads : OnNode(m)' \intersect Elements(queue1[n]) = {}
    BY <1>5 DEF WherePlaces, RingPlaces, OnNode
  <2>3. ASSUME NEW m \in Threads
        PROVE  /\ Distinct(queue0'[m]) /\ Distinct(queue1'[m])
               /\ Elements(queue0'[m]) \intersect Elements(queue1'[m]) = {}
    BY <1>1, ElementsEmpty DEF WherePlaces, RingPlaces
  <2>4. ASSUME NEW m \in Threads, NEW w \in OnNode(m)'
        PROVE  state'[w] \in {"pass1", "pass2"} /\ w \notin Ready'
    <3>1. w \in Work /\ w \in OnNode(m)
      BY <1>2, <2>1 DEF OnNode
    <3> QED
      BY <1>1, <1>3, <1>6, <2>2, <3>1 DEF WherePlaces, RingPlaces
  <2>5. Registered' = Registered
    BY DEF Registered
  <2> QED
    BY <2>1, <2>3, <2>4, <2>5 DEF WherePlaces, RingPlaces
<1>8. ReadyPlaces'
  <2>1. \A w \in R : w \in Work /\ state[w] = "pass2" /\ w \notin P
    BY <1>2, <1>3, <1>4
  <2>2. \A w \in Ready : w \in Work /\ w \notin P
    BY <1>2, <1>3 DEF WherePlaces, ReadyPlaces, Ready
  <2>3. \A w \in R : w \notin Ready
    BY <1>3, <1>4
  <2> QED
    BY <1>1, <1>6, <2>1, <2>2, <2>3 DEF WherePlaces, ReadyPlaces, Ready
<1>9. SmrPlaces'
  <2>1. P \subseteq Work
    BY <1>2, <1>3
  <2> QED
    BY <1>1, <2>1 DEF WherePlaces, SmrPlaces
<1>10. DeferredPlaces'
  <2>1. \A w \in Work : state'[w] # "live" <=> state[w] # "live"
    BY <1>1, <1>3
  <2>2. ASSUME NEW w \in Elements(deferred)
        PROVE  (\E m \in Threads : w \in OnNode(m)') \/ w \in Elements(smrQueue') \/ w \in Ready'
    <3>1. CASE w \in Elements(smrQueue) \/ w \in Ready
      BY <1>1, <1>6, <3>1
    <3>2. CASE \E m \in Threads : w \in OnNode(m)
      BY <1>1, <1>3, <1>5, <1>6, <3>2 DEF OnNode
    <3> QED
      BY <3>1, <3>2 DEF WherePlaces, DeferredPlaces
  <2> QED
    BY <2>1, <2>2 DEF WherePlaces, DeferredPlaces
<1> QED
  BY <1>1, <1>7, <1>8, <1>9, <1>10 DEF WherePlaces

(* Where all the work of a place is known to be work. *)
LEMMA PlacesAreWork ==
    ASSUME TypeWork
    PROVE  /\ \A m \in Threads : Elements(queue0[m]) \subseteq Work /\ Elements(queue1[m]) \subseteq Work
           /\ \A m \in Threads : OnNode(m) \subseteq Work
           /\ Elements(readyQueue) \subseteq Work /\ Elements(batch) \subseteq Work
           /\ Elements(run) \subseteq Work /\ Elements(deferred) \subseteq Work
           /\ Elements(smrQueue) \subseteq Work /\ Ready \subseteq Work
BY ElementsType DEF TypeWork, OnNode, Ready

(* Live work is nowhere. *)
LEMMA LiveNowhere ==
    ASSUME TypeWork, WherePlaces, NEW w \in Work, state[w] = "live"
    PROVE  /\ \A m \in Threads : w \notin OnNode(m)
           /\ w \notin Elements(smrQueue) /\ w \notin Ready /\ w \notin Elements(deferred)
BY DEF WherePlaces, RingPlaces, ReadyPlaces, SmrPlaces, DeferredPlaces

LEMMA RingHead ==
    ASSUME ring \in Seq(Threads), ring # <<>>
    PROVE  ring[1] \in Threads /\ ring[1] \in Registered /\ 1 \in 1..Len(ring)
<1>1. Len(ring) \in Nat \ {0}
  BY EmptySeq
<1> QED
  BY <1>1, ElementsType DEF Registered

LEMMA DeferPlacesWork ==
    ASSUME TypeWork, ring \in Seq(Threads), WherePlaces, NEW w \in Work, Defer(w)
    PROVE  TypeWork' /\ WherePlaces'
<1>1. /\ state[w] = "live" /\ deferred' = Append(deferred, w)
      /\ waiting' = [v \in Work |-> IF v \in {w} THEN Registered ELSE waiting[v]]
      /\ UNCHANGED <<ring, queue1, smrQueue, batch, run>>
  BY DEF Defer, StartPass, smrVars, pollVars
<1>2. /\ deferred' \in Seq(Work) /\ Elements(deferred') = Elements(deferred) \union {w}
      /\ Distinct(deferred')
  BY <1>1, LiveNowhere, ElementsAppend DEF TypeWork, WherePlaces, DeferredPlaces
<1>3. waiting' \in [Work -> SUBSET Threads]
  BY <1>1, ElementsType DEF TypeWork, Registered
<1>4. Registered' = Registered
  BY <1>1 DEF Registered
<1>5. CASE ring # <<>>
  <2>1. PICK n \in Threads : n = ring[1] /\ n \in Registered
    BY <1>5, RingHead
  <2>2. /\ queue0' = [queue0 EXCEPT ![n] = Append(queue0[n], w)]
        /\ state' = [v \in Work |-> IF v \in {w} THEN "pass1" ELSE state[v]]
        /\ UNCHANGED readyQueue
    BY <1>5, <2>1 DEF Defer, WithState, Enqueue
  <2>3. /\ Append(queue0[n], w) \in Seq(Work) /\ Distinct(Append(queue0[n], w))
        /\ Elements(Append(queue0[n], w)) = Elements(queue0[n]) \union {w}
    <3>1. queue0[n] \in Seq(Work) /\ Distinct(queue0[n]) /\ w \notin Elements(queue0[n])
      BY <1>1, <2>1, LiveNowhere DEF TypeWork, WherePlaces, RingPlaces, OnNode
    <3> QED
      BY <3>1, ElementsAppend
  <2>4. /\ queue0'[n] = Append(queue0[n], w)
        /\ \A m \in Threads \ {n} : queue0'[m] = queue0[m]
        /\ queue0' \in [Threads -> Seq(Work)]
    BY <2>1, <2>2, <2>3 DEF TypeWork
  <2>5. /\ \A v \in Work : state'[v] = IF v = w THEN "pass1" ELSE state[v]
        /\ state' \in [Work -> {"live", "pass1", "smr", "pass2"}]
    BY <2>2 DEF TypeWork
  <2>6. /\ OnNode(n)' = OnNode(n) \union {w}
        /\ \A m \in Threads \ {n} : OnNode(m)' = OnNode(m)
        /\ Ready' = Ready
    <3>1. Elements(queue0'[n]) = Elements(queue0[n]) \union {w} /\ queue1'[n] = queue1[n]
      BY <1>1, <2>3, <2>4
    <3>2. OnNode(n)' = OnNode(n) \union {w}
      BY <3>1 DEF OnNode
    <3>3. \A m \in Threads \ {n} : OnNode(m)' = OnNode(m)
      BY <1>1, <2>4 DEF OnNode
    <3>4. Ready' = Ready
      BY <1>1, <2>2 DEF Ready
    <3> QED
      BY <3>2, <3>3, <3>4
  <2>7. TypeWork'
    BY <1>1, <1>2, <1>3, <2>2, <2>4, <2>5 DEF TypeWork
  <2>8. RingPlaces'
    <3>1. /\ Distinct(queue0'[n]) /\ Distinct(queue1'[n])
          /\ Elements(queue0'[n]) \intersect Elements(queue1'[n]) = {}
      BY <1>1, <2>1, <2>3, <2>4, LiveNowhere DEF WherePlaces, RingPlaces, OnNode
    <3>2. \A m \in Threads \ {n} :
             /\ Distinct(queue0'[m]) /\ Distinct(queue1'[m])
             /\ Elements(queue0'[m]) \intersect Elements(queue1'[m]) = {}
             /\ m \notin Registered' => OnNode(m)' = {}
      BY <1>1, <1>4, <2>4, <2>6 DEF WherePlaces, RingPlaces
    <3>3. \A k, m \in Threads : k # m => OnNode(k)' \intersect OnNode(m)' = {}
      <4>1. \A m \in Threads : w \notin OnNode(m)
        BY <1>1, LiveNowhere
      <4>2. \A k, m \in Threads : k # m => OnNode(k) \intersect OnNode(m) = {}
        BY DEF WherePlaces, RingPlaces
      <4> QED
        BY <2>1, <2>6, <4>1, <4>2
    <3>4. ASSUME NEW m \in Threads, NEW v \in OnNode(m)'
          PROVE  state'[v] \in {"pass1", "pass2"} /\ v \notin Ready'
      <4>1. CASE v = w
        BY <1>1, <2>5, <2>6, <4>1, LiveNowhere
      <4>2. CASE v # w
        <5>1. v \in OnNode(m) /\ v \in Work
          <6>1. v \in OnNode(m)
            BY <2>6, <4>2
          <6> QED
            BY <6>1, PlacesAreWork
        <5> QED
          BY <2>5, <2>6, <4>2, <5>1 DEF WherePlaces, RingPlaces
      <4> QED
        BY <4>1, <4>2
    <3> QED
      BY <1>4, <2>1, <3>1, <3>2, <3>3, <3>4 DEF RingPlaces
  <2>9. ReadyPlaces'
    <3>1. \A v \in Ready : v \in Work /\ v # w
      BY <1>1, LiveNowhere, PlacesAreWork
    <3> QED
      BY <1>1, <2>2, <2>5, <2>6, <3>1 DEF WherePlaces, ReadyPlaces
  <2>10. SmrPlaces'
    BY <1>1, <2>5 DEF WherePlaces, SmrPlaces
  <2>11. DeferredPlaces'
    <3>1. \A v \in Work : v \in Elements(deferred') <=> state'[v] # "live"
      BY <1>2, <2>5 DEF WherePlaces, DeferredPlaces
    <3>2. ASSUME NEW v \in Elements(deferred')
          PROVE  (\E m \in Threads : v \in OnNode(m)') \/ v \in Elements(smrQueue') \/ v \in Ready'
      <4>1. CASE v = w
        BY <2>1, <2>6, <4>1
      <4>2. CASE v # w
        <5>1. \A m \in Threads : OnNode(m) \subseteq OnNode(m)'
          BY <2>6
        <5> QED
          BY <1>1, <1>2, <2>6, <4>2, <5>1 DEF WherePlaces, DeferredPlaces
      <4> QED
        BY <4>1, <4>2
    <3> QED
      BY <1>2, <3>1, <3>2 DEF DeferredPlaces
  <2> QED
    BY <2>7, <2>8, <2>9, <2>10, <2>11 DEF WherePlaces
<1>6. CASE ring = <<>>
  <2>1. /\ readyQueue' = Append(readyQueue, w)
        /\ state' = [v \in Work |-> IF v \in {w} THEN "pass2" ELSE state[v]]
        /\ UNCHANGED queue0
    BY <1>6 DEF Defer, WithState, Enqueue
  <2>2. /\ \A v \in Work : state'[v] = IF v = w THEN "pass2" ELSE state[v]
        /\ state' \in [Work -> {"live", "pass1", "smr", "pass2"}]
    BY <2>1 DEF TypeWork
  <2>3. /\ readyQueue' \in Seq(Work) /\ Distinct(readyQueue')
        /\ Elements(readyQueue') = Elements(readyQueue) \union {w}
    <3>1. readyQueue \in Seq(Work) /\ Distinct(readyQueue) /\ w \notin Elements(readyQueue)
      BY <1>1, LiveNowhere DEF TypeWork, WherePlaces, ReadyPlaces, Ready
    <3> QED
      BY <2>1, <3>1, ElementsAppend
  <2>4. /\ \A m \in Threads : OnNode(m)' = OnNode(m)
        /\ Ready' = Ready \union {w}
    BY <1>1, <2>1, <2>3 DEF OnNode, Ready
  <2>5. TypeWork'
    BY <1>1, <1>2, <1>3, <2>1, <2>2, <2>3 DEF TypeWork
  <2>6. RingPlaces'
    <3>1. ASSUME NEW m \in Threads, NEW v \in OnNode(m)'
          PROVE  state'[v] \in {"pass1", "pass2"} /\ v \notin Ready'
      <4>1. v \in OnNode(m) /\ v \in Work /\ v # w
        BY <1>1, <2>4, PlacesAreWork, LiveNowhere
      <4> QED
        BY <2>2, <2>4, <4>1 DEF WherePlaces, RingPlaces
    <3> QED
      BY <1>1, <1>4, <2>1, <2>4, <3>1 DEF WherePlaces, RingPlaces
  <2>7. ReadyPlaces'
    <3>1. \A v \in Ready : v \in Work /\ v # w
      BY <1>1, LiveNowhere, PlacesAreWork
    <3>2. \A v \in Ready' : state'[v] = "pass2"
      BY <2>2, <2>4, <3>1 DEF WherePlaces, ReadyPlaces
    <3>3. w \notin Elements(batch) /\ w \notin Elements(run)
      BY <1>1, LiveNowhere DEF Ready
    <3> QED
      BY <1>1, <2>3, <3>2, <3>3 DEF WherePlaces, ReadyPlaces
  <2>8. SmrPlaces'
    BY <1>1, <2>2 DEF WherePlaces, SmrPlaces
  <2>9. DeferredPlaces'
    <3>1. \A v \in Work : v \in Elements(deferred') <=> state'[v] # "live"
      BY <1>2, <2>2 DEF WherePlaces, DeferredPlaces
    <3>2. ASSUME NEW v \in Elements(deferred')
          PROVE  (\E m \in Threads : v \in OnNode(m)') \/ v \in Elements(smrQueue') \/ v \in Ready'
      BY <1>1, <1>2, <2>4 DEF WherePlaces, DeferredPlaces
    <3> QED
      BY <1>2, <3>1, <3>2 DEF DeferredPlaces
  <2> QED
    BY <2>5, <2>6, <2>7, <2>8, <2>9 DEF WherePlaces
<1> QED
  BY <1>5, <1>6

LEMMA MarkPlaces ==
    ASSUME TypeWork, ring \in Seq(Threads), WherePlaces, Mark
    PROVE  TypeWork' /\ WherePlaces' /\ Len(smrQueue') <= Len(smrQueue)
<1>1. PICK F, K : F = Only(smrQueue, Work \ Held) /\ K = Only(smrQueue, Held)
  OBVIOUS
<1>2. /\ F \in Seq(Work) /\ K \in Seq(Work) /\ Distinct(F) /\ Distinct(K)
      /\ Elements(F) = Elements(smrQueue) \intersect (Work \ Held)
      /\ Elements(K) = Elements(smrQueue) \intersect Held
      /\ Len(K) <= Len(smrQueue)
  BY <1>1, OnlyKeeps, OnlyDistinct DEF TypeWork, WherePlaces, SmrPlaces
<1>3. /\ smrQueue' = K
      /\ state' = [v \in Work |-> IF v \in Elements(F) THEN "pass2" ELSE state[v]]
      /\ waiting' = [v \in Work |-> IF v \in Elements(F) THEN Registered ELSE waiting[v]]
      /\ UNCHANGED <<ring, queue1, batch, run, deferred>>
      /\ IF ring # <<>>
         THEN /\ queue0' = [queue0 EXCEPT ![ring[1]] = @ \o F]
              /\ UNCHANGED readyQueue
         ELSE readyQueue' = readyQueue \o F /\ UNCHANGED queue0
  BY <1>1 DEF Mark, StartPass, WithState, smrVars, pollVars
<1>4. waiting' \in [Work -> SUBSET Threads]
  BY <1>3, ElementsType DEF TypeWork, Registered
<1>5. /\ \A v \in Work : state'[v] = IF v \in Elements(F) THEN "pass2" ELSE state[v]
      /\ state' \in [Work -> {"live", "pass1", "smr", "pass2"}]
  BY <1>3 DEF TypeWork
<1>6. /\ \A v \in Elements(F) : v \in Work /\ state[v] = "smr"
      /\ \A v \in Elements(F) : v \notin Ready
      /\ \A m \in Threads : \A v \in Elements(F) : v \notin OnNode(m)
  <2>1. \A v \in Elements(F) : v \in Work /\ state[v] = "smr"
    BY <1>2 DEF WherePlaces, SmrPlaces
  <2> QED
    BY <2>1 DEF WherePlaces, RingPlaces, ReadyPlaces
<1>7. /\ Elements(smrQueue) = Elements(K) \union Elements(F)
      /\ Elements(K) \intersect Elements(F) = {}
  BY <1>2, PlacesAreWork
<1>8. SmrPlaces'
  BY <1>2, <1>3, <1>5, <1>6, <1>7 DEF WherePlaces, SmrPlaces
<1>9. Registered' = Registered
  BY <1>3 DEF Registered
<1>10. CASE ring # <<>>
  <2>1. PICK n \in Threads : n = ring[1] /\ n \in Registered
    BY <1>10, RingHead
  <2>2. queue0' = [queue0 EXCEPT ![n] = queue0[n] \o F] /\ readyQueue' = readyQueue
    BY <1>3, <1>10, <2>1
  <2>3. /\ queue0[n] \o F \in Seq(Work) /\ Distinct(queue0[n] \o F)
        /\ Elements(queue0[n] \o F) = Elements(queue0[n]) \union Elements(F)
    <3>1. /\ queue0[n] \in Seq(Work) /\ Distinct(queue0[n])
          /\ Elements(queue0[n]) \intersect Elements(F) = {}
      BY <1>6, <2>1 DEF TypeWork, WherePlaces, RingPlaces, OnNode
    <3> QED
      BY <1>2, <3>1, ElementsConcat, DistinctConcat
  <2>4. /\ queue0'[n] = queue0[n] \o F
        /\ \A m \in Threads \ {n} : queue0'[m] = queue0[m]
        /\ queue0' \in [Threads -> Seq(Work)]
    BY <2>1, <2>2, <2>3 DEF TypeWork
  <2>5. /\ OnNode(n)' = OnNode(n) \union Elements(F)
        /\ \A m \in Threads \ {n} : OnNode(m)' = OnNode(m)
        /\ Ready' = Ready
    <3>1. Elements(queue0'[n]) = Elements(queue0[n]) \union Elements(F) /\ queue1'[n] = queue1[n]
      BY <1>3, <2>3, <2>4
    <3>2. OnNode(n)' = OnNode(n) \union Elements(F)
      BY <3>1 DEF OnNode
    <3>3. \A m \in Threads \ {n} : OnNode(m)' = OnNode(m)
      BY <1>3, <2>4 DEF OnNode
    <3>4. Ready' = Ready
      BY <1>3, <2>2 DEF Ready
    <3> QED
      BY <3>2, <3>3, <3>4
  <2>6. TypeWork'
    BY <1>2, <1>3, <1>4, <1>5, <2>2, <2>4 DEF TypeWork
  <2>7. RingPlaces'
    <3>1. /\ Distinct(queue0'[n]) /\ Distinct(queue1'[n])
          /\ Elements(queue0'[n]) \intersect Elements(queue1'[n]) = {}
      BY <1>3, <1>6, <2>1, <2>3, <2>4 DEF WherePlaces, RingPlaces, OnNode
    <3>2. \A m \in Threads \ {n} :
             /\ Distinct(queue0'[m]) /\ Distinct(queue1'[m])
             /\ Elements(queue0'[m]) \intersect Elements(queue1'[m]) = {}
             /\ m \notin Registered' => OnNode(m)' = {}
      BY <1>3, <1>9, <2>4, <2>5 DEF WherePlaces, RingPlaces
    <3>3. \A k, m \in Threads : k # m => OnNode(k)' \intersect OnNode(m)' = {}
      <4>1. \A k, m \in Threads : k # m => OnNode(k) \intersect OnNode(m) = {}
        BY DEF WherePlaces, RingPlaces
      <4>2. \A m \in Threads : Elements(F) \intersect OnNode(m) = {}
        BY <1>6
      <4> QED
        BY <2>1, <2>5, <4>1, <4>2
    <3>4. ASSUME NEW m \in Threads, NEW v \in OnNode(m)'
          PROVE  state'[v] \in {"pass1", "pass2"} /\ v \notin Ready'
      <4>1. CASE v \in Elements(F)
        BY <1>5, <1>6, <2>5, <4>1
      <4>2. CASE v \notin Elements(F)
        <5>1. v \in OnNode(m)
          BY <2>5, <4>2
        <5> QED
          BY <1>5, <2>5, <4>2, <5>1, PlacesAreWork DEF WherePlaces, RingPlaces
      <4> QED
        BY <4>1, <4>2
    <3> QED
      BY <1>9, <2>1, <3>1, <3>2, <3>3, <3>4 DEF RingPlaces
  <2>8. ReadyPlaces'
    <3>1. \A v \in Ready : v \in Work /\ v \notin Elements(F)
      BY <1>6, PlacesAreWork
    <3> QED
      BY <1>3, <1>5, <2>2, <2>5, <3>1 DEF WherePlaces, ReadyPlaces
  <2>9. DeferredPlaces'
    <3>1. \A v \in Work : v \in Elements(deferred') <=> state'[v] # "live"
      BY <1>3, <1>5, <1>6 DEF WherePlaces, DeferredPlaces
    <3>2. ASSUME NEW v \in Elements(deferred')
          PROVE  (\E m \in Threads : v \in OnNode(m)') \/ v \in Elements(smrQueue') \/ v \in Ready'
      <4>1. \A m \in Threads : OnNode(m) \subseteq OnNode(m)'
        BY <2>5
      <4>2. v \in Elements(F) => v \in OnNode(n)'
        BY <2>5
      <4> QED
        BY <1>3, <1>7, <2>1, <2>5, <4>1, <4>2 DEF WherePlaces, DeferredPlaces
    <3> QED
      BY <1>3, <3>1, <3>2 DEF WherePlaces, DeferredPlaces
  <2> QED
    BY <1>2, <1>3, <1>8, <2>6, <2>7, <2>8, <2>9 DEF WherePlaces
<1>11. CASE ring = <<>>
  <2>1. readyQueue' = readyQueue \o F /\ queue0' = queue0
    BY <1>3, <1>11
  <2>2. /\ readyQueue' \in Seq(Work) /\ Distinct(readyQueue')
        /\ Elements(readyQueue') = Elements(readyQueue) \union Elements(F)
    <3>1. /\ readyQueue \in Seq(Work) /\ Distinct(readyQueue)
          /\ Elements(readyQueue) \intersect Elements(F) = {}
      BY <1>6 DEF TypeWork, WherePlaces, ReadyPlaces, Ready
    <3> QED
      BY <1>2, <2>1, <3>1, ElementsConcat, DistinctConcat
  <2>3. /\ \A m \in Threads : OnNode(m)' = OnNode(m)
        /\ Ready' = Ready \union Elements(F)
    BY <1>3, <2>1, <2>2 DEF OnNode, Ready
  <2>4. TypeWork'
    BY <1>2, <1>3, <1>4, <1>5, <2>1, <2>2 DEF TypeWork
  <2>5. RingPlaces'
    <3>1. ASSUME NEW m \in Threads, NEW v \in OnNode(m)'
          PROVE  state'[v] \in {"pass1", "pass2"} /\ v \notin Ready'
      BY <1>5, <1>6, <2>3, PlacesAreWork DEF WherePlaces, RingPlaces
    <3> QED
      BY <1>3, <1>9, <2>1, <2>3, <3>1 DEF WherePlaces, RingPlaces
  <2>6. ReadyPlaces'
    <3>1. \A v \in Ready' : state'[v] = "pass2"
      BY <1>5, <1>6, <2>3, PlacesAreWork DEF WherePlaces, ReadyPlaces
    <3>2. \A v \in Elements(F) : v \notin Elements(batch) /\ v \notin Elements(run)
      BY <1>6 DEF Ready
    <3> QED
      BY <1>3, <2>2, <3>1, <3>2 DEF WherePlaces, ReadyPlaces
  <2>7. DeferredPlaces'
    <3>1. \A v \in Work : v \in Elements(deferred') <=> state'[v] # "live"
      BY <1>3, <1>5, <1>6 DEF WherePlaces, DeferredPlaces
    <3>2. ASSUME NEW v \in Elements(deferred')
          PROVE  (\E m \in Threads : v \in OnNode(m)') \/ v \in Elements(smrQueue') \/ v \in Ready'
      BY <1>3, <1>7, <2>3 DEF WherePlaces, DeferredPlaces
    <3> QED
      BY <1>3, <3>1, <3>2 DEF WherePlaces, DeferredPlaces
  <2> QED
    BY <1>2, <1>3, <1>8, <2>4, <2>5, <2>6, <2>7 DEF WherePlaces
<1> QED
  BY <1>10, <1>11

LEMMA PreviousOther ==
    ASSUME ring \in Seq(Threads), Distinct(ring), NEW t \in Registered, Len(ring) > 1
    PROVE  Previous(t) \in Threads /\ Previous(t) \in Registered /\ Previous(t) # t
<1> DEFINE i == CHOOSE i \in 1..Len(ring) : ring[i] = t
<1>1. i \in 1..Len(ring) /\ ring[i] = t /\ Len(ring) \in Nat
  BY ElementsType DEF Registered
<1>2. Previous(t) = IF i = 1 THEN ring[Len(ring)] ELSE ring[i - 1]
  BY DEF Previous
<1> HIDE DEF i
<1>3. \A j \in 1..Len(ring) : ring[j] \in Threads /\ ring[j] \in Registered
  BY ElementsType DEF Registered
<1>4. CASE i = 1
  <2>1. Len(ring) \in 1..Len(ring) /\ Len(ring) # 1
    <3>1. \A k \in Nat : k > 1 => k \in 1..k /\ k # 1
      OBVIOUS
    <3> QED
      BY <1>1, <3>1
  <2> QED
    BY <1>1, <1>2, <1>3, <1>4, <2>1 DEF Distinct
<1>5. CASE i # 1
  <2>1. i - 1 \in 1..Len(ring) /\ i - 1 # i
    BY <1>1, <1>5
  <2> QED
    BY <1>1, <1>2, <1>3, <1>5, <2>1 DEF Distinct
<1> QED
  BY <1>4, <1>5

LEMMA WithoutRing ==
    ASSUME NEW s \in Seq(Threads), NEW t
    PROVE  /\ Without(s, t) \in Seq(Threads)
           /\ Distinct(s) => Distinct(Without(s, t))
           /\ Elements(Without(s, t)) = Elements(s) \ {t}
<1> DEFINE S == Threads \ {t}
<1>1. Without(s, t) = Only(s, S)
  BY DEF Without
<1>2. Elements(s) \intersect S = Elements(s) \ {t}
  BY ElementsType
<1> HIDE DEF S
<1> QED
  BY <1>1, <1>2, OnlyKeeps, OnlyDistinct

(* A node goes, and another one takes over its work. *)
LEMMA DeletePlaces ==
    ASSUME TypeWork, ring \in Seq(Threads), Distinct(ring), WherePlaces,
           NEW t \in Registered, Len(ring) > 1, DeleteNode(t),
           waiting' = [w \in Work |-> waiting[w] \ {t}],
           UNCHANGED <<smrQueue, readyQueue, state, batch, run, deferred>>
    PROVE  TypeWork' /\ WherePlaces'
<1>1. PICK p \in Threads : p = Previous(t) /\ p \in Registered /\ p # t
  BY PreviousOther
<1>2. t \in Threads
  BY ElementsType DEF Registered
<1>3. /\ ring' = Without(ring, t)
      /\ queue0' = [queue0 EXCEPT ![p] = queue0[p] \o queue0[t], ![t] = <<>>]
      /\ queue1' = [queue1 EXCEPT ![p] = queue1[p] \o queue1[t], ![t] = <<>>]
  BY <1>1 DEF DeleteNode
<1>4. Registered' = Registered \ {t}
  BY <1>3, WithoutRing DEF Registered
<1>5. /\ OnNode(p) \intersect OnNode(t) = {}
      /\ \A q \in {queue0, queue1} : q[p] \in Seq(Work) /\ q[t] \in Seq(Work)
  BY <1>1, <1>2 DEF TypeWork, WherePlaces, RingPlaces
<1>6. /\ queue0[p] \o queue0[t] \in Seq(Work) /\ Distinct(queue0[p] \o queue0[t])
      /\ Elements(queue0[p] \o queue0[t]) = Elements(queue0[p]) \union Elements(queue0[t])
  <2>1. /\ Distinct(queue0[p]) /\ Distinct(queue0[t])
        /\ Elements(queue0[p]) \intersect Elements(queue0[t]) = {}
    BY <1>1, <1>2, <1>5 DEF WherePlaces, RingPlaces, OnNode
  <2> QED
    BY <1>5, <2>1, ElementsConcat, DistinctConcat
<1>7. /\ queue1[p] \o queue1[t] \in Seq(Work) /\ Distinct(queue1[p] \o queue1[t])
      /\ Elements(queue1[p] \o queue1[t]) = Elements(queue1[p]) \union Elements(queue1[t])
  <2>1. /\ Distinct(queue1[p]) /\ Distinct(queue1[t])
        /\ Elements(queue1[p]) \intersect Elements(queue1[t]) = {}
    BY <1>1, <1>2, <1>5 DEF WherePlaces, RingPlaces, OnNode
  <2> QED
    BY <1>5, <2>1, ElementsConcat, DistinctConcat
<1>8. /\ queue0' \in [Threads -> Seq(Work)] /\ queue1' \in [Threads -> Seq(Work)]
      /\ queue0'[t] = <<>> /\ queue1'[t] = <<>>
      /\ queue0'[p] = queue0[p] \o queue0[t] /\ queue1'[p] = queue1[p] \o queue1[t]
      /\ \A m \in Threads \ {p, t} : queue0'[m] = queue0[m] /\ queue1'[m] = queue1[m]
  BY <1>1, <1>2, <1>3, <1>6, <1>7, EmptySeq DEF TypeWork
<1>9. TypeWork'
  BY <1>8 DEF TypeWork
<1>10. /\ OnNode(t)' = {}
       /\ OnNode(p)' = OnNode(p) \union OnNode(t)
       /\ \A m \in Threads \ {p, t} : OnNode(m)' = OnNode(m)
       /\ Ready' = Ready
  <2>1. OnNode(t)' = {}
    BY <1>8, ElementsEmpty DEF OnNode
  <2>2. OnNode(p)' = OnNode(p) \union OnNode(t)
    BY <1>6, <1>7, <1>8 DEF OnNode
  <2>3. \A m \in Threads \ {p, t} : OnNode(m)' = OnNode(m)
    BY <1>8 DEF OnNode
  <2> QED
    BY <2>1, <2>2, <2>3 DEF Ready
<1>11. RingPlaces'
  <2>1. Distinct(<<>>) /\ Elements(<<>>) = {}
    BY ElementsEmpty
  <2>2. /\ Distinct(queue0'[p]) /\ Distinct(queue1'[p])
        /\ Elements(queue0'[p]) \intersect Elements(queue1'[p]) = {}
    BY <1>1, <1>2, <1>5, <1>6, <1>7, <1>8 DEF WherePlaces, RingPlaces, OnNode
  <2>3. \A m \in Threads :
           /\ Distinct(queue0'[m]) /\ Distinct(queue1'[m])
           /\ Elements(queue0'[m]) \intersect Elements(queue1'[m]) = {}
    BY <1>8, <2>1, <2>2 DEF WherePlaces, RingPlaces
  <2>4. \A m \in Threads : m \notin Registered' => OnNode(m)' = {}
    BY <1>1, <1>4, <1>10 DEF WherePlaces, RingPlaces
  <2>5. \A k, m \in Threads : k # m => OnNode(k)' \intersect OnNode(m)' = {}
    <3>1. \A k, m \in Threads : k # m => OnNode(k) \intersect OnNode(m) = {}
      BY DEF WherePlaces, RingPlaces
    <3> QED
      BY <1>1, <1>2, <1>10, <3>1
  <2>6. ASSUME NEW m \in Threads, NEW w \in OnNode(m)'
        PROVE  state'[w] \in {"pass1", "pass2"} /\ w \notin Ready'
    <3>1. w \in OnNode(m) \/ w \in OnNode(t)
      BY <1>10, <2>6
    <3> QED
      BY <1>2, <1>10, <3>1 DEF WherePlaces, RingPlaces
  <2> QED
    BY <2>3, <2>4, <2>5, <2>6 DEF RingPlaces
<1>12. DeferredPlaces'
  <2>1. ASSUME NEW w, NEW m \in Threads, w \in OnNode(m)
        PROVE  \E k \in Threads : w \in OnNode(k)'
    <3>1. w \in OnNode(m)' \/ w \in OnNode(p)'
      BY <1>10, <2>1
    <3> QED
      BY <3>1
  <2>2. ASSUME NEW w \in Elements(deferred')
        PROVE  (\E m \in Threads : w \in OnNode(m)') \/ w \in Elements(smrQueue') \/ w \in Ready'
    BY <1>10, <2>1, <2>2 DEF WherePlaces, DeferredPlaces
  <2> QED
    BY <2>2 DEF WherePlaces, DeferredPlaces
<1>13. ReadyPlaces' /\ SmrPlaces'
  BY <1>10 DEF WherePlaces, ReadyPlaces, SmrPlaces
<1> QED
  BY <1>9, <1>11, <1>12, <1>13 DEF WherePlaces

(* The last node goes, and all that waited is ready. *)
LEMMA LastPlaces ==
    ASSUME TypeWork, ring \in Seq(Threads), Distinct(ring), WherePlaces,
           NEW t \in Registered, ~(Len(ring) > 1),
           ring' = <<>>, smrQueue' = <<>>,
           readyQueue' = readyQueue \o Released(t),
           state' = WithState(Elements(Released(t)), "pass2"),
           queue0' = [queue0 EXCEPT ![t] = <<>>],
           queue1' = [queue1 EXCEPT ![t] = <<>>],
           waiting' = [w \in Work |-> waiting[w] \ {t}],
           UNCHANGED <<batch, run, deferred>>
    PROVE  /\ TypeWork' /\ WherePlaces'
           /\ \A w \in Work : state'[w] \in {"live", "pass2"}
           /\ \A m \in Threads : OnNode(m)' = {}
<1>1. t \in Threads /\ Registered = {t}
  <2>1. Len(ring) \in Nat
    BY ElementsType
  <2>2. \A i \in 1..Len(ring) : i = 1
    BY <2>1
  <2> QED
    BY <2>2, ElementsType DEF Registered, Elements
<1>2. PICK R : R = Released(t)
  OBVIOUS
<1>3. /\ R \in Seq(Work) /\ Distinct(R)
      /\ Elements(R) = OnNode(t) \union Elements(smrQueue)
  <2>1. /\ queue0[t] \in Seq(Work) /\ queue1[t] \in Seq(Work) /\ smrQueue \in Seq(Work)
        /\ Distinct(queue0[t]) /\ Distinct(queue1[t]) /\ Distinct(smrQueue)
        /\ Elements(queue0[t]) \intersect Elements(queue1[t]) = {}
    BY <1>1 DEF TypeWork, WherePlaces, RingPlaces, SmrPlaces
  <2>2. \A w \in Elements(smrQueue) : w \notin OnNode(t)
    BY <1>1, PlacesAreWork DEF WherePlaces, RingPlaces, SmrPlaces
  <2>3. PICK q : q = queue0[t] \o smrQueue
    OBVIOUS
  <2>4. /\ q \in Seq(Work) /\ Distinct(q)
        /\ Elements(q) = Elements(queue0[t]) \union Elements(smrQueue)
    <3>1. Elements(queue0[t]) \intersect Elements(smrQueue) = {}
      BY <2>2 DEF OnNode
    <3> QED
      BY <2>1, <2>3, <3>1, ElementsConcat, DistinctConcat
  <2>5. Elements(q) \intersect Elements(queue1[t]) = {}
    BY <2>1, <2>2, <2>4 DEF OnNode
  <2>6. R = q \o queue1[t]
    BY <1>2, <2>3 DEF Released
  <2> QED
    BY <2>1, <2>4, <2>5, <2>6, ElementsConcat, DistinctConcat DEF OnNode
<1>4. \A w \in Elements(R) : w \in Work /\ w \notin Ready /\ state[w] # "live"
  BY <1>1, <1>3, PlacesAreWork DEF WherePlaces, RingPlaces, SmrPlaces, ReadyPlaces
<1>5. /\ readyQueue' \in Seq(Work) /\ Distinct(readyQueue')
      /\ Elements(readyQueue') = Elements(readyQueue) \union Elements(R)
  <2>1. Elements(readyQueue) \intersect Elements(R) = {}
    BY <1>4 DEF Ready
  <2> QED
    BY <1>2, <1>3, <2>1, ElementsConcat, DistinctConcat
    DEF TypeWork, WherePlaces, ReadyPlaces
<1>6. /\ \A w \in Work : state'[w] = IF w \in Elements(R) THEN "pass2" ELSE state[w]
      /\ state' \in [Work -> {"live", "pass1", "smr", "pass2"}]
  BY <1>2 DEF TypeWork, WithState
<1>7. /\ queue0' \in [Threads -> Seq(Work)] /\ queue1' \in [Threads -> Seq(Work)]
      /\ queue0'[t] = <<>> /\ queue1'[t] = <<>>
      /\ \A m \in Threads \ {t} : queue0'[m] = queue0[m] /\ queue1'[m] = queue1[m]
  BY <1>1, EmptySeq DEF TypeWork
<1>8. \A m \in Threads : OnNode(m)' = {}
  <2>1. OnNode(t)' = {}
    BY <1>7, ElementsEmpty DEF OnNode
  <2>2. ASSUME NEW m \in Threads \ {t} PROVE OnNode(m)' = {}
    BY <1>1, <1>7 DEF OnNode, WherePlaces, RingPlaces
  <2> QED
    BY <2>1, <2>2
<1>9. Ready' = Ready \union Elements(R)
  BY <1>5 DEF Ready
<1>10. TypeWork'
  BY <1>5, <1>6, <1>7, EmptySeq DEF TypeWork
<1>11. Elements(smrQueue') = {} /\ Distinct(smrQueue')
  BY ElementsEmpty
<1>12. \A w \in Work : state[w] # "live" => w \in Elements(R) \/ w \in Ready
  <2>1. \A m \in Threads \ {t} : OnNode(m) = {}
    BY <1>1 DEF WherePlaces, RingPlaces
  <2> QED
    BY <1>3, <2>1 DEF WherePlaces, DeferredPlaces
<1>13. \A w \in Work : state'[w] = IF state[w] = "live" THEN "live" ELSE "pass2"
  BY <1>4, <1>6, <1>12, PlacesAreWork DEF WherePlaces, ReadyPlaces
<1>14. RingPlaces'
  <2>1. \A m \in Threads : Distinct(queue0'[m]) /\ Distinct(queue1'[m])
    BY <1>7, ElementsEmpty DEF WherePlaces, RingPlaces
  <2>2. \A m \in Threads : Elements(queue0'[m]) \intersect Elements(queue1'[m]) = {}
    BY <1>8 DEF OnNode
  <2> QED
    BY <1>8, <2>1, <2>2 DEF RingPlaces
<1>15. ReadyPlaces'
  <2>1. \A w \in Ready' : state'[w] = "pass2"
    BY <1>4, <1>9, <1>13, PlacesAreWork DEF WherePlaces, ReadyPlaces
  <2>2. \A w \in Elements(R) : w \notin Elements(batch) /\ w \notin Elements(run)
    BY <1>4 DEF Ready
  <2> QED
    BY <1>5, <2>1, <2>2 DEF WherePlaces, ReadyPlaces
<1>16. SmrPlaces'
  BY <1>11, <1>13 DEF SmrPlaces
<1>17. DeferredPlaces'
  <2>1. \A w \in Work : w \in Elements(deferred') <=> state'[w] # "live"
    BY <1>13 DEF WherePlaces, DeferredPlaces
  <2>2. ASSUME NEW w \in Elements(deferred') PROVE w \in Ready'
    BY <1>9, <1>12, PlacesAreWork DEF WherePlaces, DeferredPlaces
  <2> QED
    BY <2>1, <2>2 DEF WherePlaces, DeferredPlaces
<1> QED
  BY <1>8, <1>10, <1>13, <1>14, <1>15, <1>16, <1>17 DEF WherePlaces

(* No queue changes. *)
LEMMA SamePlaces ==
    ASSUME TypeWork, WherePlaces,
           UNCHANGED <<queue0, queue1, smrQueue, readyQueue, state, batch, run, deferred>>,
           waiting' \in [Work -> SUBSET Threads],
           Registered \subseteq Registered' \/ \A m \in Threads : OnNode(m) = {}
    PROVE  TypeWork' /\ WherePlaces'
<1>1. (\A m \in Threads : OnNode(m)' = OnNode(m)) /\ Ready' = Ready
  BY DEF OnNode, Ready
<1>2. TypeWork'
  BY DEF TypeWork
<1>3. RingPlaces'
  BY <1>1 DEF WherePlaces, RingPlaces
<1>4. ReadyPlaces' /\ SmrPlaces' /\ DeferredPlaces'
  BY <1>1 DEF WherePlaces, ReadyPlaces, SmrPlaces, DeferredPlaces
<1> QED
  BY <1>2, <1>3, <1>4 DEF WherePlaces

(* Work that is ready is taken by process_work, and run. *)
LEMMA ReadyMoves ==
    ASSUME TypeWork, WherePlaces,
           UNCHANGED <<ring, queue0, queue1, smrQueue, state, deferred, waiting>>,
           \/ batch = <<>> /\ batch' = readyQueue /\ readyQueue' = <<>> /\ run' = run
           \/ /\ batch # <<>> /\ batch' = Tail(batch) /\ run' = Append(run, Head(batch))
              /\ readyQueue' = readyQueue
    PROVE  TypeWork' /\ WherePlaces'
<1>1. /\ readyQueue' \in Seq(Work) /\ batch' \in Seq(Work) /\ run' \in Seq(Work)
      /\ Distinct(readyQueue') /\ Distinct(batch') /\ Distinct(run')
      /\ Ready' = Ready
      /\ Elements(readyQueue') \intersect Elements(batch') = {}
      /\ Elements(readyQueue') \intersect Elements(run') = {}
      /\ Elements(batch') \intersect Elements(run') = {}
  <2>1. CASE batch = <<>> /\ batch' = readyQueue /\ readyQueue' = <<>> /\ run' = run
    BY <2>1, ElementsEmpty, EmptySeq DEF TypeWork, WherePlaces, ReadyPlaces, Ready
  <2>2. CASE /\ batch # <<>> /\ batch' = Tail(batch) /\ run' = Append(run, Head(batch))
             /\ readyQueue' = readyQueue
    <3>1. /\ Head(batch) \in Work /\ Tail(batch) \in Seq(Work) /\ Distinct(Tail(batch))
          /\ Elements(batch) = {Head(batch)} \union Elements(Tail(batch))
          /\ Head(batch) \notin Elements(Tail(batch))
      BY <2>2, ElementsTail DEF TypeWork, WherePlaces, ReadyPlaces
    <3>2. Head(batch) \notin Elements(run)
      BY <3>1 DEF WherePlaces, ReadyPlaces
    <3>3. /\ run' \in Seq(Work) /\ Distinct(run')
          /\ Elements(run') = Elements(run) \union {Head(batch)}
      BY <2>2, <3>1, <3>2, ElementsAppend DEF TypeWork, WherePlaces, ReadyPlaces
    <3>4. Ready' = Ready
      BY <2>2, <3>1, <3>3 DEF Ready
    <3> QED
      BY <2>2, <3>1, <3>3, <3>4 DEF TypeWork, WherePlaces, ReadyPlaces
  <2> QED
    BY <2>1, <2>2
<1>2. \A m \in Threads : OnNode(m)' = OnNode(m)
  BY DEF OnNode
<1>3. TypeWork'
  BY <1>1 DEF TypeWork
<1>4. RingPlaces'
  BY <1>1, <1>2 DEF WherePlaces, RingPlaces, Registered
<1>5. ReadyPlaces' /\ SmrPlaces' /\ DeferredPlaces'
  BY <1>1, <1>2 DEF WherePlaces, ReadyPlaces, SmrPlaces, DeferredPlaces
<1> QED
  BY <1>3, <1>4, <1>5 DEF WherePlaces

(* What was run was deferred; when all of it was, no queue holds any.      *)
LEMMA RunBound ==
    ASSUME TypeWork, WherePlaces
    PROVE  /\ Len(run) \in Nat /\ Len(deferred) \in Nat
           /\ Len(run) <= Len(deferred)
           /\ Len(run) = Len(deferred) =>
                 /\ \A m \in Threads : OnNode(m) = {}
                 /\ Elements(smrQueue) = {} /\ Elements(readyQueue) = {} /\ Elements(batch) = {}
<1>1. Elements(run) \subseteq Elements(deferred)
  BY PlacesAreWork DEF WherePlaces, ReadyPlaces, DeferredPlaces, Ready
<1>2. /\ IsFiniteSet(Elements(deferred))
      /\ Cardinality(Elements(deferred)) = Len(deferred)
      /\ Cardinality(Elements(run)) = Len(run)
      /\ Len(run) \in Nat /\ Len(deferred) \in Nat
  BY DistinctCardinality, ElementsType DEF TypeWork, WherePlaces, ReadyPlaces, DeferredPlaces
<1>3. /\ Cardinality(Elements(run)) <= Cardinality(Elements(deferred))
      /\ Cardinality(Elements(deferred)) = Cardinality(Elements(run)) =>
            Elements(deferred) = Elements(run)
  BY <1>1, <1>2, FS_Subset
<1>4. ASSUME Elements(deferred) = Elements(run)
      PROVE  /\ \A m \in Threads : OnNode(m) = {}
             /\ Elements(smrQueue) = {} /\ Elements(readyQueue) = {} /\ Elements(batch) = {}
  <2>1. \A w \in Work : state[w] # "live" => w \in Elements(run) /\ state[w] = "pass2"
    BY <1>4 DEF WherePlaces, DeferredPlaces, ReadyPlaces, Ready
  <2>2. \A m \in Threads : OnNode(m) = {}
    BY <2>1, PlacesAreWork DEF WherePlaces, RingPlaces, Ready
  <2>3. Elements(smrQueue) = {}
    BY <2>1, PlacesAreWork DEF WherePlaces, SmrPlaces
  <2>4. \A w \in Elements(readyQueue) \union Elements(batch) : w \in Elements(run)
    BY <2>1, PlacesAreWork DEF WherePlaces, ReadyPlaces, Ready
  <2> QED
    BY <2>2, <2>3, <2>4 DEF WherePlaces, ReadyPlaces
<1> QED
  BY <1>2, <1>3, <1>4

-------------------------------------------------------------------------------
(* The ring and the pointer into it *)

LEMMA NextIndex ==
    ASSUME NEW n \in Nat, NEW k \in 1..n
    PROVE  (k % n) + 1 = IF k = n THEN 1 ELSE k + 1
<1>1. CASE k = n
  BY <1>1
<1>2. CASE k # n
  BY <1>2
<1> QED
  BY <1>1, <1>2

(* The ring from its node at index i on. *)
Turned(i, k) == IF k + i - 1 <= Len(ring) THEN k + i - 1 ELSE k + i - 1 - Len(ring)

LEMMA FromTurns ==
    ASSUME ring \in Seq(Threads), NEW i \in 1..Len(ring)
    PROVE  /\ From(i) \in Seq(Threads) /\ Len(From(i)) = Len(ring)
           /\ \A k \in 1..Len(ring) :
                 Turned(i, k) \in 1..Len(ring) /\ From(i)[k] = ring[Turned(i, k)]
           /\ Elements(From(i)) = Elements(ring)
           /\ Distinct(ring) => Distinct(From(i))
<1> DEFINE L == Len(ring)
           a == SubSeq(ring, i, L)
           b == SubSeq(ring, 1, i - 1)
<1>1. L \in Nat /\ \A k \in 1..L : ring[k] \in Threads
  BY ElementsType
<1>2. /\ a \in Seq(Threads) /\ Len(a) = L - i + 1
      /\ \A k \in 1..(L - i + 1) : a[k] = ring[i + k - 1]
  <2>1. \A k \in i..L : ring[k] \in Threads
    BY <1>1
  <2>2. i \in Int /\ L \in Int /\ i <= L
    BY <1>1
  <2> HIDE DEF L
  <2>3. /\ SubSeq(ring, i, L) \in Seq(Threads)
        /\ Len(SubSeq(ring, i, L)) = IF i <= L THEN L - i + 1 ELSE 0
        /\ \A k \in 1..(L - i + 1) : SubSeq(ring, i, L)[k] = ring[i + k - 1]
    BY <2>1, <2>2, SubSeqProperties
  <2> QED
    BY <2>2, <2>3
<1>3. /\ b \in Seq(Threads) /\ Len(b) = i - 1
      /\ \A k \in 1..(i - 1) : b[k] = ring[k]
  <2>1. \A k \in 1..(i - 1) : ring[k] \in Threads
    BY <1>1
  <2>2. i - 1 \in Int /\ i - 1 >= 0
    BY <1>1
  <2>3. /\ SubSeq(ring, 1, i - 1) \in Seq(Threads)
        /\ Len(SubSeq(ring, 1, i - 1)) = IF 1 <= i - 1 THEN (i - 1) - 1 + 1 ELSE 0
        /\ \A k \in 1..((i - 1) - 1 + 1) : SubSeq(ring, 1, i - 1)[k] = ring[1 + k - 1]
    BY <2>1, <2>2, SubSeqProperties
  <2> QED
    BY <2>2, <2>3
<1>4. From(i) = a \o b
  BY DEF From
<1> HIDE DEF a, b
<1>5. /\ From(i) \in Seq(Threads) /\ Len(From(i)) = L
      /\ \A k \in 1..L : From(i)[k] = IF k <= L - i + 1 THEN a[k] ELSE b[k - (L - i + 1)]
  BY <1>1, <1>2, <1>3, <1>4, ConcatProperties
<1>6. ASSUME NEW k \in 1..L
      PROVE  Turned(i, k) \in 1..L /\ From(i)[k] = ring[Turned(i, k)]
  <2>1. CASE k <= L - i + 1
    <3>1. k \in 1..(L - i + 1) /\ Turned(i, k) = i + k - 1 /\ i + k - 1 \in 1..L
      BY <1>1, <2>1 DEF Turned
    <3> QED
      BY <1>2, <1>5, <2>1, <3>1
  <2>2. CASE ~(k <= L - i + 1)
    <3>1. /\ k - (L - i + 1) \in 1..(i - 1)
          /\ Turned(i, k) = k - (L - i + 1) /\ Turned(i, k) \in 1..L
      BY <1>1, <2>2 DEF Turned
    <3> QED
      BY <1>3, <1>5, <2>2, <3>1
  <2> QED
    BY <2>1, <2>2
<1>7. \A j \in 1..L : \E k \in 1..L : Turned(i, k) = j
  <2> SUFFICES ASSUME NEW j \in 1..L PROVE \E k \in 1..L : Turned(i, k) = j
    OBVIOUS
  <2>1. CASE j >= i
    <3>1. j - i + 1 \in 1..L /\ Turned(i, j - i + 1) = j
      BY <1>1, <2>1 DEF Turned
    <3> QED
      BY <3>1
  <2>2. CASE j < i
    <3>1. j - i + 1 + L \in 1..L /\ Turned(i, j - i + 1 + L) = j
      BY <1>1, <2>2 DEF Turned
    <3> QED
      BY <3>1
  <2> QED
    BY <1>1, <2>1, <2>2
<1>8. \A k, l \in 1..L : Turned(i, k) = Turned(i, l) => k = l
  BY <1>1 DEF Turned
<1> HIDE DEF L
<1>9. Elements(From(i)) = Elements(ring)
  <2>1. Len(ring) = L
    BY DEF L
  <2>2. ASSUME NEW x \in Elements(From(i)) PROVE x \in Elements(ring)
    BY <1>5, <1>6, <2>1 DEF Elements
  <2>3. ASSUME NEW x \in Elements(ring) PROVE x \in Elements(From(i))
    <3>1. PICK j \in 1..L : x = ring[j]
      BY <2>1 DEF Elements
    <3>2. PICK k \in 1..L : Turned(i, k) = j
      BY <1>7
    <3> QED
      BY <1>5, <1>6, <3>1, <3>2 DEF Elements
  <2> QED
    BY <2>2, <2>3
<1>10. Distinct(ring) => Distinct(From(i))
  <2>1. Len(ring) = L
    BY DEF L
  <2>2. ASSUME Distinct(ring), NEW k \in 1..L, NEW l \in 1..L, From(i)[k] = From(i)[l]
        PROVE  k = l
    <3>1. ring[Turned(i, k)] = ring[Turned(i, l)]
      BY <1>6, <2>2
    <3>2. Turned(i, k) = Turned(i, l)
      BY <1>6, <2>1, <2>2, <3>1 DEF Distinct
    <3> QED
      BY <1>8, <3>2
  <2> QED
    BY <1>5, <2>2 DEF Distinct
<1> QED
  BY <1>5, <1>6, <1>9, <1>10 DEF L

(* Every step is one of these. *)
LEMMA NextCases ==
    ASSUME [Next]_vars
    PROVE  \/ \E t \in Threads : Acquire(t)
           \/ \E t \in Threads : Release(t)
           \/ \E t \in Threads : Quiesce(t) \/ Drain(t)
           \/ \E t \in Threads : Load(t) \/ Follow(t) \/ Validate(t) \/ Retry(t) \/ Clear(t)
           \/ \E w \in Work : Unlink(w)
           \/ \E w \in Work : Defer(w)
           \/ Signal \/ Shutdown \/ Shutdown2
           \/ ScanStart \/ Visit \/ VisitIdle \/ SmrStart \/ Copy \/ Mark
           \/ Take \/ Run \/ RunDone \/ Idle \/ WaitEnds
           \/ UNCHANGED vars
BY DEF Next, ThreadNext, WriterNext, PollNext, Finished

LEMMA RingAcquire ==
    ASSUME TypeRing, RingShape, Counts, NEW t \in Threads, Acquire(t)
    PROVE  TypeRing' /\ RingShape' /\ Registered' = Registered \union {t}
<1>1. /\ t \notin Registered /\ ring' = Append(ring, t)
      /\ smrNodes' = <<t>> \o smrNodes /\ fresh' = [fresh EXCEPT ![t] = FALSE]
      /\ UNCHANGED <<poll, at, rcuStop>> /\ poll # "visit" /\ poll # "done"
  BY DEF Acquire, Unlocked, Counts, workVars, pollVars
<1>2. /\ ring' \in Seq(Threads) /\ Elements(ring') = Elements(ring) \union {t} /\ Distinct(ring')
  BY <1>1, ElementsAppend DEF TypeRing, RingShape, Registered
<1>3. smrNodes' \in Seq(Threads) /\ Elements(smrNodes') = {t} \union Elements(smrNodes)
  <2>1. PICK s : s = <<t>>
    OBVIOUS
  <2>2. s \in Seq(Threads) /\ Elements(s) = {t}
    BY <2>1 DEF Elements
  <2>3. smrNodes \in Seq(Threads) /\ smrNodes' = s \o smrNodes
    BY <1>1, <2>1 DEF TypeRing
  <2> QED
    BY <2>2, <2>3, ElementsConcat
<1> QED
  BY <1>1, <1>2, <1>3 DEF TypeRing, RingShape, Registered

LEMMA RingRelease ==
    ASSUME TypeRing, RingShape, NEW t \in Threads, Release(t)
    PROVE  /\ TypeRing' /\ RingShape' /\ Registered' = Registered \ {t}
           /\ poll' \in {poll, "woken"}
<1>1. /\ t \in Registered /\ smrNodes' = Without(smrNodes, t)
      /\ UNCHANGED <<fresh, rcuStop, at>> /\ poll # "visit"
      /\ poll' = IF poll \in {"wait", "timedwait"} THEN "woken" ELSE poll
  BY DEF Release, Unlocked, WakePoll, pollVars
<1>2. ring' \in Seq(Threads) /\ Distinct(ring') /\ Registered' = Registered \ {t}
  <2>1. CASE Len(ring) > 1
    <3>1. ring' = Without(ring, t)
      BY <2>1 DEF Release, DeleteNode
    <3> QED
      BY <3>1, WithoutRing DEF TypeRing, RingShape, Registered
  <2>2. CASE ~(Len(ring) > 1)
    <3>1. ring' = <<>>
      BY <2>2 DEF Release
    <3>2. Len(ring) \in Nat /\ \A i \in 1..Len(ring) : i = 1
      BY <2>2, ElementsType DEF TypeRing
    <3>3. Registered = {t}
      BY <1>1, <3>2 DEF Registered, Elements
    <3> QED
      BY <3>1, <3>3, ElementsEmpty, EmptySeq DEF Registered
  <2> QED
    BY <2>1, <2>2
<1>3. smrNodes' \in Seq(Threads) /\ Elements(smrNodes') = Elements(smrNodes) \ {t}
  BY <1>1, WithoutRing DEF TypeRing
<1>4. TypeRing'
  BY <1>1, <1>2, <1>3 DEF TypeRing, PollStates
<1>5. RingShape'
  BY <1>1, <1>2, <1>3 DEF RingShape
<1> QED
  BY <1>1, <1>2, <1>4, <1>5

LEMMA RingVisit ==
    ASSUME TypeRing, RingShape, Visit
    PROVE  /\ TypeRing' /\ RingShape'
           /\ at \in 1..Len(ring) /\ Len(ring) \in Nat
           /\ at' = IF at = Len(ring) THEN 1 ELSE at + 1
           /\ at' \in 1..Len(ring) /\ ring[at'] \in Threads /\ ring[at'] \in Registered
           /\ ring[at] \in Threads /\ fresh[ring[at]]
           /\ fresh' = [fresh EXCEPT ![ring[at]] = FALSE]
           /\ Shift(ring[at'])
           /\ UNCHANGED ring
<1>1. at \in 1..Len(ring) /\ Len(ring) \in Nat
  BY ElementsType DEF Visit, RingShape, TypeRing
<1>2. at' = IF at = Len(ring) THEN 1 ELSE at + 1
  <2>1. at' = (at % Len(ring)) + 1
    BY DEF Visit
  <2> QED
    BY <1>1, <2>1, NextIndex
<1>3. at' \in 1..Len(ring) /\ Shift(ring[at']) /\ poll' = IF at' = 1 THEN "smr" ELSE "visit"
  BY <1>1, <1>2 DEF Visit
<1>4. \A i \in 1..Len(ring) : ring[i] \in Threads /\ ring[i] \in Registered
  BY ElementsType DEF TypeRing, Registered
<1>5. /\ fresh[ring[at]] /\ fresh' = [fresh EXCEPT ![ring[at]] = FALSE]
      /\ UNCHANGED <<ring, smrNodes, rcuStop>> /\ poll = "visit"
  BY DEF Visit, Checkpoint
<1>6. TypeRing'
  BY <1>1, <1>3, <1>5 DEF TypeRing, PollStates
<1>7. RingShape'
  BY <1>3, <1>5 DEF RingShape, Registered
<1> QED
  BY <1>1, <1>2, <1>3, <1>4, <1>5, <1>6, <1>7

LEMMA RingVisitIdle ==
    ASSUME TypeRing, RingShape, VisitIdle
    PROVE  TypeRing' /\ RingShape' /\ Registered' = Registered
<1>1. /\ at \in 1..Len(ring) /\ ring' = From(at) /\ at' = 1 /\ poll' = "smr"
      /\ UNCHANGED <<fresh, smrNodes, rcuStop>> /\ poll = "visit"
  BY DEF VisitIdle, RingShape, smrVars, workVars
<1>2. ring' \in Seq(Threads) /\ Elements(ring') = Elements(ring) /\ Distinct(ring')
  BY <1>1, FromTurns DEF TypeRing, RingShape
<1> QED
  BY <1>1, <1>2 DEF TypeRing, RingShape, Registered, PollStates

-------------------------------------------------------------------------------
(* What is counted *)

LEMMA LenTypes ==
    ASSUME TypeWork
    PROVE  /\ Len(smrQueue) \in Nat /\ Len(readyQueue) \in Nat /\ Len(batch) \in Nat
           /\ Len(run) \in Nat /\ Len(deferred) \in Nat
BY ElementsType DEF TypeWork

LEMMA CountDefer ==
    ASSUME TypeWork, TypeCount, Counts, NoLostWakeup, NEW w \in Work, Defer(w)
    PROVE  TypeCount' /\ Counts' /\ NoLostWakeup'
<1>1. /\ deferred' = Append(deferred, w) /\ deferredWork' = deferredWork + 1
      /\ signals' = IF deferredWork = 0 THEN signals + 1 ELSE signals
      /\ UNCHANGED <<smrQueue, smrCount, batch, workcount, run, rcuStop, poll>>
      /\ ~rcuStop
  BY DEF Defer, FirstDefer, smrVars, pollVars
<1>2. Len(deferred') = Len(deferred) + 1
  BY <1>1, ElementsAppend DEF TypeWork
<1> QED
  BY <1>1, <1>2, LenTypes DEF TypeCount, Counts, NoLostWakeup

LEMMA CountRelease ==
    ASSUME TypeWork, TypeCount, Counts, NoLostWakeup, NEW t \in Threads, Release(t)
    PROVE  TypeCount' /\ Counts' /\ NoLostWakeup'
<1>1. /\ UNCHANGED <<batch, workcount, run, deferred, deferredWork, rcuStop, signals>>
      /\ poll' = IF poll \in {"wait", "timedwait"} THEN "woken" ELSE poll
  BY DEF Release, WakePoll, pollVars
<1>2. \/ UNCHANGED <<smrQueue, smrCount>>
      \/ smrCount' = smrCount - Len(smrQueue) /\ smrQueue' = <<>>
  BY DEF Release
<1>3. smrCount' \in Nat /\ Len(smrQueue') <= smrCount'
  BY <1>2, LenTypes, ElementsEmpty DEF TypeCount, Counts
<1> QED
  BY <1>1, <1>3 DEF TypeCount, Counts, NoLostWakeup

LEMMA CountShift ==
    ASSUME TypeWork, WherePlaces, TypeCount, Counts, NEW n \in Threads, Shift(n)
    PROVE  smrCount' \in Nat /\ Len(smrQueue') <= smrCount'
<1>1. PICK f : f = FirstPass(queue1[n])
  OBVIOUS
<1>2. f \in Seq(Work) /\ smrQueue' = smrQueue \o f /\ smrCount' = smrCount + Len(f)
  BY <1>1, PassSplit DEF Shift, LeavePass, TypeWork
<1>3. Len(smrQueue') = Len(smrQueue) + Len(f) /\ Len(f) \in Nat
  BY <1>2, ElementsConcat, ElementsType DEF TypeWork
<1> QED
  BY <1>2, <1>3, LenTypes DEF TypeCount, Counts

LEMMA CountPoll ==
    ASSUME TypeWork, WherePlaces, ring \in Seq(Threads), TypeCount, Counts, NoLostWakeup,
           \/ Take \/ Run \/ RunDone \/ Idle \/ Mark
    PROVE  TypeCount' /\ Counts' /\ NoLostWakeup'
<1>1. CASE Take
  <2>1. /\ poll = "ready" /\ poll' = "run" /\ batch' = readyQueue
        /\ workcount' = Len(readyQueue)
        /\ UNCHANGED <<smrQueue, smrCount, deferredWork, rcuStop, run, deferred, signals>>
    BY <1>1 DEF Take, smrVars, history
  <2>2. batch = <<>> /\ workcount = 0 /\ Len(batch) = 0
    BY <2>1, ElementsEmpty DEF Counts
  <2> QED
    BY <2>1, <2>2, LenTypes DEF TypeCount, Counts, NoLostWakeup
<1>2. CASE Run
  <2>1. /\ poll = "run" /\ poll' = "run" /\ batch # <<>> /\ batch' = Tail(batch)
        /\ run' = Append(run, Head(batch))
        /\ UNCHANGED <<smrQueue, smrCount, deferredWork, rcuStop, deferred, signals, workcount>>
    BY <1>2 DEF Run, smrVars, workVars
  <2>2. Len(batch') = Len(batch) - 1 /\ Head(batch) \in Work
    BY <2>1, ElementsTail DEF TypeWork
  <2>3. Len(run') = Len(run) + 1
    BY <2>1, <2>2, ElementsAppend DEF TypeWork
  <2>4. deferredWork + Len(run') = Len(deferred) + workcount - Len(batch')
    BY <2>2, <2>3, LenTypes DEF TypeCount, Counts
  <2>5. Counts'
    BY <2>1, <2>4 DEF Counts
  <2> QED
    BY <2>1, <2>5 DEF TypeCount, NoLostWakeup
<1>3. CASE RunDone
  <2>1. /\ poll = "run" /\ batch = <<>> /\ deferredWork' = deferredWork - workcount
        /\ \/ batch' = readyQueue /\ workcount' = Len(readyQueue) /\ poll' = "run"
           \/ batch' = <<>> /\ workcount' = 0 /\ poll' = "scan"
        /\ UNCHANGED <<smrQueue, smrCount, rcuStop, run, deferred, signals>>
    BY <1>3 DEF RunDone, Count, smrVars, history
  <2>2. Len(batch) = 0 /\ Len(batch') = workcount'
    BY <2>1, ElementsEmpty
  <2>3. deferredWork' \in Nat /\ deferredWork' + Len(run) = Len(deferred)
    BY <2>1, <2>2, RunBound DEF TypeCount, Counts
  <2>4. workcount' \in Nat /\ Len(deferred) + workcount' - Len(batch') = Len(deferred)
    BY <2>1, <2>2, LenTypes
  <2>5. Counts'
    BY <2>1, <2>3, <2>4 DEF Counts
  <2> QED
    BY <2>1, <2>3, <2>4, <2>5 DEF TypeCount, NoLostWakeup
<1>4. CASE Idle
  <2>1. /\ poll = "ready" /\ poll' = NextWait
        /\ UNCHANGED <<smrQueue, smrCount, deferredWork, rcuStop, run, deferred,
                       signals, batch, workcount>>
    BY <1>4 DEF Idle, smrVars, workVars, pollVars, history
  <2>2. \/ poll' = "timedwait"
        \/ poll' = "wait" /\ ~rcuStop /\ deferredWork = 0
        \/ poll' = "done" /\ rcuStop /\ deferredWork = 0
    BY <2>1 DEF NextWait, TypeCount
  <2> QED
    BY <2>1, <2>2 DEF TypeCount, Counts, NoLostWakeup
<1>5. CASE Mark
  <2>1. /\ poll = "mark" /\ poll' = "ready"
        /\ UNCHANGED <<smrCount, deferredWork, rcuStop, run, deferred, signals, batch, workcount>>
    BY <1>5 DEF Mark, pollVars
  <2>2. Len(smrQueue') <= Len(smrQueue) /\ Len(smrQueue') \in Nat
    BY <1>5, MarkPlaces, ElementsType DEF TypeWork
  <2> QED
    BY <2>1, <2>2, LenTypes DEF TypeCount, Counts, NoLostWakeup
<1> QED
  BY <1>1, <1>2, <1>3, <1>4, <1>5

-------------------------------------------------------------------------------
(* Readers and the scan of hazard pointers *)

LEMMA ValueTypes ==
    NULL \in Values /\ NULL \notin Work /\ \A w \in Work : w \in Values /\ w # NULL
BY FastSmrAssumption DEF Values

LEMMA StoreStep ==
    ASSUME buffer \in [Threads -> Stores], NEW t \in Threads,
           NEW stores \in Stores, Store(t, stores)
    PROVE  /\ buffer' \in [Threads -> Stores]
           /\ buffer'[t] = buffer[t] \o stores
           /\ \A u \in Threads \ {t} : buffer'[u] = buffer[u]
<1>1. buffer[t] \o stores \in Stores
  BY ConcatProperties DEF Stores
<1>2. buffer' = [buffer EXCEPT ![t] = buffer[t] \o stores]
  BY DEF Store
<1> QED
  BY <1>1, <1>2

LEMMA StoreTypes ==
    /\ \A a \in Values : <<<<1, a>>>> \in Stores
    /\ \A a, b \in Values : <<<<2, a>>, <<1, b>>>> \in Stores
    /\ \A a, b \in Values : <<<<1, a>>, <<2, b>>>> \in Stores
<1>1. \A a \in Values : <<1, a>> \in {1, 2} \X Values /\ <<2, a>> \in {1, 2} \X Values
  OBVIOUS
<1>2. \A S : \A x \in S : <<x>> \in Seq(S)
  OBVIOUS
<1>3. \A S : \A x, y \in S : <<x, y>> \in Seq(S)
  OBVIOUS
<1> QED
  BY <1>1, <1>2, <1>3 DEF Stores

(* The other threads' part of what readers keep. *)
OthersKeep(t) ==
    \A u \in Threads \ {t} :
        /\ hptr'[u] = hptr[u] /\ buffer'[u] = buffer[u]
        /\ cand'[u] = cand[u] /\ using'[u] = using[u]

LEMMA LoadReads ==
    ASSUME TypeReader, NEW t \in Threads, Load(t)
    PROVE  /\ TypeReader' /\ OthersKeep(t) /\ UNCHANGED <<hptr, using>>
           /\ t \in Registered /\ cand[t] = NULL /\ using[t] = NULL
           /\ \E w \in linked : cand'[t] = w /\ buffer'[t] = buffer[t] \o <<<<1, w>>>>
<1>1. PICK w \in linked : Store(t, <<<<1, w>>>>) /\ cand' = [cand EXCEPT ![t] = w]
  BY DEF Load
<1>2. w \in Values
  BY DEF TypeReader, Values
<1>3. /\ buffer' \in [Threads -> Stores] /\ buffer'[t] = buffer[t] \o <<<<1, w>>>>
      /\ \A u \in Threads \ {t} : buffer'[u] = buffer[u]
  BY <1>1, <1>2, StoreTypes, StoreStep DEF TypeReader
<1>4. UNCHANGED <<hptr, using, linked>> /\ t \in Registered /\ cand[t] = NULL /\ using[t] = NULL
  BY DEF Load
<1> QED
  BY <1>1, <1>2, <1>3, <1>4 DEF TypeReader, OthersKeep

LEMMA FollowReads ==
    ASSUME TypeReader, NEW t \in Threads, Follow(t)
    PROVE  /\ TypeReader' /\ OthersKeep(t) /\ UNCHANGED <<hptr, using>>
           /\ using[t] \in Work /\ cand[t] = NULL /\ Links[using[t]] # <<>>
           /\ cand'[t] = Head(Links[using[t]]) /\ cand'[t] \in Work
           /\ buffer'[t] = buffer[t] \o <<<<2, using[t]>>, <<1, Head(Links[using[t]])>>>>
<1>1. /\ using[t] \in Work /\ cand[t] = NULL /\ Links[using[t]] # <<>>
      /\ Links[using[t]] \in Seq(Work)
  BY FastSmrAssumption DEF Follow, TypeReader, Values
<1>2. PICK v, w : v = using[t] /\ w = Head(Links[using[t]])
  OBVIOUS
<1>3. w \in Work
  BY <1>1, <1>2, ElementsTail
<1>4. Store(t, <<<<2, v>>, <<1, w>>>>) /\ cand' = [cand EXCEPT ![t] = w]
  BY <1>2 DEF Follow
<1>5. /\ buffer' \in [Threads -> Stores] /\ buffer'[t] = buffer[t] \o <<<<2, v>>, <<1, w>>>>
      /\ \A u \in Threads \ {t} : buffer'[u] = buffer[u]
  <2>1. v \in Values /\ w \in Values
    BY <1>1, <1>2, <1>3, ValueTypes
  <2> QED
    BY <1>4, <2>1, StoreTypes, StoreStep DEF TypeReader
<1>6. UNCHANGED <<hptr, using, linked>>
  BY DEF Follow
<1>7. TypeReader'
  BY <1>3, <1>4, <1>5, <1>6, ValueTypes DEF TypeReader
<1>8. cand'[t] = w /\ \A u \in Threads \ {t} : cand'[u] = cand[u]
  BY <1>4 DEF TypeReader
<1> QED
  BY <1>1, <1>2, <1>3, <1>5, <1>6, <1>7, <1>8 DEF OthersKeep

LEMMA ValidateReads ==
    ASSUME TypeReader, NEW t \in Threads, Validate(t)
    PROVE  /\ TypeReader' /\ OthersKeep(t) /\ UNCHANGED <<hptr, buffer>>
           /\ cand[t] # NULL /\ cand[t] \in Work /\ (using[t] = NULL => cand[t] \in linked)
           /\ cand'[t] = NULL /\ using'[t] = cand[t]
BY ValueTypes DEF Validate, TypeReader, OthersKeep, Values

LEMMA RetryReads ==
    ASSUME TypeReader, NEW t \in Threads, Retry(t)
    PROVE  /\ TypeReader' /\ OthersKeep(t) /\ UNCHANGED <<hptr, using>>
           /\ using[t] = NULL /\ cand[t] # NULL
           /\ \E p \in linked \union {NULL} :
                 cand'[t] = p /\ buffer'[t] = buffer[t] \o <<<<1, p>>>>
<1>1. PICK p \in linked \union {NULL} : Store(t, <<<<1, p>>>>) /\ cand' = [cand EXCEPT ![t] = p]
  BY DEF Retry
<1>2. p \in Values
  BY ValueTypes DEF TypeReader
<1>3. /\ buffer' \in [Threads -> Stores] /\ buffer'[t] = buffer[t] \o <<<<1, p>>>>
      /\ \A u \in Threads \ {t} : buffer'[u] = buffer[u]
  BY <1>1, <1>2, StoreTypes, StoreStep DEF TypeReader
<1>4. UNCHANGED <<hptr, using, linked>> /\ using[t] = NULL /\ cand[t] # NULL
  BY DEF Retry
<1> QED
  BY <1>1, <1>2, <1>3, <1>4 DEF TypeReader, OthersKeep

LEMMA ClearReads ==
    ASSUME TypeReader, NEW t \in Threads, Clear(t)
    PROVE  /\ TypeReader' /\ OthersKeep(t) /\ UNCHANGED <<hptr, cand>>
           /\ cand[t] = NULL /\ using[t] # NULL /\ using'[t] = NULL
           /\ buffer'[t] = buffer[t] \o <<<<1, NULL>>, <<2, NULL>>>>
<1>1. /\ buffer' \in [Threads -> Stores]
      /\ buffer'[t] = buffer[t] \o <<<<1, NULL>>, <<2, NULL>>>>
      /\ \A u \in Threads \ {t} : buffer'[u] = buffer[u]
  BY ValueTypes, StoreTypes, StoreStep DEF TypeReader, Clear
<1>2. /\ UNCHANGED <<hptr, cand, linked>> /\ using' = [using EXCEPT ![t] = NULL]
      /\ cand[t] = NULL /\ using[t] # NULL
  BY DEF Clear
<1> QED
  BY <1>1, <1>2, ValueTypes DEF TypeReader, OthersKeep

LEMMA QuiesceReads ==
    ASSUME TypeReader, TypeRing, NEW t \in Threads, Quiesce(t)
    PROVE  /\ TypeReader' /\ OthersKeep(t) /\ UNCHANGED <<cand, using>>
           /\ hptr'[t] = Flushed(hptr[t], buffer[t]) /\ buffer'[t] = <<>>
<1>1. Flushed(hptr[t], buffer[t]) \in Pair /\ <<>> \in Stores
  BY FlushedType, EmptySeq DEF TypeReader, Stores
<1>2. /\ hptr' = [hptr EXCEPT ![t] = Flushed(hptr[t], buffer[t])]
      /\ buffer' = [buffer EXCEPT ![t] = <<>>]
      /\ UNCHANGED <<cand, using, linked>>
  BY DEF Quiesce
<1> QED
  BY <1>1, <1>2 DEF TypeReader, OthersKeep

LEMMA DrainReads ==
    ASSUME TypeReader, NEW t \in Threads, Drain(t)
    PROVE  /\ TypeReader' /\ OthersKeep(t) /\ UNCHANGED <<cand, using>>
           /\ buffer[t] # <<>> /\ buffer'[t] = Tail(buffer[t])
           /\ hptr'[t] = Flushed(hptr[t], <<Head(buffer[t])>>)
           /\ <<Head(buffer[t])>> \in Stores
<1>1. /\ buffer[t] # <<>> /\ buffer[t] \in Stores
      /\ hptr' = [hptr EXCEPT ![t] = Flushed(hptr[t], <<Head(buffer[t])>>)]
      /\ buffer' = [buffer EXCEPT ![t] = Tail(buffer[t])]
      /\ UNCHANGED <<cand, using, linked>>
  BY DEF Drain, TypeReader
<1>2. Head(buffer[t]) \in {1, 2} \X Values /\ Tail(buffer[t]) \in Stores
  BY <1>1, HeadTailProperties DEF Stores
<1>3. <<Head(buffer[t])>> \in Stores
  BY <1>2 DEF Stores
<1>4. Flushed(hptr[t], <<Head(buffer[t])>>) \in Pair
  BY <1>3, FlushedType DEF TypeReader
<1> QED
  BY <1>1, <1>2, <1>3, <1>4 DEF TypeReader, OthersKeep

LEMMA ReleaseReads ==
    ASSUME TypeReader, NEW t \in Threads, Release(t)
    PROVE  /\ TypeReader' /\ OthersKeep(t)
           /\ hptr'[t] = <<NULL, NULL>> /\ buffer'[t] = <<>>
           /\ cand'[t] = NULL /\ using'[t] = NULL
<1>1. <<NULL, NULL>> \in Pair /\ <<>> \in Stores
  BY ValueTypes, EmptySeq DEF Pair, Stores
<1>2. /\ hptr' = [hptr EXCEPT ![t] = <<NULL, NULL>>]
      /\ buffer' = [buffer EXCEPT ![t] = <<>>]
      /\ UNCHANGED <<cand, using, linked>> /\ cand[t] = NULL /\ using[t] = NULL
  BY DEF Release
<1> QED
  BY <1>1, <1>2 DEF TypeReader, OthersKeep

LEMMA PairsValue ==
    ASSUME smrNodes \in Seq(Threads)
    PROVE  /\ Pairs \in Seq(Threads \X {1, 2}) /\ Len(Pairs) = 2 * Len(smrNodes)
           /\ \A i \in 1..Len(smrNodes) :
                 /\ Pairs[2 * i - 1] = <<smrNodes[i], 1>>
                 /\ Pairs[2 * i] = <<smrNodes[i], 2>>
           /\ \A k \in 1..Len(Pairs) : \E i \in 1..Len(smrNodes) : k \in {2 * i - 1, 2 * i}
<1> DEFINE n == 2 * Len(smrNodes)
           e(i) == <<smrNodes[(i + 1) \div 2], IF i % 2 = 1 THEN 1 ELSE 2>>
<1>1. Len(smrNodes) \in Nat /\ n \in Nat /\ \A i \in 1..Len(smrNodes) : smrNodes[i] \in Threads
  BY ElementsType
<1>2. \A k \in 1..n : \E i \in 1..Len(smrNodes) : k \in {2 * i - 1, 2 * i}
  <2> SUFFICES ASSUME NEW k \in 1..n PROVE (k + 1) \div 2 \in 1..Len(smrNodes)
                          /\ k \in {2 * ((k + 1) \div 2) - 1, 2 * ((k + 1) \div 2)}
    OBVIOUS
  <2> QED
    BY <1>1
<1>3. \A i \in 1..Len(smrNodes) :
         /\ ((2 * i - 1) + 1) \div 2 = i /\ (2 * i - 1) % 2 = 1
         /\ (2 * i + 1) \div 2 = i /\ (2 * i) % 2 = 0
         /\ 2 * i - 1 \in 1..n /\ 2 * i \in 1..n
  BY <1>1
<1>4. Pairs = [i \in 1..n |-> e(i)]
  BY DEF Pairs
<1>5. \A i \in 1..Len(smrNodes) :
         e(2 * i - 1) = <<smrNodes[i], 1>> /\ e(2 * i) = <<smrNodes[i], 2>>
  BY <1>3
<1>6. \A k \in 1..n : e(k) \in Threads \X {1, 2}
  <2> SUFFICES ASSUME NEW k \in 1..n PROVE e(k) \in Threads \X {1, 2}
    OBVIOUS
  <2>1. PICK i \in 1..Len(smrNodes) : k \in {2 * i - 1, 2 * i}
    BY <1>2
  <2> QED
    BY <1>1, <1>5, <2>1
<1> HIDE DEF n, e
<1>7. [i \in 1..n |-> e(i)] \in Seq(Threads \X {1, 2})
  BY <1>1, <1>6, IsASeq
<1>8. Len([i \in 1..n |-> e(i)]) = n
  BY <1>1
<1>9. \A k \in 1..n : Pairs[k] = e(k)
  BY <1>4
<1> QED
  BY <1>2, <1>3, <1>4, <1>5, <1>7, <1>8, <1>9 DEF n

LEMMA ScanStep ==
    ASSUME TypeScan, TypeRing, TypeReader, SmrStart \/ Copy
    PROVE  TypeScan'
<1>1. CASE SmrStart
  BY <1>1, PairsValue DEF SmrStart, TypeScan, TypeRing
<1>2. CASE Copy
  <2>1. CASE toCopy = <<>>
    BY <1>2, <2>1 DEF Copy, TypeScan
  <2>2. CASE toCopy # <<>>
    <3>1. PICK h : h = Head(toCopy)
      OBVIOUS
    <3>2. h \in Threads \X {1, 2} /\ Tail(toCopy) \in Seq(Threads \X {1, 2})
      BY <2>2, <3>1, HeadTailProperties DEF TypeScan
    <3>3. copied' = copied \union {hptr[h[1]][h[2]]} /\ toCopy' = Tail(toCopy)
      BY <1>2, <2>2, <3>1 DEF Copy
    <3>4. hptr[h[1]][h[2]] \in Values
      BY <3>2 DEF TypeReader, Pair
    <3> QED
      BY <3>2, <3>3, <3>4 DEF TypeScan
  <2> QED
    BY <2>1, <2>2
<1> QED
  BY <1>1, <1>2

-------------------------------------------------------------------------------
(* The invariant, step by step *)

Placed == /\ TypeWork /\ TypeRing /\ TypeScan /\ TypeCount /\ TypeReader
          /\ WherePlaces /\ RingShape /\ Counts /\ NoLostWakeup

LEMMA PlacedIsPlaceInv == Placed <=> PlaceInv
BY TypeGroups DEF Placed, PlaceInv, WherePlaces

(* Steps of readers and of a writer that unlinks touch no work. *)
LEMMA PlacedReader ==
    ASSUME Placed,
           \/ \E t \in Threads :
                 Quiesce(t) \/ Drain(t) \/ Load(t) \/ Follow(t) \/ Validate(t) \/ Retry(t) \/ Clear(t)
           \/ \E w \in Work : Unlink(w)
    PROVE  Placed'
<1>1. TypeReader'
  <2>1. ASSUME NEW t \in Threads,
               Quiesce(t) \/ Drain(t) \/ Load(t) \/ Follow(t) \/ Validate(t) \/ Retry(t) \/ Clear(t)
        PROVE  TypeReader'
    BY <2>1, QuiesceReads, DrainReads, LoadReads, FollowReads, ValidateReads, RetryReads,
       ClearReads DEF Placed
  <2>2. ASSUME NEW w \in Work, Unlink(w)
        PROVE  TypeReader'
    BY <2>2 DEF Unlink, Placed, TypeReader, readerVars
  <2> QED
    BY <2>1, <2>2
<1>2. /\ UNCHANGED <<ring, queue0, queue1, smrNodes, smrQueue, smrCount, readyQueue,
                     deferredWork, rcuStop, state, poll, at, toCopy, copied, batch,
                     workcount, signals, deferred, run>>
      /\ \/ UNCHANGED <<fresh, waiting>>
         \/ \E t \in Threads :
               /\ fresh' = [fresh EXCEPT ![t] = TRUE]
               /\ waiting' = [w \in Work |-> waiting[w] \ {t}]
  BY DEF Quiesce, Drain, Load, Follow, Validate, Retry, Clear, Unlink, ringVars, smrVars,
         workVars, pollVars, history
<1>3. waiting' \in [Work -> SUBSET Threads] /\ fresh' \in [Threads -> BOOLEAN]
  BY <1>2 DEF Placed, TypeWork, TypeRing
<1>4. Registered' = Registered
  BY <1>2 DEF Registered
<1>5. TypeWork' /\ WherePlaces'
  BY <1>2, <1>3, <1>4, SamePlaces DEF Placed
<1>6. TypeRing' /\ RingShape'
  BY <1>2, <1>3, <1>4 DEF Placed, TypeRing, RingShape
<1>7. TypeScan' /\ TypeCount' /\ Counts' /\ NoLostWakeup'
  BY <1>2 DEF Placed, TypeScan, TypeCount, Counts, NoLostWakeup
<1> QED
  BY <1>1, <1>5, <1>6, <1>7 DEF Placed

LEMMA PlacedAcquire ==
    ASSUME Placed, NEW t \in Threads, Acquire(t)
    PROVE  Placed'
<1>1. TypeRing' /\ RingShape' /\ Registered' = Registered \union {t}
  BY RingAcquire DEF Placed
<1>2. UNCHANGED <<queue0, queue1, smrQueue, smrCount, readyQueue, deferredWork, rcuStop,
                  state, poll, toCopy, copied, batch, workcount, signals, waiting,
                  deferred, run, linked, hptr, buffer, cand, using>>
  BY DEF Acquire, workVars, pollVars, readerVars, history
<1>3. TypeWork' /\ WherePlaces'
  BY <1>1, <1>2, SamePlaces DEF Placed, TypeWork
<1> QED
  BY <1>1, <1>2, <1>3 DEF Placed, TypeScan, TypeCount, TypeReader, Counts, NoLostWakeup

LEMMA PlacedRelease ==
    ASSUME Placed, NEW t \in Threads, Release(t)
    PROVE  Placed'
<1>1. TypeRing' /\ RingShape'
  BY RingRelease DEF Placed
<1>2. TypeCount' /\ Counts' /\ NoLostWakeup'
  BY CountRelease DEF Placed
<1>3. TypeReader'
  BY ReleaseReads DEF Placed
<1>4. TypeWork' /\ WherePlaces'
  <2>1. /\ t \in Registered /\ waiting' = [w \in Work |-> waiting[w] \ {t}]
        /\ UNCHANGED <<batch, run, deferred>>
    BY DEF Release, pollVars
  <2>2. CASE Len(ring) > 1
    <3>1. DeleteNode(t) /\ UNCHANGED <<smrQueue, readyQueue, state>>
      BY <2>2 DEF Release
    <3> QED
      BY <2>1, <2>2, <3>1, DeletePlaces DEF Placed, TypeRing, RingShape
  <2>3. CASE ~(Len(ring) > 1)
    <3>1. /\ ring' = <<>> /\ smrQueue' = <<>>
          /\ readyQueue' = readyQueue \o Released(t)
          /\ state' = WithState(Elements(Released(t)), "pass2")
          /\ queue0' = [queue0 EXCEPT ![t] = <<>>]
          /\ queue1' = [queue1 EXCEPT ![t] = <<>>]
      BY <2>3 DEF Release
    <3> QED
      BY <2>1, <2>3, <3>1, LastPlaces DEF Placed, TypeRing, RingShape
  <2> QED
    BY <2>2, <2>3
<1>5. TypeScan'
  BY DEF Release, Placed, TypeScan, pollVars
<1> QED
  BY <1>1, <1>2, <1>3, <1>4, <1>5 DEF Placed

LEMMA PlacedDefer ==
    ASSUME Placed, NEW w \in Work, Defer(w)
    PROVE  Placed'
<1>1. TypeWork' /\ WherePlaces'
  BY DeferPlacesWork DEF Placed, TypeRing
<1>2. TypeCount' /\ Counts' /\ NoLostWakeup'
  BY CountDefer DEF Placed
<1>3. UNCHANGED <<ring, smrNodes, fresh, rcuStop, poll, at, toCopy, copied, linked, hptr,
                  buffer, cand, using>>
  BY DEF Defer, smrVars, pollVars, readerVars
<1> QED
  BY <1>1, <1>2, <1>3 DEF Placed, TypeRing, RingShape, Registered, TypeScan, TypeReader

LEMMA PlacedVisit ==
    ASSUME Placed, Visit \/ VisitIdle
    PROVE  Placed'
<1>1. CASE Visit
  <2>1. PICK n \in Threads : n = ring[at'] /\ n \in Registered /\ Shift(n) /\ UNCHANGED ring
                             /\ TypeRing' /\ RingShape'
    BY <1>1, RingVisit DEF Placed
  <2>2. /\ UNCHANGED <<deferredWork, rcuStop, toCopy, copied, batch, workcount, signals,
                       waiting, deferred, run, linked, hptr, buffer, cand, using>>
        /\ poll = "visit" /\ poll' \in {"smr", "visit"}
    BY <1>1 DEF Visit, readerVars, history
  <2>3. TypeWork' /\ WherePlaces'
    BY <2>1, <2>2, ShiftPlaces DEF Placed
  <2>4. smrCount' \in Nat /\ Len(smrQueue') <= smrCount'
    BY <2>1, CountShift DEF Placed
  <2>5. TypeCount' /\ Counts' /\ NoLostWakeup'
    BY <2>2, <2>4 DEF Placed, TypeCount, Counts, NoLostWakeup
  <2> QED
    BY <2>1, <2>2, <2>3, <2>5 DEF Placed, TypeScan, TypeReader
<1>2. CASE VisitIdle
  <2>1. TypeRing' /\ RingShape' /\ Registered' = Registered
    BY <1>2, RingVisitIdle DEF Placed
  <2>2. /\ UNCHANGED <<queue0, queue1, smrQueue, smrCount, readyQueue, deferredWork, rcuStop,
                       state, toCopy, copied, batch, workcount, signals, waiting,
                       deferred, run, linked, hptr, buffer, cand, using>>
        /\ poll = "visit" /\ poll' = "smr"
    BY <1>2 DEF VisitIdle, smrVars, workVars, readerVars, history
  <2>3. TypeWork' /\ WherePlaces'
    BY <2>1, <2>2, SamePlaces DEF Placed, TypeWork
  <2> QED
    BY <2>1, <2>2, <2>3 DEF Placed, TypeScan, TypeCount, TypeReader, Counts, NoLostWakeup
<1> QED
  BY <1>1, <1>2

LEMMA PlacedPoll ==
    ASSUME Placed, \/ Take \/ Run \/ RunDone \/ Idle \/ Mark
    PROVE  Placed'
<1>1. TypeCount' /\ Counts' /\ NoLostWakeup'
  BY CountPoll DEF Placed, TypeRing
<1>2. /\ UNCHANGED <<ring, smrNodes, fresh, rcuStop, at, toCopy, copied, linked, hptr,
                     buffer, cand, using>>
      /\ poll \notin {"visit", "done"} /\ poll' \in PollStates /\ poll' # "visit"
  BY DEF Take, Run, RunDone, Idle, Mark, ringVars, smrVars, workVars, pollVars, readerVars,
         NextWait, PollStates
<1>3. TypeRing' /\ RingShape'
  BY <1>2 DEF Placed, TypeRing, RingShape, Registered
<1>4. TypeWork' /\ WherePlaces'
  <2>1. CASE Mark
    BY <2>1, MarkPlaces DEF Placed, TypeRing
  <2>2. CASE Idle
    <3>1. UNCHANGED <<queue0, queue1, smrQueue, readyQueue, state, batch, run, deferred, waiting>>
      BY <2>2 DEF Idle, ringVars, smrVars, workVars, pollVars, history
    <3> QED
      BY <1>2, <3>1, SamePlaces DEF Placed, TypeWork, Registered
  <2>3. CASE Take \/ Run \/ RunDone
    <3>1. UNCHANGED <<ring, queue0, queue1, smrQueue, state, deferred, waiting>>
      BY <2>3 DEF Take, Run, RunDone, ringVars, smrVars, workVars, history
    <3>2. CASE Run
      BY <3>1, <3>2, ReadyMoves DEF Run, Placed, workVars
    <3>3. CASE Take
      BY <3>1, <3>3, ReadyMoves DEF Take, Placed, Counts, history
    <3>4. CASE RunDone
      <4>1. /\ batch = <<>> /\ run' = run
            /\ \/ batch' = readyQueue /\ readyQueue' = <<>>
               \/ UNCHANGED <<batch, readyQueue>>
        BY <3>4 DEF RunDone, history
      <4>2. CASE batch' = readyQueue /\ readyQueue' = <<>>
        BY <3>1, <4>1, <4>2, ReadyMoves DEF Placed
      <4>3. CASE UNCHANGED <<batch, readyQueue>>
        BY <3>1, <4>1, <4>3, SamePlaces DEF Placed, TypeWork, Registered
      <4> QED
        BY <4>1, <4>2, <4>3
    <3> QED
      BY <2>3, <3>2, <3>3, <3>4
  <2> QED
    BY <2>1, <2>2, <2>3
<1> QED
  BY <1>1, <1>2, <1>3, <1>4 DEF Placed, TypeScan, TypeReader

LEMMA PlacedOther ==
    ASSUME Placed,
           \/ Signal \/ Shutdown \/ Shutdown2 \/ ScanStart \/ SmrStart \/ Copy \/ WaitEnds
           \/ UNCHANGED vars
    PROVE  Placed'
<1>1. /\ UNCHANGED <<queue0, queue1, smrNodes, fresh, smrQueue, smrCount, readyQueue,
                     deferredWork, state, batch, workcount, waiting,
                     deferred, run, linked, hptr, buffer, cand, using>>
      /\ rcuStop' \in {rcuStop, TRUE} /\ signals' \in {signals, signals - 1}
  BY DEF Signal, Shutdown, Shutdown2, ScanStart, SmrStart, Copy, WaitEnds, vars, ringVars,
         smrVars, workVars, pollVars, readerVars, history
<1>2. TypeScan'
  <2>1. CASE SmrStart \/ Copy
    BY <2>1, ScanStep DEF Placed
  <2>2. CASE ~(SmrStart \/ Copy)
    <3>1. UNCHANGED <<toCopy, copied>>
      BY <2>2 DEF Signal, Shutdown, Shutdown2, ScanStart, WaitEnds, vars, pollVars
    <3> QED
      BY <3>1 DEF Placed, TypeScan
  <2> QED
    BY <2>1, <2>2
<1>3. CASE Shutdown2
  <2>1. /\ poll = "done" /\ ring' = <<>> /\ UNCHANGED <<poll, at, rcuStop, signals>>
    BY <1>3 DEF Shutdown2, workVars, pollVars
  <2>2. \A m \in Threads : OnNode(m) = {}
    <3>1. Len(batch) = 0 /\ Len(run) = Len(deferred)
      BY <2>1, ElementsEmpty, LenTypes DEF Placed, Counts, TypeCount
    <3> QED
      BY <3>1, RunBound DEF Placed
  <2>3. TypeWork' /\ WherePlaces'
    BY <1>1, <2>2, SamePlaces DEF Placed, TypeWork
  <2>4. ring' \in Seq(Threads) /\ Distinct(ring')
    BY <2>1, EmptySeq, ElementsEmpty
  <2>5. TypeRing' /\ RingShape'
    BY <1>1, <2>1, <2>4 DEF Placed, TypeRing, RingShape
  <2> QED
    BY <1>1, <1>2, <2>1, <2>3, <2>5 DEF Placed, TypeCount, TypeReader, Counts, NoLostWakeup
<1>4. CASE ScanStart \/ SmrStart \/ Copy
  <2>1. UNCHANGED <<ring, rcuStop, signals>>
    BY <1>4 DEF ScanStart, SmrStart, Copy, ringVars, workVars
  <2>2. /\ poll \in {"scan", "smr", "copy"} /\ poll' \in {"visit", "smr", "copy", "mark", "ready"}
        /\ at' \in {1, at} /\ (poll' = "visit" => at' = 1 /\ ring # <<>>)
    BY <1>4 DEF ScanStart, SmrStart, Copy
  <2>3. Registered' = Registered
    BY <2>1 DEF Registered
  <2>4. TypeWork' /\ WherePlaces'
    BY <1>1, <2>3, SamePlaces DEF Placed, TypeWork
  <2>5. at = 1 /\ at' = 1
    BY <2>2 DEF Placed, RingShape
  <2>6. poll' = "visit" => 1 \in 1..Len(ring)
    BY <2>2, RingHead DEF Placed, TypeRing, RingShape
  <2>7. TypeRing' /\ RingShape'
    BY <1>1, <2>1, <2>2, <2>3, <2>5, <2>6 DEF Placed, TypeRing, RingShape, PollStates
  <2>8. TypeCount' /\ Counts' /\ NoLostWakeup'
    BY <1>1, <2>1, <2>2 DEF Placed, TypeCount, Counts, NoLostWakeup, PollStates
  <2> QED
    BY <1>1, <1>2, <2>4, <2>7, <2>8 DEF Placed, TypeReader
<1>5. CASE Signal \/ Shutdown \/ WaitEnds \/ UNCHANGED vars
  <2>1. UNCHANGED <<ring, at>>
    BY <1>5 DEF Signal, Shutdown, WaitEnds, vars, ringVars, pollVars
  <2>2. \/ poll' = poll
        \/ poll \in {"wait", "timedwait", "woken"} /\ poll' \in {"woken", "scan"}
    BY <1>5 DEF Signal, Shutdown, WaitEnds, vars, WakePoll
  <2>3. Registered' = Registered
    BY <2>1 DEF Registered
  <2>4. TypeWork' /\ WherePlaces'
    BY <1>1, <2>3, SamePlaces DEF Placed, TypeWork
  <2>5. /\ rcuStop' \in BOOLEAN /\ signals' \in Nat
        /\ poll' = "wait" => UNCHANGED <<rcuStop, signals>>
        /\ rcuStop => rcuStop'
    <3>1. CASE Signal
      BY <3>1 DEF Signal, WakePoll, Placed, TypeCount, TypeRing, workVars
    <3>2. CASE Shutdown
      BY <3>2 DEF Shutdown, WakePoll, Placed, TypeCount, TypeRing
    <3>3. CASE WaitEnds \/ UNCHANGED vars
      BY <3>3 DEF WaitEnds, vars, workVars, Placed, TypeCount, TypeRing
    <3> QED
      BY <1>5, <3>1, <3>2, <3>3
  <2>6. TypeRing' /\ RingShape'
    BY <1>1, <2>1, <2>2, <2>3, <2>5 DEF Placed, TypeRing, RingShape, PollStates
  <2>7. TypeCount' /\ Counts' /\ NoLostWakeup'
    BY <1>1, <2>2, <2>5 DEF Placed, TypeCount, Counts, NoLostWakeup, PollStates
  <2> QED
    BY <1>1, <1>2, <2>4, <2>6, <2>7 DEF Placed, TypeReader
<1> QED
  BY <1>3, <1>4, <1>5

LEMMA PlacedInit == Init => Placed
<1> SUFFICES ASSUME Init PROVE Placed
  OBVIOUS
<1>1. \A S : <<>> \in Seq(S)
  BY EmptySeq
<1>2. Elements(<<>>) = {} /\ Distinct(<<>>) /\ Len(<<>>) = 0
  BY ElementsEmpty
<1>3. TypeWork /\ TypeRing /\ TypeScan /\ TypeCount
  BY <1>1 DEF Init, TypeWork, TypeRing, TypeScan, TypeCount, PollStates
<1>4. TypeReader
  BY <1>1, ValueTypes DEF Init, TypeReader, Pair, Stores
<1>5. \A n \in Threads : OnNode(n) = {}
  BY <1>2 DEF Init, OnNode
<1>6. Ready = {} /\ Registered = {}
  BY <1>2 DEF Init, Ready, Registered
<1>7. RingPlaces
  BY <1>2, <1>5 DEF Init, RingPlaces
<1>8. ReadyPlaces /\ SmrPlaces /\ DeferredPlaces
  BY <1>2, <1>6 DEF Init, ReadyPlaces, SmrPlaces, DeferredPlaces
<1>9. RingShape /\ Counts /\ NoLostWakeup
  BY <1>2, <1>6 DEF Init, RingShape, Counts, NoLostWakeup
<1> QED
  BY <1>3, <1>4, <1>7, <1>8, <1>9 DEF Placed, WherePlaces

LEMMA PlacedStep ==
    ASSUME Placed, [Next]_vars
    PROVE  Placed'
BY NextCases, PlacedReader, PlacedAcquire, PlacedRelease, PlacedDefer, PlacedVisit, PlacedPoll,
   PlacedOther

(* The invariant of places holds throughout: each work item is in the one  *)
(* place that its state allows, and the counts agree with the queues.      *)
THEOREM PlacesInvariant == Spec => []PlaceInv
<1>1. Init => Placed
  BY PlacedInit
<1>2. Placed /\ [Next]_vars => Placed'
  BY PlacedStep
<1>3. Placed => PlaceInv
  BY PlacedIsPlaceInv
<1> QED
  BY <1>1, <1>2, <1>3, PTL DEF Spec

LEMMA PlacedAccounting == Placed => Accounting
<1> SUFFICES ASSUME Placed PROVE Accounting
  OBVIOUS
<1>1. /\ \A n \in Threads : queue0[n] \in Seq(Work) /\ queue1[n] \in Seq(Work)
      /\ smrQueue \in Seq(Work) /\ readyQueue \in Seq(Work) /\ batch \in Seq(Work)
      /\ run \in Seq(Work) /\ deferred \in Seq(Work) /\ Registered \subseteq Threads
  BY ElementsType DEF Placed, TypeWork, TypeRing, Registered
<1>2. \A w : w \in Waiting <=> \/ \E n \in Registered : w \in OnNode(n)
                               \/ w \in Elements(smrQueue)
                               \/ w \in Elements(readyQueue)
  <2>1. \A n \in Registered : Elements(queue0[n] \o queue1[n]) = OnNode(n)
    BY <1>1, ElementsConcat DEF OnNode
  <2>2. Elements(smrQueue \o readyQueue) = Elements(smrQueue) \union Elements(readyQueue)
    BY <1>1, ElementsConcat
  <2>3. \A w : w \in Waiting <=>
                 \/ \E n \in Registered : w \in Elements(queue0[n] \o queue1[n])
                 \/ w \in Elements(smrQueue \o readyQueue)
    BY DEF Waiting
  <2> QED
    BY <2>1, <2>2, <2>3
<1>3. Elements(batch \o run) = Elements(batch) \union Elements(run)
  BY <1>1, ElementsConcat
<1>4. /\ \A n \in Threads : OnNode(n) # {} => n \in Registered
      /\ \A n \in Threads : \A w \in OnNode(n) :
            w \in Work /\ state[w] \in {"pass1", "pass2"} /\ w \notin Ready
      /\ \A w \in Elements(smrQueue) : w \in Work /\ state[w] = "smr"
      /\ \A w \in Ready : w \in Work /\ state[w] = "pass2"
  BY PlacesAreWork DEF Placed, WherePlaces, RingPlaces, SmrPlaces, ReadyPlaces
<1>5. Elements(deferred) = Waiting \union Elements(batch \o run)
  <2>1. ASSUME NEW w \in Elements(deferred)
        PROVE  w \in Waiting \union Elements(batch \o run)
    <3>1. \/ \E n \in Threads : w \in OnNode(n)
          \/ w \in Elements(smrQueue)
          \/ w \in Ready
      BY <2>1 DEF Placed, WherePlaces, DeferredPlaces
    <3>2. (\E n \in Threads : w \in OnNode(n)) => \E n \in Registered : w \in OnNode(n)
      BY <1>4
    <3> QED
      BY <1>2, <1>3, <3>1, <3>2 DEF Ready
  <2>2. ASSUME NEW w \in Waiting \union Elements(batch \o run)
        PROVE  w \in Elements(deferred)
    <3>1. \/ \E n \in Threads : w \in OnNode(n)
          \/ w \in Elements(smrQueue)
          \/ w \in Ready
      BY <1>1, <1>2, <1>3, <2>2 DEF Ready
    <3>2. w \in Work /\ state[w] # "live"
      BY <1>4, <3>1
    <3> QED
      BY <3>2 DEF Placed, WherePlaces, DeferredPlaces
  <2> QED
    BY <2>1, <2>2
<1>6. Len(run) = Cardinality(Elements(run))
  BY <1>1, DistinctCardinality DEF Placed, WherePlaces, ReadyPlaces
<1>7. Waiting \intersect Elements(batch \o run) = {}
  <2>1. \A w \in Waiting : w \in Elements(readyQueue) \/ w \notin Ready
    <3>1. \A w \in Elements(smrQueue) : w \notin Ready
      BY <1>4
    <3> QED
      BY <1>1, <1>2, <1>4, <3>1
  <2> QED
    BY <1>3, <2>1 DEF Placed, WherePlaces, ReadyPlaces, Ready
<1>8. deferredWork + Len(run) - (workcount - Len(batch)) = Len(deferred)
  BY LenTypes DEF Placed, Counts, TypeCount
<1> QED
  BY <1>5, <1>6, <1>7, <1>8 DEF Accounting, Placed, Counts

(* Every variable has its type in every reachable state (the queues of     *)
(* fastsmr.c, rcuscan.c and smrscan.c hold work, counts are never below    *)
(* zero).                                                                  *)
THEOREM TypeCorrect == Spec => []TypeOK
<1>1. PlaceInv => TypeOK
  BY DEF PlaceInv
<1> QED
  BY <1>1, PlacesInvariant, PTL

(* deferred_work is what was deferred and is not yet accounted for; no     *)
(* work is lost or queued twice on its way from queue to queue, through    *)
(* the exit of threads as well, and the polling thread never aborts or     *)
(* ends with work left (rcu_poll, rcu_requeue, rcu_delete_node).           *)
THEOREM AccountingCorrect == Spec => []Accounting
<1>1. PlaceInv => Accounting
  BY PlacedIsPlaceInv, PlacedAccounting
<1> QED
  BY <1>1, PlacesInvariant, PTL

(* The polling thread does not wait without a timeout while there is work, *)
(* unless the signal that wakes it is due (smr_defer, rcu_poll).           *)
THEOREM WakeupCorrect == Spec => []NoLostWakeup
<1>1. PlaceInv => NoLostWakeup
  BY DEF PlaceInv
<1> QED
  BY <1>1, PlacesInvariant, PTL

-------------------------------------------------------------------------------
(* What the walk round the ring waits for *)

(* Queues and the walk stay as they are, and who is waited for has not     *)
(* quiesced since.                                                         *)
LEMMA GraceSame ==
    ASSUME Placed, GraceInv,
           UNCHANGED <<queue0, queue1>>,
           UNCHANGED <<ring, at>> \/ ring' = <<>>,
           \A w \in Work : waiting'[w] \subseteq waiting[w] /\ waiting'[w] \subseteq Registered',
           \A w \in Work : \A t \in waiting'[w] : fresh'[t] = fresh[t]
    PROVE  GraceInv'
<1>1. \A n \in Threads : OnNode(n)' = OnNode(n)
  BY DEF OnNode
<1>2. /\ \A w \in Work : waiting'[w] \subseteq Registered'
      /\ \A w \in Work : waiting'[w] # {} => \E n \in Threads : w \in OnNode(n)'
  BY <1>1 DEF GraceInv
<1>3. CASE UNCHANGED <<ring, at>>
  <2>1. \A n \in Registered : \A w \in OnNode(n) : n \in Threads /\ w \in Work
    BY PlacesAreWork, ElementsType DEF Placed, TypeRing, Registered
  <2>2. \A i \in 1..Len(ring) : ring[i] \in Registered
    BY DEF Registered, Elements
  <2>3. \A i, j \in 1..Len(ring) : Gone(i, j)' <=> Gone(i, j)
    BY <1>3 DEF Gone
  <2> QED
    BY <1>2, <1>3, <2>1, <2>2, <2>3 DEF GraceInv, OnNode
<1>4. CASE ring' = <<>>
  <2>1. 1..Len(ring') = {}
    BY <1>4
  <2> QED
    BY <1>2, <2>1 DEF GraceInv
<1> QED
  BY <1>3, <1>4

LEMMA GraceReader ==
    ASSUME Placed, GraceInv,
           \/ \E t \in Threads :
                 Quiesce(t) \/ Drain(t) \/ Load(t) \/ Follow(t) \/ Validate(t) \/ Retry(t) \/ Clear(t)
           \/ \E w \in Work : Unlink(w)
    PROVE  GraceInv'
<1>1. /\ UNCHANGED <<ring, at, queue0, queue1>>
      /\ \/ UNCHANGED <<fresh, waiting>>
         \/ \E t \in Threads :
               /\ fresh' = [fresh EXCEPT ![t] = TRUE]
               /\ waiting' = [w \in Work |-> waiting[w] \ {t}]
  BY DEF Quiesce, Drain, Load, Follow, Validate, Retry, Clear, Unlink, ringVars, pollVars, history
<1>2. Registered' = Registered
  BY <1>1 DEF Registered
<1>3. \A w \in Work : waiting'[w] \subseteq waiting[w] /\ waiting'[w] \subseteq Registered'
  BY <1>1, <1>2 DEF GraceInv
<1>4. \A w \in Work : \A t \in waiting'[w] : fresh'[t] = fresh[t]
  BY <1>1, <1>3 DEF Placed, TypeRing, TypeWork
<1> QED
  BY <1>1, <1>3, <1>4, GraceSame

(* Steps that touch neither the ring nor the queues of its nodes.          *)
LEMMA GraceOther ==
    ASSUME Placed, GraceInv,
           \/ Signal \/ Shutdown \/ Shutdown2 \/ ScanStart \/ SmrStart \/ Copy \/ WaitEnds
           \/ Take \/ Run \/ RunDone \/ Idle
           \/ UNCHANGED vars
    PROVE  GraceInv'
<1>1. UNCHANGED <<queue0, queue1, fresh, waiting>>
  BY DEF Signal, Shutdown, Shutdown2, ScanStart, SmrStart, Copy, WaitEnds, Take, Run, RunDone,
         Idle, vars, ringVars, history
<1>2. CASE Shutdown2
  <2>1. poll = "done" /\ ring' = <<>>
    BY <1>2 DEF Shutdown2
  <2>2. Len(batch) = 0 /\ Len(run) = Len(deferred)
    BY <2>1, ElementsEmpty, LenTypes DEF Placed, Counts, TypeCount
  <2>3. \A m \in Threads : OnNode(m) = {}
    BY <2>2, RunBound DEF Placed
  <2>4. \A w \in Work : waiting[w] = {}
    BY <2>3 DEF GraceInv
  <2> QED
    BY <1>1, <2>1, <2>4, GraceSame
<1>3. CASE ~Shutdown2
  <2>1. UNCHANGED <<ring, at>>
    <3>1. CASE ScanStart
      BY <3>1 DEF ScanStart, Placed, RingShape, ringVars
    <3>2. CASE ~ScanStart
      BY <1>3, <3>2 DEF Signal, Shutdown, SmrStart, Copy, WaitEnds, Take, Run, RunDone, Idle, vars,
         ringVars, pollVars
    <3> QED
      BY <3>1, <3>2
  <2>2. Registered' = Registered
    BY <2>1 DEF Registered
  <2> QED
    BY <1>1, <2>1, <2>2, GraceSame DEF GraceInv
<1> QED
  BY <1>2, <1>3

LEMMA GraceAcquire ==
    ASSUME Placed, GraceInv, NEW t \in Threads, Acquire(t)
    PROVE  GraceInv'
<1>1. /\ t \notin Registered /\ ring' = Append(ring, t) /\ fresh' = [fresh EXCEPT ![t] = FALSE]
      /\ UNCHANGED <<queue0, queue1, at, waiting>> /\ at = 1
  BY DEF Acquire, Unlocked, pollVars, history, Placed, RingShape
<1>2. /\ Len(ring) \in Nat /\ Len(ring') = Len(ring) + 1
      /\ \A i \in 1..Len(ring) : ring'[i] = ring[i] /\ ring[i] \in Threads /\ ring[i] \in Registered
      /\ ring'[Len(ring) + 1] = t
  BY <1>1, ElementsType, AppendProperties DEF Placed, TypeRing, Registered
<1>3. Registered' = Registered \union {t}
  BY RingAcquire DEF Placed
<1>4. OnNode(t) = {}
  BY <1>1 DEF Placed, WherePlaces, RingPlaces
<1>5. \A n \in Threads : OnNode(n)' = OnNode(n)
  BY <1>1 DEF OnNode
<1>6. ASSUME NEW i \in 1..Len(ring'), NEW j \in 1..Len(ring'),
             NEW w \in OnNode(ring'[i]), ring'[j] \in waiting'[w]
      PROVE  /\ i \in 1..Len(ring) /\ j \in 1..Len(ring) /\ ring'[i] = ring[i] /\ ring'[j] = ring[j]
             /\ fresh'[ring[j]] = fresh[ring[j]] /\ ring[j] \in waiting[w]
  <2>1. i \in 1..Len(ring) /\ ring'[i] = ring[i]
    BY <1>2, <1>4, <1>6
  <2>2. w \in Work
    BY <1>2, <1>6, <2>1, PlacesAreWork DEF Placed
  <2>3. t \notin waiting[w]
    BY <1>1, <2>2 DEF GraceInv
  <2>4. j \in 1..Len(ring) /\ ring'[j] = ring[j]
    BY <1>1, <1>2, <1>6, <2>3
  <2> QED
    BY <1>1, <1>2, <1>6, <2>1, <2>4 DEF Placed, TypeRing
<1>7. \A i, j : Gone(i, j)' <=> Gone(i, j)
  BY <1>1 DEF Gone
<1>8. \A i, j \in 1..Len(ring') :
         /\ \A w \in Elements(queue0'[ring'[i]]) :
               ring'[j] \in waiting'[w] /\ Gone(i, j)' => ~fresh'[ring'[j]]
         /\ \A w \in Elements(queue1'[ring'[i]]) :
               ring'[j] \in waiting'[w] => ~Gone(i, j)' /\ ~fresh'[ring'[j]]
  <2> TAKE i, j \in 1..Len(ring')
  <2>1. ASSUME NEW w \in Elements(queue0[ring'[i]]), ring'[j] \in waiting'[w], Gone(i, j)
        PROVE  ~fresh'[ring'[j]]
    <3>1. w \in OnNode(ring'[i])
      BY DEF OnNode
    <3> QED
      BY <1>6, <2>1, <3>1 DEF GraceInv
  <2>2. ASSUME NEW w \in Elements(queue1[ring'[i]]), ring'[j] \in waiting'[w]
        PROVE  ~Gone(i, j) /\ ~fresh'[ring'[j]]
    <3>1. w \in OnNode(ring'[i])
      BY DEF OnNode
    <3> QED
      BY <1>6, <2>2, <3>1 DEF GraceInv
  <2> QED
    BY <1>1, <1>7, <2>1, <2>2
<1>9. /\ \A w \in Work : waiting'[w] \subseteq Registered'
      /\ \A w \in Work : waiting'[w] # {} => \E n \in Threads : w \in OnNode(n)'
  BY <1>1, <1>3, <1>5 DEF GraceInv
<1> QED
  BY <1>8, <1>9 DEF GraceInv

(* A pass starts on the first node of the ring, for work that is nowhere   *)
(* else on it.                                                             *)
LEMMA GraceStart ==
    ASSUME Placed, GraceInv, NEW F \in SUBSET Work,
           \A m \in Threads : F \intersect OnNode(m) = {},
           UNCHANGED <<ring, at, queue1, fresh>>, at = 1,
           waiting' = [w \in Work |-> IF w \in F THEN Registered ELSE waiting[w]],
           ring = <<>> => UNCHANGED queue0,
           ring # <<>> =>
              /\ Elements(queue0'[ring[1]]) = Elements(queue0[ring[1]]) \union F
              /\ \A m \in Threads \ {ring[1]} : queue0'[m] = queue0[m]
    PROVE  GraceInv'
<1>1. CASE ring = <<>>
  <2>1. Registered = {}
    BY <1>1, ElementsEmpty DEF Registered
  <2>2. Registered' = {}
    BY <2>1 DEF Registered
  <2>3. \A w \in Work : waiting'[w] = {}
    BY <2>1 DEF GraceInv
  <2> QED
    BY <1>1, <2>2, <2>3, GraceSame
<1>2. CASE ring # <<>>
  <2>1. PICK n \in Threads : n = ring[1] /\ n \in Registered
    BY <1>2, RingHead DEF Placed, TypeRing
  <2>2. /\ Elements(queue0'[n]) = Elements(queue0[n]) \union F
        /\ \A m \in Threads \ {n} : queue0'[m] = queue0[m]
    BY <1>2, <2>1
  <2>3. \A m \in Threads : OnNode(m)' = IF m = n THEN OnNode(m) \union F ELSE OnNode(m)
    BY <2>2 DEF OnNode
  <2>4. Registered' = Registered
    BY DEF Registered
  <2>5. /\ \A w \in Work : waiting'[w] \subseteq Registered'
        /\ \A w \in Work : waiting'[w] # {} => \E m \in Threads : w \in OnNode(m)'
    BY <2>3, <2>4 DEF GraceInv
  <2>6. \A i \in 1..Len(ring) : ring[i] \in Threads /\ (ring[i] = n => i = 1)
    BY <2>1, RingHead, <1>2, ElementsType DEF Placed, TypeRing, RingShape, Distinct
  <2>7. \A j \in 1..Len(ring) : ~Gone(1, j)
    BY DEF Gone
  <2>8. ASSUME NEW i \in 1..Len(ring), NEW j \in 1..Len(ring)
        PROVE  /\ \A w \in Elements(queue0'[ring[i]]) :
                     ring[j] \in waiting'[w] /\ Gone(i, j) => ~fresh[ring[j]]
               /\ \A w \in Elements(queue1[ring[i]]) :
                     ring[j] \in waiting'[w] => ~Gone(i, j) /\ ~fresh[ring[j]]
    <3>1. \A w \in OnNode(ring[i]) : w \in Work /\ w \notin F /\ waiting'[w] = waiting[w]
      BY <2>6, PlacesAreWork DEF Placed
    <3>2. /\ \A w \in Elements(queue0[ring[i]]) :
                ring[j] \in waiting'[w] /\ Gone(i, j) => ~fresh[ring[j]]
          /\ \A w \in Elements(queue1[ring[i]]) :
                ring[j] \in waiting'[w] => ~Gone(i, j) /\ ~fresh[ring[j]]
      BY <3>1 DEF GraceInv, OnNode
    <3>3. CASE i = 1
      BY <2>7, <3>2, <3>3
    <3>4. CASE i # 1
      BY <2>2, <2>6, <3>2, <3>4
    <3> QED
      BY <3>3, <3>4
  <2>9. \A i, j \in 1..Len(ring) : Gone(i, j)' <=> Gone(i, j)
    BY DEF Gone
  <2>10. \A i, j \in 1..Len(ring') :
           /\ \A w \in Elements(queue0'[ring'[i]]) :
                 ring'[j] \in waiting'[w] /\ Gone(i, j)' => ~fresh'[ring'[j]]
           /\ \A w \in Elements(queue1'[ring'[i]]) :
                 ring'[j] \in waiting'[w] => ~Gone(i, j)' /\ ~fresh'[ring'[j]]
    BY <2>8, <2>9
  <2> QED
    BY <2>5, <2>10 DEF GraceInv
<1> QED
  BY <1>1, <1>2

LEMMA GraceDefer ==
    ASSUME Placed, GraceInv, NEW w \in Work, Defer(w)
    PROVE  GraceInv'
<1>1. /\ state[w] = "live" /\ UNCHANGED <<ring, at, queue1, fresh>> /\ at = 1
      /\ waiting' = [v \in Work |-> IF v \in {w} THEN Registered ELSE waiting[v]]
      /\ IF ring # <<>> THEN queue0' = [queue0 EXCEPT ![ring[1]] = Append(@, w)]
         ELSE UNCHANGED queue0
  BY DEF Defer, StartPass, Enqueue, Unlocked, pollVars, Placed, RingShape
<1>2. \A m \in Threads : {w} \intersect OnNode(m) = {}
  BY <1>1, LiveNowhere DEF Placed
<1>3. ASSUME ring # <<>>
      PROVE  /\ Elements(queue0'[ring[1]]) = Elements(queue0[ring[1]]) \union {w}
             /\ \A m \in Threads \ {ring[1]} : queue0'[m] = queue0[m]
  <2>1. PICK n \in Threads : n = ring[1]
    BY <1>3, RingHead DEF Placed, TypeRing
  <2>2. queue0' = [queue0 EXCEPT ![n] = Append(queue0[n], w)] /\ queue0[n] \in Seq(Work)
    BY <1>1, <1>3, <2>1 DEF Placed, TypeWork
  <2> QED
    BY <2>1, <2>2, ElementsAppend DEF Placed, TypeWork
<1> QED
  BY <1>1, <1>2, <1>3, GraceStart

LEMMA GraceMark ==
    ASSUME Placed, GraceInv, Mark
    PROVE  GraceInv'
<1>1. PICK f : f = Only(smrQueue, Work \ Held)
  OBVIOUS
<1>2. f \in Seq(Work) /\ Elements(f) \subseteq Elements(smrQueue) /\ Elements(f) \subseteq Work
  BY <1>1, OnlyKeeps, ElementsType DEF Placed, TypeWork
<1>3. /\ UNCHANGED <<ring, at, queue1, fresh>> /\ at = 1
      /\ waiting' = [v \in Work |-> IF v \in Elements(f) THEN Registered ELSE waiting[v]]
      /\ IF ring # <<>> THEN queue0' = [queue0 EXCEPT ![ring[1]] = @ \o f]
         ELSE UNCHANGED queue0
  BY <1>1 DEF Mark, StartPass, pollVars, Placed, RingShape
<1>4. \A m \in Threads : Elements(f) \intersect OnNode(m) = {}
  BY <1>2 DEF Placed, WherePlaces, RingPlaces, SmrPlaces
<1>5. ASSUME ring # <<>>
      PROVE  /\ Elements(queue0'[ring[1]]) = Elements(queue0[ring[1]]) \union Elements(f)
             /\ \A m \in Threads \ {ring[1]} : queue0'[m] = queue0[m]
  <2>1. PICK n \in Threads : n = ring[1]
    BY <1>5, RingHead DEF Placed, TypeRing
  <2>2. queue0' = [queue0 EXCEPT ![n] = queue0[n] \o f] /\ queue0[n] \in Seq(Work)
    BY <1>3, <1>5, <2>1 DEF Placed, TypeWork
  <2> QED
    BY <1>2, <2>1, <2>2, ElementsConcat DEF Placed, TypeWork
<1> QED
  BY <1>2, <1>3, <1>4, <1>5, GraceStart

(* A visit moves the walk on by one node. *)
LEMMA GoneNext ==
    ASSUME NEW L \in Nat, at \in 1..L, NEW e, at' = e, e = IF at = L THEN 1 ELSE at + 1
    PROVE  /\ e \in 1..L
           /\ \A j \in 1..L : ~Gone(e, j)' /\ (Gone(e, j) \/ j = at)
           /\ \A i \in 1..L \ {e} : \A j \in 1..L : Gone(i, j)' <=> Gone(i, j) \/ j = at
BY DEF Gone

LEMMA GraceVisit ==
    ASSUME Placed, GraceInv, Visit
    PROVE  GraceInv'
<1>1. /\ at \in 1..Len(ring) /\ Len(ring) \in Nat
      /\ at' = IF at = Len(ring) THEN 1 ELSE at + 1
      /\ at' \in 1..Len(ring) /\ ring[at'] \in Threads
      /\ ring[at] \in Threads /\ fresh[ring[at]]
      /\ fresh' = [fresh EXCEPT ![ring[at]] = FALSE]
      /\ Shift(ring[at']) /\ UNCHANGED ring
  BY RingVisit DEF Placed
<1>2. PICK n \in Threads, e \in 1..Len(ring) : n = ring[at'] /\ e = at'
  BY <1>1
<1>3. PICK c \in Threads : c = ring[at]
  BY <1>1
<1>4. UNCHANGED <<batch, run, deferred, waiting>>
  BY DEF Visit, history
<1>5. /\ queue1'[n] = queue0[n] /\ queue0'[n] = <<>>
      /\ \A m \in Threads \ {n} : queue0'[m] = queue0[m] /\ queue1'[m] = queue1[m]
  BY <1>1, <1>2, <1>4, ShiftMoves DEF Placed
<1>6. /\ fresh[c] /\ ~fresh'[c] /\ \A t \in Threads \ {c} : fresh'[t] = fresh[t]
  BY <1>1, <1>3 DEF Placed, TypeRing
<1>7. \A i \in 1..Len(ring) : /\ ring[i] \in Threads
                              /\ ring[i] = n <=> i = e
                              /\ ring[i] = c <=> i = at
  BY <1>1, <1>2, <1>3, ElementsType DEF Placed, TypeRing, RingShape, Distinct
<1>8. /\ e \in 1..Len(ring)
      /\ \A j \in 1..Len(ring) : ~Gone(e, j)' /\ (Gone(e, j) \/ j = at)
      /\ \A i \in 1..Len(ring) \ {e} : \A j \in 1..Len(ring) : Gone(i, j)' <=> Gone(i, j) \/ j = at
  BY <1>1, <1>2, GoneNext
<1>9. \A w \in Elements(queue1[n]) : waiting[w] = {}
  <2> SUFFICES ASSUME NEW w \in Elements(queue1[n]), waiting[w] # {} PROVE FALSE
    OBVIOUS
  <2>1. w \in Work
    BY PlacesAreWork DEF Placed
  <2>2. PICK j \in 1..Len(ring) : ring[j] \in waiting[w]
    BY <2>1, ElementsType DEF GraceInv, Registered, Elements
  <2>3. ~Gone(e, j) /\ ~fresh[ring[j]]
    BY <1>1, <1>2, <1>8, <2>2 DEF GraceInv
  <2> QED
    BY <1>3, <1>6, <1>8, <2>3
<1>10. \A w \in Work : waiting[w] # {} => \E m \in Threads : w \in OnNode(m)'
  <2> SUFFICES ASSUME NEW w \in Work, waiting[w] # {} PROVE \E m \in Threads : w \in OnNode(m)'
    OBVIOUS
  <2>1. PICK m \in Threads : w \in OnNode(m)
    BY DEF GraceInv
  <2>2. w \notin Elements(queue1[n])
    BY <1>9
  <2>3. w \in OnNode(m)'
    BY <1>5, <2>1, <2>2 DEF OnNode
  <2> QED
    BY <2>3
<1>11. ASSUME NEW i \in 1..Len(ring), NEW j \in 1..Len(ring)
       PROVE  /\ \A w \in Elements(queue0'[ring[i]]) :
                    ring[j] \in waiting[w] /\ Gone(i, j)' => ~fresh'[ring[j]]
              /\ \A w \in Elements(queue1'[ring[i]]) :
                    ring[j] \in waiting[w] => ~Gone(i, j)' /\ ~fresh'[ring[j]]
  <2>1. CASE i = e
    <3>1. Elements(queue0'[ring[i]]) = {} /\ Elements(queue1'[ring[i]]) = Elements(queue0[ring[i]])
      BY <1>5, <1>7, <2>1, ElementsEmpty
    <3>2. ~Gone(i, j)' /\ (Gone(i, j) \/ j = at)
      BY <1>8, <2>1
    <3>3. ASSUME NEW w \in Elements(queue0[ring[i]]), ring[j] \in waiting[w]
          PROVE  ~fresh'[ring[j]]
      BY <1>6, <1>7, <3>2, <3>3 DEF GraceInv
    <3> QED
      BY <3>1, <3>2, <3>3
  <2>2. CASE i # e
    <3>1. queue0'[ring[i]] = queue0[ring[i]] /\ queue1'[ring[i]] = queue1[ring[i]]
      BY <1>5, <1>7, <2>2
    <3>2. Gone(i, j)' <=> Gone(i, j) \/ j = at
      BY <1>8, <2>2
    <3>3. ASSUME NEW w \in Elements(queue0[ring[i]]), ring[j] \in waiting[w], Gone(i, j)'
          PROVE  ~fresh'[ring[j]]
      BY <1>6, <1>7, <3>2, <3>3 DEF GraceInv
    <3>4. ASSUME NEW w \in Elements(queue1[ring[i]]), ring[j] \in waiting[w]
          PROVE  ~Gone(i, j)' /\ ~fresh'[ring[j]]
      <4>1. ~Gone(i, j) /\ ~fresh[ring[j]]
        BY <3>4 DEF GraceInv
      <4> QED
        BY <1>6, <1>7, <3>2, <4>1
    <3> QED
      BY <3>1, <3>3, <3>4
  <2> QED
    BY <2>1, <2>2
<1>12. Registered' = Registered
  BY <1>1 DEF Registered
<1> QED
  BY <1>1, <1>4, <1>10, <1>11, <1>12 DEF GraceInv

(* The walk stops, and the ring is counted from there. *)
LEMMA GraceVisitIdle ==
    ASSUME Placed, GraceInv, VisitIdle
    PROVE  GraceInv'
<1>1. /\ at \in 1..Len(ring) /\ ring' = From(at) /\ at' = 1
      /\ UNCHANGED <<queue0, queue1, fresh, waiting>>
  BY DEF VisitIdle, Placed, RingShape, readerVars, history
<1>2. Registered' = Registered
  BY RingVisitIdle DEF Placed
<1>3. /\ Len(ring') = Len(ring) /\ Len(ring) \in Nat
      /\ \A k \in 1..Len(ring) :
            Turned(at, k) \in 1..Len(ring) /\ ring'[k] = ring[Turned(at, k)]
  BY <1>1, FromTurns, ElementsType DEF Placed, TypeRing
<1>4. \A k, l \in 1..Len(ring) : Gone(k, l)' <=> Gone(Turned(at, k), Turned(at, l))
  BY <1>1, <1>3 DEF Gone, Turned
<1>5. \A n \in Threads : OnNode(n)' = OnNode(n)
  BY <1>1 DEF OnNode
<1>6. /\ \A w \in Work : waiting'[w] \subseteq Registered'
      /\ \A w \in Work : waiting'[w] # {} => \E n \in Threads : w \in OnNode(n)'
  BY <1>1, <1>2, <1>5 DEF GraceInv
<1>7. ASSUME NEW k \in 1..Len(ring), NEW l \in 1..Len(ring)
      PROVE  /\ \A w \in Elements(queue0[ring'[k]]) :
                   ring'[l] \in waiting[w] /\ Gone(k, l)' => ~fresh[ring'[l]]
             /\ \A w \in Elements(queue1[ring'[k]]) :
                   ring'[l] \in waiting[w] => ~Gone(k, l)' /\ ~fresh[ring'[l]]
  <2>1. PICK i, j \in 1..Len(ring) :
           ring'[k] = ring[i] /\ ring'[l] = ring[j] /\ (Gone(k, l)' <=> Gone(i, j))
    BY <1>3, <1>4
  <2> QED
    BY <2>1 DEF GraceInv
<1> QED
  BY <1>1, <1>3, <1>6, <1>7 DEF GraceInv

(* With two threads, the one that stays takes over the work at the node    *)
(* where the walk is.                                                      *)
LEMMA GraceRelease ==
    ASSUME Placed, GraceInv, ExitsOfTwo, NEW t \in Threads, Release(t)
    PROVE  GraceInv'
<1>1. /\ MayExit /\ t \in Registered /\ at = 1
      /\ UNCHANGED <<fresh, at>>
      /\ waiting' = [w \in Work |-> waiting[w] \ {t}]
  BY DEF Release, Unlocked, pollVars, Placed, RingShape
<1>2. Registered' = Registered \ {t}
  BY RingRelease DEF Placed
<1>3. Len(ring) \in Nat /\ Len(ring) <= 2
  <2>1. IsFiniteSet(Threads) /\ Cardinality(Threads) <= 2
    BY <1>1 DEF ExitsOfTwo
  <2>2. Registered \subseteq Threads /\ Cardinality(Registered) = Len(ring) /\ Len(ring) \in Nat
    BY DistinctCardinality, ElementsType DEF Placed, TypeRing, RingShape, Registered
  <2>3. Cardinality(Registered) <= Cardinality(Threads) /\ Cardinality(Threads) \in Nat
    BY <2>1, <2>2, FS_Subset, FS_CardinalityType
  <2> QED
    BY <2>1, <2>2, <2>3
<1>4. \A w \in Work : waiting'[w] \subseteq waiting[w] /\ waiting'[w] \subseteq Registered'
  BY <1>1, <1>2 DEF GraceInv
<1>5. CASE Len(ring) > 1
  <2>1. PICK p \in Threads : p = Previous(t) /\ p \in Registered /\ p # t
    BY <1>1, <1>5, PreviousOther DEF Placed, TypeRing, RingShape
  <2>2. /\ queue0' = [queue0 EXCEPT ![p] = queue0[p] \o queue0[t], ![t] = <<>>]
        /\ queue1' = [queue1 EXCEPT ![p] = queue1[p] \o queue1[t], ![t] = <<>>]
    BY <1>5, <2>1 DEF Release, DeleteNode
  <2>3. /\ Elements(queue0'[p]) = Elements(queue0[p]) \union Elements(queue0[t])
        /\ Elements(queue1'[p]) = Elements(queue1[p]) \union Elements(queue1[t])
        /\ \A m \in Threads \ {p, t} : queue0'[m] = queue0[m] /\ queue1'[m] = queue1[m]
    <3>1. /\ queue0 \in [Threads -> Seq(Work)] /\ queue1 \in [Threads -> Seq(Work)]
          /\ queue0[p] \in Seq(Work) /\ queue0[t] \in Seq(Work)
          /\ queue1[p] \in Seq(Work) /\ queue1[t] \in Seq(Work)
      BY DEF Placed, TypeWork
    <3>2. queue0'[p] = queue0[p] \o queue0[t] /\ queue1'[p] = queue1[p] \o queue1[t]
      BY <2>1, <2>2, <3>1
    <3>3. \A m \in Threads \ {p, t} : queue0'[m] = queue0[m] /\ queue1'[m] = queue1[m]
      BY <2>2, <3>1
    <3> QED
      BY <3>1, <3>2, <3>3, ElementsConcat
  <2>4. OnNode(p)' = OnNode(p) \union OnNode(t)
    BY <2>3 DEF OnNode
  <2>5. \A m \in Threads \ {p, t} : OnNode(m)' = OnNode(m)
    BY <2>3 DEF OnNode
  <2>6. \A w \in Work : waiting'[w] # {} => \E m \in Threads : w \in OnNode(m)'
    <3> SUFFICES ASSUME NEW w \in Work, waiting'[w] # {} PROVE \E m \in Threads : w \in OnNode(m)'
      OBVIOUS
    <3>1. PICK m \in Threads : w \in OnNode(m)
      BY <1>4 DEF GraceInv
    <3>2. CASE m \in {p, t}
      BY <2>4, <3>1, <3>2
    <3>3. CASE m \notin {p, t}
      BY <2>5, <3>1, <3>3
    <3> QED
      BY <3>2, <3>3
  <2>7. Len(ring') = 1 /\ ring'[1] = p
    <3>1. /\ ring' \in Seq(Threads) /\ Distinct(ring') /\ p \in Elements(ring')
          /\ Elements(ring') = Registered \ {t}
      BY <1>2, <2>1, RingRelease DEF Placed, TypeRing, RingShape, Registered
    <3>2. /\ IsFiniteSet(Registered) /\ Cardinality(Registered) = Len(ring)
          /\ Cardinality(Elements(ring')) = Len(ring') /\ Len(ring') \in Nat
      BY <3>1, DistinctCardinality, ElementsType DEF Placed, TypeRing, RingShape, Registered
    <3>3. Cardinality(Registered \ {t}) = Cardinality(Registered) - 1
      BY <1>1, <3>2, FS_RemoveElement
    <3>4. Len(ring') = 1
      BY <1>3, <1>5, <3>1, <3>2, <3>3
    <3> QED
      BY <3>1, <3>4, ElementsType
  <2>8. ~Gone(1, 1)'
    BY <1>1 DEF Gone
  <2>9. ASSUME NEW w \in Elements(queue1'[p]), p \in waiting'[w]
        PROVE  ~fresh[p]
    <3>1. PICK j \in 1..Len(ring) : ring[j] = p
      BY <2>1 DEF Registered, Elements
    <3>2. \E i \in 1..Len(ring) : w \in Elements(queue1[ring[i]])
      <4>1. w \in Elements(queue1[p]) \/ w \in Elements(queue1[t])
        BY <2>3, <2>9
      <4>2. \A n \in Registered : \E i \in 1..Len(ring) : ring[i] = n
        BY DEF Registered, Elements
      <4> QED
        BY <1>1, <2>1, <4>1, <4>2
    <3>3. w \in Work
      BY <2>3, PlacesAreWork DEF Placed
    <3> QED
      BY <1>4, <2>9, <3>1, <3>2, <3>3 DEF GraceInv
  <2>10. \A i, j \in 1..Len(ring') :
           /\ \A w \in Elements(queue0'[ring'[i]]) :
                 ring'[j] \in waiting'[w] /\ Gone(i, j)' => ~fresh'[ring'[j]]
           /\ \A w \in Elements(queue1'[ring'[i]]) :
                 ring'[j] \in waiting'[w] => ~Gone(i, j)' /\ ~fresh'[ring'[j]]
    <3> TAKE i, j \in 1..Len(ring')
    <3>1. i = 1 /\ j = 1
      BY <2>7
    <3> QED
      BY <1>1, <2>7, <2>8, <2>9, <3>1
  <2> QED
    BY <1>4, <2>6, <2>10 DEF GraceInv
<1>6. CASE ~(Len(ring) > 1)
  <2>1. ring' = <<>>
    BY <1>6 DEF Release
  <2>2. Registered' = {} /\ 1..Len(ring') = {}
    BY <2>1, ElementsEmpty DEF Registered
  <2>3. \A w \in Work : waiting'[w] = {}
    BY <1>4, <2>2
  <2> QED
    BY <1>4, <2>2, <2>3 DEF GraceInv
<1> QED
  BY <1>5, <1>6

LEMMA GraceInit == Init => GraceInv
<1>1. ring = <<>> => 1..Len(ring) = {}
  OBVIOUS
<1> QED
  BY <1>1 DEF Init, GraceInv

LEMMA GraceStep ==
    ASSUME ExitsOfTwo, Placed, GraceInv, [Next]_vars
    PROVE  GraceInv'
BY NextCases, GraceReader, GraceAcquire, GraceRelease, GraceDefer, GraceMark, GraceVisit,
   GraceVisitIdle, GraceOther

(* Where work is and what it waits for, together. *)
THEOREM GraceInvariance == ExitsOfTwo => (Spec => []GraceInv)
<1> SUFFICES ASSUME ExitsOfTwo PROVE Spec => []GraceInv
  OBVIOUS
<1>1. Init => GraceInv
  BY GraceInit
<1>2. PlaceInv /\ GraceInv /\ [Next]_vars => GraceInv'
  BY GraceStep, PlacedIsPlaceInv
<1> QED
  BY <1>1, <1>2, PlacesInvariant, PTL DEF Spec

(* Work leaves the ring only when every thread that was registered when    *)
(* its pass began has quiesced or exited since (rcu_requeue, rcu_scan):    *)
(* true while no thread exits, and of two threads that may.                *)
THEOREM GraceKept == ExitsOfTwo => (Spec => []GracePeriod)
<1> SUFFICES ASSUME ExitsOfTwo PROVE Spec => []GracePeriod
  OBVIOUS
<1>1. PlaceInv /\ GraceInv => GracePeriod
  <2> SUFFICES ASSUME Placed, GraceInv, NEW w \in Work, waiting[w] # {}
               PROVE  \E n \in Registered : w \in Elements(queue0[n] \o queue1[n])
    BY PlacedIsPlaceInv DEF GracePeriod
  <2>1. PICK n \in Threads : w \in OnNode(n)
    BY DEF GraceInv
  <2>2. n \in Registered
    BY <2>1 DEF Placed, WherePlaces, RingPlaces
  <2>3. Elements(queue0[n] \o queue1[n]) = OnNode(n)
    BY ElementsConcat DEF Placed, TypeWork, OnNode
  <2> QED
    BY <2>1, <2>2, <2>3
<1> QED
  BY <1>1, PlacesInvariant, GraceInvariance, PTL

===============================================================================
