--------------------------- MODULE FastSmrSafeProofs ---------------------------
(***************************************************************************)
(* fastsmr runs work of type fifo in the order it was deferred, and runs   *)
(* none while a reader works on its object, for any number of threads and  *)
(* any work.                                                               *)
(***************************************************************************)
EXTENDS FastSmrProofs

-------------------------------------------------------------------------------
(* The order of defers *)

LEMMA EarlierKept ==
    ASSUME TypeWork, deferred' = deferred \/ \E w \in Work : deferred' = Append(deferred, w)
    PROVE  \A v, w : Earlier(v, w) => Earlier(v, w)'
<1>1. CASE deferred' = deferred
  BY <1>1 DEF Earlier
<1>2. CASE \E w \in Work : deferred' = Append(deferred, w)
  <2>1. /\ Len(deferred) \in Nat /\ Len(deferred') = Len(deferred) + 1
        /\ \A i \in 1..Len(deferred) : deferred'[i] = deferred[i]
    BY <1>2, ElementsType, AppendProperties DEF TypeWork
  <2>2. \A i \in 1..Len(deferred) : i \in 1..Len(deferred')
    BY <2>1
  <2> QED
    BY <2>1, <2>2 DEF Earlier
<1> QED
  BY <1>1, <1>2

LEMMA EarlierLast ==
    ASSUME TypeWork, NEW w \in Work, deferred' = Append(deferred, w)
    PROVE  \A v \in Elements(deferred) : Earlier(v, w)'
<1>1. /\ Len(deferred) \in Nat /\ Len(deferred') = Len(deferred) + 1
      /\ \A i \in 1..Len(deferred) : deferred'[i] = deferred[i]
      /\ deferred'[Len(deferred) + 1] = w
  BY ElementsType, AppendProperties DEF TypeWork
<1> SUFFICES ASSUME NEW v \in Elements(deferred) PROVE Earlier(v, w)'
  OBVIOUS
<1>2. PICK i \in 1..Len(deferred) : deferred[i] = v
  BY DEF Elements
<1>3. i \in 1..Len(deferred') /\ Len(deferred) + 1 \in 1..Len(deferred') /\ i < Len(deferred) + 1
  BY <1>1
<1> QED
  BY <1>1, <1>2, <1>3 DEF Earlier

LEMMA EarlierOneWay ==
    ASSUME Distinct(deferred), deferred \in Seq(Work), NEW v, NEW w, Earlier(v, w)
    PROVE  ~Earlier(w, v)
<1>1. Len(deferred) \in Nat
  BY ElementsType
<1> QED
  BY <1>1 DEF Earlier, Distinct

(* The order in which the walk gets to the nodes, after a visit. *)
LEMMA SoonerNext ==
    ASSUME NEW L \in Nat, at \in 1..L, NEW e, at' = e, e = IF at = L THEN 1 ELSE at + 1
    PROVE  /\ e \in 1..L
           /\ \A j \in 1..L \ {e} : Sooner(e, j) /\ ~Sooner(e, j)'
           /\ \A i, j \in 1..L \ {e} : Sooner(i, j)' <=> Sooner(i, j)
           /\ ~Sooner(e, e)'
BY DEF Sooner

(* Some steps leave the order in the ring as it is. *)
LEMMA OrderSame ==
    ASSUME Placed, NEW p, RingOrder(p),
           UNCHANGED <<queue0, queue1>>,
           UNCHANGED <<ring, at>> \/ ring' = <<>>,
           \A v, w : Earlier(v, w) => Earlier(v, w)',
           \A n \in Threads : \A w \in OnNode(n) : state'[w] = p => state[w] = p
    PROVE  RingOrder(p)'
<1>1. CASE ring' = <<>>
  <2>1. 1..Len(ring') = {}
    BY <1>1
  <2> QED
    BY <2>1 DEF RingOrder
<1>2. CASE UNCHANGED <<ring, at>>
  <2>1. \A i \in 1..Len(ring) : ring[i] \in Threads
    BY ElementsType DEF Placed, TypeRing
  <2>2. \A i \in 1..Len(ring) :
           /\ InPass(Elements(queue0[ring[i]]), p)' \subseteq InPass(Elements(queue0[ring[i]]), p)
           /\ InPass(Elements(queue1[ring[i]]), p)' \subseteq InPass(Elements(queue1[ring[i]]), p)
    BY <1>2, <2>1 DEF InPass, OnNode
  <2>3. \A i, j \in 1..Len(ring) : Sooner(i, j)' <=> Sooner(i, j)
    BY <1>2 DEF Sooner
  <2>4. ASSUME NEW i \in 1..Len(ring), NEW j \in 1..Len(ring)
        PROVE  /\ AllBefore(InPass(Elements(queue1[ring[i]]), p), InPass(Elements(queue0[ring[j]]), p))'
               /\ Sooner(i, j)' =>
                    /\ AllBefore(InPass(Elements(queue1[ring[i]]), p),
                                 InPass(Elements(queue1[ring[j]]), p))'
                    /\ AllBefore(InPass(Elements(queue0[ring[i]]), p),
                                 InPass(Elements(queue0[ring[j]]), p))'
    BY <2>2, <2>3 DEF RingOrder, AllBefore
  <2> QED
    BY <1>2, <2>4 DEF RingOrder
<1> QED
  BY <1>1, <1>2

(* Work is put on the first node of the ring, after all that is there.     *)
LEMMA OrderStart ==
    ASSUME Placed, NEW p, RingOrder(p), NEW F,
           UNCHANGED <<ring, at, queue1>>, at = 1,
           NEW n \in Threads, n = ring[1],
           Elements(queue0'[n]) = Elements(queue0[n]) \union F,
           \A m \in Threads \ {n} : queue0'[m] = queue0[m],
           \A v, w : Earlier(v, w) => Earlier(v, w)',
           \A m \in Threads : \A w \in OnNode(m) : state'[w] = p => state[w] = p,
           \A m \in Threads : \A v \in OnNode(m), w \in F :
              state'[v] = p /\ state'[w] = p => Earlier(v, w)'
    PROVE  RingOrder(p)'
<1>1. \A i \in 1..Len(ring) : ring[i] \in Threads
  BY ElementsType DEF Placed, TypeRing
<1>2. \A i \in 1..Len(ring) : ring[i] = n => i = 1
  BY ElementsType DEF Placed, RingShape, TypeRing, Distinct
<1>3. \A i, j \in 1..Len(ring) : (Sooner(i, j)' <=> Sooner(i, j)) /\ ~Sooner(1, j)
  BY ElementsType DEF Sooner, Placed, TypeRing
<1>4. ASSUME NEW i \in 1..Len(ring), NEW j \in 1..Len(ring),
             NEW v, NEW w, state'[v] = p, state'[w] = p
      PROVE  /\ v \in Elements(queue1[ring[i]]) /\ w \in Elements(queue0'[ring[j]]) => Earlier(v, w)'
             /\ Sooner(i, j) =>
                  /\ v \in Elements(queue1[ring[i]]) /\ w \in Elements(queue1[ring[j]]) => Earlier(v, w)'
                  /\ v \in Elements(queue0'[ring[i]]) /\ w \in Elements(queue0'[ring[j]]) => Earlier(v, w)'
  <2>1. ring[i] \in Threads /\ ring[j] \in Threads
    BY <1>1
  <2>2. /\ \A x \in {v, w} : \A m \in {ring[i], ring[j]} :
              x \in Elements(queue0[m]) \/ x \in Elements(queue1[m]) => state[x] = p
    BY <1>4, <2>1 DEF OnNode
  <2>3. /\ v \in Elements(queue1[ring[i]]) /\ w \in Elements(queue0[ring[j]]) => Earlier(v, w)'
        /\ Sooner(i, j) =>
             /\ v \in Elements(queue1[ring[i]]) /\ w \in Elements(queue1[ring[j]]) => Earlier(v, w)'
             /\ v \in Elements(queue0[ring[i]]) /\ w \in Elements(queue0[ring[j]]) => Earlier(v, w)'
    BY <2>2 DEF RingOrder, AllBefore, InPass
  <2>4. \A m \in Threads : w \in Elements(queue0'[m]) => w \in Elements(queue0[m]) \/ w \in F
    OBVIOUS
  <2>5. \A m \in Threads : v \in OnNode(m) /\ w \in F => Earlier(v, w)'
    BY <1>4
  <2>6. Sooner(i, j) => queue0'[ring[i]] = queue0[ring[i]]
    BY <1>2, <1>3, <2>1
  <2> QED
    BY <2>1, <2>3, <2>4, <2>5, <2>6 DEF OnNode
<1> QED
  BY <1>3, <1>4 DEF RingOrder, AllBefore, InPass

LEMMA OrderAcquire ==
    ASSUME Placed, NEW p, RingOrder(p), NEW t \in Threads, Acquire(t)
    PROVE  RingOrder(p)'
<1>1. /\ t \notin Registered /\ ring' = Append(ring, t)
      /\ UNCHANGED <<queue0, queue1, at, state, deferred>> /\ at = 1
  BY DEF Acquire, Unlocked, workVars, pollVars, history, Placed, RingShape
<1>2. /\ Len(ring) \in Nat /\ Len(ring') = Len(ring) + 1
      /\ \A i \in 1..Len(ring) : ring'[i] = ring[i]
      /\ ring'[Len(ring) + 1] = t
  BY <1>1, ElementsType, AppendProperties DEF Placed, TypeRing
<1>3. Elements(queue0[t]) = {} /\ Elements(queue1[t]) = {}
  BY <1>1 DEF Placed, WherePlaces, RingPlaces, OnNode
<1>4. \A i \in 1..Len(ring') : \/ i \in 1..Len(ring) /\ ring'[i] = ring[i]
                               \/ ring'[i] = t
  BY <1>2
<1>5. \A i, j \in 1..Len(ring') : Sooner(i, j)' <=> Sooner(i, j)
  BY <1>1 DEF Sooner
<1>6. \A v, w : Earlier(v, w)' <=> Earlier(v, w)
  BY <1>1 DEF Earlier
<1>7. ASSUME NEW i \in 1..Len(ring'), NEW j \in 1..Len(ring'),
             NEW v, NEW w, state[v] = p, state[w] = p
      PROVE  /\ v \in Elements(queue1[ring'[i]]) /\ w \in Elements(queue0[ring'[j]]) => Earlier(v, w)
             /\ Sooner(i, j) =>
                  /\ v \in Elements(queue1[ring'[i]]) /\ w \in Elements(queue1[ring'[j]]) => Earlier(v, w)
                  /\ v \in Elements(queue0[ring'[i]]) /\ w \in Elements(queue0[ring'[j]]) => Earlier(v, w)
  <2>1. CASE i \in 1..Len(ring) /\ j \in 1..Len(ring)
    BY <1>2, <1>7, <2>1 DEF RingOrder, AllBefore, InPass
  <2>2. CASE ~(i \in 1..Len(ring) /\ j \in 1..Len(ring))
    BY <1>3, <1>4, <2>2
  <2> QED
    BY <2>1, <2>2
<1> QED
  BY <1>1, <1>5, <1>6, <1>7 DEF RingOrder, AllBefore, InPass

(* With two threads, one node takes over what was on both. *)
LEMMA OneNode ==
    ASSUME Placed, ExitsOfTwo, NEW t \in Threads, Release(t), Len(ring) > 1
    PROVE  \E n \in Threads :
              /\ n # t /\ ring' = <<n>> /\ Registered = {n, t}
              /\ Elements(queue0'[n]) = Elements(queue0[n]) \union Elements(queue0[t])
              /\ Elements(queue1'[n]) = Elements(queue1[n]) \union Elements(queue1[t])
<1>1. MayExit /\ t \in Registered
  BY DEF Release
<1>2. PICK n \in Threads : n = Previous(t) /\ n \in Registered /\ n # t
  BY <1>1, PreviousOther DEF Placed, TypeRing, RingShape
<1>3. /\ queue0' = [queue0 EXCEPT ![n] = queue0[n] \o queue0[t], ![t] = <<>>]
      /\ queue1' = [queue1 EXCEPT ![n] = queue1[n] \o queue1[t], ![t] = <<>>]
  BY <1>2 DEF Release, DeleteNode
<1>4. /\ Elements(queue0'[n]) = Elements(queue0[n]) \union Elements(queue0[t])
      /\ Elements(queue1'[n]) = Elements(queue1[n]) \union Elements(queue1[t])
  <2>1. /\ queue0 \in [Threads -> Seq(Work)] /\ queue1 \in [Threads -> Seq(Work)]
        /\ queue0[n] \in Seq(Work) /\ queue0[t] \in Seq(Work)
        /\ queue1[n] \in Seq(Work) /\ queue1[t] \in Seq(Work)
    BY DEF Placed, TypeWork
  <2>2. queue0'[n] = queue0[n] \o queue0[t] /\ queue1'[n] = queue1[n] \o queue1[t]
    BY <1>2, <1>3, <2>1
  <2> QED
    BY <2>1, <2>2, ElementsConcat
<1>5. /\ IsFiniteSet(Registered) /\ Cardinality(Registered) = Len(ring) /\ Len(ring) = 2
      /\ Registered \subseteq Threads
  <2>1. /\ IsFiniteSet(Registered) /\ Cardinality(Registered) = Len(ring) /\ Len(ring) \in Nat
        /\ Registered \subseteq Threads
    BY DistinctCardinality, ElementsType DEF Placed, TypeRing, RingShape, Registered
  <2>2. IsFiniteSet(Threads) /\ Cardinality(Threads) <= 2
    BY <1>1 DEF ExitsOfTwo
  <2>3. Cardinality(Registered) <= Cardinality(Threads) /\ Cardinality(Threads) \in Nat
    BY <2>1, <2>2, FS_Subset, FS_CardinalityType
  <2> QED
    BY <2>1, <2>2, <2>3
<1>6. /\ ring' \in Seq(Threads) /\ Distinct(ring') /\ Elements(ring') = Registered \ {t}
  BY RingRelease DEF Placed, TypeRing, RingShape, Registered
<1>7. Len(ring') = 1 /\ Cardinality(Registered \ {t}) = 1
  <2>1. Cardinality(Registered \ {t}) = Cardinality(Registered) - 1
    BY <1>1, <1>5, FS_RemoveElement
  <2>2. Len(ring') = Cardinality(Elements(ring'))
    BY <1>6, DistinctCardinality
  <2> QED
    BY <1>5, <1>6, <2>1, <2>2
<1>8. ring'[1] = n /\ Registered = {n, t}
  <2>1. PICK m : Registered \ {t} = {m}
    BY <1>5, <1>7, FS_Singleton, FS_Subset
  <2>2. m = n
    BY <1>2, <2>1
  <2>3. ring'[1] \in Elements(ring')
    BY <1>7 DEF Elements
  <2> QED
    BY <1>1, <1>2, <1>6, <2>1, <2>2, <2>3
<1>9. ring' = <<n>>
  BY <1>6, <1>7, <1>8
<1> QED
  BY <1>2, <1>4, <1>8, <1>9

LEMMA OrderRelease ==
    ASSUME Placed, ExitsOfTwo, NEW p, RingOrder(p), NEW t \in Threads, Release(t)
    PROVE  RingOrder(p)'
<1>1. at' = 1 /\ UNCHANGED deferred
  BY DEF Release, Unlocked, pollVars, Placed, RingShape
<1>2. \A v, w : Earlier(v, w)' <=> Earlier(v, w)
  BY <1>1 DEF Earlier
<1>3. CASE Len(ring) > 1
  <2>1. PICK n \in Threads :
              /\ n # t /\ ring' = <<n>> /\ Registered = {n, t}
              /\ Elements(queue0'[n]) = Elements(queue0[n]) \union Elements(queue0[t])
              /\ Elements(queue1'[n]) = Elements(queue1[n]) \union Elements(queue1[t])
    BY <1>3, OneNode
  <2>2. state' = state
    BY <1>3 DEF Release
  <2>3. \A a, b \in {n, t} : AllBefore(InPass(Elements(queue1[a]), p), InPass(Elements(queue0[b]), p))
    <3>1. \A a \in {n, t} : \E i \in 1..Len(ring) : ring[i] = a
      BY <2>1 DEF Registered, Elements
    <3> QED
      BY <3>1 DEF RingOrder
  <2>4. AllBefore(InPass(Elements(queue1[n]), p), InPass(Elements(queue0[n]), p))'
    BY <1>2, <2>1, <2>2, <2>3 DEF AllBefore, InPass
  <2>5. ~Sooner(1, 1)'
    BY <1>1 DEF Sooner
  <2>6. 1..Len(ring') = {1} /\ ring'[1] = n
    BY <2>1
  <2> QED
    BY <2>4, <2>5, <2>6 DEF RingOrder
<1>4. CASE ~(Len(ring) > 1)
  <2>1. ring' = <<>>
    BY <1>4 DEF Release
  <2>2. 1..Len(ring') = {}
    BY <2>1
  <2> QED
    BY <2>2 DEF RingOrder
<1> QED
  BY <1>3, <1>4

LEMMA OrderTurn ==
    ASSUME Placed, NEW p, RingOrder(p), VisitIdle
    PROVE  RingOrder(p)'
<1>1. /\ at \in 1..Len(ring) /\ ring' = From(at) /\ at' = 1
      /\ UNCHANGED <<queue0, queue1, state, deferred>>
  BY DEF VisitIdle, Placed, RingShape, workVars, history
<1>2. /\ Len(ring') = Len(ring) /\ Len(ring) \in Nat
      /\ \A k \in 1..Len(ring) :
            Turned(at, k) \in 1..Len(ring) /\ ring'[k] = ring[Turned(at, k)]
  BY <1>1, FromTurns, ElementsType DEF Placed, TypeRing
<1>3. \A k, l \in 1..Len(ring) : Sooner(k, l)' <=> Sooner(Turned(at, k), Turned(at, l))
  BY <1>1, <1>2 DEF Sooner, Turned
<1>4. \A v, w : Earlier(v, w)' <=> Earlier(v, w)
  BY <1>1 DEF Earlier
<1>5. ASSUME NEW k \in 1..Len(ring), NEW l \in 1..Len(ring)
      PROVE  /\ AllBefore(InPass(Elements(queue1[ring[k]]), p), InPass(Elements(queue0[ring[l]]), p))'
             /\ Sooner(k, l)' =>
                  /\ AllBefore(InPass(Elements(queue1[ring[k]]), p), InPass(Elements(queue1[ring[l]]), p))'
                  /\ AllBefore(InPass(Elements(queue0[ring[k]]), p), InPass(Elements(queue0[ring[l]]), p))'
  <2>1. PICK i, j \in 1..Len(ring) :
           ring'[k] = ring[i] /\ ring'[l] = ring[j] /\ (Sooner(k, l)' <=> Sooner(i, j))
    BY <1>2, <1>3
  <2> QED
    BY <1>1, <1>4, <2>1 DEF RingOrder, AllBefore, InPass
<1> QED
  BY <1>2, <1>5 DEF RingOrder

(* A visit: what leaves the ring was deferred before all that stays. *)
LEMMA OrderVisit ==
    ASSUME Placed, NEW p \in {"pass1", "pass2"}, RingOrder(p), Visit
    PROVE  /\ RingOrder(p)'
           /\ \A m \in Threads :
                 AllBefore(InPass(Elements(queue1[ring[at']]), p), InPass(OnNode(m)', p))
<1>1. /\ at \in 1..Len(ring) /\ Len(ring) \in Nat
      /\ at' = IF at = Len(ring) THEN 1 ELSE at + 1
      /\ at' \in 1..Len(ring) /\ ring[at'] \in Threads
      /\ Shift(ring[at']) /\ UNCHANGED ring
  BY RingVisit DEF Placed
<1>2. PICK n \in Threads, e \in 1..Len(ring) : n = ring[at'] /\ e = at'
  BY <1>1
<1>3. UNCHANGED <<batch, run, deferred, waiting>>
  BY DEF Visit, history
<1>4. /\ queue1'[n] = queue0[n] /\ queue0'[n] = <<>>
      /\ \A m \in Threads \ {n} : queue0'[m] = queue0[m] /\ queue1'[m] = queue1[m]
      /\ \A w \in Work : state'[w] =
            IF w \in InPass(Elements(queue1[n]), "pass1") THEN "smr" ELSE state[w]
  BY <1>1, <1>2, <1>3, ShiftMoves DEF Placed
<1>5. \A i \in 1..Len(ring) : ring[i] \in Threads /\ (ring[i] = n <=> i = e)
  BY <1>1, <1>2, ElementsType DEF Placed, TypeRing, RingShape, Distinct
<1>6. /\ \A j \in 1..Len(ring) \ {e} : Sooner(e, j) /\ ~Sooner(e, j)'
      /\ \A i, j \in 1..Len(ring) \ {e} : Sooner(i, j)' <=> Sooner(i, j)
      /\ ~Sooner(e, e)'
  BY <1>1, <1>2, SoonerNext
<1>7. \A v, w : Earlier(v, w)' <=> Earlier(v, w)
  BY <1>3 DEF Earlier
<1>8. \A m \in Threads : \A w \in OnNode(m) : state'[w] = p => state[w] = p
  BY <1>4, PlacesAreWork DEF Placed
<1>9. /\ InPass(Elements(queue0[n]), p)' = {}
      /\ InPass(Elements(queue1[n]), p)' \subseteq InPass(Elements(queue0[n]), p)
  BY <1>4, <1>8, ElementsEmpty DEF InPass, OnNode
<1>10. \A m \in Threads \ {n} :
          /\ InPass(Elements(queue0[m]), p)' \subseteq InPass(Elements(queue0[m]), p)
          /\ InPass(Elements(queue1[m]), p)' \subseteq InPass(Elements(queue1[m]), p)
  BY <1>4, <1>8 DEF InPass, OnNode
<1>11. ASSUME NEW i \in 1..Len(ring), NEW j \in 1..Len(ring)
       PROVE  /\ AllBefore(InPass(Elements(queue1[ring[i]]), p), InPass(Elements(queue0[ring[j]]), p))'
              /\ Sooner(i, j)' =>
                   /\ AllBefore(InPass(Elements(queue1[ring[i]]), p), InPass(Elements(queue1[ring[j]]), p))'
                   /\ AllBefore(InPass(Elements(queue0[ring[i]]), p), InPass(Elements(queue0[ring[j]]), p))'
  <2>1. AllBefore(InPass(Elements(queue1[ring[i]]), p), InPass(Elements(queue0[ring[j]]), p))'
    <3>1. CASE j = e
      BY <1>1, <1>5, <1>9, <3>1 DEF AllBefore
    <3>2. CASE j # e
      <4>1. AllBefore(InPass(Elements(queue1[ring[i]]), p), InPass(Elements(queue0[ring[j]]), p))
        BY DEF RingOrder
      <4>2. i = e => AllBefore(InPass(Elements(queue0[ring[i]]), p), InPass(Elements(queue0[ring[j]]), p))
        BY <1>6, <3>2 DEF RingOrder
      <4> QED
        BY <1>1, <1>5, <1>7, <1>9, <1>10, <3>2, <4>1, <4>2 DEF AllBefore
    <3> QED
      BY <3>1, <3>2
  <2>2. ASSUME Sooner(i, j)'
        PROVE  /\ AllBefore(InPass(Elements(queue1[ring[i]]), p), InPass(Elements(queue1[ring[j]]), p))'
               /\ AllBefore(InPass(Elements(queue0[ring[i]]), p), InPass(Elements(queue0[ring[j]]), p))'
    <3>1. i # e
      BY <1>6, <2>2
    <3>2. CASE j = e
      <4>1. AllBefore(InPass(Elements(queue1[ring[i]]), p), InPass(Elements(queue0[ring[j]]), p))
        BY DEF RingOrder
      <4> QED
        BY <1>1, <1>5, <1>7, <1>9, <1>10, <3>1, <3>2, <4>1 DEF AllBefore
    <3>3. CASE j # e
      <4>1. /\ AllBefore(InPass(Elements(queue1[ring[i]]), p), InPass(Elements(queue1[ring[j]]), p))
            /\ AllBefore(InPass(Elements(queue0[ring[i]]), p), InPass(Elements(queue0[ring[j]]), p))
        BY <1>6, <2>2, <3>1, <3>3 DEF RingOrder
      <4> QED
        BY <1>1, <1>5, <1>7, <1>10, <3>1, <3>3, <4>1 DEF AllBefore
    <3> QED
      BY <3>2, <3>3
  <2> QED
    BY <2>1, <2>2
<1>12. RingOrder(p)'
  BY <1>1, <1>11 DEF RingOrder
<1>13. ASSUME NEW m \in Threads
       PROVE  AllBefore(InPass(Elements(queue1[n]), p), InPass(OnNode(m)', p))
  <2>1. OnNode(m)' = IF m = n THEN Elements(queue0[n]) ELSE OnNode(m)
    BY <1>4, ElementsEmpty DEF OnNode
  <2>2. OnNode(m) # {} => \E j \in 1..Len(ring) : ring[j] = m
    <3>1. m \in Registered => \E j \in 1..Len(ring) : ring[j] = m
      BY DEF Registered, Elements
    <3> QED
      BY <3>1 DEF Placed, WherePlaces, RingPlaces
  <2>3. \A j \in 1..Len(ring) :
           AllBefore(InPass(Elements(queue1[n]), p), InPass(Elements(queue0[ring[j]]), p))
    BY <1>5 DEF RingOrder
  <2>4. \A j \in 1..Len(ring) \ {e} :
           AllBefore(InPass(Elements(queue1[n]), p), InPass(Elements(queue1[ring[j]]), p))
    BY <1>5, <1>6 DEF RingOrder
  <2>5. CASE m = n
    BY <1>5, <2>1, <2>3, <2>5
  <2>6. CASE m # n
    <3>1. \A j \in 1..Len(ring) \ {e} :
             AllBefore(InPass(Elements(queue1[n]), p), InPass(OnNode(ring[j]), p))
      BY <2>3, <2>4 DEF AllBefore, InPass, OnNode
    <3>2. OnNode(m) # {} => \E j \in 1..Len(ring) \ {e} : ring[j] = m
      BY <1>5, <2>2, <2>6
    <3>3. AllBefore(InPass(Elements(queue1[n]), p), InPass(OnNode(m), p))
      BY <3>1, <3>2 DEF AllBefore, InPass
    <3> QED
      BY <2>1, <2>6, <3>3
  <2> QED
    BY <2>5, <2>6
<1> QED
  BY <1>2, <1>12, <1>13

-------------------------------------------------------------------------------
(* The passes *)

(* Steps of readers, and of the polling thread while it leaves the queues. *)
Aside == \/ \E t \in Threads :
               Quiesce(t) \/ Drain(t) \/ Load(t) \/ Follow(t) \/ Validate(t) \/ Retry(t) \/ Clear(t)
         \/ \E w \in Work : Unlink(w)
         \/ Signal \/ Shutdown \/ ScanStart \/ SmrStart \/ Copy \/ Idle \/ WaitEnds
         \/ UNCHANGED vars

LEMMA AsideKeeps ==
    ASSUME Placed, Aside
    PROVE  UNCHANGED <<ring, at, queue0, queue1, smrQueue, readyQueue, batch, run, state, deferred>>
<1>1. UNCHANGED <<ring, queue0, queue1, smrQueue, readyQueue, batch, run, state, deferred>>
  <2>1. CASE \E t \in Threads : Quiesce(t) \/ Drain(t)
    BY <2>1 DEF Quiesce, Drain, ringVars, smrVars, workVars, pollVars, history
  <2>2. CASE \E t \in Threads : Load(t) \/ Follow(t) \/ Validate(t) \/ Retry(t) \/ Clear(t)
    BY <2>2 DEF Load, Follow, Validate, Retry, Clear, ringVars, smrVars, workVars, pollVars, history
  <2>3. CASE \/ \E w \in Work : Unlink(w)
             \/ Signal \/ Shutdown \/ ScanStart \/ SmrStart \/ Copy \/ Idle \/ WaitEnds
             \/ UNCHANGED vars
    BY <2>3 DEF Unlink, Signal, Shutdown, ScanStart, SmrStart, Copy, Idle, WaitEnds, vars, ringVars,
       smrVars, workVars, pollVars, history
  <2> QED
    BY <2>1, <2>2, <2>3 DEF Aside
<1>2. at' = at
  <2>1. CASE ScanStart
    BY <2>1 DEF ScanStart, Placed, RingShape
  <2>2. CASE ~ScanStart
    BY <2>2 DEF Aside, Quiesce, Drain, Load, Follow, Validate, Retry, Clear, Unlink, Signal, Shutdown,
       SmrStart, Copy, Idle, WaitEnds, vars, pollVars
  <2> QED
    BY <2>1, <2>2
<1> QED
  BY <1>1, <1>2

(* What the steps that move work to the end of its way leave alone. *)
LEMMA ReadyKeeps ==
    ASSUME Take \/ Run \/ RunDone
    PROVE  UNCHANGED <<ring, at, queue0, queue1, smrQueue, state, deferred>>
BY DEF Take, Run, RunDone, ringVars, smrVars, workVars, history

(* Once the threads are gone nothing is left.                              *)
LEMMA EndKeeps ==
    ASSUME Placed, Shutdown2
    PROVE  /\ ring' = <<>> /\ smrQueue = <<>> /\ \A m \in Threads : OnNode(m) = {}
           /\ UNCHANGED <<at, queue0, queue1, smrQueue, readyQueue, batch, run, state, deferred>>
<1>1. /\ poll = "done" /\ ring' = <<>>
      /\ UNCHANGED <<at, queue0, queue1, smrQueue, readyQueue, batch, run, state, deferred>>
  BY DEF Shutdown2, smrVars, workVars, pollVars, history
<1>2. Len(batch) = 0 /\ Len(run) = Len(deferred)
  BY <1>1, ElementsEmpty, LenTypes DEF Placed, Counts, TypeCount
<1>3. (\A m \in Threads : OnNode(m) = {}) /\ Elements(smrQueue) = {}
  BY <1>2, RunBound DEF Placed
<1>4. smrQueue = <<>>
  BY <1>3, ElementsEmpty DEF Placed, TypeWork
<1> QED
  BY <1>1, <1>3, <1>4

(* What a defer does to the ring: w is behind all that was deferred. *)
LEMMA DeferMoves ==
    ASSUME Placed, NEW w \in Work, Defer(w)
    PROVE  /\ state[w] = "live" /\ deferred' = Append(deferred, w)
           /\ UNCHANGED <<ring, at, queue1, smrQueue, batch, run>> /\ at = 1
           /\ \A v, u : Earlier(v, u) => Earlier(v, u)'
           /\ \A v \in Elements(deferred) : Earlier(v, w)'
           /\ \A v \in Work \ {w} : state'[v] = state[v]
           /\ ring # <<>> =>
                 /\ state'[w] = "pass1" /\ readyQueue' = readyQueue
                 /\ \E n \in Threads :
                       /\ n = ring[1]
                       /\ queue0'[n] = Append(queue0[n], w)
                       /\ Elements(queue0'[n]) = Elements(queue0[n]) \union {w}
                       /\ \A m \in Threads \ {n} : queue0'[m] = queue0[m]
           /\ ring = <<>> =>
                 /\ state'[w] = "pass2" /\ queue0' = queue0
                 /\ readyQueue' = Append(readyQueue, w)
<1>1. /\ state[w] = "live" /\ deferred' = Append(deferred, w)
      /\ UNCHANGED <<ring, at, queue1, smrQueue, batch, run>> /\ at = 1
      /\ ring # <<>> => /\ queue0' = [queue0 EXCEPT ![ring[1]] = Append(@, w)]
                        /\ state' = [v \in Work |-> IF v \in {w} THEN "pass1" ELSE state[v]]
                        /\ UNCHANGED readyQueue
      /\ ring = <<>> => /\ readyQueue' = Append(readyQueue, w) /\ UNCHANGED queue0
                        /\ state' = [v \in Work |-> IF v \in {w} THEN "pass2" ELSE state[v]]
  BY DEF Defer, Enqueue, WithState, Unlocked, smrVars, pollVars, Placed, RingShape
<1>2. /\ \A v, u : Earlier(v, u) => Earlier(v, u)'
      /\ \A v \in Elements(deferred) : Earlier(v, w)'
  BY <1>1, EarlierKept, EarlierLast DEF Placed
<1>3. ASSUME ring # <<>>
      PROVE  \E n \in Threads :
                /\ n = ring[1]
                /\ queue0'[n] = Append(queue0[n], w)
                /\ Elements(queue0'[n]) = Elements(queue0[n]) \union {w}
                /\ \A m \in Threads \ {n} : queue0'[m] = queue0[m]
  <2>1. PICK n \in Threads : n = ring[1]
    BY <1>3, RingHead DEF Placed, TypeRing
  <2>2. queue0' = [queue0 EXCEPT ![n] = Append(queue0[n], w)] /\ queue0[n] \in Seq(Work)
    BY <1>1, <1>3, <2>1 DEF Placed, TypeWork
  <2>3. queue0'[n] = Append(queue0[n], w) /\ \A m \in Threads \ {n} : queue0'[m] = queue0[m]
    BY <2>2 DEF Placed, TypeWork
  <2> QED
    BY <2>1, <2>2, <2>3, ElementsAppend
<1> QED
  BY <1>1, <1>2, <1>3

(* The same for what the scan sets free.                                   *)
LEMMA MarkMoves ==
    ASSUME Placed, Mark
    PROVE  \E f \in Seq(Work) :
             /\ f = Only(smrQueue, Work \ Held) /\ smrQueue' = Only(smrQueue, Held)
             /\ Elements(f) = Elements(smrQueue) \ Held
             /\ Elements(smrQueue') = Elements(smrQueue) \intersect Held
             /\ UNCHANGED <<ring, at, queue1, batch, run, deferred>> /\ at = 1
             /\ \A w \in Work : state'[w] = IF w \in Elements(f) THEN "pass2" ELSE state[w]
             /\ \A m \in Threads : Elements(f) \intersect OnNode(m) = {}
             /\ ring # <<>> =>
                   /\ readyQueue' = readyQueue
                   /\ \E n \in Threads :
                         /\ n = ring[1]
                         /\ queue0'[n] = queue0[n] \o f
                         /\ Elements(queue0'[n]) = Elements(queue0[n]) \union Elements(f)
                         /\ \A m \in Threads \ {n} : queue0'[m] = queue0[m]
             /\ ring = <<>> => readyQueue' = readyQueue \o f /\ queue0' = queue0
<1>1. PICK f : f = Only(smrQueue, Work \ Held)
  OBVIOUS
<1>2. PICK k : k = Only(smrQueue, Held)
  OBVIOUS
<1>3. /\ f \in Seq(Work) /\ Elements(f) = Elements(smrQueue) \ Held
      /\ Elements(k) = Elements(smrQueue) \intersect Held
  <2>1. smrQueue \in Seq(Work) /\ Elements(smrQueue) \subseteq Work
    BY ElementsType DEF Placed, TypeWork
  <2>2. f \in Seq(Work) /\ Elements(f) = Elements(smrQueue) \intersect (Work \ Held)
    BY <1>1, <2>1, OnlyKeeps
  <2>3. Elements(k) = Elements(smrQueue) \intersect Held
    BY <1>2, <2>1, OnlyKeeps
  <2> QED
    BY <2>1, <2>2, <2>3
<1>4. /\ smrQueue' = k /\ UNCHANGED <<ring, at, queue1, batch, run, deferred>> /\ at = 1
      /\ state' = [w \in Work |-> IF w \in Elements(f) THEN "pass2" ELSE state[w]]
      /\ ring # <<>> => /\ readyQueue' = readyQueue
                        /\ queue0' = [queue0 EXCEPT ![ring[1]] = @ \o f]
      /\ ring = <<>> => readyQueue' = readyQueue \o f /\ queue0' = queue0
  BY <1>1, <1>2 DEF Mark, WithState, pollVars, Placed, RingShape
<1>5. \A m \in Threads : Elements(f) \intersect OnNode(m) = {}
  <2>1. \A w \in Elements(f) : w \in Work /\ state[w] = "smr"
    BY <1>3, PlacesAreWork DEF Placed, WherePlaces, SmrPlaces
  <2> QED
    BY <2>1 DEF Placed, WherePlaces, RingPlaces
<1>6. ASSUME ring # <<>>
      PROVE  \E n \in Threads :
                /\ n = ring[1]
                /\ queue0'[n] = queue0[n] \o f
                /\ Elements(queue0'[n]) = Elements(queue0[n]) \union Elements(f)
                /\ \A m \in Threads \ {n} : queue0'[m] = queue0[m]
  <2>1. PICK n \in Threads : n = ring[1]
    BY <1>6, RingHead DEF Placed, TypeRing
  <2>2. queue0' = [queue0 EXCEPT ![n] = queue0[n] \o f] /\ queue0[n] \in Seq(Work)
    BY <1>4, <1>6, <2>1 DEF Placed, TypeWork
  <2>3. queue0'[n] = queue0[n] \o f /\ \A m \in Threads \ {n} : queue0'[m] = queue0[m]
    BY <2>2 DEF Placed, TypeWork
  <2>4. Elements(queue0[n] \o f) = Elements(queue0[n]) \union Elements(f)
    BY <1>3, <2>2, ElementsConcat
  <2> QED
    BY <2>1, <2>3, <2>4
<1> QED
  BY <1>1, <1>2, <1>3, <1>4, <1>5, <1>6

LEMMA PassInit == Init => PassOrder
<1> SUFFICES ASSUME Init PROVE PassOrder
  OBVIOUS
<1>1. 1..Len(ring) = {}
  BY DEF Init
<1> QED
  BY <1>1 DEF Init, PassOrder, RingOrder

LEMMA PassDefer ==
    ASSUME Placed, PassOrder, NEW w \in Work, Defer(w)
    PROVE  PassOrder'
<1>1. /\ state[w] = "live"
      /\ UNCHANGED <<ring, at, queue1, smrQueue>> /\ at = 1
      /\ \A v, u : Earlier(v, u) => Earlier(v, u)'
      /\ \A v \in Elements(deferred) : Earlier(v, w)'
      /\ \A v \in Work \ {w} : state'[v] = state[v]
  BY DeferMoves
<1>2. \A v \in Work : state[v] # "live" => v \in Elements(deferred)
  BY DEF Placed, WherePlaces, DeferredPlaces
<1>3. \A m \in Threads : \A v \in OnNode(m) : v \in Work \ {w} /\ v \in Elements(deferred)
  BY <1>1, <1>2, PlacesAreWork DEF Placed, WherePlaces, RingPlaces
<1>4. CASE ring # <<>>
  <2>1. PICK n \in Threads : n = ring[1]
                             /\ Elements(queue0'[n]) = Elements(queue0[n]) \union {w}
                             /\ \A m \in Threads \ {n} : queue0'[m] = queue0[m]
    BY <1>4, DeferMoves
  <2>2. state'[w] = "pass1"
    BY <1>4, DeferMoves
  <2>3. RingOrder("pass1")'
    <3>1. PICK F : F = {w}
      OBVIOUS
    <3>2. /\ \A m \in Threads : \A v \in OnNode(m) : state'[v] = "pass1" => state[v] = "pass1"
          /\ \A m \in Threads : \A v \in OnNode(m), u \in F :
                state'[v] = "pass1" /\ state'[u] = "pass1" => Earlier(v, u)'
      BY <1>1, <1>3, <3>1
    <3> QED
      BY <1>1, <2>1, <3>1, <3>2, OrderStart DEF PassOrder
  <2>4. \A v, u \in Work :
           state'[v] \in {"smr", "pass2"} /\ state'[u] = "pass1" => Earlier(v, u)'
    BY <1>1, <1>2, <2>2 DEF PassOrder
  <2> QED
    BY <1>1, <1>4, <2>3, <2>4 DEF PassOrder
<1>5. CASE ring = <<>>
  <2>1. state'[w] = "pass2" /\ queue0' = queue0
    BY <1>5, DeferMoves
  <2>2. RingOrder("pass1")'
    <3>1. 1..Len(ring') = {}
      BY <1>1, <1>5
    <3> QED
      BY <3>1 DEF RingOrder
  <2>3. \A u \in Work : state[u] # "pass1"
    <3> SUFFICES ASSUME NEW u \in Work, state[u] = "pass1" PROVE FALSE
      OBVIOUS
    <3>1. Registered = {}
      BY <1>5, ElementsEmpty DEF Registered
    <3>2. \A m \in Threads : OnNode(m) = {}
      BY <3>1 DEF Placed, WherePlaces, RingPlaces
    <3> QED
      BY <1>2, <3>2 DEF Placed, WherePlaces, DeferredPlaces, SmrPlaces, ReadyPlaces
  <2>4. \A v, u \in Work :
           state'[v] \in {"smr", "pass2"} /\ state'[u] = "pass1" => Earlier(v, u)'
    BY <1>1, <2>1, <2>3
  <2> QED
    BY <1>1, <1>5, <2>2, <2>4 DEF PassOrder
<1> QED
  BY <1>4, <1>5

LEMMA PassMark ==
    ASSUME Placed, PassOrder, Mark
    PROVE  PassOrder'
<1>1. PICK f \in Seq(Work) :
         /\ Elements(f) = Elements(smrQueue) \ Held
         /\ smrQueue' = Only(smrQueue, Held)
         /\ UNCHANGED <<ring, at, queue1, deferred>> /\ at = 1
         /\ \A w \in Work : state'[w] = IF w \in Elements(f) THEN "pass2" ELSE state[w]
         /\ ring # <<>> =>
               \E n \in Threads :
                  /\ n = ring[1]
                  /\ Elements(queue0'[n]) = Elements(queue0[n]) \union Elements(f)
                  /\ \A m \in Threads \ {n} : queue0'[m] = queue0[m]
         /\ ring = <<>> => queue0' = queue0
  BY MarkMoves
<1>2. \A w \in Elements(f) : w \in Work /\ state[w] = "smr" /\ state'[w] = "pass2"
  BY <1>1, PlacesAreWork DEF Placed, WherePlaces, SmrPlaces
<1>3. \A v, w : Earlier(v, w)' <=> Earlier(v, w)
  BY <1>1 DEF Earlier
<1>4. \A v, u \in Work :
         state'[v] \in {"smr", "pass2"} /\ state'[u] = "pass1" => Earlier(v, u)'
  BY <1>1, <1>2, <1>3 DEF PassOrder
<1>5. CASE ring # <<>>
  <2>1. PICK n \in Threads :
                  /\ n = ring[1]
                  /\ Elements(queue0'[n]) = Elements(queue0[n]) \union Elements(f)
                  /\ \A m \in Threads \ {n} : queue0'[m] = queue0[m]
    BY <1>1, <1>5
  <2>2. \A m \in Threads : \A w \in OnNode(m) : state'[w] = "pass1" => state[w] = "pass1"
    BY <1>1, PlacesAreWork DEF Placed
  <2>3. RingOrder("pass1")'
    BY <1>1, <1>2, <1>3, <2>1, <2>2, OrderStart DEF PassOrder
  <2> QED
    BY <1>1, <1>4, <1>5, <2>3 DEF PassOrder
<1>6. CASE ring = <<>>
  <2>1. RingOrder("pass1")'
    <3>1. 1..Len(ring') = {}
      BY <1>1, <1>6
    <3> QED
      BY <3>1 DEF RingOrder
  <2>2. smrQueue' = <<>>
    <3>1. Elements(smrQueue) = {}
      BY <1>6, ElementsEmpty DEF PassOrder
    <3>2. smrQueue' \in Seq(Work) /\ Elements(smrQueue') = {}
      BY <1>1, <3>1, OnlyKeeps DEF Placed, TypeWork
    <3> QED
      BY <3>2, ElementsEmpty
  <2> QED
    BY <1>4, <2>1, <2>2 DEF PassOrder
<1> QED
  BY <1>5, <1>6

LEMMA PassVisit ==
    ASSUME Placed, PassOrder, Visit
    PROVE  PassOrder'
<1>1. /\ RingOrder("pass1")'
      /\ \A m \in Threads :
            AllBefore(InPass(Elements(queue1[ring[at']]), "pass1"), InPass(OnNode(m)', "pass1"))
  BY OrderVisit DEF PassOrder
<1>2. PICK n \in Threads : n = ring[at'] /\ Shift(n) /\ UNCHANGED ring /\ ring # <<>>
  <2>1. /\ ring[at'] \in Threads /\ Shift(ring[at']) /\ UNCHANGED ring
        /\ at' \in 1..Len(ring)
    BY RingVisit DEF Placed
  <2>2. ring # <<>>
    BY <2>1, ElementsEmpty
  <2> QED
    BY <2>1, <2>2
<1>3. UNCHANGED <<batch, run, deferred, waiting>>
  BY DEF Visit, history
<1>4. \A w \in Work : state'[w] =
            IF w \in InPass(Elements(queue1[n]), "pass1") THEN "smr" ELSE state[w]
  BY <1>2, <1>3, ShiftMoves DEF Placed
<1>5. \A v, w : Earlier(v, w)' <=> Earlier(v, w)
  BY <1>3 DEF Earlier
<1>6. ASSUME NEW v \in Work, NEW u \in Work, state'[v] \in {"smr", "pass2"}, state'[u] = "pass1"
      PROVE  Earlier(v, u)'
  <2>1. state[u] = "pass1"
    BY <1>4, <1>6
  <2>2. CASE state[v] \in {"smr", "pass2"}
    BY <1>5, <2>1, <2>2 DEF PassOrder
  <2>3. CASE state[v] \notin {"smr", "pass2"}
    <3>1. v \in InPass(Elements(queue1[n]), "pass1")
      BY <1>4, <1>6, <2>3
    <3>2. \E m \in Threads : u \in OnNode(m)'
      <4>1. TypeWork' /\ WherePlaces'
        BY PlacedVisit DEF Placed
      <4> QED
        BY <1>6, <4>1 DEF WherePlaces, DeferredPlaces, SmrPlaces, ReadyPlaces
    <3>3. PICK m \in Threads : u \in InPass(OnNode(m)', "pass1")
      BY <2>1, <3>2 DEF InPass
    <3> QED
      BY <1>1, <1>2, <1>5, <3>1, <3>3 DEF AllBefore
  <2> QED
    BY <2>2, <2>3
<1> QED
  BY <1>1, <1>2, <1>6 DEF PassOrder

LEMMA PassRelease ==
    ASSUME Placed, PassOrder, ExitsOfTwo, NEW t \in Threads, Release(t)
    PROVE  PassOrder'
<1>1. RingOrder("pass1")'
  BY OrderRelease DEF PassOrder
<1>2. \A v, w : Earlier(v, w)' <=> Earlier(v, w)
  BY DEF Release, Earlier
<1>3. CASE Len(ring) > 1
  <2>1. UNCHANGED <<state, smrQueue>>
    BY <1>3 DEF Release
  <2>2. ring' # <<>>
    BY <1>3, OneNode
  <2> QED
    BY <1>1, <1>2, <2>1, <2>2 DEF PassOrder
<1>4. CASE ~(Len(ring) > 1)
  <2>1. /\ t \in Registered /\ ring' = <<>> /\ smrQueue' = <<>>
        /\ readyQueue' = readyQueue \o Released(t)
        /\ state' = WithState(Elements(Released(t)), "pass2")
        /\ queue0' = [queue0 EXCEPT ![t] = <<>>]
        /\ queue1' = [queue1 EXCEPT ![t] = <<>>]
        /\ waiting' = [w \in Work |-> waiting[w] \ {t}]
        /\ UNCHANGED <<batch, run, deferred>>
    BY <1>4 DEF Release, pollVars
  <2>2. \A w \in Work : state'[w] \in {"live", "pass2"}
    BY <1>4, <2>1, LastPlaces DEF Placed, TypeRing, RingShape
  <2> QED
    BY <1>1, <2>1, <2>2 DEF PassOrder
<1> QED
  BY <1>3, <1>4

LEMMA PassStep ==
    ASSUME Placed, PassOrder, ExitsOfTwo, [Next]_vars
    PROVE  PassOrder'
<1>1. CASE Aside \/ Take \/ Run \/ RunDone \/ Shutdown2
  <2>1. UNCHANGED <<queue0, queue1, smrQueue, state, deferred>>
    BY <1>1, AsideKeeps, ReadyKeeps, EndKeeps
  <2>2. UNCHANGED <<ring, at>> \/ (ring' = <<>> /\ smrQueue = <<>>)
    BY <1>1, AsideKeeps, ReadyKeeps, EndKeeps
  <2>3. \A v, w : Earlier(v, w)' <=> Earlier(v, w)
    BY <2>1 DEF Earlier
  <2>4. RingOrder("pass1")'
    BY <2>1, <2>2, <2>3, OrderSame DEF PassOrder
  <2> QED
    BY <2>1, <2>2, <2>3, <2>4 DEF PassOrder
<1>2. CASE VisitIdle
  <2>1. UNCHANGED <<smrQueue, state, deferred>> /\ poll = "visit" /\ ring' = From(at)
    BY <1>2 DEF VisitIdle, smrVars, workVars, history
  <2>2. RingOrder("pass1")'
    BY <1>2, OrderTurn DEF PassOrder
  <2>3. ring' # <<>>
    <3>1. at \in 1..Len(ring)
      BY <2>1 DEF Placed, RingShape
    <3>2. Len(ring') = Len(ring)
      BY <2>1, <3>1, FromTurns DEF Placed, TypeRing
    <3> QED
      BY <3>1, <3>2, ElementsEmpty
  <2>4. \A v, w : Earlier(v, w)' <=> Earlier(v, w)
    BY <2>1 DEF Earlier
  <2> QED
    BY <2>1, <2>2, <2>3, <2>4 DEF PassOrder
<1>3. ASSUME NEW t \in Threads, Acquire(t)
      PROVE  PassOrder'
  <2>1. UNCHANGED <<smrQueue, state, deferred>> /\ ring' = Append(ring, t)
    BY <1>3 DEF Acquire, smrVars, workVars, history
  <2>2. RingOrder("pass1")'
    BY <1>3, OrderAcquire DEF PassOrder
  <2>3. ring' # <<>>
    BY <2>1, AppendProperties DEF Placed, TypeRing
  <2>4. \A v, w : Earlier(v, w)' <=> Earlier(v, w)
    BY <2>1 DEF Earlier
  <2> QED
    BY <2>1, <2>2, <2>3, <2>4 DEF PassOrder
<1> QED
  BY <1>1, <1>2, <1>3, NextCases, PassDefer, PassMark, PassVisit, PassRelease DEF Aside

(* Work that is through with its first pass, or with its wait for hazard   *)
(* pointers, was deferred before what is not, if no thread exits while     *)
(* there are more than two.                                                *)
THEOREM PassInvariance == ExitsOfTwo => (Spec => []PassOrder)
<1> SUFFICES ASSUME ExitsOfTwo PROVE Spec => []PassOrder
  OBVIOUS
<1>1. PlaceInv /\ PassOrder /\ [Next]_vars => PassOrder'
  BY PassStep, PlacedIsPlaceInv
<1> QED
  BY <1>1, PassInit, PlacesInvariant, PTL DEF Spec

-------------------------------------------------------------------------------
(* Sequences in order *)

LEMMA AlongConcat ==
    ASSUME NEW s \in Seq(Work), NEW u \in Seq(Work), NEW E, Along(s, E), Along(u, E),
           \A v \in Elements(s), w \in Elements(u) : <<v, w>> \in E
    PROVE  Along(s \o u, E)
<1>1. /\ Len(s) \in Nat /\ Len(u) \in Nat /\ Len(s \o u) = Len(s) + Len(u)
      /\ \A i \in 1..(Len(s) + Len(u)) :
            (s \o u)[i] = IF i <= Len(s) THEN s[i] ELSE u[i - Len(s)]
  BY ConcatProperties, LenProperties
<1>2. \A i \in 1..Len(s) : s[i] \in Elements(s)
  BY ElementsType
<1>3. \A i \in 1..Len(u) : u[i] \in Elements(u)
  BY ElementsType
<1>4. ASSUME NEW i \in 1..(Len(s) + Len(u)), NEW j \in 1..(Len(s) + Len(u)), i < j
      PROVE  <<(s \o u)[i], (s \o u)[j]>> \in E
  <2>1. CASE j <= Len(s)
    <3>1. i \in 1..Len(s) /\ j \in 1..Len(s)
      BY <1>1, <1>4, <2>1
    <3> QED
      BY <1>1, <1>4, <2>1, <3>1 DEF Along
  <2>2. CASE i <= Len(s) /\ ~(j <= Len(s))
    <3>1. i \in 1..Len(s) /\ j - Len(s) \in 1..Len(u)
      BY <1>1, <2>2
    <3> QED
      BY <1>1, <1>2, <1>3, <2>2, <3>1
  <2>3. CASE ~(i <= Len(s))
    <3>1. /\ i - Len(s) \in 1..Len(u) /\ j - Len(s) \in 1..Len(u)
          /\ i - Len(s) < j - Len(s) /\ ~(j <= Len(s))
      BY <1>1, <1>4, <2>3
    <3> QED
      BY <1>1, <2>3, <3>1 DEF Along
  <2> QED
    BY <2>1, <2>2, <2>3
<1> QED
  BY <1>1, <1>4 DEF Along

LEMMA AlongAppend ==
    ASSUME NEW s \in Seq(Work), NEW w \in Work, NEW E, Along(s, E),
           \A v \in Elements(s) : <<v, w>> \in E
    PROVE  Along(Append(s, w), E)
<1>1. /\ Len(s) \in Nat /\ Len(Append(s, w)) = Len(s) + 1
      /\ \A i \in 1..Len(s) : Append(s, w)[i] = s[i]
      /\ Append(s, w)[Len(s) + 1] = w
  BY AppendProperties, LenProperties
<1>2. \A i \in 1..Len(s) : s[i] \in Elements(s)
  BY ElementsType
<1>3. ASSUME NEW i \in 1..(Len(s) + 1), NEW j \in 1..(Len(s) + 1), i < j
      PROVE  <<Append(s, w)[i], Append(s, w)[j]>> \in E
  <2>1. i \in 1..Len(s)
    BY <1>1, <1>3
  <2>2. j \in 1..Len(s) \/ j = Len(s) + 1
    BY <1>1
  <2> QED
    BY <1>1, <1>2, <1>3, <2>1, <2>2 DEF Along
<1> QED
  BY <1>1, <1>3 DEF Along

LEMMA AlongOnly ==
    ASSUME NEW s \in Seq(Work), NEW S, NEW E, Along(s, E)
    PROVE  Along(Only(s, S), E)
<1>1. ASSUME NEW k \in 1..Len(Only(s, S)), NEW l \in 1..Len(Only(s, S)), k < l
      PROVE  <<Only(s, S)[k], Only(s, S)[l]>> \in E
  <2>1. PICK i, j \in 1..Len(s) : i < j /\ s[i] = Only(s, S)[k] /\ s[j] = Only(s, S)[l]
    BY <1>1, OnlyKeeps
  <2>2. <<s[i], s[j]>> \in E
    BY <2>1 DEF Along
  <2> QED
    BY <2>1, <2>2
<1> QED
  BY <1>1 DEF Along

LEMMA AlongTail ==
    ASSUME NEW s \in Seq(Work), s # <<>>, NEW E, Along(s, E)
    PROVE  Along(Tail(s), E) /\ \A w \in Elements(Tail(s)) : <<Head(s), w>> \in E
<1>1. /\ Len(s) \in Nat \ {0} /\ Len(Tail(s)) = Len(s) - 1 /\ Head(s) = s[1]
      /\ \A i \in 1..Len(Tail(s)) : Tail(s)[i] = s[i + 1]
  BY HeadTailProperties, ElementsTail
<1>2. \A i \in 1..Len(Tail(s)) : i + 1 \in 1..Len(s) /\ 1 < i + 1 /\ 1 \in 1..Len(s)
  BY <1>1
<1>3. Along(Tail(s), E)
  <2>1. \A i, j \in 1..Len(Tail(s)) : i < j => i + 1 < j + 1
    BY <1>1
  <2> QED
    BY <1>1, <1>2, <2>1 DEF Along
<1>4. ASSUME NEW w \in Elements(Tail(s)) PROVE <<Head(s), w>> \in E
  <2>1. PICK i \in 1..Len(Tail(s)) : w = Tail(s)[i]
    BY DEF Elements
  <2> QED
    BY <1>1, <1>2, <2>1 DEF Along
<1> QED
  BY <1>3, <1>4

LEMMA AlongMore ==
    ASSUME NEW s \in Seq(Work), NEW E, NEW F, Along(s, E),
           \A v, w \in Elements(s) : <<v, w>> \in E => <<v, w>> \in F
    PROVE  Along(s, F)
BY ElementsType DEF Along

LEMMA AlongEmpty == \A E : Along(<<>>, E)
<1>1. 1..Len(<<>>) = {}
  OBVIOUS
<1> QED
  BY <1>1 DEF Along

(* Pairs of work that stay in order. *)
LEMMA OrderlyKept ==
    ASSUME TypeWork, deferred' = deferred \/ \E w \in Work : deferred' = Append(deferred, w),
           NEW v \in Work, NEW w \in Work, <<v, w>> \in Orderly,
           state'[v] = state'[w] => state[v] = state[w]
    PROVE  <<v, w>> \in Orderly'
BY EarlierKept DEF Orderly

-------------------------------------------------------------------------------
(* Fifo order *)

InTurn == QueueOrder /\ FifoInv

LEMMA InTurnInit == Init => InTurn
<1> SUFFICES ASSUME Init PROVE InTurn
  OBVIOUS
<1>1. /\ 1..Len(ring) = {} /\ smrQueue = <<>> /\ readyQueue = <<>> /\ batch = <<>> /\ run = <<>>
      /\ deferred = <<>>
      /\ \A n \in Threads : queue0[n] = <<>> /\ queue1[n] = <<>>
      /\ \A w \in Work : state[w] = "live"
  BY DEF Init
<1>2. QueueOrder
  BY <1>1, AlongEmpty DEF QueueOrder
<1>3. RingOrder("pass2")
  BY <1>1 DEF RingOrder
<1>4. run = SubSeq(deferred, 1, Len(run))
  BY <1>1
<1>5. Elements(smrQueue) = {} /\ Elements(run) = {} /\ Elements(batch) = {} /\ Elements(readyQueue) = {}
  BY <1>1, ElementsEmpty
<1> QED
  BY <1>1, <1>2, <1>3, <1>4, <1>5, AlongEmpty DEF InTurn, FifoInv, FifoOrder, AllBefore, Ready

(* Steps that leave the queues alone. *)
LEMMA InTurnSame ==
    ASSUME InTurn, RingOrder("pass2")',
           UNCHANGED <<queue0, queue1, smrQueue, readyQueue, batch, run, state, deferred>>
    PROVE  InTurn'
<1>1. /\ \A v, w : Earlier(v, w)' <=> Earlier(v, w)
      /\ Orderly' = Orderly
  BY DEF Earlier, Orderly
<1>2. QueueOrder'
  BY <1>1 DEF InTurn, QueueOrder
<1>3. /\ InPass(Work, "pass2")' = InPass(Work, "pass2")
      /\ \A n \in Threads : InPass(OnNode(n), "pass2")' = InPass(OnNode(n), "pass2")
      /\ Ready' = Ready
  BY DEF InPass, OnNode, Ready
<1>4. FifoInv'
  BY <1>1, <1>3 DEF InTurn, FifoInv, FifoOrder, AllBefore
<1> QED
  BY <1>2, <1>4 DEF InTurn

(* What is deferred and not run is in one of the queues. *)
LEMMA NotYetRun ==
    ASSUME Placed, NEW w \in Elements(deferred), w \notin Elements(run)
    PROVE  \/ \E n \in Threads : w \in OnNode(n)
           \/ w \in Elements(smrQueue) \/ w \in Elements(readyQueue) \/ w \in Elements(batch)
BY DEF Placed, WherePlaces, DeferredPlaces, Ready

(* The first of a batch is what was deferred first of all that is not run. *)
LEMMA NextIsHead ==
    ASSUME Placed, PassOrder, InTurn, batch # <<>>
    PROVE  Len(run) + 1 \in 1..Len(deferred) /\ deferred[Len(run) + 1] = Head(batch)
<1>1. /\ Len(run) \in Nat /\ Len(deferred) \in Nat /\ Len(run) < Len(deferred)
  <2>1. Elements(batch) # {}
    BY ElementsEmpty DEF Placed, TypeWork
  <2> QED
    BY <2>1, RunBound DEF Placed
<1>2. PICK h \in Work : h = Head(batch) /\ h \in Elements(batch)
  BY ElementsTail DEF Placed, TypeWork
<1>3. PICK x \in Work : x = deferred[Len(run) + 1] /\ x \in Elements(deferred)
  BY <1>1, ElementsType DEF Placed, TypeWork
<1>4. /\ \A i \in 1..Len(run) : run[i] = deferred[i]
      /\ Distinct(deferred) /\ deferred \in Seq(Work)
  <2>1. run = SubSeq(deferred, 1, Len(run)) /\ deferred \in Seq(Work) /\ Distinct(deferred)
    BY DEF InTurn, FifoInv, FifoOrder, Placed, TypeWork, WherePlaces, DeferredPlaces
  <2> QED
    BY <1>1, <2>1
<1>5. x \notin Elements(run)
  <2>1. \A i \in 1..Len(run) : i \in 1..Len(deferred) /\ Len(run) + 1 \in 1..Len(deferred) /\ i # Len(run) + 1
    BY <1>1
  <2> QED
    BY <1>3, <1>4, <2>1 DEF Elements, Distinct
<1>6. /\ h \in Elements(deferred) /\ h \notin Elements(run) /\ state[h] = "pass2" /\ h \in Ready
  BY <1>2 DEF Placed, WherePlaces, ReadyPlaces, DeferredPlaces, Ready
<1>7. x # h => Earlier(x, h)
  <2>1. PICK k \in 1..Len(deferred) : deferred[k] = h
    BY <1>6 DEF Elements
  <2>2. ~(k <= Len(run))
    <3>1. k <= Len(run) => k \in 1..Len(run) /\ run[k] = h
      BY <1>1, <1>4, <2>1
    <3> QED
      BY <1>6, <3>1 DEF Elements
  <2>3. k # Len(run) + 1 => Len(run) + 1 \in 1..Len(deferred) /\ Len(run) + 1 < k
    BY <1>1, <2>2
  <2> QED
    BY <1>3, <2>1, <2>3 DEF Earlier
<1>8. x # h => Earlier(h, x)
  <2>1. ASSUME NEW n \in Threads, x \in OnNode(n) PROVE Earlier(h, x)
    <3>1. state[x] \in {"pass1", "pass2"}
      BY <2>1 DEF Placed, WherePlaces, RingPlaces
    <3>2. CASE state[x] = "pass1"
      BY <1>6, <3>2 DEF PassOrder
    <3>3. CASE state[x] = "pass2"
      BY <1>6, <2>1, <3>3 DEF InTurn, FifoInv, AllBefore, InPass
    <3> QED
      BY <3>1, <3>2, <3>3
  <2>2. x \in Elements(smrQueue) => Earlier(h, x)
    BY <1>6 DEF InTurn, FifoInv, AllBefore, InPass
  <2>3. x \in Elements(readyQueue) => Earlier(h, x)
    BY <1>2 DEF InTurn, FifoInv, AllBefore
  <2>4. ASSUME x \in Elements(batch), x # h PROVE Earlier(h, x)
    <3>1. <<h, x>> \in Orderly
      <4>1. batch \in Seq(Work) /\ Along(batch, Orderly)
        BY DEF Placed, TypeWork, InTurn, FifoInv
      <4>2. x \in Elements(Tail(batch))
        BY <1>2, <2>4, <4>1, ElementsTail
      <4> QED
        BY <1>2, <4>1, <4>2, AlongTail
    <3>2. state[x] = "pass2"
      BY <2>4 DEF Placed, WherePlaces, ReadyPlaces, Ready
    <3> QED
      BY <1>6, <3>1, <3>2 DEF Orderly
  <2> QED
    BY <1>3, <1>5, <2>1, <2>2, <2>3, <2>4, NotYetRun
<1>9. x = h
  BY <1>4, <1>7, <1>8, EarlierOneWay
<1> QED
  BY <1>1, <1>2, <1>3, <1>9

LEMMA InTurnRun ==
    ASSUME Placed, PassOrder, InTurn, Run
    PROVE  InTurn'
<1>1. /\ batch # <<>> /\ run' = Append(run, Head(batch)) /\ batch' = Tail(batch)
      /\ UNCHANGED <<ring, at, queue0, queue1, smrQueue, readyQueue, state, deferred>>
  BY DEF Run, ringVars, smrVars, workVars
<1>2. PICK h \in Work : h = Head(batch)
  BY <1>1, ElementsTail DEF Placed, TypeWork
<1>3. /\ batch \in Seq(Work) /\ run \in Seq(Work) /\ deferred \in Seq(Work)
      /\ Along(batch, Orderly)
  BY DEF Placed, TypeWork, InTurn, FifoInv
<1>4. /\ Elements(batch) = {h} \union Elements(batch')
      /\ Elements(run') = Elements(run) \union {h}
      /\ Along(batch', Orderly) /\ \A w \in Elements(batch') : <<h, w>> \in Orderly
  BY <1>1, <1>2, <1>3, ElementsTail, ElementsAppend, AlongTail
<1>5. /\ \A v, w : Earlier(v, w)' <=> Earlier(v, w)
      /\ Orderly' = Orderly
  BY <1>1 DEF Earlier, Orderly
<1>6. QueueOrder'
  BY <1>1, <1>5 DEF InTurn, QueueOrder
<1>7. RingOrder("pass2")'
  BY <1>1, <1>5 DEF InTurn, FifoInv, RingOrder, InPass, AllBefore, Sooner
<1>8. Ready' = Ready
  BY <1>1, <1>4 DEF Ready
<1>9. \A w \in Elements(batch') : Earlier(h, w)
  <2>1. \A w \in Elements(batch) : w \in Work /\ state[w] = "pass2"
    BY PlacesAreWork DEF Placed, WherePlaces, ReadyPlaces, Ready
  <2> QED
    BY <1>4, <2>1 DEF Orderly
<1>10. run' = SubSeq(deferred, 1, Len(run'))
  <2>1. /\ Len(run) + 1 \in 1..Len(deferred) /\ deferred[Len(run) + 1] = h
        /\ Len(run) \in Nat /\ Len(deferred) \in Nat
    BY <1>1, <1>2, <1>3, NextIsHead, ElementsType
  <2>2. run = SubSeq(deferred, 1, Len(run))
    BY DEF InTurn, FifoInv, FifoOrder
  <2>3. /\ Len(run') = Len(run) + 1 /\ run' \in Seq(Work)
        /\ \A i \in 1..Len(run) : run'[i] = deferred[i]
        /\ run'[Len(run) + 1] = h
    <3>1. \A i \in 1..Len(run) : run[i] = deferred[i]
      BY <1>3, <2>1, <2>2
    <3> QED
      BY <1>1, <1>2, <1>3, <3>1, AppendProperties
  <2>4. \A i \in 1..Len(run') : run'[i] = deferred[i]
    BY <2>1, <2>3
  <2> QED
    BY <1>3, <2>1, <2>3, <2>4
<1>11. FifoInv'
  <2>1. /\ AllBefore(InPass(Work, "pass2"), Elements(smrQueue))'
        /\ \A n \in Threads : AllBefore(Ready, InPass(OnNode(n), "pass2"))'
    BY <1>1, <1>5, <1>8 DEF InTurn, FifoInv, AllBefore, InPass, OnNode
  <2>2. /\ AllBefore(Elements(run), Elements(batch) \union Elements(readyQueue))'
        /\ AllBefore(Elements(batch), Elements(readyQueue))'
    BY <1>1, <1>4, <1>5, <1>9 DEF InTurn, FifoInv, AllBefore
  <2>3. Along(batch, Orderly)' /\ Along(readyQueue, Orderly)'
    BY <1>1, <1>4, <1>5 DEF InTurn, FifoInv
  <2> QED
    BY <1>1, <1>7, <1>10, <2>1, <2>2, <2>3 DEF FifoInv, FifoOrder
<1> QED
  BY <1>6, <1>11 DEF InTurn

(* A batch is taken when the one before is through. *)
LEMMA InTurnTake ==
    ASSUME Placed, InTurn, Take \/ RunDone
    PROVE  InTurn'
<1>1. /\ UNCHANGED <<ring, at, queue0, queue1, smrQueue, state, deferred, run>>
      /\ \/ UNCHANGED <<readyQueue, batch>>
         \/ batch = <<>> /\ batch' = readyQueue /\ readyQueue' = <<>>
  <2>1. CASE Take
    BY <2>1 DEF Take, Placed, Counts, ringVars, smrVars, workVars, history
  <2>2. CASE RunDone
    BY <2>2 DEF RunDone, ringVars, smrVars, workVars, history
  <2> QED
    BY <2>1, <2>2
<1>2. RingOrder("pass2")'
  BY <1>1 DEF InTurn, FifoInv, RingOrder, InPass, AllBefore, Sooner, Earlier
<1>3. CASE UNCHANGED <<readyQueue, batch>>
  BY <1>1, <1>2, <1>3, InTurnSame
<1>4. CASE batch = <<>> /\ batch' = readyQueue /\ readyQueue' = <<>>
  <2>1. Elements(batch) = {} /\ Elements(readyQueue') = {}
    BY <1>4, ElementsEmpty
  <2>2. /\ \A v, w : Earlier(v, w)' <=> Earlier(v, w)
        /\ Orderly' = Orderly
    BY <1>1 DEF Earlier, Orderly
  <2>3. QueueOrder'
    BY <1>1, <2>2 DEF InTurn, QueueOrder
  <2>4. Ready' = Ready
    BY <1>1, <1>4, <2>1 DEF Ready
  <2>5. /\ AllBefore(InPass(Work, "pass2"), Elements(smrQueue))'
        /\ \A n \in Threads : AllBefore(Ready, InPass(OnNode(n), "pass2"))'
    BY <1>1, <2>2, <2>4 DEF InTurn, FifoInv, AllBefore, InPass, OnNode
  <2>6. /\ AllBefore(Elements(run), Elements(batch) \union Elements(readyQueue))'
        /\ AllBefore(Elements(batch), Elements(readyQueue))'
    BY <1>1, <1>4, <2>1, <2>2 DEF InTurn, FifoInv, AllBefore
  <2>7. Along(batch, Orderly)' /\ Along(readyQueue, Orderly)'
    BY <1>4, <2>2, AlongEmpty DEF InTurn, FifoInv
  <2>8. FifoOrder'
    BY <1>1 DEF InTurn, FifoInv, FifoOrder
  <2> QED
    BY <1>2, <2>3, <2>5, <2>6, <2>7, <2>8 DEF InTurn, FifoInv
<1> QED
  BY <1>1, <1>3, <1>4

LEMMA InTurnDefer ==
    ASSUME Placed, PassOrder, InTurn, NEW w \in Work, Defer(w)
    PROVE  InTurn'
<1>1. /\ state[w] = "live" /\ deferred' = Append(deferred, w)
      /\ UNCHANGED <<ring, at, queue1, smrQueue, batch, run>> /\ at = 1
      /\ \A v, u : Earlier(v, u) => Earlier(v, u)'
      /\ \A v \in Elements(deferred) : Earlier(v, w)'
      /\ \A v \in Work \ {w} : state'[v] = state[v]
  BY DeferMoves
<1>2. /\ \A m \in Threads : w \notin OnNode(m)
      /\ w \notin Elements(smrQueue) /\ w \notin Ready /\ w \notin Elements(deferred)
  BY <1>1, LiveNowhere DEF Placed
<1>3. /\ \A m \in Threads : OnNode(m) \subseteq Work /\ OnNode(m) \subseteq Elements(deferred)
      /\ Elements(smrQueue) \subseteq Work /\ Elements(smrQueue) \subseteq Elements(deferred)
      /\ Ready \subseteq Work /\ Ready \subseteq Elements(deferred)
  BY PlacesAreWork DEF Placed, WherePlaces, RingPlaces, ReadyPlaces, SmrPlaces, DeferredPlaces
<1>4. \A v, u \in Work \ {w} : <<v, u>> \in Orderly => <<v, u>> \in Orderly'
  BY <1>1 DEF Orderly
<1>5. ASSUME NEW s \in Seq(Work), Along(s, Orderly), w \notin Elements(s)
      PROVE  Along(s, Orderly')
  <2>1. \A v, u \in Elements(s) : <<v, u>> \in Orderly => <<v, u>> \in Orderly'
    BY <1>4, <1>5, ElementsType
  <2> QED
    BY <1>5, <2>1, AlongMore
<1>6. /\ smrQueue \in Seq(Work) /\ batch \in Seq(Work) /\ readyQueue \in Seq(Work)
      /\ run \in Seq(Work) /\ deferred \in Seq(Work)
      /\ \A n \in Threads : queue0[n] \in Seq(Work) /\ queue1[n] \in Seq(Work)
  BY DEF Placed, TypeWork
<1>7. /\ Along(smrQueue, Orderly') /\ Along(batch, Orderly') /\ Along(readyQueue, Orderly')
      /\ \A n \in Threads : Along(queue0[n], Orderly') /\ Along(queue1[n], Orderly')
  <2>1. /\ Along(smrQueue, Orderly) /\ Along(batch, Orderly) /\ Along(readyQueue, Orderly)
        /\ \A n \in Threads : Along(queue0[n], Orderly) /\ Along(queue1[n], Orderly)
    BY DEF InTurn, QueueOrder, FifoInv
  <2>2. /\ w \notin Elements(batch) /\ w \notin Elements(readyQueue)
        /\ \A n \in Threads : w \notin Elements(queue0[n]) /\ w \notin Elements(queue1[n])
    BY <1>2 DEF Ready, OnNode
  <2> QED
    BY <1>2, <1>5, <1>6, <2>1, <2>2
<1>8. FifoOrder'
  <2>1. Len(run) \in Nat /\ Len(deferred) \in Nat /\ Len(run) <= Len(deferred)
    BY RunBound DEF Placed
  <2>2. run = SubSeq(deferred, 1, Len(run))
    BY DEF InTurn, FifoInv, FifoOrder
  <2>3. \A i \in 1..Len(run) : run[i] = deferred'[i]
    <3>1. \A i \in 1..Len(run) : i \in 1..Len(deferred) /\ run[i] = deferred[i]
      BY <1>6, <2>1, <2>2
    <3> QED
      BY <1>1, <1>6, <3>1, AppendProperties
  <2>4. deferred' \in Seq(Work) /\ Len(deferred') = Len(deferred) + 1
    BY <1>1, <1>6, AppendProperties
  <2>5. run = SubSeq(deferred', 1, Len(run))
    BY <1>6, <2>1, <2>3, <2>4
  <2> QED
    BY <1>1, <2>5 DEF FifoOrder
<1>9. CASE ring # <<>>
  <2>1. PICK n \in Threads :
                 /\ n = ring[1]
                 /\ queue0'[n] = Append(queue0[n], w)
                 /\ Elements(queue0'[n]) = Elements(queue0[n]) \union {w}
                 /\ \A m \in Threads \ {n} : queue0'[m] = queue0[m]
    BY <1>9, DeferMoves
  <2>2. state'[w] = "pass1" /\ readyQueue' = readyQueue
    BY <1>9, DeferMoves
  <2>3. RingOrder("pass2")'
    <3>1. PICK F : F = {w}
      OBVIOUS
    <3>2. RingOrder("pass2")
      BY DEF InTurn, FifoInv
    <3>3. /\ \A m \in Threads : \A v \in OnNode(m) : state'[v] = "pass2" => state[v] = "pass2"
          /\ \A m \in Threads : \A v \in OnNode(m), u \in F :
                state'[v] = "pass2" /\ state'[u] = "pass2" => Earlier(v, u)'
      BY <1>1, <1>2, <1>3, <2>2, <3>1
    <3> QED
      BY <1>1, <2>1, <3>1, <3>2, <3>3, OrderStart
  <2>4. QueueOrder'
    <3>1. \A v \in Elements(queue0[n]) : <<v, w>> \in Orderly'
      BY <1>1, <1>3 DEF Orderly, OnNode
    <3>2. Along(queue0'[n], Orderly')
      BY <1>6, <1>7, <2>1, <3>1, AlongAppend
    <3> QED
      BY <1>1, <1>7, <2>1, <3>2 DEF QueueOrder
  <2>5. Ready' = Ready
    BY <1>1, <2>2 DEF Ready
  <2>6. /\ InPass(Work, "pass2")' \subseteq InPass(Work, "pass2")
        /\ \A m \in Threads : InPass(OnNode(m), "pass2")' \subseteq InPass(OnNode(m), "pass2")
    <3>1. \A m \in Threads : OnNode(m)' \subseteq OnNode(m) \union {w}
      BY <1>1, <2>1 DEF OnNode
    <3> QED
      BY <1>1, <1>3, <2>2, <3>1 DEF InPass
  <2>7. /\ AllBefore(InPass(Work, "pass2"), Elements(smrQueue))'
        /\ \A m \in Threads : AllBefore(Ready, InPass(OnNode(m), "pass2"))'
        /\ AllBefore(Elements(run), Elements(batch) \union Elements(readyQueue))'
        /\ AllBefore(Elements(batch), Elements(readyQueue))'
    BY <1>1, <2>2, <2>5, <2>6 DEF InTurn, FifoInv, AllBefore
  <2> QED
    BY <1>1, <1>7, <1>8, <2>2, <2>3, <2>4, <2>7 DEF InTurn, FifoInv
<1>10. CASE ring = <<>>
  <2>1. state'[w] = "pass2" /\ queue0' = queue0 /\ readyQueue' = Append(readyQueue, w)
    BY <1>10, DeferMoves
  <2>2. RingOrder("pass2")'
    <3>1. 1..Len(ring') = {}
      BY <1>1, <1>10
    <3> QED
      BY <3>1 DEF RingOrder
  <2>3. QueueOrder'
    BY <1>1, <1>7, <2>1 DEF QueueOrder
  <2>4. /\ Elements(readyQueue') = Elements(readyQueue) \union {w}
        /\ Along(readyQueue', Orderly')
    <3>1. \A v \in Elements(readyQueue) : <<v, w>> \in Orderly'
      BY <1>1, <1>3 DEF Orderly, Ready
    <3> QED
      BY <1>6, <1>7, <2>1, <3>1, AlongAppend, ElementsAppend
  <2>5. /\ Elements(smrQueue') = {}
        /\ \A m \in Threads : OnNode(m)' = {}
    <3>1. Registered = {}
      BY <1>10, ElementsEmpty DEF Registered
    <3>2. \A m \in Threads : OnNode(m) = {}
      BY <3>1 DEF Placed, WherePlaces, RingPlaces
    <3>3. \A m \in Threads : OnNode(m)' = OnNode(m)
      BY <1>1, <2>1 DEF OnNode
    <3> QED
      BY <1>1, <1>10, <3>2, <3>3, ElementsEmpty DEF PassOrder
  <2>6. /\ AllBefore(InPass(Work, "pass2"), Elements(smrQueue))'
        /\ \A m \in Threads : AllBefore(Ready, InPass(OnNode(m), "pass2"))'
    BY <2>5 DEF AllBefore, InPass
  <2>7. /\ AllBefore(Elements(run), Elements(batch) \union Elements(readyQueue))'
        /\ AllBefore(Elements(batch), Elements(readyQueue))'
    BY <1>1, <1>3, <2>4 DEF InTurn, FifoInv, AllBefore, Ready
  <2> QED
    BY <1>1, <1>7, <1>8, <2>2, <2>3, <2>4, <2>6, <2>7 DEF InTurn, FifoInv
<1> QED
  BY <1>9, <1>10

(* What stays on the smr queue in fifo order is its end. *)
LEMMA HeldIsEnd ==
    ASSUME Type = "fifo", NEW v \in Elements(smrQueue) \ Held,
           NEW w \in Elements(smrQueue) \intersect Held, smrQueue \in Seq(Work)
    PROVE  \E i, j \in 1..Len(smrQueue) : i < j /\ smrQueue[i] = v /\ smrQueue[j] = w
<1>1. Held = {smrQueue[i] : i \in {i \in 1..Len(smrQueue) :
                                  \E j \in 1..i : smrQueue[j] \in copied}}
  BY DEF Held
<1>2. PICK j \in 1..Len(smrQueue) : smrQueue[j] = w /\ \E k \in 1..j : smrQueue[k] \in copied
  BY <1>1
<1>3. PICK i \in 1..Len(smrQueue) : smrQueue[i] = v
  BY DEF Elements
<1>4. ~(\E k \in 1..i : smrQueue[k] \in copied)
  BY <1>1, <1>3
<1>5. i < j
  <2>1. PICK k \in 1..j : smrQueue[k] \in copied
    BY <1>2
  <2>2. j <= i => k \in 1..i
    OBVIOUS
  <2> QED
    BY <1>4, <2>1, <2>2
<1> QED
  BY <1>2, <1>3, <1>5

LEMMA InTurnMark ==
    ASSUME Placed, PassOrder, InTurn, Type = "fifo", Mark
    PROVE  InTurn'
<1>1. PICK f \in Seq(Work) :
         /\ f = Only(smrQueue, Work \ Held) /\ smrQueue' = Only(smrQueue, Held)
         /\ Elements(f) = Elements(smrQueue) \ Held
         /\ Elements(smrQueue') = Elements(smrQueue) \intersect Held
         /\ UNCHANGED <<ring, at, queue1, batch, run, deferred>> /\ at = 1
         /\ \A w \in Work : state'[w] = IF w \in Elements(f) THEN "pass2" ELSE state[w]
         /\ \A m \in Threads : Elements(f) \intersect OnNode(m) = {}
         /\ ring # <<>> =>
               /\ readyQueue' = readyQueue
               /\ \E n \in Threads :
                     /\ n = ring[1]
                     /\ queue0'[n] = queue0[n] \o f
                     /\ Elements(queue0'[n]) = Elements(queue0[n]) \union Elements(f)
                     /\ \A m \in Threads \ {n} : queue0'[m] = queue0[m]
         /\ ring = <<>> => readyQueue' = readyQueue \o f /\ queue0' = queue0
  BY MarkMoves
<1>2. /\ smrQueue \in Seq(Work) /\ batch \in Seq(Work) /\ readyQueue \in Seq(Work)
      /\ smrQueue' \in Seq(Work)
      /\ \A n \in Threads : queue0[n] \in Seq(Work) /\ queue1[n] \in Seq(Work)
  BY <1>1, OnlyKeeps DEF Placed, TypeWork
<1>3. /\ \A v, w : Earlier(v, w)' <=> Earlier(v, w)
  BY <1>1 DEF Earlier
<1>4. \A w \in Elements(smrQueue) : w \in Work /\ state[w] = "smr"
  BY PlacesAreWork DEF Placed, WherePlaces, SmrPlaces
<1>5. /\ \A v \in InPass(Work, "pass2"), w \in Elements(smrQueue) : Earlier(v, w)
      /\ Along(smrQueue, Orderly)
  BY DEF InTurn, QueueOrder, FifoInv, AllBefore
<1>6. \A v, w \in Elements(smrQueue) : <<v, w>> \in Orderly => <<v, w>> \in Orderly' /\ Earlier(v, w)
  BY <1>3, <1>4 DEF Orderly
<1>7. Along(f, Orderly') /\ Along(smrQueue', Orderly')
  <2>1. Along(smrQueue, Orderly')
    BY <1>2, <1>5, <1>6, AlongMore
  <2> QED
    BY <1>1, <1>2, <2>1, AlongOnly
<1>8. \A v \in Elements(f), w \in Elements(smrQueue') : Earlier(v, w)
  <2> SUFFICES ASSUME NEW v \in Elements(f), NEW w \in Elements(smrQueue') PROVE Earlier(v, w)
    OBVIOUS
  <2>1. PICK i, j \in 1..Len(smrQueue) : i < j /\ smrQueue[i] = v /\ smrQueue[j] = w
    <3>1. /\ v \in Elements(smrQueue) \ Held /\ w \in Elements(smrQueue) \intersect Held
          /\ smrQueue \in Seq(Work) /\ Type = "fifo"
      BY <1>1, <1>2
    <3> QED
      BY <3>1, HeldIsEnd
  <2>2. <<v, w>> \in Orderly
    BY <1>5, <2>1 DEF Along
  <2> QED
    BY <1>1, <1>6, <2>2
<1>9. ASSUME NEW s \in Seq(Work), Along(s, Orderly),
             \A w \in Elements(s) : w \notin Elements(f)
      PROVE  Along(s, Orderly')
  <2>1. \A v, w \in Elements(s) : <<v, w>> \in Orderly => <<v, w>> \in Orderly'
    BY <1>1, <1>3, <1>9, ElementsType DEF Orderly
  <2> QED
    BY <1>9, <2>1, AlongMore
<1>10. /\ Along(batch, Orderly') /\ Along(readyQueue, Orderly')
       /\ \A n \in Threads : Along(queue0[n], Orderly') /\ Along(queue1[n], Orderly')
  <2>1. /\ Along(batch, Orderly) /\ Along(readyQueue, Orderly)
        /\ \A n \in Threads : Along(queue0[n], Orderly) /\ Along(queue1[n], Orderly)
    BY DEF InTurn, QueueOrder, FifoInv
  <2>2. \A w \in Ready : w \notin Elements(f)
    BY <1>1, <1>4 DEF Placed, WherePlaces, ReadyPlaces
  <2> QED
    BY <1>1, <1>2, <1>9, <2>1, <2>2 DEF Ready, OnNode
<1>11. FifoOrder'
  BY <1>1 DEF InTurn, FifoInv, FifoOrder
<1>12. CASE ring # <<>>
  <2>1. /\ readyQueue' = readyQueue
        /\ \E n \in Threads :
              /\ n = ring[1]
              /\ queue0'[n] = queue0[n] \o f
              /\ Elements(queue0'[n]) = Elements(queue0[n]) \union Elements(f)
              /\ \A m \in Threads \ {n} : queue0'[m] = queue0[m]
    BY <1>1, <1>12
  <2>2. PICK n \in Threads :
              /\ n = ring[1]
              /\ queue0'[n] = queue0[n] \o f
              /\ Elements(queue0'[n]) = Elements(queue0[n]) \union Elements(f)
              /\ \A m \in Threads \ {n} : queue0'[m] = queue0[m]
    BY <2>1
  <2>3. \A m \in Threads : \A w \in OnNode(m) : w \in Work /\ w \notin Elements(f) /\ state'[w] = state[w]
    BY <1>1, PlacesAreWork DEF Placed
  <2>4. \A m \in Threads : \A v \in OnNode(m), w \in Elements(f) : state'[v] = "pass2" => Earlier(v, w)'
    BY <1>1, <1>3, <1>5, <2>3 DEF InPass
  <2>5. RingOrder("pass2")'
    <3>1. RingOrder("pass2")
      BY DEF InTurn, FifoInv
    <3>2. PICK F : F = Elements(f)
      OBVIOUS
    <3>3. \A m \in Threads : \A w \in OnNode(m) : state'[w] = "pass2" => state[w] = "pass2"
      BY <2>3
    <3>4. \A m \in Threads : \A v \in OnNode(m), w \in F :
              state'[v] = "pass2" /\ state'[w] = "pass2" => Earlier(v, w)'
      BY <2>4, <3>2
    <3>5. /\ UNCHANGED <<ring, at, queue1>> /\ at = 1 /\ n = ring[1]
          /\ Elements(queue0'[n]) = Elements(queue0[n]) \union F
          /\ \A m \in Threads \ {n} : queue0'[m] = queue0[m]
      BY <1>1, <2>2, <3>2
    <3>6. \A v, w : Earlier(v, w) => Earlier(v, w)'
      BY <1>3
    <3> QED
      BY <3>1, <3>3, <3>4, <3>5, <3>6, OrderStart
  <2>6. QueueOrder'
    <3>1. \A v \in Elements(queue0[n]), w \in Elements(f) : <<v, w>> \in Orderly'
      <4>1. \A w \in Elements(f) : w \in Work /\ state'[w] = "pass2"
        BY <1>1, <1>4
      <4> QED
        BY <2>3, <2>4, <4>1 DEF Orderly, OnNode
    <3>2. Along(queue0'[n], Orderly')
      BY <1>2, <1>7, <1>10, <2>2, <3>1, AlongConcat
    <3> QED
      BY <1>1, <1>7, <1>10, <2>2, <3>2 DEF QueueOrder
  <2>7. Ready' = Ready
    BY <1>1, <2>1 DEF Ready
  <2>8. AllBefore(InPass(Work, "pass2"), Elements(smrQueue))'
    BY <1>1, <1>3, <1>5, <1>8 DEF InPass, AllBefore
  <2>9. ASSUME NEW m \in Threads PROVE AllBefore(Ready, InPass(OnNode(m), "pass2"))'
    <3>1. InPass(OnNode(m), "pass2")' \subseteq InPass(OnNode(m), "pass2") \union Elements(f)
      BY <1>1, <2>2, <2>3 DEF InPass, OnNode
    <3>2. AllBefore(Ready, InPass(OnNode(m), "pass2"))
      BY DEF InTurn, FifoInv
    <3>3. Ready \subseteq InPass(Work, "pass2")
      BY PlacesAreWork DEF Placed, WherePlaces, ReadyPlaces, InPass
    <3> QED
      BY <1>1, <1>3, <1>5, <2>7, <3>1, <3>2, <3>3 DEF AllBefore
  <2>10. /\ AllBefore(Elements(run), Elements(batch) \union Elements(readyQueue))'
         /\ AllBefore(Elements(batch), Elements(readyQueue))'
    BY <1>1, <1>3, <2>1 DEF InTurn, FifoInv, AllBefore
  <2> QED
    BY <1>1, <1>10, <1>11, <2>1, <2>5, <2>6, <2>8, <2>9, <2>10 DEF InTurn, FifoInv
<1>13. CASE ring = <<>>
  <2>1. smrQueue = <<>> /\ Elements(smrQueue) = {}
    BY <1>13, ElementsEmpty DEF PassOrder
  <2>2. f = <<>> /\ smrQueue' = <<>>
    BY <1>1, <1>2, <2>1, ElementsEmpty
  <2>3. readyQueue' = readyQueue /\ queue0' = queue0
    <3>1. readyQueue \o <<>> = readyQueue
      BY <1>2
    <3> QED
      BY <1>1, <1>13, <2>2, <3>1
  <2>4. state' = state
    <3>1. TypeWork /\ TypeWork'
      BY PlacedPoll DEF Placed
    <3>2. \A w \in Work : state'[w] = state[w]
      BY <1>1, <2>2, ElementsEmpty
    <3> QED
      BY <3>1, <3>2 DEF TypeWork
  <2>5. RingOrder("pass2")'
    <3>1. 1..Len(ring') = {}
      BY <1>1, <1>13
    <3> QED
      BY <3>1 DEF RingOrder
  <2> QED
    BY <1>1, <2>1, <2>2, <2>3, <2>4, <2>5, InTurnSame
<1> QED
  BY <1>12, <1>13

LEMMA InTurnVisit ==
    ASSUME Placed, PassOrder, InTurn, Visit
    PROVE  InTurn'
<1>1. /\ RingOrder("pass2")'
      /\ \A m \in Threads :
            AllBefore(InPass(Elements(queue1[ring[at']]), "pass2"), InPass(OnNode(m)', "pass2"))
  <2>1. RingOrder("pass2")
    BY DEF InTurn, FifoInv
  <2> QED
    BY <2>1, OrderVisit
<1>2. PICK n \in Threads : n = ring[at'] /\ Shift(n)
  BY RingVisit DEF Placed
<1>3. UNCHANGED <<batch, run, deferred, waiting>>
  BY DEF Visit, history
<1>4. PICK first \in Seq(Work) : first = FirstPass(queue1[n])
  BY PassSplit DEF Placed, TypeWork
<1>5. PICK second \in Seq(Work) : second = SecondPass(queue1[n])
  BY PassSplit DEF Placed, TypeWork
<1>6. /\ smrQueue' = smrQueue \o first /\ readyQueue' = readyQueue \o second
      /\ Elements(first) = InPass(Elements(queue1[n]), "pass1")
      /\ Elements(second) = {w \in Elements(queue1[n]) : state[w] # "pass1"}
  BY <1>2, <1>4, <1>5, PassSplit DEF Placed, TypeWork, Shift, LeavePass
<1>7. /\ queue1'[n] = queue0[n] /\ queue0'[n] = <<>>
      /\ \A m \in Threads \ {n} : queue0'[m] = queue0[m] /\ queue1'[m] = queue1[m]
      /\ \A w \in Work : state'[w] = IF w \in Elements(first) THEN "smr" ELSE state[w]
  BY <1>2, <1>3, <1>6, ShiftMoves DEF Placed
<1>8. \A v, w : Earlier(v, w)' <=> Earlier(v, w)
  BY <1>3 DEF Earlier
<1>9. /\ smrQueue \in Seq(Work) /\ batch \in Seq(Work) /\ readyQueue \in Seq(Work)
      /\ \A m \in Threads : queue0[m] \in Seq(Work) /\ queue1[m] \in Seq(Work)
  BY DEF Placed, TypeWork
<1>10. /\ Elements(smrQueue') = Elements(smrQueue) \union Elements(first)
       /\ Elements(readyQueue') = Elements(readyQueue) \union Elements(second)
  BY <1>6, <1>9, ElementsConcat
<1>11. /\ \A w \in Elements(first) : w \in Work /\ state[w] = "pass1"
       /\ \A w \in Elements(second) : w \in InPass(Elements(queue1[n]), "pass2") /\ w \in Work /\ state'[w] = "pass2"
  <2>1. \A w \in Elements(queue1[n]) : w \in Work /\ state[w] \in {"pass1", "pass2"}
    BY PlacesAreWork DEF Placed, WherePlaces, RingPlaces, OnNode
  <2> QED
    BY <1>6, <1>7, <2>1 DEF InPass
<1>12. \A w \in Elements(smrQueue) : w \in Work /\ state[w] = "smr"
  BY PlacesAreWork DEF Placed, WherePlaces, SmrPlaces
<1>13. \A m \in Threads : \A w \in OnNode(m)' : w \in Work /\ state'[w] = state[w]
  <2>1. TypeWork' /\ WherePlaces'
    BY PlacedVisit DEF Placed
  <2>2. \A m \in Threads : \A w \in OnNode(m)' : w \in Work /\ state'[w] \in {"pass1", "pass2"}
    <3>1. \A m \in Threads : OnNode(m)' \subseteq Work
      BY <2>1, ElementsType DEF TypeWork, OnNode
    <3> QED
      BY <2>1, <3>1 DEF WherePlaces, RingPlaces
  <2> QED
    BY <1>7, <2>2
<1>14. \A w \in Ready : w \in Work /\ state[w] = "pass2" /\ state'[w] = "pass2"
  BY <1>7, <1>11, PlacesAreWork DEF Placed, WherePlaces, ReadyPlaces
<1>15. ASSUME NEW s \in Seq(Work), Along(s, Orderly),
              \A v, w \in Elements(s) : state'[v] = state'[w] => state[v] = state[w]
       PROVE  Along(s, Orderly')
  <2>1. \A v, w \in Elements(s) : <<v, w>> \in Orderly => <<v, w>> \in Orderly'
    BY <1>8, <1>15, ElementsType DEF Orderly
  <2> QED
    BY <1>15, <2>1, AlongMore
<1>16. /\ Along(smrQueue, Orderly) /\ Along(batch, Orderly) /\ Along(readyQueue, Orderly)
       /\ \A m \in Threads : Along(queue0[m], Orderly) /\ Along(queue1[m], Orderly)
  BY DEF InTurn, QueueOrder, FifoInv
<1>17. QueueOrder'
  <2>1. \A m \in Threads : (Along(queue0[m], Orderly') /\ Along(queue1[m], Orderly')) \/ m = n
    <3> SUFFICES ASSUME NEW m \in Threads, m # n
                 PROVE  Along(queue0[m], Orderly') /\ Along(queue1[m], Orderly')
      OBVIOUS
    <3>1. /\ \A w \in Elements(queue0[m]) : state'[w] = state[w]
          /\ \A w \in Elements(queue1[m]) : state'[w] = state[w]
      BY <1>7, <1>13 DEF OnNode
    <3>2. /\ \A v, w \in Elements(queue0[m]) : state'[v] = state'[w] => state[v] = state[w]
          /\ \A v, w \in Elements(queue1[m]) : state'[v] = state'[w] => state[v] = state[w]
      BY <3>1
    <3> QED
      BY <1>9, <1>15, <1>16, <3>2
  <2>2. Along(queue1'[n], Orderly') /\ Along(queue0'[n], Orderly')
    <3>1. \A w \in Elements(queue0[n]) : state'[w] = state[w]
      BY <1>7, <1>13 DEF OnNode
    <3>2. \A v, w \in Elements(queue0[n]) : state'[v] = state'[w] => state[v] = state[w]
      BY <3>1
    <3> QED
      BY <1>7, <1>9, <1>15, <1>16, <3>2, AlongEmpty
  <2>3. Along(smrQueue', Orderly')
    <3>1. Along(smrQueue, Orderly')
      BY <1>9, <1>12, <1>15, <1>16
    <3>2. Along(first, Orderly')
      <4>1. Along(first, Orderly)
        BY <1>4, <1>9, <1>16, AlongOnly DEF FirstPass
      <4> QED
        BY <1>11, <1>15, <4>1
    <3>3. \A v \in Elements(smrQueue), w \in Elements(first) : <<v, w>> \in Orderly'
      <4>1. \A v \in Elements(smrQueue), w \in Elements(first) : Earlier(v, w)
        BY <1>11, <1>12 DEF PassOrder
      <4> QED
        BY <1>8, <1>11, <1>12, <4>1 DEF Orderly
    <3> QED
      BY <1>6, <1>9, <3>1, <3>2, <3>3, AlongConcat
  <2> QED
    BY <1>7, <2>1, <2>2, <2>3 DEF QueueOrder
<1>18. \A v \in Ready, w \in Elements(second) : Earlier(v, w)
  BY <1>11 DEF InTurn, FifoInv, AllBefore, InPass, OnNode
<1>19. Along(batch, Orderly') /\ Along(readyQueue', Orderly')
  <2>1. /\ Elements(batch) \subseteq Ready /\ Elements(readyQueue) \subseteq Ready
    BY DEF Ready
  <2>2. Along(batch, Orderly') /\ Along(readyQueue, Orderly')
    <3>1. /\ \A v, w \in Elements(batch) : state'[v] = state'[w] => state[v] = state[w]
          /\ \A v, w \in Elements(readyQueue) : state'[v] = state'[w] => state[v] = state[w]
      BY <1>14, <2>1
    <3> QED
      BY <1>9, <1>15, <1>16, <3>1
  <2>3. Along(second, Orderly')
    <3>1. Along(second, Orderly)
      BY <1>5, <1>9, <1>16, AlongOnly DEF SecondPass
    <3>2. \A v, w \in Elements(second) : state'[v] = state'[w] => state[v] = state[w]
      BY <1>11 DEF InPass
    <3> QED
      BY <1>15, <3>1, <3>2
  <2>4. \A v \in Elements(readyQueue), w \in Elements(second) : <<v, w>> \in Orderly'
    BY <1>8, <1>11, <1>14, <1>18, <2>1 DEF Orderly
  <2> QED
    BY <1>6, <1>9, <2>2, <2>3, <2>4, AlongConcat
<1>20. AllBefore(InPass(Work, "pass2"), Elements(smrQueue))'
  <2>1. InPass(Work, "pass2")' \subseteq InPass(Work, "pass2")
    BY <1>7 DEF InPass
  <2>2. \A v \in InPass(Work, "pass2"), w \in Elements(first) : Earlier(v, w)
    BY <1>11 DEF PassOrder, InPass
  <2> QED
    BY <1>8, <1>10, <2>1, <2>2 DEF InTurn, FifoInv, AllBefore
<1>21. ASSUME NEW m \in Threads PROVE AllBefore(Ready, InPass(OnNode(m), "pass2"))'
  <2>1. Ready' \subseteq Ready \union Elements(second)
    BY <1>3, <1>10 DEF Ready
  <2>2. \A w \in InPass(OnNode(m), "pass2")' : \E k \in Threads : w \in InPass(OnNode(k), "pass2")
    <3>1. OnNode(m)' \subseteq OnNode(m) \union OnNode(n)
      BY <1>7, ElementsEmpty DEF OnNode
    <3> QED
      BY <1>13, <3>1 DEF InPass
  <2>3. \A v \in Ready, w \in InPass(OnNode(m), "pass2")' : Earlier(v, w)
    BY <2>2 DEF InTurn, FifoInv, AllBefore
  <2>4. \A v \in Elements(second), w \in InPass(OnNode(m), "pass2")' : Earlier(v, w)
    <3>1. \A w \in InPass(OnNode(m), "pass2")' : w \in InPass(OnNode(m)', "pass2")
      BY <1>13 DEF InPass
    <3> QED
      BY <1>1, <1>2, <1>11, <3>1 DEF AllBefore
  <2> QED
    BY <1>8, <2>1, <2>3, <2>4 DEF AllBefore
<1>22. /\ AllBefore(Elements(run), Elements(batch) \union Elements(readyQueue))'
       /\ AllBefore(Elements(batch), Elements(readyQueue))'
  BY <1>3, <1>8, <1>10, <1>18 DEF InTurn, FifoInv, AllBefore, Ready
<1>23. FifoOrder'
  BY <1>3 DEF InTurn, FifoInv, FifoOrder
<1> QED
  BY <1>1, <1>3, <1>17, <1>19, <1>20, <1>21, <1>22, <1>23 DEF InTurn, FifoInv

LEMMA InTurnStep ==
    ASSUME Placed, PassOrder, InTurn, Type = "fifo", ~MayExit, [Next]_vars
    PROVE  InTurn'
<1>1. CASE Aside \/ Shutdown2
  <2>1. UNCHANGED <<queue0, queue1, smrQueue, readyQueue, batch, run, state, deferred>>
    BY <1>1, AsideKeeps, EndKeeps
  <2>2. UNCHANGED <<ring, at>> \/ ring' = <<>>
    BY <1>1, AsideKeeps, EndKeeps
  <2>3. \A v, w : Earlier(v, w)' <=> Earlier(v, w)
    BY <2>1 DEF Earlier
  <2>4. RingOrder("pass2")'
    <3>1. RingOrder("pass2")
      BY DEF InTurn, FifoInv
    <3> QED
      BY <2>1, <2>2, <2>3, <3>1, OrderSame
  <2> QED
    BY <2>1, <2>4, InTurnSame
<1>2. ASSUME VisitIdle \/ \E t \in Threads : Acquire(t)
      PROVE  InTurn'
  <2>1. UNCHANGED <<queue0, queue1, smrQueue, readyQueue, batch, run, state, deferred>>
    BY <1>2 DEF VisitIdle, Acquire, smrVars, workVars, pollVars, history
  <2>2. RingOrder("pass2")'
    <3>1. RingOrder("pass2")
      BY DEF InTurn, FifoInv
    <3> QED
      BY <1>2, <3>1, OrderTurn, OrderAcquire
  <2> QED
    BY <2>1, <2>2, InTurnSame
<1>3. ~\E t \in Threads : Release(t)
  BY DEF Release
<1> QED
  BY <1>1, <1>2, <1>3, NextCases, InTurnDefer, InTurnMark, InTurnVisit, InTurnTake, InTurnRun
     DEF Aside

(* Work of type fifo stays in the order of its defers on its whole way, if *)
(* no thread exits meanwhile.                                              *)
THEOREM FifoInvariance ==
    Type = "fifo" /\ ~MayExit => (Spec => [](QueueOrder /\ FifoInv))
<1> SUFFICES ASSUME Type = "fifo", ~MayExit PROVE Spec => [](QueueOrder /\ FifoInv)
  OBVIOUS
<1>1. PlaceInv /\ PassOrder /\ InTurn /\ [Next]_vars => InTurn'
  BY InTurnStep, PlacedIsPlaceInv
<1>2. ExitsOfTwo
  BY DEF ExitsOfTwo
<1>3. Spec => []PassOrder
  BY <1>2, PassInvariance
<1>4. InTurn <=> QueueOrder /\ FifoInv
  BY DEF InTurn
<1> QED
  BY <1>1, <1>3, <1>4, InTurnInit, PlacesInvariant, PTL DEF Spec

(* Work of type fifo is run in the order it was deferred, whatever threads *)
(* register and whenever they quiesce, if none of them exits.              *)
THEOREM FifoKept == Type = "fifo" /\ ~MayExit => (Spec => []FifoOrder)
<1> SUFFICES ASSUME Type = "fifo", ~MayExit PROVE Spec => []FifoOrder
  OBVIOUS
<1>1. QueueOrder /\ FifoInv => FifoOrder
  BY DEF FifoInv
<1>2. Spec => [](QueueOrder /\ FifoInv)
  BY FifoInvariance
<1> QED
  BY <1>1, <1>2, PTL

-------------------------------------------------------------------------------
(* Store buffers *)

LEMMA FlushedIs ==
    ASSUME NEW h \in Pair, NEW b \in Stores, NEW k \in {1, 2}
    PROVE  /\ (\A i \in 1..Len(b) : b[i][1] # k) => Flushed(h, b)[k] = h[k]
           /\ \A i \in 1..Len(b) :
                 b[i][1] = k /\ (\A j \in 1..Len(b) : b[j][1] = k => j <= i)
                    => Flushed(h, b)[k] = b[i][2]
<1>1. Len(b) \in Nat
  BY LenProperties DEF Stores
<1>2. CASE Flushed(h, b)[k] = h[k] /\ \A i \in 1..Len(b) : b[i][1] # k
  BY <1>2
<1>3. CASE \E i \in 1..Len(b) :
              /\ b[i][1] = k /\ Flushed(h, b)[k] = b[i][2]
              /\ \A j \in 1..Len(b) : b[j][1] = k => j <= i
  <2>1. PICK i \in 1..Len(b) :
              /\ b[i][1] = k /\ Flushed(h, b)[k] = b[i][2]
              /\ \A j \in 1..Len(b) : b[j][1] = k => j <= i
    BY <1>3
  <2>2. \A l \in 1..Len(b) : b[l][1] = k /\ (\A j \in 1..Len(b) : b[j][1] = k => j <= l) => l = i
    BY <1>1, <2>1
  <2> QED
    BY <2>1, <2>2
<1> QED
  BY <1>2, <1>3, FlushedValue

(* It is one that was there or one that was stored. *)
LEMMA FlushedAmong ==
    ASSUME NEW h \in Pair, NEW b \in Stores, NEW k \in {1, 2}
    PROVE  Flushed(h, b)[k] = h[k] \/ \E i \in 1..Len(b) : b[i][1] = k /\ Flushed(h, b)[k] = b[i][2]
BY FlushedValue

(* Stores become visible one after the other. *)
LEMMA FlushedLonger ==
    ASSUME NEW h \in Pair, NEW b \in Stores, NEW c \in Stores, NEW k \in {1, 2}
    PROVE  Flushed(h, b \o c)[k] = Flushed(Flushed(h, b), c)[k]
<1>1. /\ b \o c \in Stores /\ Len(b) \in Nat /\ Len(c) \in Nat /\ Len(b \o c) = Len(b) + Len(c)
      /\ \A i \in 1..(Len(b) + Len(c)) : (b \o c)[i] = IF i <= Len(b) THEN b[i] ELSE c[i - Len(b)]
  BY ConcatProperties, LenProperties DEF Stores
<1>2. PICK d \in Stores : d = b \o c
  BY <1>1
<1>3. PICK g \in Pair : g = Flushed(h, b)
  BY FlushedType
<1>4. /\ \A i \in 1..Len(b) : i \in 1..Len(d) /\ d[i] = b[i]
      /\ \A i \in 1..Len(c) : Len(b) + i \in 1..Len(d) /\ d[Len(b) + i] = c[i]
      /\ \A i \in 1..Len(d) : \/ i \in 1..Len(b)
                              \/ i - Len(b) \in 1..Len(c) /\ i = Len(b) + (i - Len(b))
  BY <1>1, <1>2
<1>5. CASE \A i \in 1..Len(c) : c[i][1] # k
  <2>1. Flushed(g, c)[k] = g[k]
    BY <1>5, FlushedIs
  <2>2. CASE (\A i \in 1..Len(b) : b[i][1] # k) /\ g[k] = h[k]
    <3>1. ASSUME NEW i \in 1..Len(d) PROVE d[i][1] # k
      <4>1. CASE i \in 1..Len(b)
        BY <1>4, <2>2, <4>1
      <4>2. CASE i - Len(b) \in 1..Len(c) /\ i = Len(b) + (i - Len(b))
        <5>1. d[i] = c[i - Len(b)]
          BY <1>4, <4>2
        <5> QED
          BY <1>5, <4>2, <5>1
      <4> QED
        BY <1>4, <4>1, <4>2
    <3>2. Flushed(h, d)[k] = h[k]
      BY <3>1, FlushedIs
    <3> QED
      BY <1>2, <1>3, <2>1, <2>2, <3>2
  <2>3. CASE \E i \in 1..Len(b) :
              /\ b[i][1] = k /\ g[k] = b[i][2]
              /\ \A j \in 1..Len(b) : b[j][1] = k => j <= i
    <3>1. PICK i \in 1..Len(b) :
              /\ b[i][1] = k /\ g[k] = b[i][2]
              /\ \A j \in 1..Len(b) : b[j][1] = k => j <= i
      BY <2>3
    <3>2. i \in 1..Len(d) /\ d[i][1] = k /\ d[i][2] = g[k]
      BY <1>4, <3>1
    <3>3. \A j \in 1..Len(d) : d[j][1] = k => j \in 1..Len(b) /\ b[j][1] = k
      <4> SUFFICES ASSUME NEW j \in 1..Len(d), d[j][1] = k PROVE j \in 1..Len(b) /\ b[j][1] = k
        OBVIOUS
      <4>1. ~(j - Len(b) \in 1..Len(c) /\ j = Len(b) + (j - Len(b)))
        <5>1. j - Len(b) \in 1..Len(c) /\ j = Len(b) + (j - Len(b)) => d[j] = c[j - Len(b)]
          BY <1>4
        <5> QED
          BY <1>5, <5>1
      <4> QED
        BY <1>4, <4>1
    <3>4. \A j \in 1..Len(d) : d[j][1] = k => j <= i
      BY <3>1, <3>3
    <3>5. Flushed(h, d)[k] = d[i][2]
      <4>1. \A l \in 1..Len(d) :
               d[l][1] = k /\ (\A j \in 1..Len(d) : d[j][1] = k => j <= l)
                  => Flushed(h, d)[k] = d[l][2]
        BY FlushedIs
      <4> QED
        BY <3>2, <3>4, <4>1
    <3> QED
      BY <1>2, <1>3, <2>1, <3>2, <3>5
  <2>4. \/ (\A i \in 1..Len(b) : b[i][1] # k) /\ Flushed(h, b)[k] = h[k]
        \/ \E i \in 1..Len(b) :
              /\ b[i][1] = k /\ Flushed(h, b)[k] = b[i][2]
              /\ \A j \in 1..Len(b) : b[j][1] = k => j <= i
    BY FlushedValue, Zenon
  <2> QED
    BY <1>3, <2>2, <2>3, <2>4
<1>6. CASE \E i \in 1..Len(c) :
              /\ c[i][1] = k /\ Flushed(g, c)[k] = c[i][2]
              /\ \A j \in 1..Len(c) : c[j][1] = k => j <= i
  <2>1. PICK i \in 1..Len(c) :
              /\ c[i][1] = k /\ Flushed(g, c)[k] = c[i][2]
              /\ \A j \in 1..Len(c) : c[j][1] = k => j <= i
    BY <1>6
  <2>2. PICK l \in 1..Len(d) : l = Len(b) + i
    BY <1>4
  <2>3. d[l][1] = k /\ d[l][2] = c[i][2]
    BY <1>4, <2>1, <2>2
  <2>4. ASSUME NEW j \in 1..Len(d), d[j][1] = k PROVE j <= l
    <3>1. CASE j \in 1..Len(b)
      BY <1>1, <2>2, <3>1
    <3>2. CASE j - Len(b) \in 1..Len(c) /\ j = Len(b) + (j - Len(b))
      <4>1. d[j] = c[j - Len(b)]
        BY <1>4, <3>2
      <4>2. j - Len(b) <= i
        BY <2>1, <2>4, <3>2, <4>1
      <4> QED
        BY <1>1, <2>2, <4>2
    <3> QED
      BY <1>4, <3>1, <3>2
  <2>5. Flushed(h, d)[k] = d[l][2]
    BY <2>3, <2>4, FlushedIs
  <2> QED
    BY <1>2, <1>3, <2>1, <2>3, <2>5
<1>7. \/ (\A i \in 1..Len(c) : c[i][1] # k) /\ Flushed(g, c)[k] = g[k]
      \/ \E i \in 1..Len(c) :
              /\ c[i][1] = k /\ Flushed(g, c)[k] = c[i][2]
              /\ \A j \in 1..Len(c) : c[j][1] = k => j <= i
  BY FlushedValue, Zenon
<1> QED
  BY <1>3, <1>5, <1>6, <1>7

LEMMA FlushedFew ==
    ASSUME NEW h \in Pair
    PROVE  /\ \A k \in {1, 2} : Flushed(h, <<>>)[k] = h[k]
           /\ \A a \in Values : LET f == Flushed(h, <<<<1, a>>>>) IN f[1] = a /\ f[2] = h[2]
           /\ \A a \in Values : LET f == Flushed(h, <<<<2, a>>>>) IN f[1] = h[1] /\ f[2] = a
           /\ \A a, c \in Values : LET f == Flushed(h, <<<<2, a>>, <<1, c>>>>) IN f[1] = c /\ f[2] = a
<1>1. \A k \in {1, 2} : Flushed(h, <<>>)[k] = h[k]
  <2>1. <<>> \in Stores /\ 1..Len(<<>>) = {}
    BY EmptySeq DEF Stores
  <2> QED
    BY <2>1, FlushedIs
<1>2. ASSUME NEW a \in Values
      PROVE  LET f == Flushed(h, <<<<1, a>>>>) IN f[1] = a /\ f[2] = h[2]
  <2>1. PICK b \in Stores : b = <<<<1, a>>>>
    BY StoreTypes
  <2>2. Len(b) = 1 /\ b[1] = <<1, a>>
    BY <2>1
  <2>3. Flushed(h, b)[1] = a /\ Flushed(h, b)[2] = h[2]
    BY <2>2, FlushedIs
  <2> QED
    BY <2>1, <2>3
<1>3. ASSUME NEW a \in Values
      PROVE  LET f == Flushed(h, <<<<2, a>>>>) IN f[1] = h[1] /\ f[2] = a
  <2>1. <<<<2, a>>>> \in Stores
    BY DEF Stores
  <2>2. PICK b \in Stores : b = <<<<2, a>>>>
    BY <2>1
  <2>3. Len(b) = 1 /\ b[1] = <<2, a>>
    BY <2>2
  <2>4. Flushed(h, b)[2] = a /\ Flushed(h, b)[1] = h[1]
    BY <2>3, FlushedIs
  <2> QED
    BY <2>2, <2>4
<1>4. ASSUME NEW a \in Values, NEW c \in Values
      PROVE  LET f == Flushed(h, <<<<2, a>>, <<1, c>>>>) IN f[1] = c /\ f[2] = a
  <2>1. PICK b \in Stores : b = <<<<2, a>>, <<1, c>>>>
    BY StoreTypes
  <2>2. Len(b) = 2 /\ b[1] = <<2, a>> /\ b[2] = <<1, c>>
    BY <2>1
  <2>3. /\ 1..Len(b) = {1, 2}
        /\ \A j \in 1..Len(b) : b[j][1] = 1 => j <= 2
        /\ \A j \in 1..Len(b) : b[j][1] = 2 => j <= 1
    BY <2>2
  <2>4. \A k \in {1, 2} : \A i \in 1..Len(b) :
           b[i][1] = k /\ (\A j \in 1..Len(b) : b[j][1] = k => j <= i)
              => Flushed(h, b)[k] = b[i][2]
    BY FlushedIs
  <2>5. Flushed(h, b)[1] = c /\ Flushed(h, b)[2] = a
    BY <2>2, <2>3, <2>4
  <2> QED
    BY <2>1, <2>5
<1> QED
  BY <1>1, <1>2, <1>3, <1>4

(* Where a longer buffer and the rest of one have their stores. *)
LEMMA BufferLonger ==
    ASSUME NEW b \in Stores, NEW c \in Stores
    PROVE  /\ b \o c \in Stores /\ Len(b) \in Nat /\ Len(c) \in Nat /\ Len(b \o c) = Len(b) + Len(c)
           /\ \A i \in 1..Len(b) : i \in 1..Len(b \o c) /\ (b \o c)[i] = b[i]
           /\ \A i \in 1..Len(c) : Len(b) + i \in 1..Len(b \o c) /\ (b \o c)[Len(b) + i] = c[i]
           /\ \A i \in 1..Len(b \o c) : i \in 1..Len(b) \/ i - Len(b) \in 1..Len(c)
<1>1. /\ b \o c \in Stores /\ Len(b) \in Nat /\ Len(c) \in Nat /\ Len(b \o c) = Len(b) + Len(c)
      /\ \A i \in 1..(Len(b) + Len(c)) : (b \o c)[i] = IF i <= Len(b) THEN b[i] ELSE c[i - Len(b)]
  BY ConcatProperties, LenProperties DEF Stores
<1>2. \A i \in 1..Len(c) :
         Len(b) + i \in 1..(Len(b) + Len(c)) /\ ~(Len(b) + i <= Len(b)) /\ (Len(b) + i) - Len(b) = i
  BY <1>1
<1> QED
  BY <1>1, <1>2

LEMMA BufferRest ==
    ASSUME NEW b \in Stores, b # <<>>
    PROVE  /\ Tail(b) \in Stores /\ Len(b) \in Nat \ {0} /\ Len(Tail(b)) = Len(b) - 1
           /\ Head(b) = b[1] /\ <<b[1]>> \in Stores /\ b = <<b[1]>> \o Tail(b)
           /\ \A i \in 1..Len(Tail(b)) : i + 1 \in 1..Len(b) /\ Tail(b)[i] = b[i + 1]
<1>1. /\ Tail(b) \in Stores /\ Len(b) \in Nat \ {0} /\ Len(Tail(b)) = Len(b) - 1
      /\ Head(b) = b[1]
      /\ \A i \in 1..Len(Tail(b)) : Tail(b)[i] = b[i + 1]
  BY HeadTailProperties, ElementsTail DEF Stores
<1>2. b[1] \in {1, 2} \X Values
  BY <1>1, ElementOfSeq DEF Stores
<1>3. PICK x \in {1, 2} \X Values : x = b[1]
  BY <1>2
<1>4. <<x>> \in Stores /\ b = <<x>> \o Tail(b)
  BY <1>1, <1>3 DEF Stores
<1> QED
  BY <1>1, <1>3, <1>4

(* The step of a reader, which is one of these, and what is visible of its *)
(* stores in the end.                                                      *)
ReaderStep(t) ==
    Quiesce(t) \/ Drain(t) \/ Load(t) \/ Follow(t) \/ Validate(t) \/ Retry(t) \/ Clear(t)

LEMMA FinalSame ==
    ASSUME TypeReader, TypeRing, NEW t \in Threads, Quiesce(t) \/ Drain(t) \/ Validate(t), NEW k \in {1, 2}
    PROVE  Final(t)'[k] = Final(t)[k]
<1>1. hptr[t] \in Pair /\ buffer[t] \in Stores
  BY DEF TypeReader
<1>2. CASE Quiesce(t)
  <2>1. hptr'[t] = Flushed(hptr[t], buffer[t]) /\ buffer'[t] = <<>>
    BY <1>2, QuiesceReads
  <2>2. Flushed(hptr[t], buffer[t]) \in Pair
    BY <1>1, FlushedType
  <2>3. Flushed(Flushed(hptr[t], buffer[t]), <<>>)[k] = Flushed(hptr[t], buffer[t])[k]
    BY <2>2, FlushedFew
  <2> QED
    BY <2>1, <2>3 DEF Final
<1>3. CASE Drain(t)
  <2>1. /\ buffer[t] # <<>> /\ buffer'[t] = Tail(buffer[t])
        /\ hptr'[t] = Flushed(hptr[t], <<buffer[t][1]>>)
    BY <1>1, <1>3, DrainReads, BufferRest
  <2>2. PICK c \in Stores : c = <<buffer[t][1]>>
    BY <1>1, <2>1, BufferRest
  <2>3. Tail(buffer[t]) \in Stores /\ buffer[t] = c \o Tail(buffer[t])
    BY <1>1, <2>1, <2>2, BufferRest
  <2>4. Flushed(hptr[t], c \o Tail(buffer[t]))[k] = Flushed(Flushed(hptr[t], c), Tail(buffer[t]))[k]
    BY <1>1, <2>2, <2>3, FlushedLonger
  <2> QED
    BY <2>1, <2>2, <2>3, <2>4 DEF Final
<1>4. CASE Validate(t)
  <2>1. hptr' = hptr /\ buffer' = buffer
    BY <1>4, ValidateReads
  <2> QED
    BY <2>1 DEF Final
<1> QED
  BY <1>2, <1>3, <1>4

LEMMA FinalStore ==
    ASSUME TypeReader, NEW t \in Threads, NEW c \in Stores,
           hptr' = hptr, buffer'[t] = buffer[t] \o c
    PROVE  \A k \in {1, 2} : Final(t)'[k] = Flushed(Final(t), c)[k]
<1>1. hptr[t] \in Pair /\ buffer[t] \in Stores
  BY DEF TypeReader
<1> QED
  BY <1>1, FlushedLonger DEF Final

LEMMA FinalType ==
    ASSUME TypeReader, NEW t \in Threads
    PROVE  Final(t) \in Pair
BY FlushedType DEF Final, TypeReader

LEMMA StoredStep ==
    ASSUME TypeReader, TypeRing, NEW t \in Threads, Stored(t), ReaderStep(t)
    PROVE  Stored(t)'
<1>1. buffer[t] \in Stores /\ Final(t) \in Pair
  BY FinalType DEF TypeReader
<1>2. CASE Quiesce(t)
  <2>1. \A k \in {1, 2} : Final(t)'[k] = Final(t)[k]
    BY <1>2, FinalSame
  <2>2. /\ UNCHANGED <<cand, using>> /\ buffer'[t] = <<>>
    BY <1>2, QuiesceReads
  <2>3. Len(buffer'[t]) = 0
    BY <2>2
  <2> QED
    BY <2>1, <2>2, <2>3 DEF Stored
<1>3. CASE Drain(t)
  <2>1. \A k \in {1, 2} : Final(t)'[k] = Final(t)[k]
    BY <1>3, FinalSame
  <2>2. /\ UNCHANGED <<cand, using>> /\ buffer[t] # <<>> /\ buffer'[t] = Tail(buffer[t])
    BY <1>3, DrainReads
  <2>3. /\ Len(buffer[t]) \in Nat \ {0} /\ Len(buffer'[t]) = Len(buffer[t]) - 1
        /\ \A i \in 1..Len(buffer'[t]) : buffer'[t][i] = buffer[t][i + 1]
    BY <1>1, <2>2, BufferRest
  <2>4. /\ Len(buffer'[t]) > 0 => /\ Len(buffer[t]) > 0
                                  /\ buffer'[t][Len(buffer'[t])] = buffer[t][Len(buffer[t])]
        /\ Len(buffer'[t]) > 1 => /\ Len(buffer[t]) > 1
                                  /\ buffer'[t][Len(buffer'[t]) - 1] = buffer[t][Len(buffer[t]) - 1]
    <3>0. PICK b, c : b = buffer[t] /\ c = buffer'[t]
      OBVIOUS
    <3>1. PICK m \in Nat : m = Len(c)
      <4>1. Len(buffer'[t]) \in Nat
        BY <2>3
      <4> QED
        BY <3>0, <4>1
    <3>2. Len(b) = m + 1 /\ \A i \in 1..m : c[i] = b[i + 1]
      BY <2>3, <3>0, <3>1
    <3>3. /\ m > 0 => c[m] = b[m + 1]
          /\ m > 1 => m - 1 \in 1..m /\ (m - 1) + 1 = m /\ c[m - 1] = b[m]
      BY <3>2
    <3>4. (m + 1) - 1 = m /\ (m > 0 => m + 1 > 0) /\ (m > 1 => m + 1 > 1)
      OBVIOUS
    <3> QED
      BY <3>0, <3>1, <3>2, <3>3, <3>4
  <2> QED
    BY <2>1, <2>2, <2>4 DEF Stored
<1>4. CASE Load(t) \/ Retry(t)
  <2>1. PICK p \in Values : cand'[t] = p /\ buffer'[t] = buffer[t] \o <<<<1, p>>>>
    <3>1. linked \subseteq Values /\ NULL \in Values
      BY ValueTypes DEF TypeReader
    <3> QED
      BY <1>4, <3>1, LoadReads, RetryReads
  <2>2. hptr' = hptr /\ using' = using /\ using[t] = NULL
    BY <1>4, LoadReads, RetryReads
  <2>3. PICK c \in Stores : c = <<<<1, p>>>>
    BY StoreTypes
  <2>4. Final(t)'[1] = p
    <3>1. \A k \in {1, 2} : Final(t)'[k] = Flushed(Final(t), c)[k]
      BY <2>1, <2>2, <2>3, FinalStore
    <3>2. Flushed(Final(t), c)[1] = p
      BY <1>1, <2>1, <2>3, FlushedFew
    <3> QED
      BY <3>1, <3>2
  <2> QED
    BY <2>1, <2>2, <2>4 DEF Stored
<1>5. CASE Follow(t)
  <2>1. PICK v, w \in Work :
           /\ v = using[t] /\ w = Head(Links[using[t]]) /\ Links[using[t]] # <<>>
           /\ cand'[t] = w
           /\ buffer'[t] = buffer[t] \o <<<<2, v>>, <<1, w>>>>
    BY <1>5, FollowReads
  <2>2. hptr' = hptr /\ using' = using
    BY <1>5, FollowReads
  <2>3. PICK c \in Stores : c = <<<<2, v>>, <<1, w>>>>
    BY <2>1, StoreTypes, ValueTypes
  <2>4. Final(t)'[1] = w /\ Final(t)'[2] = v
    <3>1. \A k \in {1, 2} : Final(t)'[k] = Flushed(Final(t), c)[k]
      BY <2>1, <2>2, <2>3, FinalStore
    <3>2. Flushed(Final(t), c)[1] = w /\ Flushed(Final(t), c)[2] = v
      BY <1>1, <2>1, <2>3, FlushedFew, ValueTypes
    <3> QED
      BY <3>1, <3>2
  <2>5. /\ buffer'[t][Len(buffer'[t])] = <<1, w>>
        /\ buffer'[t][Len(buffer'[t]) - 1] = <<2, v>>
    <3>1. Len(c) = 2 /\ c[1] = <<2, v>> /\ c[2] = <<1, w>>
      BY <2>3
    <3>2. PICK b \in Stores, m \in Nat : b = buffer[t] /\ m = Len(b)
      BY <1>1, BufferLonger
    <3>3. /\ Len(b \o c) = m + 2 /\ (b \o c)[m + 1] = c[1] /\ (b \o c)[m + 2] = c[2]
      <4>1. 1 \in 1..Len(c) /\ 2 \in 1..Len(c)
        BY <3>1
      <4>2. /\ Len(b \o c) = Len(b) + Len(c)
            /\ \A i \in 1..Len(c) : (b \o c)[Len(b) + i] = c[i]
        BY <3>2, BufferLonger
      <4> QED
        BY <3>1, <3>2, <4>1, <4>2
    <3>4. (m + 2) - 1 = m + 1
      OBVIOUS
    <3> QED
      BY <2>1, <2>3, <3>1, <3>2, <3>3, <3>4
  <2>6. using'[t] = v /\ cand'[t] = w /\ w # NULL
    BY <2>1, <2>2, ValueTypes
  <2> QED
    BY <2>1, <2>4, <2>5, <2>6 DEF Stored
<1>6. CASE Validate(t)
  <2>1. Final(t)'[1] = Final(t)[1]
    BY <1>6, FinalSame
  <2>2. cand[t] # NULL /\ cand'[t] = NULL /\ using'[t] = cand[t]
    BY <1>6, ValidateReads
  <2> QED
    BY <2>1, <2>2 DEF Stored
<1>7. CASE Clear(t)
  <2>1. cand' = cand /\ cand[t] = NULL /\ using'[t] = NULL
    BY <1>7, ClearReads
  <2> QED
    BY <2>1 DEF Stored
<1> QED
  BY <1>2, <1>3, <1>4, <1>5, <1>6, <1>7 DEF ReaderStep

-------------------------------------------------------------------------------
(* What links lead to *)

LEMMA ReachesItself == \A u \in Work : Reaches(u, u) /\ ~Reaches(NULL, u)
BY ValueTypes DEF Reaches

LEMMA ChainParts ==
    ASSUME OrderedLinks, NEW v \in Work, NEW i \in 1..Len(Links[v])
    PROVE  /\ InOrder /\ (Type = "fifo" => ~MayExit)
           /\ Links[v] \in Seq(Work) /\ Links[v][i] \in Work
           /\ Elements(Links[Links[v][i]]) \subseteq Elements(Links[v])
           /\ \A j \in 1..Len(Links[v]) :
                 i < j => Links[v][j] \in Elements(Links[Links[v][i]])
<1>1. PICK s \in Seq(Work) : s = Links[v]
  BY FastSmrAssumption
<1>2. Len(s) \in Nat /\ s[i] \in Work
  BY <1>1, ElementsType
<1>3. InOrder /\ ChainLinks /\ (Type = "fifo" => ~MayExit)
  <2>1. Links[v] # <<>>
    BY <1>1, <1>2, ElementsEmpty
  <2> QED
    BY <2>1 DEF OrderedLinks
<1>4. PICK c : c = Links[Links[v][i]]
  OBVIOUS
<1>5. c = SubSeq(s, i + 1, Len(s))
  BY <1>1, <1>3, <1>4 DEF ChainLinks
<1>6. /\ Len(c) = Len(s) - i
      /\ \A k \in 1..(Len(s) - i) : c[k] = s[i + k] /\ i + k \in 1..Len(s)
  BY <1>1, <1>2, <1>5
<1>7. Elements(c) \subseteq Elements(s)
  BY <1>6 DEF Elements
<1>8. ASSUME NEW j \in 1..Len(s), i < j PROVE s[j] \in Elements(c)
  <2>1. j - i \in 1..(Len(s) - i) /\ i + (j - i) = j
    BY <1>1, <1>2, <1>8
  <2> QED
    BY <1>6, <2>1 DEF Elements
<1> QED
  BY <1>1, <1>2, <1>3, <1>4, <1>7, <1>8

(* The next object leads to what the one before it leads to, but itself. *)
LEMMA NextReaches ==
    ASSUME OrderedLinks, NEW v \in Work, NEW u \in Work, Links[v] # <<>>
    PROVE  /\ Reaches(Head(Links[v]), u) => Reaches(v, u)
           /\ Reaches(v, u) /\ v # u => Reaches(Head(Links[v]), u)
<1>1. /\ Links[v] \in Seq(Work) /\ 1 \in 1..Len(Links[v]) /\ Head(Links[v]) = Links[v][1]
      /\ Head(Links[v]) \in Work
  <2>1. Links[v] \in Seq(Work)
    BY FastSmrAssumption
  <2>2. Head(Links[v]) \in Work /\ Head(Links[v]) = Links[v][1] /\ Len(Links[v]) \in Nat \ {0}
    BY <2>1, ElementsTail
  <2> QED
    BY <2>1, <2>2
<1>2. /\ Elements(Links[Head(Links[v])]) \subseteq Elements(Links[v])
      /\ \A j \in 1..Len(Links[v]) :
                 1 < j => Links[v][j] \in Elements(Links[Head(Links[v])])
  BY <1>1, ChainParts
<1>3. Head(Links[v]) \in Elements(Links[v])
  BY <1>1 DEF Elements
<1>4. ASSUME u \in Elements(Links[v]) PROVE Reaches(Head(Links[v]), u)
  <2>1. PICK j \in 1..Len(Links[v]) : Links[v][j] = u
    BY <1>4 DEF Elements
  <2>2. j = 1 \/ 1 < j
    BY <1>1, ElementsType
  <2> QED
    BY <1>1, <1>2, <2>1, <2>2 DEF Reaches
<1> QED
  BY <1>1, <1>2, <1>3, <1>4 DEF Reaches

(* What is still linked leads to no work. *)
LEMMA LinkedReaches ==
    ASSUME LinkedInv, NEW u \in Work, state[u] # "live", NEW p \in linked \union {NULL}
    PROVE  ~Reaches(p, u)
BY ReachesItself DEF LinkedInv, Reaches

(* A thread that has nothing left that leads to u gets nothing new that    *)
(* does.                                                                   *)
LEMMA ReaderAvoids ==
    ASSUME TypeReader, TypeRing, LinkedInv, OrderedLinks, NEW t \in Threads, Stored(t), ReaderStep(t),
           NEW u \in Work, state[u] # "live",
           ~Reaches(hptr[t][1], u),
           \A i \in 1..Len(buffer[t]) : ~Reaches(buffer[t][i][2], u),
           Reaches(using[t], u) => cand[t] # NULL
    PROVE  /\ ~Reaches(hptr'[t][1], u)
           /\ \A i \in 1..Len(buffer'[t]) : ~Reaches(buffer'[t][i][2], u)
           /\ ~Reaches(hptr[t][2], u) => ~Reaches(hptr'[t][2], u)
           /\ Reaches(using'[t], u) =>
                 /\ Reaches(using[t], u) /\ UNCHANGED <<cand, using>>
                 /\ Quiesce(t) \/ Drain(t)
<1>1. hptr[t] \in Pair /\ buffer[t] \in Stores
  BY DEF TypeReader
<1>2. CASE Quiesce(t)
  <2>1. /\ UNCHANGED <<cand, using>> /\ buffer'[t] = <<>>
        /\ hptr'[t] = Flushed(hptr[t], buffer[t])
    BY <1>2, QuiesceReads
  <2>2. \A k \in {1, 2} : \/ hptr'[t][k] = hptr[t][k]
                          \/ \E i \in 1..Len(buffer[t]) : hptr'[t][k] = buffer[t][i][2]
    BY <1>1, <2>1, FlushedAmong
  <2>3. 1..Len(buffer'[t]) = {}
    BY <2>1
  <2> QED
    BY <1>2, <2>1, <2>2, <2>3
<1>3. CASE Drain(t)
  <2>1. /\ UNCHANGED <<cand, using>>
        /\ buffer[t] # <<>> /\ buffer'[t] = Tail(buffer[t])
        /\ hptr'[t] = Flushed(hptr[t], <<buffer[t][1]>>)
    BY <1>1, <1>3, DrainReads, BufferRest
  <2>2. /\ 1 \in 1..Len(buffer[t])
        /\ \A i \in 1..Len(buffer'[t]) : i + 1 \in 1..Len(buffer[t]) /\ buffer'[t][i] = buffer[t][i + 1]
    BY <1>1, <2>1, BufferRest
  <2>3. \A k \in {1, 2} : hptr'[t][k] = hptr[t][k] \/ hptr'[t][k] = buffer[t][1][2]
    <3>1. PICK c \in Stores : c = <<buffer[t][1]>>
      BY <1>1, <2>1, BufferRest
    <3>2. \A i \in 1..Len(c) : c[i] = buffer[t][1]
      BY <3>1
    <3> QED
      BY <1>1, <2>1, <3>1, <3>2, FlushedAmong
  <2> QED
    BY <1>3, <2>1, <2>2, <2>3
<1>4. ASSUME NEW c \in Stores, buffer'[t] = buffer[t] \o c,
             \A i \in 1..Len(c) : ~Reaches(c[i][2], u)
      PROVE  \A i \in 1..Len(buffer'[t]) : ~Reaches(buffer'[t][i][2], u)
  <2> SUFFICES ASSUME NEW i \in 1..Len(buffer'[t]) PROVE ~Reaches(buffer'[t][i][2], u)
    OBVIOUS
  <2>1. /\ \A j \in 1..Len(buffer[t]) : buffer'[t][j] = buffer[t][j]
        /\ \A j \in 1..Len(c) : buffer'[t][Len(buffer[t]) + j] = c[j]
        /\ i \in 1..Len(buffer[t]) \/ i - Len(buffer[t]) \in 1..Len(c)
        /\ Len(buffer[t]) \in Nat /\ i \in Int
    <3>1. PICK b \in Stores : b = buffer[t]
      BY <1>1
    <3>2. /\ Len(b) \in Nat
          /\ \A j \in 1..Len(b) : (b \o c)[j] = b[j]
          /\ \A j \in 1..Len(c) : (b \o c)[Len(b) + j] = c[j]
          /\ \A j \in 1..Len(b \o c) : j \in 1..Len(b) \/ j - Len(b) \in 1..Len(c)
      BY BufferLonger
    <3> QED
      BY <1>4, <3>1, <3>2
  <2>2. i = Len(buffer[t]) + (i - Len(buffer[t]))
    BY <2>1
  <2>3. CASE i \in 1..Len(buffer[t])
    BY <2>1, <2>3
  <2>4. CASE i - Len(buffer[t]) \in 1..Len(c)
    <3>1. buffer'[t][i] = c[i - Len(buffer[t])]
      BY <2>1, <2>2, <2>4
    <3> QED
      BY <1>4, <2>4, <3>1
  <2> QED
    BY <2>1, <2>3, <2>4
<1>5. CASE Load(t) \/ Retry(t)
  <2>1. PICK p \in linked \union {NULL} : buffer'[t] = buffer[t] \o <<<<1, p>>>>
    BY <1>5, LoadReads, RetryReads
  <2>2. hptr' = hptr /\ using' = using /\ using[t] = NULL
    BY <1>5, LoadReads, RetryReads
  <2>3. p \in Values
    BY <2>1, ValueTypes DEF TypeReader
  <2>4. PICK c \in Stores : c = <<<<1, p>>>>
    BY <2>3, StoreTypes
  <2>5. \A i \in 1..Len(c) : c[i][2] = p
    BY <2>4
  <2>6. ~Reaches(p, u)
    BY LinkedReaches
  <2>7. \A i \in 1..Len(buffer'[t]) : ~Reaches(buffer'[t][i][2], u)
    BY <1>4, <2>1, <2>4, <2>5, <2>6
  <2> QED
    BY <2>2, <2>7, ReachesItself
<1>6. CASE Follow(t)
  <2>1. PICK v, w \in Work :
           /\ v = using[t] /\ w = Head(Links[using[t]]) /\ Links[using[t]] # <<>> /\ cand[t] = NULL
           /\ buffer'[t] = buffer[t] \o <<<<2, v>>, <<1, w>>>>
    BY <1>6, FollowReads
  <2>2. hptr' = hptr /\ using' = using
    BY <1>6, FollowReads
  <2>3. PICK c \in Stores : c = <<<<2, v>>, <<1, w>>>>
    BY <2>1, StoreTypes, ValueTypes
  <2>4. \A i \in 1..Len(c) : c[i][2] \in {v, w}
    BY <2>3
  <2>5. ~Reaches(v, u) /\ ~Reaches(w, u)
    BY <2>1, NextReaches
  <2>6. \A i \in 1..Len(buffer'[t]) : ~Reaches(buffer'[t][i][2], u)
    BY <1>4, <2>1, <2>3, <2>4, <2>5
  <2> QED
    BY <2>1, <2>2, <2>5, <2>6
<1>7. CASE Validate(t)
  <2>1. /\ UNCHANGED <<hptr, buffer>> /\ using'[t] = cand[t] /\ cand[t] # NULL
    BY <1>7, ValidateReads
  <2>2. cand[t] = Flushed(hptr[t], buffer[t])[1]
    BY <2>1 DEF Stored, Final
  <2>3. \/ cand[t] = hptr[t][1]
        \/ \E i \in 1..Len(buffer[t]) : cand[t] = buffer[t][i][2]
    BY <1>1, <2>2, FlushedAmong
  <2> QED
    BY <2>1, <2>3
<1>8. CASE Clear(t)
  <2>1. using'[t] = NULL /\ buffer'[t] = buffer[t] \o <<<<1, NULL>>, <<2, NULL>>>> /\ hptr' = hptr
    BY <1>8, ClearReads
  <2>2. PICK c \in Stores : c = <<<<1, NULL>>, <<2, NULL>>>>
    BY StoreTypes, ValueTypes
  <2>3. \A i \in 1..Len(c) : c[i][2] = NULL
    BY <2>2
  <2>4. \A i \in 1..Len(buffer'[t]) : ~Reaches(buffer'[t][i][2], u)
    BY <1>4, <2>1, <2>2, <2>3, ReachesItself
  <2> QED
    BY <2>1, <2>4, ReachesItself
<1> QED
  BY <1>2, <1>3, <1>5, <1>6, <1>7, <1>8 DEF ReaderStep

LEMMA CleanStep ==
    ASSUME TypeReader, TypeRing, LinkedInv, OrderedLinks, NEW t \in Threads, Stored(t), ReaderStep(t),
           NEW u \in Work, state[u] # "live", Clean(t, u)
    PROVE  Clean(t, u)'
BY ReaderAvoids DEF Clean

LEMMA MissedStep ==
    ASSUME TypeReader, TypeRing, LinkedInv, OrderedLinks, NEW t \in Threads, Stored(t), ReaderStep(t),
           NEW u \in Work, state[u] # "live", Missed(t, u)
    PROVE  Missed(t, u)'
<1>1. /\ ~Reaches(hptr'[t][1], u)
      /\ \A i \in 1..Len(buffer'[t]) : ~Reaches(buffer'[t][i][2], u)
      /\ Reaches(using'[t], u) =>
            /\ Reaches(using[t], u) /\ UNCHANGED <<cand, using>>
            /\ Quiesce(t) \/ Drain(t)
  BY ReaderAvoids DEF Missed
<1>2. ASSUME Reaches(using'[t], u)
      PROVE  using'[t] = u /\ cand'[t] # NULL /\ hptr'[t][2] = u /\ buffer'[t] = <<>>
  <2>1. /\ UNCHANGED <<cand, using>>
        /\ using[t] = u /\ cand[t] # NULL /\ hptr[t][2] = u /\ buffer[t] = <<>>
    BY <1>1, <1>2 DEF Missed
  <2>2. hptr'[t] = Flushed(hptr[t], <<>>) /\ buffer'[t] = <<>>
    BY <1>1, <1>2, <2>1, QuiesceReads, DrainReads
  <2>3. hptr'[t][2] = hptr[t][2]
    BY <2>2, FlushedFew DEF TypeReader
  <2> QED
    BY <2>1, <2>2, <2>3
<1> QED
  BY <1>1, <1>2 DEF Missed

(* After a quiesce point the visible hazard pointers cover what t works on. *)
LEMMA CoveredQuiesce ==
    ASSUME TypeReader, TypeRing, NEW t \in Threads, Stored(t), Quiesce(t), NEW u \in Work
    PROVE  Covered(t, u)'
<1>1. /\ UNCHANGED <<cand, using>> /\ buffer'[t] = <<>> /\ hptr'[t] = Final(t)
  BY QuiesceReads DEF Final
<1>2. Len(buffer'[t]) = 0 /\ 1..Len(buffer'[t]) = {}
  BY <1>1
<1>3. Reaches(using'[t], u) =>
         Reaches(hptr'[t][1], u) \/ (cand'[t] # NULL /\ hptr'[t][2] = using'[t])
  <2>1. Reaches(using[t], u) => using[t] # NULL
    BY ReachesItself
  <2> QED
    BY <1>1, <2>1 DEF Stored
<1> QED
  BY <1>1, <1>2, <1>3 DEF Covered

LEMMA CoveredDrain ==
    ASSUME TypeReader, NEW t \in Threads, Stored(t), Drain(t), NEW u \in Work, Covered(t, u)
    PROVE  Covered(t, u)'
<1>1. PICK h \in Pair, b \in Stores : h = hptr[t] /\ b = buffer[t]
  BY DEF TypeReader
<1>2. PICK d \in Stores, g \in Pair : g = hptr'[t] /\ d = buffer'[t]
  BY DrainReads DEF TypeReader
<1>3. /\ UNCHANGED <<cand, using>> /\ b # <<>> /\ d = Tail(b) /\ g = Flushed(h, <<b[1]>>)
  BY <1>1, <1>2, DrainReads, BufferRest
<1>4. /\ Len(b) \in Nat \ {0} /\ Len(d) = Len(b) - 1 /\ 1 \in 1..Len(b)
      /\ \A i \in 1..Len(d) : i + 1 \in 1..Len(b) /\ d[i] = b[i + 1]
  BY <1>1, <1>3, BufferRest
<1>5. /\ b[1][1] = 1 => g[1] = b[1][2] /\ g[2] = h[2]
      /\ b[1][1] # 1 => g[1] = h[1]
  <2>1. PICK c \in Stores : c = <<b[1]>>
    BY <1>3, BufferRest
  <2>2. Len(c) = 1 /\ c[1] = b[1]
    BY <2>1
  <2>3. /\ b[1][1] = 1 => Flushed(h, c)[1] = b[1][2]
        /\ b[1][1] # 1 => Flushed(h, c)[1] = h[1]
        /\ b[1][1] # 2 => Flushed(h, c)[2] = h[2]
    BY <2>2, FlushedIs
  <2> QED
    BY <1>3, <2>1, <2>3
<1>6. /\ \A j \in 1..Len(b) : Reaches(b[j][2], u) =>
            Reaches(h[1], u) /\ \A i \in 1..j : b[i][1] = 1 => Reaches(b[i][2], u)
      /\ Reaches(using[t], u) =>
            \/ /\ Reaches(h[1], u)
               /\ \A i \in 1..Len(b) :
                     b[i][1] = 1 /\ (i = Len(b) => cand[t] = NULL) => Reaches(b[i][2], u)
            \/ b = <<>> /\ cand[t] # NULL /\ h[2] = using[t]
  BY <1>1 DEF Covered
<1>7. ASSUME NEW j \in 1..Len(d), Reaches(d[j][2], u)
      PROVE  Reaches(g[1], u) /\ \A i \in 1..j : d[i][1] = 1 => Reaches(d[i][2], u)
  <2>1. Reaches(h[1], u) /\ \A i \in 1..(j + 1) : b[i][1] = 1 => Reaches(b[i][2], u)
    BY <1>4, <1>6, <1>7
  <2>2. 1 \in 1..(j + 1) /\ \A i \in 1..j : i \in 1..Len(d) /\ i + 1 \in 1..(j + 1)
    BY <1>4
  <2> QED
    BY <1>4, <1>5, <2>1, <2>2
<1>8. ASSUME Reaches(using[t], u)
      PROVE  \/ /\ Reaches(g[1], u)
                /\ \A i \in 1..Len(d) :
                     d[i][1] = 1 /\ (i = Len(d) => cand[t] = NULL) => Reaches(d[i][2], u)
             \/ d = <<>> /\ cand[t] # NULL /\ g[2] = using[t]
  <2>1. /\ Reaches(h[1], u)
        /\ \A i \in 1..Len(b) :
              b[i][1] = 1 /\ (i = Len(b) => cand[t] = NULL) => Reaches(b[i][2], u)
    BY <1>3, <1>6, <1>8
  <2>2. \A i \in 1..Len(d) : d[i][1] = 1 /\ (i = Len(d) => cand[t] = NULL) => Reaches(d[i][2], u)
    <3>1. \A i \in 1..Len(d) : i + 1 = Len(b) <=> i = Len(d)
      BY <1>4
    <3> QED
      BY <1>4, <2>1, <3>1
  <2>3. CASE b[1][1] = 1 /\ 1 = Len(b) /\ cand[t] # NULL
    <3>1. using[t] # NULL
      BY <1>8, ReachesItself
    <3>2. Flushed(h, b)[2] = using[t]
      BY <1>1, <2>3, <3>1 DEF Stored, Final
    <3>3. \A i \in 1..Len(b) : b[i][1] # 2
      <4>1. Len(b) = 1
        BY <2>3
      <4>2. \A i \in 1..1 : i = 1
        OBVIOUS
      <4> QED
        BY <2>3, <4>1, <4>2
    <3>4. h[2] = using[t]
      BY <3>2, <3>3, FlushedIs
    <3>5. d = <<>>
      BY <1>4, <2>3, ElementsEmpty DEF Stores
    <3> QED
      BY <1>5, <2>3, <3>4, <3>5
  <2>4. CASE ~(b[1][1] = 1 /\ 1 = Len(b) /\ cand[t] # NULL)
    <3>1. Reaches(g[1], u)
      BY <1>4, <1>5, <2>1, <2>4
    <3> QED
      BY <2>2, <3>1
  <2> QED
    BY <2>3, <2>4
<1> QED
  BY <1>1, <1>2, <1>3, <1>7, <1>8 DEF Covered

LEMMA CoveredStep ==
    ASSUME TypeReader, TypeRing, LinkedInv, OrderedLinks, NEW t \in Threads, Stored(t), ReaderStep(t),
           NEW u \in Work, state[u] # "live", Covered(t, u)
    PROVE  Covered(t, u)'
<1>1. PICK h \in Pair, b \in Stores : h = hptr[t] /\ b = buffer[t]
  BY DEF TypeReader
<1>2. Len(b) \in Nat
  BY BufferLonger
<1>3. /\ \A j \in 1..Len(b) : Reaches(b[j][2], u) =>
            Reaches(h[1], u) /\ \A i \in 1..j : b[i][1] = 1 => Reaches(b[i][2], u)
      /\ Reaches(using[t], u) =>
            \/ /\ Reaches(h[1], u)
               /\ \A i \in 1..Len(b) :
                     b[i][1] = 1 /\ (i = Len(b) => cand[t] = NULL) => Reaches(b[i][2], u)
            \/ b = <<>> /\ cand[t] # NULL /\ h[2] = using[t]
  BY <1>1 DEF Covered
<1>4. ASSUME NEW c \in Stores, buffer'[t] = b \o c, hptr' = hptr, using'[t] = NULL,
             \A i \in 1..Len(c) : ~Reaches(c[i][2], u)
      PROVE  Covered(t, u)'
  <2>1. PICK d \in Stores : d = b \o c
    BY BufferLonger
  <2>2. /\ \A i \in 1..Len(b) : d[i] = b[i]
        /\ \A i \in 1..Len(d) : i \in 1..Len(b) \/ (i - Len(b) \in 1..Len(c) /\ d[i] = c[i - Len(b)])
    <3>1. /\ \A i \in 1..Len(b) : d[i] = b[i]
          /\ \A i \in 1..Len(c) : d[Len(b) + i] = c[i]
          /\ \A i \in 1..Len(d) : i \in 1..Len(b) \/ i - Len(b) \in 1..Len(c)
      <4>1. /\ \A i \in 1..Len(b) : (b \o c)[i] = b[i]
            /\ \A i \in 1..Len(c) : (b \o c)[Len(b) + i] = c[i]
            /\ \A i \in 1..Len(b \o c) : i \in 1..Len(b) \/ i - Len(b) \in 1..Len(c)
        BY BufferLonger
      <4> QED
        BY <2>1, <4>1
    <3>2. \A i \in Int : Len(b) + (i - Len(b)) = i
      BY <1>2
    <3> QED
      BY <3>1, <3>2
  <2>3. ASSUME NEW j \in 1..Len(d), Reaches(d[j][2], u)
        PROVE  Reaches(h[1], u) /\ \A i \in 1..j : d[i][1] = 1 => Reaches(d[i][2], u)
    <3>1. j \in 1..Len(b)
      BY <1>4, <2>2, <2>3
    <3>2. \A i \in 1..j : i \in 1..Len(b)
      BY <1>2, <3>1
    <3> QED
      BY <1>3, <2>2, <2>3, <3>1, <3>2
  <2> QED
    BY <1>1, <1>4, <2>1, <2>3, ReachesItself DEF Covered
<1>5. CASE Load(t) \/ Retry(t)
  <2>1. PICK p \in linked \union {NULL} : buffer'[t] = b \o <<<<1, p>>>>
    BY <1>1, <1>5, LoadReads, RetryReads
  <2>2. hptr' = hptr /\ using'[t] = NULL
    BY <1>5, LoadReads, RetryReads
  <2>3. PICK c \in Stores : c = <<<<1, p>>>>
    BY StoreTypes, ValueTypes DEF TypeReader
  <2>4. \A i \in 1..Len(c) : c[i][2] = p
    BY <2>3
  <2> QED
    BY <1>4, <2>1, <2>2, <2>3, <2>4, LinkedReaches
<1>6. CASE Clear(t)
  <2>1. using'[t] = NULL /\ buffer'[t] = b \o <<<<1, NULL>>, <<2, NULL>>>> /\ hptr' = hptr
    BY <1>1, <1>6, ClearReads
  <2>2. PICK c \in Stores : c = <<<<1, NULL>>, <<2, NULL>>>>
    BY StoreTypes, ValueTypes
  <2>3. \A i \in 1..Len(c) : c[i][2] = NULL
    BY <2>2
  <2> QED
    BY <1>4, <2>1, <2>2, <2>3, ReachesItself
<1>7. CASE Validate(t)
  <2>1. /\ UNCHANGED <<hptr, buffer>> /\ using'[t] = cand[t] /\ cand[t] # NULL
    BY <1>7, ValidateReads
  <2>2. cand[t] = Flushed(h, b)[1]
    BY <1>1, <2>1 DEF Stored, Final
  <2>3. ASSUME Reaches(cand[t], u)
        PROVE  Reaches(h[1], u) /\ \A i \in 1..Len(b) : b[i][1] = 1 => Reaches(b[i][2], u)
    <3>1. CASE (\A i \in 1..Len(b) : b[i][1] # 1) /\ cand[t] = h[1]
      BY <2>3, <3>1
    <3>2. CASE \E i \in 1..Len(b) :
                  /\ b[i][1] = 1 /\ cand[t] = b[i][2]
                  /\ \A j \in 1..Len(b) : b[j][1] = 1 => j <= i
      <4>1. PICK i \in 1..Len(b) :
                  /\ b[i][1] = 1 /\ cand[t] = b[i][2]
                  /\ \A j \in 1..Len(b) : b[j][1] = 1 => j <= i
        BY <3>2, Zenon
      <4>2. \A j \in 1..Len(b) : b[j][1] = 1 => j \in 1..i
        BY <1>2, <4>1
      <4>3. Reaches(b[i][2], u)
        BY <2>3, <4>1
      <4>4. Reaches(h[1], u) /\ \A j \in 1..i : b[j][1] = 1 => Reaches(b[j][2], u)
        <5>1. \A j \in 1..Len(b) : Reaches(b[j][2], u) =>
                Reaches(h[1], u) /\ \A l \in 1..j : b[l][1] = 1 => Reaches(b[l][2], u)
          BY <1>3
        <5> QED
          BY <4>3, <5>1, Zenon
      <4> QED
        BY <4>2, <4>4
    <3> QED
      BY <2>2, <3>1, <3>2, FlushedValue
  <2> QED
    BY <1>1, <1>3, <2>1, <2>3 DEF Covered
<1>8. CASE Follow(t)
  <2>1. PICK v, w \in Work :
           /\ v = using[t] /\ w = Head(Links[using[t]]) /\ Links[using[t]] # <<>> /\ cand[t] = NULL
           /\ cand'[t] = w
           /\ buffer'[t] = b \o <<<<2, v>>, <<1, w>>>>
    BY <1>1, <1>8, FollowReads
  <2>2. hptr' = hptr /\ using' = using
    BY <1>8, FollowReads
  <2>3. PICK c \in Stores : c = <<<<2, v>>, <<1, w>>>>
    BY <2>1, StoreTypes, ValueTypes
  <2>4. Len(c) = 2 /\ c[1] = <<2, v>> /\ c[2] = <<1, w>>
    BY <2>3
  <2>5. PICK d \in Stores : d = b \o c
    BY BufferLonger
  <2>6. /\ Len(d) = Len(b) + 2 /\ d[Len(b) + 1] = <<2, v>> /\ d[Len(b) + 2] = <<1, w>>
        /\ \A i \in 1..Len(b) : d[i] = b[i]
    <3>1. 1 \in 1..Len(c) /\ 2 \in 1..Len(c)
      BY <2>4
    <3>2. /\ Len(d) = Len(b) + Len(c)
          /\ \A i \in 1..Len(b) : d[i] = b[i]
          /\ \A i \in 1..Len(c) : d[Len(b) + i] = c[i]
      BY <2>5, BufferLonger
    <3> QED
      BY <2>4, <3>1, <3>2
  <2>7. Reaches(v, u) => Reaches(h[1], u) /\ \A i \in 1..Len(b) : b[i][1] = 1 => Reaches(b[i][2], u)
    BY <1>3, <2>1
  <2>8. Reaches(w, u) => Reaches(v, u)
    BY <2>1, NextReaches
  <2>9. ASSUME NEW j \in 1..Len(d), Reaches(d[j][2], u)
        PROVE  Reaches(h[1], u) /\ \A i \in 1..j : d[i][1] = 1 => Reaches(d[i][2], u)
    <3>1. CASE j \in 1..Len(b)
      <4>1. \A i \in 1..j : i \in 1..Len(b)
        BY <1>2, <3>1
      <4> QED
        BY <1>3, <2>6, <2>9, <3>1, <4>1
    <3>2. CASE j = Len(b) + 1 \/ j = Len(b) + 2
      <4>1. Reaches(v, u)
        BY <2>6, <2>8, <2>9, <3>2
      <4>2. j = Len(b) + 2 => Reaches(w, u)
        BY <2>6, <2>9
      <4>3. \A i \in 1..j : \/ i \in 1..Len(b) \/ i = Len(b) + 1
                            \/ i = Len(b) + 2 /\ j = Len(b) + 2
        BY <1>2, <3>2
      <4> QED
        BY <2>6, <2>7, <4>1, <4>2, <4>3
    <3> QED
      BY <1>2, <2>6, <3>1, <3>2
  <2>10. ASSUME Reaches(v, u)
         PROVE  /\ Reaches(h[1], u)
                /\ \A i \in 1..Len(d) :
                      d[i][1] = 1 /\ (i = Len(d) => cand'[t] = NULL) => Reaches(d[i][2], u)
    <3>1. \A i \in 1..Len(d) : \/ i \in 1..Len(b) \/ i = Len(b) + 1
                               \/ i = Len(b) + 2 /\ i = Len(d)
      BY <1>2, <2>6
    <3>2. cand'[t] # NULL
      BY <2>1, ValueTypes
    <3> QED
      BY <2>6, <2>7, <2>10, <3>1, <3>2
  <2> QED
    BY <1>1, <2>1, <2>2, <2>3, <2>5, <2>9, <2>10 DEF Covered
<1> QED
  BY <1>5, <1>6, <1>7, <1>8, CoveredQuiesce, CoveredDrain DEF ReaderStep


-------------------------------------------------------------------------------
(* Hazard pointers *)

LEMMA OthersSame ==
    ASSUME NEW t \in Threads, OthersKeep(t), NEW s \in Threads \ {t}
    PROVE  /\ Stored(s)' <=> Stored(s)
           /\ Cleared(s)' <=> Cleared(s)
           /\ \A u \in Work : /\ Covered(s, u)' <=> Covered(s, u)
                              /\ Clean(s, u)' <=> Clean(s, u)
                              /\ Missed(s, u)' <=> Missed(s, u)
<1>1. /\ hptr'[s] = hptr[s] /\ buffer'[s] = buffer[s]
      /\ cand'[s] = cand[s] /\ using'[s] = using[s]
  BY DEF OthersKeep
<1>2. Stored(s)' <=> Stored(s)
  BY <1>1 DEF Stored, Final
<1>3. Cleared(s)' <=> Cleared(s)
  BY <1>1 DEF Cleared
<1>4. ASSUME NEW u \in Work
      PROVE  /\ Covered(s, u)' <=> Covered(s, u)
             /\ Clean(s, u)' <=> Clean(s, u)
             /\ Missed(s, u)' <=> Missed(s, u)
  <2>1. Covered(s, u)' <=> Covered(s, u)
    BY <1>1 DEF Covered
  <2>2. (Clean(s, u)' <=> Clean(s, u)) /\ (Missed(s, u)' <=> Missed(s, u))
    BY <1>1 DEF Clean, Missed
  <2> QED
    BY <2>1, <2>2
<1> QED
  BY <1>2, <1>3, <1>4

LEMMA ClearedIs ==
    ASSUME NEW t \in Threads, NEW u \in Work, Cleared(t)
    PROVE  Clean(t, u) /\ Covered(t, u)
<1>1. /\ hptr[t][1] = NULL /\ hptr[t][2] = NULL /\ using[t] = NULL
      /\ buffer[t] = <<>> /\ 1..Len(buffer[t]) = {}
  BY DEF Cleared
<1> QED
  BY <1>1, ReachesItself DEF Clean, Covered

LEMMA HazardInit == Init => HazardInv
<1> SUFFICES ASSUME Init PROVE HazardInv
  OBVIOUS
<1>1. /\ linked = Work /\ \A w \in Work : state[w] = "live"
      /\ poll = "scan"
      /\ \A t \in Threads : Cleared(t)
  BY DEF Init, Cleared
<1>2. LinkedInv
  <2>1. \A v \in Work : Elements(Links[v]) \subseteq Work
    BY FastSmrAssumption, ElementsType
  <2> QED
    BY <1>1, <2>1 DEF LinkedInv
<1>3. \A t \in Threads : Stored(t)
  BY <1>1 DEF Cleared, Stored
<1>4. CopyInv
  BY <1>1 DEF CopyInv
<1> QED
  BY <1>1, <1>2, <1>3, <1>4 DEF HazardInv

LEMMA LinkedSame ==
    ASSUME LinkedInv, UNCHANGED <<linked, deferred>>,
           \A w \in Work : state'[w] = "live" <=> state[w] = "live", linked \subseteq Work
    PROVE  LinkedInv'
<1>1. \A v, w : Earlier(v, w)' <=> Earlier(v, w)
  BY DEF Earlier
<1> QED
  BY <1>1 DEF LinkedInv

(* Steps that are not readers' keep hazard pointers, and so what they      *)
(* cover.                                                                  *)
LEMMA HazardSame ==
    ASSUME HazardInv, UNCHANGED <<hptr, buffer, cand, using>>,
           LinkedInv', CopyInv',
           poll' # "done" => poll # "done" /\ Registered \subseteq Registered',
           \A u \in Work, t \in Threads : state'[u] # "live" /\ t \notin waiting'[u] =>
              \/ state[u] # "live" /\ t \notin waiting[u]
              \/ t \notin Registered /\ poll # "done",
           \A u \in Work : state'[u] = "pass2" =>
              state[u] = "pass2" \/ \A t \in Threads : Clean(t, u)
    PROVE  HazardInv'
<1>1. \A t \in Threads : (Stored(t)' <=> Stored(t)) /\ (Cleared(t)' <=> Cleared(t))
  BY DEF Stored, Final, Cleared
<1>2. \A t \in Threads, u \in Work : (Covered(t, u)' <=> Covered(t, u)) /\ (Clean(t, u)' <=> Clean(t, u))
  BY DEF Covered, Clean
<1>3. \A t \in Threads : t \notin Registered' /\ poll' # "done" => Cleared(t)'
  BY <1>1 DEF HazardInv
<1>4. ASSUME NEW u \in Work, state'[u] # "live", NEW t \in Threads, t \notin waiting'[u]
      PROVE  Covered(t, u)'
  BY <1>2, <1>4, ClearedIs DEF HazardInv
<1>5. ASSUME NEW u \in Work, state'[u] = "pass2", NEW t \in Threads
      PROVE  Clean(t, u)'
  BY <1>2, <1>5 DEF HazardInv
<1> QED
  BY <1>1, <1>3, <1>4, <1>5 DEF HazardInv

LEMMA CopySame ==
    ASSUME CopyInv,
           UNCHANGED <<ring, smrNodes, smrQueue, state, toCopy, copied, hptr, buffer, cand, using>>,
           poll' \in {"copy", "mark"} => poll' = poll
    PROVE  CopyInv'
<1>1. Pairs' = Pairs
  BY DEF Pairs
<1>2. \A t \in Threads \union Registered, u \in Work \union Elements(smrQueue) :
         (Missed(t, u)' <=> Missed(t, u)) /\ (Clean(t, u)' <=> Clean(t, u))
  BY DEF Missed, Clean
<1>3. /\ Registered' = Registered
      /\ InPass(Work, "pass2")' = InPass(Work, "pass2")
      /\ \A u \in Elements(smrQueue) : Caught(u)' <=> Caught(u)
      /\ \A t \in Registered : \A k \in {1, 2} : ToBeCopied(t, k)' <=> ToBeCopied(t, k)
  BY DEF Registered, InPass, Caught, ToBeCopied
<1>4. (poll = "copy" => \E k \in 0..Len(Pairs) : toCopy = SubSeq(Pairs, k + 1, Len(Pairs)))
         /\ poll' = poll =>
      (poll' = "copy" => \E k \in 0..Len(Pairs') : toCopy' = SubSeq(Pairs', k + 1, Len(Pairs')))
  BY <1>1
<1> QED
  BY <1>2, <1>3, <1>4 DEF CopyInv

LEMMA HazardReader ==
    ASSUME Placed, HazardInv, OrderedLinks, NEW t \in Threads, ReaderStep(t)
    PROVE  HazardInv'
<1>1. /\ UNCHANGED <<ring, smrNodes, smrQueue, state, poll, toCopy, copied, linked, deferred>>
      /\ \A u \in Work : waiting'[u] \in {waiting[u], waiting[u] \ {t}}
      /\ waiting' = waiting \/ Quiesce(t)
  <2>1. CASE Quiesce(t)
    BY <2>1 DEF Quiesce, ringVars, smrVars, workVars, pollVars
  <2>2. CASE ~Quiesce(t)
    BY <2>2 DEF ReaderStep, Drain, Load, Follow, Validate, Retry, Clear, ringVars, smrVars, workVars,
       pollVars, history
  <2> QED
    BY <2>1, <2>2
<1>2. /\ TypeReader /\ TypeRing /\ LinkedInv /\ Stored(t)
  BY DEF Placed, HazardInv
<1>3. OthersKeep(t)
  BY <1>2, QuiesceReads, DrainReads, LoadReads, FollowReads, ValidateReads, RetryReads, ClearReads
     DEF ReaderStep
<1>4. \A s \in Threads \ {t} :
         /\ Stored(s)' <=> Stored(s)
         /\ Cleared(s)' <=> Cleared(s)
         /\ \A u \in Work : /\ Covered(s, u)' <=> Covered(s, u)
                            /\ Clean(s, u)' <=> Clean(s, u)
                            /\ Missed(s, u)' <=> Missed(s, u)
  BY <1>3, OthersSame
<1>5. LinkedInv'
  BY <1>1, <1>2, LinkedSame DEF TypeReader
<1>6. \A s \in Threads : Stored(s)'
  BY <1>2, <1>4, StoredStep DEF HazardInv
<1>7. \A s \in Threads : s \notin Registered' /\ poll' # "done" => Cleared(s)'
  <2>1. Registered' = Registered
    BY <1>1 DEF Registered
  <2>2. Cleared(t) => t \in Registered
    BY <1>2, QuiesceReads, DrainReads, LoadReads, FollowReads, ValidateReads, RetryReads, ClearReads,
       ValueTypes DEF ReaderStep, Cleared, Quiesce
  <2> QED
    BY <1>1, <1>4, <2>1, <2>2 DEF HazardInv
<1>8. ASSUME NEW u \in Work, state[u] # "live", NEW s \in Threads, s \notin waiting'[u]
      PROVE  Covered(s, u)'
  <2>1. CASE s # t
    <3>1. s \notin waiting[u]
      BY <1>1, <1>8, <2>1
    <3> QED
      BY <1>4, <1>8, <2>1, <3>1 DEF HazardInv
  <2>2. CASE s = t /\ Quiesce(t)
    BY <1>2, <2>2, CoveredQuiesce
  <2>3. CASE s = t /\ ~Quiesce(t)
    <3>1. Covered(t, u)
      BY <1>1, <1>8, <2>3 DEF HazardInv
    <3> QED
      BY <1>2, <1>8, <2>3, <3>1, CoveredStep
  <2> QED
    BY <2>1, <2>2, <2>3
<1>9. ASSUME NEW u \in Work, state[u] # "live", NEW s \in Threads
      PROVE  (Clean(s, u) => Clean(s, u)') /\ (Missed(s, u) => Missed(s, u)')
  BY <1>2, <1>4, <1>9, CleanStep, MissedStep
<1>10. \A u \in Work : state[u] = "pass2" => \A s \in Threads : Clean(s, u)'
  BY <1>9 DEF HazardInv
<1>11. CopyInv'
  <2>1. /\ Registered' = Registered /\ Registered \subseteq Threads
        /\ InPass(Work, "pass2")' = InPass(Work, "pass2")
        /\ Pairs' = Pairs
        /\ \A u \in Work : Caught(u)' <=> Caught(u)
        /\ \A s \in Threads : \A k \in {1, 2} : ToBeCopied(s, k)' <=> ToBeCopied(s, k)
    <3>1. Registered \subseteq Threads
      BY ElementsType DEF Placed, TypeRing, Registered
    <3> QED
      BY <1>1, <3>1 DEF Registered, InPass, Caught, ToBeCopied, Pairs
  <2>2. \A u \in Elements(smrQueue) : u \in Work /\ state[u] # "live"
    BY PlacesAreWork DEF Placed, WherePlaces, SmrPlaces
  <2>3. CopyInv
    BY DEF HazardInv
  <2>4. poll = "copy" => \E k \in 0..Len(Pairs') : toCopy' = SubSeq(Pairs', k + 1, Len(Pairs'))
    BY <1>1, <2>1, <2>3 DEF CopyInv
  <2>5. ASSUME poll \in {"copy", "mark"}, NEW u \in Elements(smrQueue), NEW s \in Registered
        PROVE  /\ ~ToBeCopied(s, 1)' => Caught(u)' \/ Missed(s, u)'
               /\ ~ToBeCopied(s, 2)' => Caught(u)' \/ Clean(s, u)'
    BY <1>9, <2>1, <2>2, <2>3, <2>5 DEF CopyInv
  <2>6. /\ poll = "mark" => toCopy' = <<>>
        /\ poll \in {"copy", "mark"} => copied' \intersect InPass(Work, "pass2")' = {}
    BY <1>1, <2>1, <2>3 DEF CopyInv
  <2> QED
    BY <1>1, <2>1, <2>4, <2>5, <2>6 DEF CopyInv
<1> QED
  BY <1>1, <1>5, <1>6, <1>7, <1>8, <1>10, <1>11 DEF HazardInv

(* Nobody is registered, or waited for, that is not held to quiesce.       *)
LEMMA HazardOther ==
    ASSUME Placed, HazardInv,
           \/ \E w \in Work : Unlink(w)
           \/ Signal \/ Shutdown \/ Shutdown2 \/ ScanStart \/ Idle \/ WaitEnds
           \/ Take \/ Run \/ RunDone
           \/ VisitIdle \/ \E t \in Threads : Acquire(t)
           \/ UNCHANGED vars
    PROVE  HazardInv'
<1>1. /\ UNCHANGED <<hptr, buffer, cand, using, state, waiting, smrQueue, deferred, toCopy, copied>>
      /\ linked' = linked \/ \E w \in Work : Unlink(w)
  <2>1. CASE \/ \E w \in Work : Unlink(w)
             \/ Signal \/ Shutdown \/ Shutdown2 \/ ScanStart \/ Idle \/ WaitEnds
             \/ UNCHANGED vars
    BY <2>1 DEF Unlink, Signal, Shutdown, Shutdown2, ScanStart, Idle, WaitEnds, vars, smrVars, workVars,
       pollVars, readerVars, history
  <2>2. CASE \/ Take \/ Run \/ RunDone
             \/ VisitIdle \/ \E t \in Threads : Acquire(t)
    BY <2>2 DEF Take, Run, RunDone, VisitIdle, Acquire, smrVars, workVars, pollVars, readerVars, history
  <2> QED
    BY <2>1, <2>2
<1>2. LinkedInv'
  <2>1. linked \subseteq Work /\ LinkedInv
    BY DEF Placed, TypeReader, HazardInv
  <2>2. CASE linked' = linked
    BY <1>1, <2>1, <2>2, LinkedSame
  <2>3. CASE \E w \in Work : Unlink(w)
    <3>1. PICK w \in Work : (\A v \in linked : w \notin Elements(Links[v])) /\ linked' = linked \ {w}
      BY <2>3 DEF Unlink
    <3>2. \A v, u : Earlier(v, u)' <=> Earlier(v, u)
      BY <1>1 DEF Earlier
    <3> QED
      BY <1>1, <2>1, <3>1, <3>2 DEF LinkedInv
  <2> QED
    BY <1>1, <2>2, <2>3
<1>3. poll' # "done" => poll # "done" /\ Registered \subseteq Registered'
  <2>1. CASE VisitIdle
    <3>1. poll = "visit" /\ Registered' = Registered
      BY <2>1, RingVisitIdle DEF Placed, VisitIdle
    <3> QED
      BY <3>1
  <2>2. CASE \E t \in Threads : Acquire(t)
    <3>1. \E t \in Threads : Registered' = Registered \union {t}
      BY <2>2, RingAcquire DEF Placed
    <3>2. poll' = poll
      BY <2>2 DEF Acquire
    <3> QED
      BY <3>1, <3>2
  <2>3. CASE Shutdown2
    BY <2>3 DEF Shutdown2
  <2>4. CASE \/ \E w \in Work : Unlink(w)
             \/ Signal \/ Shutdown \/ ScanStart \/ Idle \/ WaitEnds
             \/ Take \/ Run \/ RunDone
             \/ UNCHANGED vars
    <3>1. ring' = ring
      BY <2>4 DEF Unlink, Signal, Shutdown, ScanStart, Idle, WaitEnds, Take, Run, RunDone, vars, ringVars
    <3>2. poll' # "done" => poll # "done"
      BY <2>4 DEF Unlink, Signal, Shutdown, ScanStart, Idle, WaitEnds, Take, Run, RunDone, vars, WakePoll
    <3> QED
      BY <3>1, <3>2 DEF Registered
  <2> QED
    BY <2>1, <2>2, <2>3, <2>4
<1>4. CopyInv'
  <2>1. CASE poll' \notin {"copy", "mark"}
    BY <2>1 DEF CopyInv
  <2>2. CASE poll' \in {"copy", "mark"}
    <3>1. poll' = poll /\ UNCHANGED <<ring, smrNodes>>
      <4>1. CASE (\E w \in Work : Unlink(w)) \/ Signal \/ UNCHANGED vars
        BY <2>2, <4>1 DEF Unlink, Signal, WakePoll, vars, ringVars, smrVars
      <4>2. CASE \/ Shutdown \/ Shutdown2 \/ ScanStart \/ Idle \/ WaitEnds
                 \/ Take \/ Run \/ RunDone
                 \/ VisitIdle \/ \E t \in Threads : Acquire(t)
        <5>1. poll' \notin {"copy", "mark"}
          BY <4>2 DEF Shutdown, Shutdown2, ScanStart, Idle, NextWait, WaitEnds, Take, Run, RunDone,
             VisitIdle, Acquire, WakePoll, Unlocked
        <5> QED
          BY <2>2, <5>1
      <4> QED
        BY <4>1, <4>2
    <3>2. CopyInv
      BY DEF HazardInv
    <3> QED
      BY <1>1, <3>1, <3>2, CopySame
  <2> QED
    BY <2>1, <2>2
<1> QED
  BY <1>1, <1>2, <1>3, <1>4, HazardSame

LEMMA HazardDefer ==
    ASSUME Placed, HazardInv, NEW w \in Work, Defer(w)
    PROVE  HazardInv'
<1>1. /\ UNCHANGED <<hptr, buffer, cand, using, ring, poll, linked>>
      /\ w \notin linked /\ ~rcuStop
      /\ poll \in {"run", "timedwait", "wait", "woken", "done"}
      /\ InOrder => \A v \in Work : w \in Elements(Links[v]) => state[v] # "live"
      /\ waiting' = [v \in Work |-> IF v \in {w} THEN Registered ELSE waiting[v]]
  BY DEF Defer, Unlocked, StartPass, readerVars
<1>2. poll # "done"
  BY <1>1 DEF Placed, Counts
<1>3. /\ state[w] = "live"
      /\ \A v, u : Earlier(v, u) => Earlier(v, u)'
      /\ \A v \in Elements(deferred) : Earlier(v, w)'
      /\ \A v \in Work \ {w} : state'[v] = state[v]
      /\ ring # <<>> => state'[w] = "pass1"
  BY DeferMoves
<1>4. LinkedInv'
  <2>1. LinkedInv /\ linked \subseteq Work
    BY DEF HazardInv, Placed, TypeReader
  <2>2. \A v \in linked : state'[v] = "live"
    BY <1>1, <1>3, <2>1 DEF LinkedInv
  <2>3. ASSUME InOrder, NEW v \in Work, NEW u \in Work, u \in Elements(Links[v]), state'[u] # "live"
        PROVE  Earlier(v, u)'
    <3>1. CASE u = w
      <4>1. v \in Elements(deferred)
        BY <1>1, <2>3, <3>1 DEF Placed, WherePlaces, DeferredPlaces
      <4> QED
        BY <1>3, <3>1, <4>1
    <3>2. CASE u # w
      BY <1>3, <2>1, <2>3, <3>2 DEF LinkedInv
    <3> QED
      BY <3>1, <3>2
  <2> QED
    BY <1>1, <2>1, <2>2, <2>3 DEF LinkedInv
<1>5. CopyInv'
  BY <1>1 DEF CopyInv
<1>6. \A u \in Work, t \in Threads : state'[u] # "live" /\ t \notin waiting'[u] =>
              \/ state[u] # "live" /\ t \notin waiting[u]
              \/ t \notin Registered /\ poll # "done"
  BY <1>1, <1>2, <1>3
<1>7. ASSUME NEW u \in Work, state'[u] = "pass2"
      PROVE  state[u] = "pass2" \/ \A t \in Threads : Clean(t, u)
  <2>1. CASE u = w
    <3>1. Registered = {}
      BY <1>3, <1>7, <2>1, ElementsEmpty DEF Registered
    <3> QED
      BY <1>2, <3>1, ClearedIs DEF HazardInv
  <2>2. CASE u # w
    BY <1>3, <1>7, <2>2
  <2> QED
    BY <2>1, <2>2
<1>8. Registered' = Registered
  BY <1>1 DEF Registered
<1> QED
  BY <1>1, <1>2, <1>4, <1>5, <1>6, <1>7, <1>8, HazardSame

LEMMA HazardVisit ==
    ASSUME Placed, HazardInv, Visit
    PROVE  HazardInv'
<1>1. /\ UNCHANGED <<hptr, buffer, cand, using, linked, deferred, waiting, batch, run>> /\ poll = "visit"
      /\ poll' \in {"smr", "visit"}
  BY DEF Visit, readerVars, pollVars, history
<1>2. PICK n \in Threads : Shift(n) /\ ring' = ring
  BY RingVisit DEF Placed
<1>3. \A w \in Work : state'[w] =
            IF w \in InPass(Elements(queue1[n]), "pass1") THEN "smr" ELSE state[w]
  BY <1>1, <1>2, ShiftMoves DEF Placed
<1>4. \A w \in Work : /\ state'[w] = "live" <=> state[w] = "live"
                      /\ state'[w] = "pass2" => state[w] = "pass2"
  BY <1>3 DEF InPass
<1>5. LinkedInv'
  BY <1>1, <1>4, LinkedSame DEF HazardInv, Placed, TypeReader
<1>6. CopyInv'
  BY <1>1 DEF CopyInv
<1>7. Registered' = Registered
  BY <1>2 DEF Registered
<1> QED
  BY <1>1, <1>4, <1>5, <1>6, <1>7, HazardSame

LEMMA HazardRelease ==
    ASSUME Placed, HazardInv, NEW t \in Threads, Release(t)
    PROVE  HazardInv'
<1>1. /\ t \in Registered /\ UNCHANGED <<linked, deferred, batch, run>>
      /\ poll \in {"run", "timedwait", "wait", "woken", "done"}
      /\ poll' = IF poll \in {"wait", "timedwait"} THEN "woken" ELSE poll
      /\ waiting' = [w \in Work |-> waiting[w] \ {t}]
  BY DEF Release, Unlocked, WakePoll, pollVars
<1>2. /\ OthersKeep(t) /\ Registered' = Registered \ {t}
      /\ hptr'[t] = <<NULL, NULL>> /\ buffer'[t] = <<>>
      /\ cand'[t] = NULL /\ using'[t] = NULL
  BY ReleaseReads, RingRelease DEF Placed
<1>3. \A s \in Threads \ {t} :
         /\ Stored(s)' <=> Stored(s)
         /\ Cleared(s)' <=> Cleared(s)
         /\ \A u \in Work : /\ Covered(s, u)' <=> Covered(s, u)
                            /\ Clean(s, u)' <=> Clean(s, u)
  BY <1>2, OthersSame
<1>4. /\ Cleared(t)' /\ Stored(t)'
      /\ \A u \in Work : Covered(t, u)' /\ Clean(t, u)'
  <2>1. Cleared(t)' /\ Stored(t)'
    BY <1>2 DEF Cleared, Stored
  <2>2. /\ hptr'[t][1] = NULL /\ hptr'[t][2] = NULL /\ 1..Len(buffer'[t]) = {}
    BY <1>2
  <2>3. \A u \in Work : Covered(t, u)' /\ Clean(t, u)'
    BY <1>2, <2>2, ReachesItself DEF Covered, Clean
  <2> QED
    BY <2>1, <2>3
<1>5. /\ \A w \in Work : state'[w] = "live" <=> state[w] = "live"
      /\ \A w \in Work : state'[w] = "pass2" =>
            state[w] = "pass2" \/ \A s \in Threads : s = t \/ (s \notin Registered /\ poll # "done")
  <2>1. CASE Len(ring) > 1
    BY <2>1 DEF Release
  <2>2. CASE ~(Len(ring) > 1)
    <3>1. /\ ring' = <<>> /\ state' = WithState(Elements(Released(t)), "pass2")
          /\ Released(t) = queue0[t] \o smrQueue \o queue1[t]
      BY <2>2 DEF Release, Released
    <3>2. Elements(Released(t)) = OnNode(t) \union Elements(smrQueue)
      <4>1. queue0[t] \in Seq(Work) /\ smrQueue \in Seq(Work) /\ queue1[t] \in Seq(Work)
        BY DEF Placed, TypeWork
      <4>2. /\ queue0[t] \o smrQueue \in Seq(Work)
            /\ Elements(queue0[t] \o smrQueue) = Elements(queue0[t]) \union Elements(smrQueue)
        BY <4>1, ElementsConcat
      <4>3. Elements((queue0[t] \o smrQueue) \o queue1[t]) =
               Elements(queue0[t] \o smrQueue) \union Elements(queue1[t])
        <5>1. PICK c \in Seq(Work) : c = queue0[t] \o smrQueue
          BY <4>2
        <5>2. Elements(c \o queue1[t]) = Elements(c) \union Elements(queue1[t])
          BY <4>1, ElementsConcat
        <5> QED
          BY <5>1, <5>2
      <4> QED
        BY <3>1, <4>2, <4>3 DEF OnNode
    <3>3. \A w \in Elements(Released(t)) : w \in Work /\ state[w] # "live"
      BY <3>2, PlacesAreWork DEF Placed, WherePlaces, RingPlaces, SmrPlaces
    <3>4. \A w \in Work : state'[w] = IF w \in Elements(Released(t)) THEN "pass2" ELSE state[w]
      BY <3>1 DEF WithState
    <3>5. \A s \in Threads : s # t => s \notin Registered
      <4>1. Registered' = {}
        BY <3>1, ElementsEmpty DEF Registered
      <4> QED
        BY <1>2, <4>1
    <3>6. poll = "done" => Elements(Released(t)) = {}
      <4>1. poll = "done" => Len(batch) = 0 /\ Len(run) = Len(deferred)
        BY ElementsEmpty, LenTypes DEF Placed, Counts, TypeCount
      <4>2. poll = "done" => OnNode(t) = {} /\ Elements(smrQueue) = {}
        BY <4>1, RunBound DEF Placed
      <4> QED
        BY <3>2, <4>2
    <3> QED
      BY <3>3, <3>4, <3>5, <3>6
  <2> QED
    BY <2>1, <2>2
<1>6. LinkedInv'
  BY <1>1, <1>5, LinkedSame DEF HazardInv, Placed, TypeReader
<1>7. \A s \in Threads : Stored(s)'
  BY <1>3, <1>4 DEF HazardInv
<1>8. \A s \in Threads : s \notin Registered' /\ poll' # "done" => Cleared(s)'
  BY <1>1, <1>2, <1>3, <1>4 DEF HazardInv
<1>9. \A u \in Work : state'[u] # "live" => \A s \in Threads : s \notin waiting'[u] => Covered(s, u)'
  BY <1>1, <1>3, <1>4, <1>5 DEF HazardInv
<1>10. ASSUME NEW u \in Work, state'[u] = "pass2", NEW s \in Threads PROVE Clean(s, u)'
  <2>1. CASE s = t
    BY <1>4, <2>1
  <2>2. CASE s # t
    <3>1. Clean(s, u)
      BY <1>5, <1>10, <2>2, ClearedIs DEF HazardInv
    <3> QED
      BY <1>3, <2>2, <3>1
  <2> QED
    BY <2>1, <2>2
<1>11. CopyInv'
  BY <1>1 DEF CopyInv
<1> QED
  BY <1>6, <1>7, <1>8, <1>9, <1>10, <1>11 DEF HazardInv

(* What is still to be copied of the pairs: the first of a pair before the *)
(* second.                                                                 *)
LEMMA PairsRest ==
    ASSUME smrNodes \in Seq(Threads), NEW k \in 0..Len(Pairs), NEW r,
           r = SubSeq(Pairs, k + 1, Len(Pairs))
    PROVE  /\ r \in Seq(Threads \X {1, 2})
           /\ \A t \in Threads : <<t, 1>> \in Elements(r) => <<t, 2>> \in Elements(r)
           /\ r # <<>> =>
                 /\ k + 1 \in 0..Len(Pairs)
                 /\ Tail(r) = SubSeq(Pairs, k + 2, Len(Pairs))
<1> DEFINE L == Len(Pairs)
<1>1. /\ Pairs \in Seq(Threads \X {1, 2}) /\ L = 2 * Len(smrNodes) /\ Len(smrNodes) \in Nat
      /\ \A i \in 1..Len(smrNodes) :
            Pairs[2 * i - 1] = <<smrNodes[i], 1>> /\ Pairs[2 * i] = <<smrNodes[i], 2>>
      /\ \A i \in 1..L : \E j \in 1..Len(smrNodes) : i \in {2 * j - 1, 2 * j}
      /\ \A i \in 1..L : Pairs[i] \in Threads \X {1, 2}
  BY PairsValue, ElementsType
<1>2. PICK p \in Seq(Threads \X {1, 2}) : p = Pairs
  BY <1>1
<1> HIDE DEF L
<1>3. k \in Nat /\ L \in Nat /\ k <= L
  BY <1>1 DEF L
<1>4. /\ r \in Seq(Threads \X {1, 2})
      /\ Len(r) = L - k
      /\ \A i \in 1..(L - k) : r[i] = p[k + i]
  <2>1. PICK m \in Int : m = k + 1
    BY <1>3
  <2>2. r = SubSeq(p, m, L) /\ \A i \in m..L : p[i] \in Threads \X {1, 2}
    BY <1>1, <1>2, <1>3, <2>1 DEF L
  <2>3. /\ SubSeq(p, m, L) \in Seq(Threads \X {1, 2})
        /\ Len(SubSeq(p, m, L)) = IF m <= L THEN L - m + 1 ELSE 0
        /\ \A i \in 1..(L - m + 1) : SubSeq(p, m, L)[i] = p[m + i - 1]
    BY <1>3, <2>2, SubSeqProperties
  <2>4. \A i \in 1..(L - k) : i \in 1..(L - m + 1) /\ m + i - 1 = k + i
    BY <1>3, <2>1
  <2>5. Len(r) = L - k
    <3>1. m <= L => L - m + 1 = L - k
      BY <1>3, <2>1
    <3>2. ~(m <= L) => L - k = 0
      BY <1>3, <2>1
    <3> QED
      BY <2>2, <2>3, <3>1, <3>2
  <2>6. ASSUME NEW i \in 1..(L - k) PROVE r[i] = p[k + i]
    <3>1. r[i] = p[m + i - 1]
      BY <2>2, <2>3, <2>4
    <3> QED
      BY <2>4, <3>1
  <2> QED
    BY <2>2, <2>3, <2>5, <2>6
<1>5. ASSUME NEW t \in Threads, <<t, 1>> \in Elements(r) PROVE <<t, 2>> \in Elements(r)
  <2>1. PICK i \in 1..(L - k) : p[k + i] = <<t, 1>>
    BY <1>4, <1>5 DEF Elements
  <2>2. k + i \in 1..L
    BY <1>3
  <2>3. PICK j \in 1..Len(smrNodes) : k + i \in {2 * j - 1, 2 * j}
    BY <1>1, <2>2
  <2>4. p[2 * j] = <<smrNodes[j], 2>> /\ p[2 * j - 1] = <<smrNodes[j], 1>>
    BY <1>1, <1>2
  <2>5. k + i = 2 * j - 1 /\ smrNodes[j] = t
    <3>1. k + i # 2 * j
      <4>1. p[k + i] # p[2 * j]
        <5>1. <<t, 1>> # <<smrNodes[j], 2>>
          OBVIOUS
        <5> QED
          BY <2>1, <2>4, <5>1
      <4> QED
        BY <4>1
    <3>2. k + i = 2 * j - 1
      BY <2>3, <3>1
    <3>3. <<t, 1>> = <<smrNodes[j], 1>>
      <4>1. p[k + i] = p[2 * j - 1]
        BY <3>2
      <4> QED
        BY <2>1, <2>4, <4>1
    <3> QED
      BY <3>2, <3>3
  <2>6. i + 1 \in 1..(L - k) /\ k + (i + 1) = 2 * j
    BY <1>1, <1>3, <2>5 DEF L
  <2>7. r[i + 1] = <<t, 2>>
    BY <1>4, <2>4, <2>5, <2>6
  <2> QED
    BY <1>4, <2>6, <2>7 DEF Elements
<1>6. ASSUME r # <<>>
      PROVE  k + 1 \in 0..L /\ Tail(r) = SubSeq(p, k + 2, L)
  <2>1. k + 1 \in 1..L
    BY <1>3, <1>4, <1>6, ElementsEmpty
  <2>2. Tail(SubSeq(p, k + 1, L)) = SubSeq(p, (k + 1) + 1, L)
    BY <1>2, <1>3, <2>1, HeadTailOfSubSeq DEF L
  <2>3. (k + 1) + 1 = k + 2
    BY <1>3
  <2> QED
    BY <1>2, <1>3, <2>1, <2>2, <2>3 DEF L
<1> QED
  BY <1>2, <1>4, <1>5, <1>6 DEF L

(* Every registered thread has its pair copied. *)
LEMMA PairsAll ==
    ASSUME Placed, poll # "done", NEW t \in Registered, NEW k \in {1, 2}
    PROVE  <<t, k>> \in Elements(Pairs)
<1>1. smrNodes \in Seq(Threads) /\ Elements(smrNodes) = Registered
  BY DEF Placed, TypeRing, RingShape
<1>2. PICK i \in 1..Len(smrNodes) : smrNodes[i] = t
  BY <1>1 DEF Elements
<1>3. /\ Pairs[2 * i - 1] = <<t, 1>> /\ Pairs[2 * i] = <<t, 2>> /\ Len(Pairs) = 2 * Len(smrNodes)
      /\ Len(smrNodes) \in Nat
  BY <1>1, <1>2, PairsValue, ElementsType
<1>4. 2 * i - 1 \in 1..Len(Pairs) /\ 2 * i \in 1..Len(Pairs)
  BY <1>3
<1> QED
  BY <1>3, <1>4 DEF Elements

LEMMA HazardStart ==
    ASSUME Placed, HazardInv, SmrStart
    PROVE  HazardInv'
<1>1. /\ UNCHANGED <<hptr, buffer, cand, using, linked, deferred, state, waiting, ring, smrNodes, smrQueue>>
      /\ poll = "smr" /\ copied' = {}
      /\ poll' = "ready" \/ (poll' = "copy" /\ toCopy' = Pairs)
  BY DEF SmrStart, readerVars, workVars, smrVars, ringVars, history
<1>2. LinkedInv'
  BY <1>1, LinkedSame DEF HazardInv, Placed, TypeReader
<1>3. CopyInv'
  <2>1. CASE poll' = "ready"
    BY <2>1 DEF CopyInv
  <2>2. CASE poll' = "copy" /\ toCopy' = Pairs
    <3>1. Pairs' = Pairs /\ Registered' = Registered
      BY <1>1 DEF Pairs, Registered
    <3>2. \E k \in 0..Len(Pairs') : toCopy' = SubSeq(Pairs', k + 1, Len(Pairs'))
      <4>1. Pairs \in Seq(Threads \X {1, 2}) /\ Len(Pairs) \in Nat
        BY PairsValue, LenProperties DEF Placed, TypeRing
      <4>2. SubSeq(Pairs, 0 + 1, Len(Pairs)) = Pairs /\ 0 \in 0..Len(Pairs)
        BY <4>1, SubSeqFull
      <4> QED
        BY <2>2, <3>1, <4>2
    <3>3. \A t \in Registered' : \A k \in {1, 2} : ToBeCopied(t, k)'
      BY <1>1, <2>2, <3>1, PairsAll DEF ToBeCopied
    <3> QED
      BY <1>1, <2>2, <3>2, <3>3 DEF CopyInv
  <2> QED
    BY <1>1, <2>1, <2>2
<1>4. Registered' = Registered
  BY <1>1 DEF Registered
<1> QED
  BY <1>1, <1>2, <1>3, <1>4, HazardSame

LEMMA HazardCopy ==
    ASSUME Placed, GraceInv, HazardInv, OrderedLinks, Copy
    PROVE  HazardInv'
<1>1. /\ UNCHANGED <<hptr, buffer, cand, using, linked, deferred, state, waiting, ring, smrNodes, smrQueue>>
      /\ poll = "copy"
  BY DEF Copy, readerVars, workVars, smrVars, ringVars, history
<1>2. LinkedInv'
  BY <1>1, LinkedSame DEF HazardInv, Placed, TypeReader
<1>3. /\ Pairs' = Pairs /\ Registered' = Registered /\ Registered \subseteq Threads
      /\ InPass(Work, "pass2")' = InPass(Work, "pass2")
  <2>1. Registered \subseteq Threads
    BY ElementsType DEF Placed, TypeRing, Registered
  <2> QED
    BY <1>1, <2>1 DEF Pairs, Registered, InPass
<1>4. CopyInv
  BY DEF HazardInv
<1>5. CASE toCopy = <<>>
  <2>1. poll' = "mark" /\ toCopy' = toCopy /\ copied' = copied
    BY <1>5 DEF Copy
  <2>2. /\ \A u \in Elements(smrQueue) : Caught(u)' <=> Caught(u)
        /\ \A t \in Registered : \A k \in {1, 2} : ToBeCopied(t, k)' <=> ToBeCopied(t, k)
        /\ \A t \in Registered, u \in Elements(smrQueue) :
              (Missed(t, u)' <=> Missed(t, u)) /\ (Clean(t, u)' <=> Clean(t, u))
    BY <1>1, <2>1 DEF Caught, ToBeCopied, Missed, Clean
  <2>3. CopyInv'
    BY <1>1, <1>3, <1>4, <1>5, <2>1, <2>2 DEF CopyInv
  <2> QED
    BY <1>1, <1>2, <1>3, <2>3, HazardSame
<1>6. CASE toCopy # <<>>
  <2>1. PICK s \in Threads, l \in {1, 2} :
           /\ Head(toCopy) = <<s, l>>
           /\ Elements(toCopy) = {<<s, l>>} \union Elements(Tail(toCopy))
    BY <1>6, ElementsTail DEF Placed, TypeScan
  <2>2. /\ copied' = copied \union {hptr[s][l]} /\ toCopy' = Tail(toCopy) /\ poll' = "copy"
    BY <1>1, <1>6, <2>1 DEF Copy
  <2>3. PICK k \in 0..Len(Pairs) : toCopy = SubSeq(Pairs, k + 1, Len(Pairs))
    BY <1>1, <1>4 DEF CopyInv
  <2>4. smrNodes \in Seq(Threads)
    BY DEF Placed, TypeRing
  <2>5. k + 1 \in 0..Len(Pairs) /\ toCopy' = SubSeq(Pairs, (k + 1) + 1, Len(Pairs))
    <3>1. k + 1 \in 0..Len(Pairs) /\ Tail(toCopy) = SubSeq(Pairs, k + 2, Len(Pairs))
      BY <1>6, <2>3, <2>4, PairsRest
    <3>2. k + 2 = (k + 1) + 1
      OBVIOUS
    <3> QED
      BY <2>2, <3>1, <3>2
  <2>6. \A t \in Threads : ToBeCopied(t, 1)' => ToBeCopied(t, 2)'
    BY <2>4, <2>5, PairsRest DEF ToBeCopied
  <2>7. \A t \in Threads, j \in {1, 2} :
            ToBeCopied(t, j) => ToBeCopied(t, j)' \/ (t = s /\ j = l)
    BY <2>1, <2>2 DEF ToBeCopied
  <2>8. copied' \intersect InPass(Work, "pass2") = {}
    <3>1. ASSUME NEW v \in InPass(Work, "pass2"), v = hptr[s][l] PROVE FALSE
      <4>1. Clean(s, v) /\ Reaches(v, v)
        BY <3>1, ReachesItself DEF InPass, HazardInv
      <4> QED
        BY <3>1, <4>1 DEF Clean
    <3> QED
      BY <1>1, <1>4, <2>2, <3>1 DEF CopyInv
  <2>9. \A u \in Elements(smrQueue) : Caught(u) \/ Reaches(hptr[s][l], u) => Caught(u)'
    <3>1. Links' = Links
      OBVIOUS
    <3> QED
      BY <2>2, <3>1 DEF Caught
  <2>10. ASSUME NEW u \in Elements(smrQueue), NEW t \in Registered
         PROVE  /\ ~ToBeCopied(t, 1)' => Caught(u)' \/ Missed(t, u)
                /\ ~ToBeCopied(t, 2)' => Caught(u)' \/ Clean(t, u)
    <3>1. u \in Work /\ state[u] = "smr"
      BY PlacesAreWork DEF Placed, WherePlaces, SmrPlaces
    <3>2. Covered(t, u)
      <4>1. waiting[u] = {}
        BY <3>1 DEF GraceInv, Placed, WherePlaces, RingPlaces
      <4> QED
        BY <1>3, <3>1, <4>1 DEF HazardInv
    <3>3. hptr[t] \in Pair /\ Stored(t) /\ using[t] \in Values
      BY <1>3 DEF HazardInv, Placed, TypeReader
    <3>4. /\ ~ToBeCopied(t, 1) => Caught(u) \/ Missed(t, u)
          /\ ~ToBeCopied(t, 2) => Caught(u) \/ Clean(t, u)
      BY <1>1, <1>4 DEF CopyInv
    <3>5. ASSUME ~Reaches(hptr[t][1], u) PROVE Missed(t, u)
      <4>1. \A i \in 1..Len(buffer[t]) : ~Reaches(buffer[t][i][2], u)
        BY <3>2, <3>5 DEF Covered
      <4>2. ASSUME Reaches(using[t], u)
            PROVE  using[t] = u /\ cand[t] # NULL /\ hptr[t][2] = u /\ buffer[t] = <<>>
        <5>1. buffer[t] = <<>> /\ cand[t] # NULL /\ hptr[t][2] = using[t]
          BY <3>2, <3>5, <4>2 DEF Covered
        <5>2. using[t] \in Work /\ using[t] # NULL
          BY <3>1, <3>3, <4>2, ReachesItself DEF Values
        <5>3. Links[using[t]] # <<>> /\ cand[t] = Head(Links[using[t]])
          BY <3>3, <5>1, <5>2 DEF Stored
        <5>4. cand[t] = hptr[t][1]
          BY <3>3, <5>1, FlushedFew DEF Stored, Final
        <5>5. using[t] = u
          BY <3>1, <3>5, <4>2, <5>2, <5>3, <5>4, NextReaches
        <5> QED
          BY <5>1, <5>5
      <4> QED
        BY <3>5, <4>1, <4>2 DEF Missed
    <3>6. ASSUME Missed(t, u), ~Reaches(hptr[t][2], u) PROVE Clean(t, u)
      BY <3>1, <3>6, ReachesItself DEF Missed, Clean
    <3>7. ASSUME ~ToBeCopied(t, 1)' PROVE Caught(u)' \/ Missed(t, u)
      <4>1. ~ToBeCopied(t, 1) \/ (t = s /\ l = 1)
        BY <1>3, <2>7, <3>7
      <4> QED
        BY <2>9, <3>4, <3>5, <4>1
    <3>8. ASSUME ~ToBeCopied(t, 2)' PROVE Caught(u)' \/ Clean(t, u)
      <4>1. CASE ~ToBeCopied(t, 2)
        BY <2>9, <3>4, <4>1
      <4>2. CASE t = s /\ l = 2
        <5>1. ~ToBeCopied(t, 1)
          BY <1>3, <2>6, <2>7, <3>8, <4>2
        <5> QED
          BY <2>9, <3>4, <3>6, <4>2, <5>1
      <4> QED
        BY <1>3, <2>7, <3>8, <4>1, <4>2
    <3> QED
      BY <3>7, <3>8
  <2>11. CopyInv'
    <3>1. \A t \in Registered, u \in Elements(smrQueue) :
              (Missed(t, u)' <=> Missed(t, u)) /\ (Clean(t, u)' <=> Clean(t, u))
      BY <1>1 DEF Missed, Clean
    <3>2. \E j \in 0..Len(Pairs') : toCopy' = SubSeq(Pairs', j + 1, Len(Pairs'))
      BY <1>3, <2>5
    <3> QED
      BY <1>1, <1>3, <2>2, <2>8, <2>10, <3>1, <3>2 DEF CopyInv
  <2> QED
    BY <1>1, <1>2, <1>3, <2>2, <2>11, HazardSame
<1> QED
  BY <1>5, <1>6

(* What a copied hazard pointer leads to stays on the smr queue: what      *)
(* leads to it was deferred before it, and so it waits there as well, with *)
(* type fifo further ahead.                                                *)
LEMMA CaughtIsHeld ==
    ASSUME Placed, PassOrder, HazardInv, OrderedLinks, poll = "mark",
           Type = "fifo" /\ ~MayExit => Along(smrQueue, Orderly),
           NEW u \in Elements(smrQueue), Caught(u)
    PROVE  u \in Held
<1>1. /\ smrQueue \in Seq(Work) /\ u \in Work /\ state[u] = "smr"
      /\ deferred \in Seq(Work) /\ Distinct(deferred)
  BY PlacesAreWork DEF Placed, WherePlaces, SmrPlaces, DeferredPlaces, TypeWork
<1>2. PICK x \in Work : x \in copied /\ Reaches(x, u)
  BY DEF Caught, Reaches
<1>3. PICK b \in 1..Len(smrQueue) : smrQueue[b] = u
  BY DEF Elements
<1>4. b \in 1..b
  BY <1>1, ElementsType
<1>5. Held = IF Type = "fifo"
             THEN {smrQueue[i] : i \in {i \in 1..Len(smrQueue) :
                                  \E j \in 1..i : smrQueue[j] \in copied}}
             ELSE Referenced \union UNION {Traced(w) : w \in Referenced}
  BY DEF Held
<1>6. CASE x = u
  <2>1. u \in Referenced
    BY <1>2, <1>6 DEF Referenced
  <2>2. \E j \in 1..b : smrQueue[j] \in copied
    BY <1>2, <1>3, <1>4, <1>6
  <2>3. Type = "fifo" => u \in Held
    BY <1>3, <1>5, <2>2
  <2> QED
    BY <1>5, <2>1, <2>3
<1>7. CASE x # u
  <2>1. PICK i \in 1..Len(Links[x]) : Links[x][i] = u
    BY <1>2, <1>7 DEF Reaches, Elements
  <2>2. InOrder /\ (Type = "fifo" => ~MayExit)
    BY <2>1, ChainParts
  <2>3. \A v \in Work : u \in Elements(Links[v]) => Earlier(v, u) /\ state[v] # "live"
    <3>1. \A v \in Work : u \in Elements(Links[v]) => Earlier(v, u)
      BY <1>1, <2>2 DEF HazardInv, LinkedInv
    <3>2. \A v \in Work : Earlier(v, u) => v \in Elements(deferred)
      BY DEF Earlier, Elements
    <3>3. \A v \in Work : v \in Elements(deferred) => state[v] # "live"
      BY DEF Placed, WherePlaces, DeferredPlaces
    <3> QED
      BY <3>1, <3>2, <3>3
  <2>4. Earlier(x, u) /\ state[x] # "live"
    BY <1>2, <1>7, <2>3 DEF Reaches
  <2>5. ~Earlier(u, x)
    BY <1>1, <2>4, EarlierOneWay
  <2>6. state[x] = "smr"
    <3>1. state[x] # "pass1"
      BY <1>1, <2>5 DEF PassOrder
    <3>2. state[x] # "pass2"
      BY <1>2 DEF HazardInv, CopyInv, InPass
    <3>3. state[x] \in {"live", "pass1", "smr", "pass2"}
      BY DEF Placed, TypeWork
    <3> QED
      BY <2>4, <3>1, <3>2, <3>3
  <2>7. x \in Elements(smrQueue)
    BY <2>6 DEF Placed, WherePlaces, SmrPlaces
  <2>8. CASE Type = "fifo"
    <3>1. PICK a \in 1..Len(smrQueue) : smrQueue[a] = x
      BY <2>7 DEF Elements
    <3>2. ~(b < a)
      <4>1. b < a => <<u, x>> \in Orderly
        BY <1>3, <2>2, <2>8, <3>1 DEF Along
      <4> QED
        BY <1>1, <2>5, <2>6, <4>1 DEF Orderly
    <3>3. a \in 1..b
      BY <3>2
    <3>4. \E j \in 1..b : smrQueue[j] \in copied
      BY <1>2, <3>1, <3>3
    <3> QED
      BY <1>3, <1>5, <2>8, <3>4
  <2>9. CASE Type # "fifo"
    <3>1. x \in Referenced
      BY <1>2, <2>7 DEF Referenced
    <3>2. ASSUME NEW j \in 1..i PROVE state[Links[x][j]] # "live"
      <4>1. CASE j = i
        BY <1>1, <2>1, <4>1
      <4>2. CASE j < i
        <5>1. j \in 1..Len(Links[x])
          <6>1. Len(Links[x]) \in Nat
            BY FastSmrAssumption, ElementsType
          <6> QED
            BY <6>1
        <5>2. Links[x][j] \in Work /\ u \in Elements(Links[Links[x][j]])
          BY <2>1, <4>2, <5>1, ChainParts
        <5> QED
          BY <2>3, <5>2
      <4> QED
        BY <4>1, <4>2
    <3>3. u \in Traced(x)
      BY <2>1, <3>2 DEF Traced
    <3> QED
      BY <1>5, <2>9, <3>1, <3>3
  <2> QED
    BY <2>8, <2>9
<1> QED
  BY <1>6, <1>7

LEMMA HazardMark ==
    ASSUME Placed, PassOrder, HazardInv, OrderedLinks,
           Type = "fifo" /\ ~MayExit => Along(smrQueue, Orderly), Mark
    PROVE  HazardInv'
<1>1. /\ UNCHANGED <<hptr, buffer, cand, using, linked>> /\ poll = "mark" /\ poll' = "ready"
      /\ waiting' = [w \in Work |-> IF w \in Elements(Only(smrQueue, Work \ Held))
                                    THEN Registered ELSE waiting[w]]
  BY DEF Mark, StartPass, readerVars
<1>2. PICK f \in Seq(Work) :
         /\ f = Only(smrQueue, Work \ Held)
         /\ Elements(f) = Elements(smrQueue) \ Held
         /\ UNCHANGED <<ring, deferred>>
         /\ \A w \in Work : state'[w] = IF w \in Elements(f) THEN "pass2" ELSE state[w]
  BY MarkMoves
<1>3. \A w \in Elements(f) : w \in Work /\ state[w] = "smr"
  BY <1>2, PlacesAreWork DEF Placed, WherePlaces, SmrPlaces
<1>4. ASSUME NEW u \in Elements(f), NEW t \in Threads PROVE Clean(t, u)
  <2>1. ~Caught(u) /\ u \in Elements(smrQueue)
    BY <1>1, <1>2, CaughtIsHeld
  <2>2. CASE t \in Registered
    <3>1. ~ToBeCopied(t, 2)
      <4>1. toCopy = <<>>
        BY <1>1 DEF HazardInv, CopyInv
      <4> QED
        BY <4>1, ElementsEmpty DEF ToBeCopied
    <3> QED
      BY <1>1, <2>1, <2>2, <3>1 DEF HazardInv, CopyInv
  <2>3. CASE t \notin Registered
    BY <1>1, <1>3, <2>3, ClearedIs DEF HazardInv
  <2> QED
    BY <2>2, <2>3
<1>5. LinkedInv'
  BY <1>1, <1>2, <1>3, LinkedSame DEF HazardInv, Placed, TypeReader
<1>6. CopyInv'
  BY <1>1 DEF CopyInv
<1>7. Registered' = Registered
  BY <1>2 DEF Registered
<1>8. \A u \in Work, t \in Threads : state'[u] # "live" /\ t \notin waiting'[u] =>
              \/ state[u] # "live" /\ t \notin waiting[u]
              \/ t \notin Registered /\ poll # "done"
  BY <1>1, <1>2, <1>3
<1>9. \A u \in Work : state'[u] = "pass2" =>
              state[u] = "pass2" \/ \A t \in Threads : Clean(t, u)
  BY <1>2, <1>4
<1> QED
  BY <1>1, <1>5, <1>6, <1>7, <1>8, <1>9, HazardSame

LEMMA HazardStep ==
    ASSUME Placed, GraceInv, PassOrder, HazardInv, OrderedLinks, [Next]_vars,
           Type = "fifo" /\ ~MayExit => Along(smrQueue, Orderly)
    PROVE  HazardInv'
<1>1. CASE \E t \in Threads : \/ Quiesce(t) \/ Drain(t)
                              \/ Load(t) \/ Follow(t) \/ Validate(t) \/ Retry(t) \/ Clear(t)
  BY <1>1, HazardReader DEF ReaderStep
<1>2. CASE \E t \in Threads : Release(t)
  BY <1>2, HazardRelease
<1>3. CASE \E w \in Work : Defer(w)
  BY <1>3, HazardDefer
<1>4. CASE \/ \E w \in Work : Unlink(w)
           \/ Signal \/ Shutdown \/ Shutdown2 \/ ScanStart \/ Idle \/ WaitEnds
           \/ Take \/ Run \/ RunDone
           \/ VisitIdle \/ \E t \in Threads : Acquire(t)
           \/ UNCHANGED vars
  BY <1>4, HazardOther
<1>5. CASE Visit \/ SmrStart \/ Copy \/ Mark
  BY <1>5, HazardVisit, HazardStart, HazardCopy, HazardMark
<1> QED
  BY <1>1, <1>2, <1>3, <1>4, <1>5, NextCases

(* Once every thread has quiesced, the hazard pointers that are visible    *)
(* cover all that readers may still do with work on the smr queue, and     *)
(* when the scan has found none of them nothing leads to the work: if exits *)
(* keep the grace period, and links lead from what is deferred first.      *)
THEOREM HazardInvariance == ExitsOfTwo /\ OrderedLinks => (Spec => []HazardInv)
<1> SUFFICES ASSUME ExitsOfTwo, OrderedLinks PROVE Spec => []HazardInv
  OBVIOUS
<1> DEFINE Ordered == Type = "fifo" /\ ~MayExit => Along(smrQueue, Orderly)
<1>1. Spec => []Ordered
  <2>1. CASE Type = "fifo" /\ ~MayExit
    <3>1. Spec => [](QueueOrder /\ FifoInv)
      BY <2>1, FifoInvariance
    <3>2. QueueOrder /\ FifoInv => Ordered
      BY DEF QueueOrder
    <3> QED
      BY <3>1, <3>2, PTL
  <2>2. CASE ~(Type = "fifo" /\ ~MayExit)
    <3>1. Ordered
      BY <2>2
    <3> QED
      BY <3>1, PTL
  <2> QED
    BY <2>1, <2>2
<1>2. PlaceInv /\ GraceInv /\ PassOrder /\ Ordered /\ HazardInv /\ [Next]_vars => HazardInv'
  BY HazardStep, PlacedIsPlaceInv
<1>3. Spec => []GraceInv
  BY GraceInvariance
<1>4. Spec => []PassOrder
  BY PassInvariance
<1> HIDE DEF Ordered
<1> QED
  BY <1>1, <1>2, <1>3, <1>4, HazardInit, PlacesInvariant, PTL DEF Spec

(* A reader never works on an object that was given to its function,       *)
(* whatever is left in store buffers (smrload, smr_scan): for exits of at  *)
(* most two threads, and links in the order of defers.                     *)
THEOREM HazardKept == ExitsOfTwo /\ OrderedLinks => (Spec => []HazardSafe)
<1> SUFFICES ASSUME ExitsOfTwo, OrderedLinks PROVE Spec => []HazardSafe
  OBVIOUS
<1>1. PlaceInv /\ HazardInv => HazardSafe
  <2> SUFFICES ASSUME Placed, HazardInv, NEW t \in Threads, using[t] # NULL,
                      using[t] \in Elements(run)
               PROVE  FALSE
    BY PlacedIsPlaceInv DEF HazardSafe
  <2>1. PICK u \in Work : u = using[t]
    BY PlacesAreWork DEF Placed
  <2>2. state[u] = "pass2"
    BY <2>1 DEF Placed, WherePlaces, ReadyPlaces, Ready
  <2>3. Clean(t, u)
    BY <2>2 DEF HazardInv
  <2> QED
    BY <2>1, <2>3, ReachesItself DEF Clean
<1>2. Spec => []HazardInv
  BY HazardInvariance
<1> QED
  BY <1>1, <1>2, PlacesInvariant, PTL

===============================================================================
