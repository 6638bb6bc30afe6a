--------------------------- MODULE AtomicPtrProofs ---------------------------
(***************************************************************************)
(* Proofs about the reference counts of AtomicPtr.tla, for any number of   *)
(* threads, shared pointers, objects and calls.                            *)
(***************************************************************************)
EXTENDS AtomicPtrInv, FiniteSetTheorems, TLAPS

-------------------------------------------------------------------------------
(* Counting.  The sets that the counts of an object stand for are made     *)
(* from functions on the holders of pointers; what changes at one holder   *)
(* changes them by what that holder contributes.                           *)
Is(p, r) == IF p = r THEN 1 ELSE 0
Share(d, r) == IF d.ptr = r THEN d.ecount ELSE 0

Where(H, f, r) == {h \in H : f[h] = r}
Naming(H, d, r) == {h \in H : d[h].ptr = r}
Readings(H, d, r) == UNION {{h} \X (1..d[h].ecount) : h \in Naming(H, d, r)}

(* One holder counts for itself and the rest is as if it were not there.   *)
LEMMA CountWhere ==
    ASSUME NEW H, IsFiniteSet(H), NEW f, NEW r, NEW x \in H
    PROVE  /\ IsFiniteSet(Where(H, f, r))
           /\ Cardinality(Where(H, f, r)) \in Nat
           /\ Cardinality(Where(H \ {x}, f, r)) \in Nat
           /\ Cardinality(Where(H, f, r)) = Cardinality(Where(H \ {x}, f, r)) + Is(f[x], r)
<1> DEFINE W == Where(H, f, r)  V == Where(H \ {x}, f, r)
<1>1. IsFiniteSet(W) /\ IsFiniteSet(V)
  BY FS_Subset, W \subseteq H, V \subseteq H DEF Where
<1>2. Cardinality(W) \in Nat /\ Cardinality(V) \in Nat
  BY <1>1, FS_CardinalityType
<1>3. CASE f[x] = r
  <2>1. W = V \union {x} /\ x \notin V
    BY <1>3 DEF Where
  <2> QED
    BY <2>1, <1>1, <1>2, <1>3, FS_AddElement DEF Is
<1>4. CASE f[x] # r
  <2>1. W = V
    BY <1>4 DEF Where
  <2> QED
    BY <2>1, <1>1, <1>2, <1>4 DEF Is
<1> QED
  BY <1>1, <1>2, <1>3, <1>4

(* A change of a function at x changes the count by what x counts for.     *)
LEMMA RecountWhere ==
    ASSUME NEW H, IsFiniteSet(H), NEW f, NEW g, NEW r, NEW x \in H,
           \A h \in H \ {x} : g[h] = f[h]
    PROVE  Cardinality(Where(H, g, r))
               = Cardinality(Where(H, f, r)) + Is(g[x], r) - Is(f[x], r)
<1>1. Where(H \ {x}, g, r) = Where(H \ {x}, f, r)
  BY DEF Where
<1>2. Is(g[x], r) \in Int /\ Is(f[x], r) \in Int
  BY DEF Is
<1> HIDE DEF Where, Is
<1> QED
  BY <1>1, <1>2, CountWhere

LEMMA CountNaming ==
    ASSUME NEW H, IsFiniteSet(H), NEW d, NEW r, NEW x \in H
    PROVE  /\ IsFiniteSet(Naming(H, d, r))
           /\ Cardinality(Naming(H, d, r)) \in Nat
           /\ Cardinality(Naming(H, d, r))
                  = Cardinality(Naming(H \ {x}, d, r)) + Is(d[x].ptr, r)
<1> DEFINE f == [h \in H |-> d[h].ptr]
<1>1. /\ Naming(H, d, r) = Where(H, f, r)
      /\ Naming(H \ {x}, d, r) = Where(H \ {x}, f, r)
      /\ f[x] = d[x].ptr
  BY DEF Naming, Where
<1> HIDE DEF f
<1> QED
  BY <1>1, CountWhere

(* The readings counted at one holder are as many as its ecount.           *)
LEMMA ReadingsOfOne ==
    ASSUME NEW x, NEW n \in Nat
    PROVE  IsFiniteSet({x} \X (1..n)) /\ Cardinality({x} \X (1..n)) = n
<1>1. IsFiniteSet(1..n) /\ Cardinality(1..n) = n
  BY FS_Interval
<1>2. IsFiniteSet({x}) /\ Cardinality({x}) = 1
  BY FS_Singleton
<1> QED
  BY <1>1, <1>2, FS_Product

LEMMA ReadingsFinite ==
    ASSUME NEW H, IsFiniteSet(H), NEW d, NEW r, \A h \in H : d[h].ecount \in Nat
    PROVE  IsFiniteSet(Readings(H, d, r)) /\ Cardinality(Readings(H, d, r)) \in Nat
<1> DEFINE N == Naming(H, d, r)
           f == [h \in N |-> {h} \X (1..d[h].ecount)]
           P == {{h} \X (1..d[h].ecount) : h \in N}
<1>1. IsFiniteSet(N)
  BY FS_Subset, N \subseteq H DEF Naming
<1>2. f \in Surjection(N, P)
  BY DEF Surjection
<1>3. IsFiniteSet(P)
  <2> HIDE DEF P, f, N
  <2> QED
    BY <1>1, <1>2, FS_Surjection
<1>4. ASSUME NEW h \in N
      PROVE  IsFiniteSet({h} \X (1..d[h].ecount))
  <2>1. d[h].ecount \in Nat
    BY DEF Naming
  <2> QED
    BY <2>1, ReadingsOfOne
<1>5. IsFiniteSet(UNION P)
  <2>1. \A T \in P : IsFiniteSet(T)
    BY <1>4
  <2> HIDE DEF P
  <2> QED
    BY <2>1, <1>3, FS_UNION
<1> QED
  BY <1>5, FS_CardinalityType DEF Readings

LEMMA CountReadings ==
    ASSUME NEW H, IsFiniteSet(H), NEW d, NEW r, NEW x \in H,
           \A h \in H : d[h].ecount \in Nat
    PROVE  Cardinality(Readings(H, d, r))
               = Cardinality(Readings(H \ {x}, d, r)) + Share(d[x], r)
<1> DEFINE R == Readings(H, d, r)  Q == Readings(H \ {x}, d, r)
           O == {x} \X (1..d[x].ecount)
<1>1. IsFiniteSet(Q) /\ Cardinality(Q) \in Nat
  BY ReadingsFinite, FS_RemoveElement
<1>2. CASE d[x].ptr = r
  <2>1. R = Q \union O
    BY <1>2 DEF Readings, Naming
  <2>2. Q \intersect O = {}
    BY DEF Readings, Naming
  <2>3. IsFiniteSet(O) /\ Cardinality(O) = d[x].ecount
    BY ReadingsOfOne
  <2>4. Cardinality(R) = Cardinality(Q) + Cardinality(O) - Cardinality({})
    <3> HIDE DEF R, Q, O
    <3> QED
      BY <2>1, <2>2, <2>3, <1>1, FS_Union
  <2> QED
    BY <2>3, <2>4, <1>1, <1>2, FS_EmptySet DEF Share
<1>3. CASE d[x].ptr # r
  <2>1. R = Q
    BY <1>3 DEF Readings, Naming
  <2> QED
    BY <2>1, <1>1, <1>3 DEF Share
<1> QED
  BY <1>2, <1>3

(* A step that changes what one holder names, or two.                      *)
LEMMA RecountOne ==
    ASSUME NEW H, IsFiniteSet(H), NEW d, NEW e, NEW r, NEW x \in H,
           \A h \in H : d[h].ecount \in Nat /\ e[h].ecount \in Nat,
           \A h \in H : h # x => e[h] = d[h]
    PROVE  /\ Cardinality(Naming(H, e, r))
                  = Cardinality(Naming(H, d, r)) + Is(e[x].ptr, r) - Is(d[x].ptr, r)
           /\ Cardinality(Readings(H, e, r))
                  = Cardinality(Readings(H, d, r)) + Share(e[x], r) - Share(d[x], r)
<1>1. /\ Naming(H \ {x}, e, r) = Naming(H \ {x}, d, r)
      /\ Readings(H \ {x}, e, r) = Readings(H \ {x}, d, r)
  BY DEF Naming, Readings
<1>2. /\ Cardinality(Naming(H \ {x}, d, r)) \in Nat
      /\ Cardinality(Readings(H \ {x}, d, r)) \in Nat
  <2>1. IsFiniteSet(H \ {x})
    BY FS_RemoveElement
  <2>2. IsFiniteSet(Naming(H \ {x}, d, r))
    BY <2>1, FS_Subset, Naming(H \ {x}, d, r) \subseteq H \ {x} DEF Naming
  <2> QED
    BY <2>1, <2>2, FS_CardinalityType, ReadingsFinite
<1>3. /\ Is(e[x].ptr, r) \in Int /\ Is(d[x].ptr, r) \in Int
      /\ Share(e[x], r) \in Int /\ Share(d[x], r) \in Int
  BY DEF Is, Share
<1>4. /\ Cardinality(Naming(H, e, r))
             = Cardinality(Naming(H \ {x}, d, r)) + Is(e[x].ptr, r)
      /\ Cardinality(Naming(H, d, r))
             = Cardinality(Naming(H \ {x}, d, r)) + Is(d[x].ptr, r)
  BY <1>1, CountNaming
<1>5. /\ Cardinality(Readings(H, e, r))
             = Cardinality(Readings(H \ {x}, d, r)) + Share(e[x], r)
      /\ Cardinality(Readings(H, d, r))
             = Cardinality(Readings(H \ {x}, d, r)) + Share(d[x], r)
  <2>1. (\A h \in H : d[h].ecount \in Nat) /\ (\A h \in H : e[h].ecount \in Nat)
    OBVIOUS
  <2> QED
    BY <1>1, <2>1, CountReadings
<1> QED
  BY <1>2, <1>3, <1>4, <1>5

LEMMA RecountTwo ==
    ASSUME NEW H, IsFiniteSet(H), NEW d, NEW e, NEW r, NEW x \in H, NEW y \in H, x # y,
           \A h \in H : d[h].ecount \in Nat /\ e[h].ecount \in Nat,
           \A h \in H \ {x, y} : e[h] = d[h]
    PROVE  /\ Cardinality(Naming(H, e, r)) = Cardinality(Naming(H, d, r))
                  + Is(e[x].ptr, r) - Is(d[x].ptr, r) + Is(e[y].ptr, r) - Is(d[y].ptr, r)
           /\ Cardinality(Readings(H, e, r)) = Cardinality(Readings(H, d, r))
                  + Share(e[x], r) - Share(d[x], r) + Share(e[y], r) - Share(d[y], r)
<1> DEFINE m == [h \in H |-> IF h = x THEN e[h] ELSE d[h]]
<1>1. /\ m[x] = e[x] /\ m[y] = d[y]
      /\ \A h \in H : m[h].ecount \in Nat
      /\ \A h \in H \ {x} : m[h] = d[h]
      /\ \A h \in H \ {y} : e[h] = m[h]
  OBVIOUS
<1> HIDE DEF m
<1>2. /\ Cardinality(Naming(H, m, r))
             = Cardinality(Naming(H, d, r)) + Is(e[x].ptr, r) - Is(d[x].ptr, r)
      /\ Cardinality(Readings(H, m, r))
             = Cardinality(Readings(H, d, r)) + Share(e[x], r) - Share(d[x], r)
  <2>1. \A h \in H : d[h].ecount \in Nat /\ m[h].ecount \in Nat
    BY <1>1
  <2> QED
    BY <1>1, <2>1, RecountOne
<1>3. /\ Cardinality(Naming(H, e, r))
             = Cardinality(Naming(H, m, r)) + Is(e[y].ptr, r) - Is(d[y].ptr, r)
      /\ Cardinality(Readings(H, e, r))
             = Cardinality(Readings(H, m, r)) + Share(e[y], r) - Share(d[y], r)
  <2>1. \A h \in H : m[h].ecount \in Nat /\ e[h].ecount \in Nat
    BY <1>1
  <2> QED
    BY <1>1, <2>1, RecountOne
<1>4. Cardinality(Naming(H, d, r)) \in Nat /\ Cardinality(Readings(H, d, r)) \in Nat
  BY CountNaming, ReadingsFinite
<1>5. \A h \in {x, y} : /\ Is(e[h].ptr, r) \in Int /\ Is(d[h].ptr, r) \in Int
                        /\ Share(e[h], r) \in Int /\ Share(d[h], r) \in Int
  BY DEF Is, Share
<1> QED
  BY <1>2, <1>3, <1>4, <1>5

(* The three kinds of local_ptrs are counted apart.                        *)
LEMMA CountTagged ==
    ASSUME NEW X, IsFiniteSet(X), NEW Y, IsFiniteSet(Y), NEW Z, IsFiniteSet(Z)
    PROVE  LET S == ({"loc"} \X X) \union ({"tmp"} \X Y) \union ({"cmp"} \X Z)
           IN  /\ IsFiniteSet(S)
               /\ Cardinality(S) = Cardinality(X) + Cardinality(Y) + Cardinality(Z)
<1> DEFINE A == {"loc"} \X X  B == {"tmp"} \X Y  C == {"cmp"} \X Z
<1>1. /\ IsFiniteSet(A) /\ Cardinality(A) = Cardinality(X)
      /\ IsFiniteSet(B) /\ Cardinality(B) = Cardinality(Y)
      /\ IsFiniteSet(C) /\ Cardinality(C) = Cardinality(Z)
  <2>1. ASSUME NEW s, NEW V, IsFiniteSet(V)
        PROVE  IsFiniteSet({s} \X V) /\ Cardinality({s} \X V) = Cardinality(V)
    <3>1. IsFiniteSet({s}) /\ Cardinality({s}) = 1
      BY FS_Singleton
    <3>2. IsFiniteSet({s} \X V) /\ Cardinality({s} \X V) = 1 * Cardinality(V)
      BY <2>1, <3>1, FS_Product
    <3>3. Cardinality(V) \in Nat
      BY <2>1, FS_CardinalityType
    <3> QED
      BY <3>2, <3>3
  <2> QED
    BY <2>1
<1>2. A \intersect B = {} /\ (A \union B) \intersect C = {}
  OBVIOUS
<1> HIDE DEF A, B, C
<1>3. /\ IsFiniteSet(A \union B)
      /\ Cardinality(A \union B) = Cardinality(A) + Cardinality(B) - Cardinality({})
  BY <1>1, <1>2, FS_Union
<1>4. /\ IsFiniteSet((A \union B) \union C)
      /\ Cardinality((A \union B) \union C)
             = Cardinality(A \union B) + Cardinality(C) - Cardinality({})
  BY <1>1, <1>2, <1>3, FS_Union
<1>5. /\ IsFiniteSet(A \union B \union C)
      /\ Cardinality(A \union B \union C) = Cardinality(A) + Cardinality(B) + Cardinality(C)
  BY <1>1, <1>3, <1>4, FS_EmptySet, FS_CardinalityType
<1> QED
  BY <1>1, <1>5 DEF A, B, C

-------------------------------------------------------------------------------
(* The counts of a state. *)
Holders == Cells \union Threads
AtHolders == [h \in Holders |-> At(h)]
PointerType == cell \in [Cells -> Differential] /\ obj \in [Threads -> Differential]

LEMMA HoldersFinite ==
    /\ IsFiniteSet(Holders) /\ IsFiniteSet(Threads)
    /\ Cells \subseteq Holders /\ Threads \subseteq Holders
    /\ \A t \in Threads, c \in Cells : t # c /\ t \notin Cells
BY AtomicPtrAssumption, FS_Union DEF Holders

(* The sets of AtomicPtr.tla are those that are counted above.             *)
LEMMA AsCounted ==
    ASSUME NEW r
    PROVE  /\ Shared(r) = Cardinality(Naming(Holders, AtHolders, r))
           /\ Shared(r)' = Cardinality(Naming(Holders, AtHolders', r))
           /\ Carried(r) = Cardinality(Readings(Holders, AtHolders, r))
           /\ Carried(r)' = Cardinality(Readings(Holders, AtHolders', r))
<1>1. /\ AtomicPtrs(r) = Naming(Holders, AtHolders, r)
      /\ AtomicPtrs(r)' = Naming(Holders, AtHolders', r)
  BY DEF AtomicPtrs, Naming, Holders, AtHolders, At
<1>2. /\ Away(r) = Readings(Holders, AtHolders, r)
      /\ Away(r)' = Readings(Holders, AtHolders', r)
  <2>1. /\ \A h \in Naming(Holders, AtHolders, r) : AtHolders[h] = At(h)
        /\ \A h \in Naming(Holders, AtHolders', r) : AtHolders'[h] = At(h)'
    BY DEF Naming, AtHolders, At
  <2> QED
    BY <1>1, <2>1 DEF Away, Readings, At
<1> QED
  BY <1>1, <1>2 DEF Shared, Carried

LEMMA AtTypes ==
    /\ PointerType => \A h \in Holders : AtHolders[h].ecount \in Nat
    /\ PointerType' => \A h \in Holders : AtHolders'[h].ecount \in Nat
BY DEF PointerType, AtHolders, At, Holders, Differential

LEMMA HeldSum ==
    ASSUME NEW r
    PROVE  /\ Held(r) = Cardinality(Where(Threads, loc, r))
                  + Cardinality(Where(Threads, tmp, r)) + Cardinality(Where(Threads, cmp, r))
           /\ Held(r)' = Cardinality(Where(Threads, loc', r))
                  + Cardinality(Where(Threads, tmp', r)) + Cardinality(Where(Threads, cmp', r))
           /\ IsFiniteSet(LocalPtrs(r))
<1>1. ASSUME NEW f
      PROVE  IsFiniteSet(Where(Threads, f, r))
  BY HoldersFinite, FS_Subset, Where(Threads, f, r) \subseteq Threads DEF Where
<1>2. /\ LocalPtrs(r) = ({"loc"} \X Where(Threads, loc, r))
             \union ({"tmp"} \X Where(Threads, tmp, r)) \union ({"cmp"} \X Where(Threads, cmp, r))
      /\ LocalPtrs(r)' = ({"loc"} \X Where(Threads, loc', r))
             \union ({"tmp"} \X Where(Threads, tmp', r)) \union ({"cmp"} \X Where(Threads, cmp', r))
  BY DEF LocalPtrs, Where
<1> QED
  BY <1>1, <1>2, CountTagged, SMTT(30) DEF Held

(* They are numbers, and zero when there is nothing to count.              *)
Numbers ==
    \A r \in Refs :
        /\ Shared(r) \in Nat /\ Carried(r) \in Nat /\ Held(r) \in Nat
        /\ Shared(r) = 0 => Carried(r) = 0
        /\ Shared(r) = 0 <=> AtomicPtrs(r) = {}
        /\ Held(r) = 0 <=> LocalPtrs(r) = {}
        /\ \A c \in Cells : cell[c].ptr = r => Shared(r) > 0
        /\ \A t \in Threads : /\ obj[t].ptr = r => Shared(r) > 0
                              /\ loc[t] = r \/ tmp[t] = r \/ cmp[t] = r => Held(r) > 0

LEMMA AreNumbers == PointerType => Numbers
<1> SUFFICES ASSUME PointerType, NEW r \in Refs
             PROVE  /\ Shared(r) \in Nat /\ Carried(r) \in Nat /\ Held(r) \in Nat
                    /\ Shared(r) = 0 => Carried(r) = 0
                    /\ Shared(r) = 0 <=> AtomicPtrs(r) = {}
                    /\ Held(r) = 0 <=> LocalPtrs(r) = {}
                    /\ \A c \in Cells : cell[c].ptr = r => Shared(r) > 0
                    /\ \A t \in Threads :
                          /\ obj[t].ptr = r => Shared(r) > 0
                          /\ loc[t] = r \/ tmp[t] = r \/ cmp[t] = r => Held(r) > 0
  BY DEF Numbers
<1>1. IsFiniteSet(AtomicPtrs(r))
  BY HoldersFinite, FS_Subset, AtomicPtrs(r) \subseteq Holders DEF AtomicPtrs, Holders
<1>2. IsFiniteSet(LocalPtrs(r))
  BY HeldSum
<1>3. Carried(r) \in Nat
  BY AsCounted, AtTypes, HoldersFinite, ReadingsFinite
<1>4. AtomicPtrs(r) = {} => Away(r) = {}
  BY DEF Away
<1>5. /\ Shared(r) \in Nat /\ Held(r) \in Nat
      /\ Shared(r) = 0 => Carried(r) = 0
      /\ Shared(r) = 0 <=> AtomicPtrs(r) = {}
      /\ Held(r) = 0 <=> LocalPtrs(r) = {}
  BY <1>1, <1>2, <1>4, FS_EmptySet, FS_CardinalityType DEF Shared, Carried, Held
<1>6. /\ \A c \in Cells : cell[c].ptr = r => AtomicPtrs(r) # {}
      /\ \A t \in Threads : obj[t].ptr = r => AtomicPtrs(r) # {}
  BY HoldersFinite DEF AtomicPtrs, At
<1>7. \A t \in Threads : loc[t] = r \/ tmp[t] = r \/ cmp[t] = r => LocalPtrs(r) # {}
  <2> SUFFICES ASSUME NEW t \in Threads, loc[t] = r \/ tmp[t] = r \/ cmp[t] = r
               PROVE  \E s \in {"loc", "tmp", "cmp"} : <<s, t>> \in LocalPtrs(r)
    OBVIOUS
  <2> QED
    BY DEF LocalPtrs
<1> QED
  BY <1>3, <1>5, <1>6, <1>7

LEMMA AreNumbersNext == PointerType' => Numbers'
BY AreNumbers, PTL

(* Only t changes pointers of a thread's own. *)
OnlyBy(t) ==
    \A u \in Threads \ {t} :
        loc'[u] = loc[u] /\ tmp'[u] = tmp[u] /\ cmp'[u] = cmp[u] /\ obj'[u] = obj[u]

Names(t, r) == Is(loc[t], r) + Is(tmp[t], r) + Is(cmp[t], r)

LEMMA HeldStep ==
    ASSUME NEW t \in Threads, OnlyBy(t), NEW r
    PROVE  Held(r)' = Held(r) + Names(t, r)' - Names(t, r)
<1>1. ASSUME NEW f, NEW g, \A u \in Threads \ {t} : g[u] = f[u]
      PROVE  /\ Cardinality(Where(Threads, f, r)) \in Nat
             /\ Cardinality(Where(Threads, g, r))
                    = Cardinality(Where(Threads, f, r)) + Is(g[t], r) - Is(f[t], r)
  <2>1. IsFiniteSet(Threads)
    BY HoldersFinite
  <2>2. Cardinality(Where(Threads, f, r)) \in Nat
    BY <2>1, CountWhere
  <2> QED
    BY <1>1, <2>1, <2>2, RecountWhere
<1>2. \A x : Is(x, r) \in Int
  BY DEF Is
<1>3. Names(t, r)' = Is(loc'[t], r) + Is(tmp'[t], r) + Is(cmp'[t], r)
  BY DEF Names, Is
<1> QED
  BY <1>1, <1>2, <1>3, HeldSum DEF OnlyBy, Names

(* A step that leaves the shared pointers alone.                           *)
LEMMA OwnStep ==
    ASSUME PointerType, PointerType', NEW t \in Threads, OnlyBy(t), cell' = cell, NEW r
    PROVE  /\ Shared(r)' = Shared(r) + Is(obj'[t].ptr, r) - Is(obj[t].ptr, r)
           /\ Carried(r)' = Carried(r) + Share(obj'[t], r) - Share(obj[t], r)
<1>1. ASSUME NEW d, d = AtHolders, NEW e, e = AtHolders'
      PROVE  /\ Cardinality(Naming(Holders, e, r))
                    = Cardinality(Naming(Holders, d, r)) + Is(e[t].ptr, r) - Is(d[t].ptr, r)
             /\ Cardinality(Readings(Holders, e, r))
                    = Cardinality(Readings(Holders, d, r)) + Share(e[t], r) - Share(d[t], r)
  <2>1. \A h \in Holders : h # t => e[h] = d[h]
    BY <1>1, HoldersFinite DEF Holders, AtHolders, At, OnlyBy
  <2>2. \A h \in Holders : d[h].ecount \in Nat /\ e[h].ecount \in Nat
    BY <1>1, AtTypes
  <2>3. IsFiniteSet(Holders) /\ t \in Holders
    BY HoldersFinite
  <2> QED
    BY <2>1, <2>2, <2>3, RecountOne, Z3
<1>2. AtHolders[t] = obj[t] /\ AtHolders'[t] = obj'[t]
  BY HoldersFinite DEF Holders, AtHolders, At
<1> QED
  BY <1>1, <1>2, AsCounted

(* A step that changes the shared pointer c.                               *)
LEMMA CellStep ==
    ASSUME PointerType, PointerType', NEW t \in Threads, OnlyBy(t),
           NEW c \in Cells, \A b \in Cells \ {c} : cell'[b] = cell[b], NEW r
    PROVE  /\ Shared(r)' = Shared(r) + Is(obj'[t].ptr, r) - Is(obj[t].ptr, r)
                  + Is(cell'[c].ptr, r) - Is(cell[c].ptr, r)
           /\ Carried(r)' = Carried(r) + Share(obj'[t], r) - Share(obj[t], r)
                  + Share(cell'[c], r) - Share(cell[c], r)
<1>1. ASSUME NEW d, d = AtHolders, NEW e, e = AtHolders'
      PROVE  /\ Cardinality(Naming(Holders, e, r)) = Cardinality(Naming(Holders, d, r))
                    + Is(e[t].ptr, r) - Is(d[t].ptr, r) + Is(e[c].ptr, r) - Is(d[c].ptr, r)
             /\ Cardinality(Readings(Holders, e, r)) = Cardinality(Readings(Holders, d, r))
                    + Share(e[t], r) - Share(d[t], r) + Share(e[c], r) - Share(d[c], r)
  <2>1. \A h \in Holders \ {t, c} : e[h] = d[h]
    BY <1>1, HoldersFinite DEF Holders, AtHolders, At, OnlyBy
  <2>2. \A h \in Holders : d[h].ecount \in Nat /\ e[h].ecount \in Nat
    BY <1>1, AtTypes
  <2>3. IsFiniteSet(Holders) /\ t \in Holders /\ c \in Holders /\ t # c
    BY HoldersFinite DEF Holders
  <2> QED
    BY <2>1, <2>2, <2>3, RecountTwo, Z3
<1>2. /\ AtHolders[t] = obj[t] /\ AtHolders'[t] = obj'[t]
      /\ AtHolders[c] = cell[c] /\ AtHolders'[c] = cell'[c]
  BY HoldersFinite DEF Holders, AtHolders, At
<1> QED
  BY <1>1, <1>2, AsCounted

-------------------------------------------------------------------------------
(* Types.  The only subtraction from an rcount is that of AtomicDrop.      *)
CountType == [ecount : Int, rcount : Nat]

SharedPart == cell \in [Cells -> Differential] /\ shared \subseteq Cells
CountPart == count \in [Refs -> CountType]
HeapPart == pool \in [Refs -> BOOLEAN] /\ heap \subseteq Refs /\ spare \subseteq heap
CallPart ==
    /\ pc \in [Threads -> {"idle", "g_ptr", "g_cas", "fix", "cmp", "x_load",
                           "x_cas", "swap", "a_drop", "l_drop", "free"}]
    /\ calls \in [Threads -> 0..MaxCalls]
    /\ use \in [Threads -> {"load", "deref", "copy", "cas"}]
OwnPart ==
    /\ loc \in [Threads -> RefOrNull] /\ tmp \in [Threads -> RefOrNull]
    /\ cmp \in [Threads -> RefOrNull] /\ dead \in [Threads -> RefOrNull]
    /\ obj \in [Threads -> Differential]
ReadPart ==
    /\ old \in [Threads -> Differential]
    /\ src \in [Threads -> CellOrNull] /\ dst \in [Threads -> CellOrNull]

LEMMA TypeParts ==
    TypeOK <=> SharedPart /\ CountPart /\ HeapPart /\ CallPart /\ OwnPart /\ ReadPart
BY DEF TypeOK, SharedPart, CountPart, CountType, HeapPart, CallPart, OwnPart, ReadPart

LEMMA TypePartsNext ==
    SharedPart' /\ CountPart' /\ HeapPart' /\ CallPart' /\ OwnPart' /\ ReadPart' => TypeOK'
BY TypeParts, PTL

LEMMA CallsLeft == \A n \in 0..MaxCalls : n > 0 => n - 1 \in 0..MaxCalls
BY AtomicPtrAssumption

LEMMA Values ==
    /\ NULL \in RefOrNull /\ NULL \in CellOrNull /\ Nothing \in Differential
    /\ Nothing.ptr = NULL /\ Nothing.ecount = 0
    /\ \A r \in Refs : r \in RefOrNull /\ r # NULL
    /\ \A c \in Cells : c \in CellOrNull
    /\ \A r \in RefOrNull : r # NULL => r \in Refs
    /\ \A r \in RefOrNull : /\ Fresh(r) \in Differential
                            /\ Fresh(r).ptr = r /\ Fresh(r).ecount = 0
    /\ \A d \in Differential : d.ptr \in RefOrNull /\ d.ecount \in Nat
    /\ \A n \in Nat, r \in RefOrNull : /\ [ecount |-> n, ptr |-> r] \in Differential
                                       /\ [ecount |-> n, ptr |-> r].ptr = r
                                       /\ [ecount |-> n, ptr |-> r].ecount = n
    /\ \A d \in Differential, r \in RefOrNull : [d EXCEPT !.ptr = r] \in Differential
    /\ \A d \in Differential, n \in Nat : [d EXCEPT !.ecount = n] \in Differential
BY AtomicPtrAssumption DEF RefOrNull, CellOrNull, Differential, Nothing, Fresh

LEMMA AdjustIfAnyType ==
    ASSUME CountPart, NEW r \in RefOrNull, NEW e \in Int, NEW n \in Int,
           r # NULL => count[r].rcount + n \in Nat, AdjustIfAny(r, e, n)
    PROVE  CountPart'
BY Values DEF CountPart, CountType, AdjustIfAny, Adjust, Adjusted

LEMMA AdjustUpType ==
    ASSUME CountPart, NEW r \in RefOrNull, NEW e \in Int, NEW n \in Nat, AdjustIfAny(r, e, n)
    PROVE  CountPart'
<1>1. r # NULL => count[r].rcount + n \in Nat
  BY Values DEF CountPart, CountType
<1> QED
  BY <1>1, AdjustIfAnyType

LEMMA ObtainType ==
    ASSUME TypeOK, NEW r \in Refs, NEW k \in CountType, Obtain(r, k)
    PROVE  CountPart' /\ HeapPart'
BY TypeParts DEF CountPart, HeapPart, Obtain

(* One step for each action and under it one for each part that it changes. *)
LEMMA EnterType ==
    ASSUME TypeOK, NEW t \in Threads, Enter(t)
    PROVE  TypeOK'
<1> USE Values
<1>0. SharedPart /\ CountPart /\ HeapPart /\ CallPart /\ OwnPart /\ ReadPart
  BY TypeParts
<1>1. CASE LocalNew(t)
  <2>1. CountPart'
    BY <1>0, <1>1 DEF CountPart, LocalNew, Obtain, CountType, ForLocal
  <2>2. HeapPart'
    BY <1>0, <1>1 DEF HeapPart, LocalNew, Obtain
  <2>3. CallPart'
    BY <1>0, <1>1, CallsLeft DEF CallPart, LocalNew, Call, Goto
  <2>4. OwnPart'
    BY <1>0, <1>1 DEF OwnPart, LocalNew
  <2>5. SharedPart' /\ ReadPart'
    BY <1>0, <1>1 DEF SharedPart, ReadPart, LocalNew, refVars, heapVars, localVars, Call
  <2> QED
    BY TypePartsNext, <2>1, <2>2, <2>3, <2>4, <2>5
<1>2. CASE LocalReset(t)
  <2>1. CallPart'
    BY <1>0, <1>2, CallsLeft DEF CallPart, LocalReset, Call, Goto
  <2>2. OwnPart'
    BY <1>0, <1>2 DEF OwnPart, LocalReset
  <2>3. SharedPart' /\ CountPart' /\ HeapPart' /\ ReadPart'
    BY <1>0, <1>2 DEF SharedPart, CountPart, HeapPart, ReadPart, LocalReset, refVars, heapVars, localVars, Call
  <2> QED
    BY TypePartsNext, <2>1, <2>2, <2>3
<1>3. CASE LocalCopy(t)
  <2>1. CountPart'
    <3>1. loc[t] \in RefOrNull /\ AdjustIfAny(loc[t], 1, 0)
      BY <1>0, <1>3 DEF OwnPart, LocalCopy, AdjustIfAny
    <3> QED
      BY <1>0, <3>1, -1 \in Int, 0 \in Int, 1 \in Int, 0 \in Nat, 1 \in Nat, AdjustUpType
  <2>2. CallPart'
    BY <1>0, <1>3, CallsLeft DEF CallPart, LocalCopy, Call, Goto
  <2>3. OwnPart'
    BY <1>0, <1>3 DEF OwnPart, LocalCopy
  <2>4. SharedPart' /\ HeapPart' /\ ReadPart'
    BY <1>0, <1>3 DEF SharedPart, HeapPart, ReadPart, LocalCopy, refVars, heapVars, localVars, Call
  <2> QED
    BY TypePartsNext, <2>1, <2>2, <2>3, <2>4
<1>4. CASE SetPool(t)
  <2>1. HeapPart'
    <3>1. pool' = [pool EXCEPT ![loc[t]] = TRUE] /\ heap' = heap /\ spare' = spare
      BY <1>4 DEF SetPool, heapVars
    <3> QED
      BY <1>0, <3>1 DEF HeapPart
  <2>2. CallPart'
    BY <1>0, <1>4, CallsLeft DEF CallPart, SetPool, Call, localVars
  <2>3. SharedPart' /\ CountPart' /\ OwnPart' /\ ReadPart'
    BY <1>0, <1>4 DEF SharedPart, CountPart, OwnPart, ReadPart, SetPool, refVars, heapVars, localVars, Call
  <2> QED
    BY TypePartsNext, <2>1, <2>2, <2>3
<1>5. ASSUME NEW c \in shared, LoadCall(t, c)
      PROVE  TypeOK'
  <2>1. CallPart'
    BY <1>0, <1>5, CallsLeft DEF CallPart, LoadCall, Call, Goto
  <2>2. ReadPart'
    BY <1>0, <1>5 DEF ReadPart, LoadCall, SharedPart
  <2>3. SharedPart' /\ CountPart' /\ HeapPart' /\ OwnPart'
    BY <1>0, <1>5 DEF SharedPart, CountPart, HeapPart, OwnPart, LoadCall, refVars, heapVars, localVars, Call
  <2> QED
    BY TypePartsNext, <2>1, <2>2, <2>3
<1>6. ASSUME NEW c \in shared, StoreNew(t, c)
      PROVE  TypeOK'
  <2>1. CountPart'
    BY <1>0, <1>6 DEF CountPart, StoreNew, Obtain, CountType, ForAtomic
  <2>2. HeapPart'
    BY <1>0, <1>6 DEF HeapPart, StoreNew, Obtain
  <2>3. CallPart'
    BY <1>0, <1>6, CallsLeft DEF CallPart, StoreNew, Call, Goto
  <2>4. OwnPart'
    BY <1>0, <1>6 DEF OwnPart, StoreNew
  <2>5. ReadPart'
    BY <1>0, <1>6 DEF ReadPart, StoreNew, SharedPart
  <2>6. SharedPart'
    BY <1>0, <1>6 DEF SharedPart, StoreNew, refVars, heapVars, localVars, Call
  <2> QED
    BY TypePartsNext, <2>1, <2>2, <2>3, <2>4, <2>5, <2>6
<1>7. ASSUME NEW c \in shared, StoreNull(t, c)
      PROVE  TypeOK'
  <2>1. CallPart'
    BY <1>0, <1>7, CallsLeft DEF CallPart, StoreNull, Call, Goto
  <2>2. ReadPart'
    BY <1>0, <1>7 DEF ReadPart, StoreNull, SharedPart
  <2>3. SharedPart' /\ CountPart' /\ HeapPart' /\ OwnPart'
    BY <1>0, <1>7 DEF SharedPart, CountPart, HeapPart, OwnPart, StoreNull, refVars, heapVars, localVars, Call
  <2> QED
    BY TypePartsNext, <2>1, <2>2, <2>3
<1>8. ASSUME NEW c \in shared, StoreLocal(t, c)
      PROVE  TypeOK'
  <2>1. CountPart'
    <3>1. loc[t] \in RefOrNull /\ AdjustIfAny(loc[t], 0, 1)
      BY <1>0, <1>8 DEF OwnPart, StoreLocal
    <3> QED
      BY <1>0, <3>1, -1 \in Int, 0 \in Int, 1 \in Int, 0 \in Nat, 1 \in Nat, AdjustUpType
  <2>2. CallPart'
    BY <1>0, <1>8, CallsLeft DEF CallPart, StoreLocal, Call, Goto
  <2>3. OwnPart'
    BY <1>0, <1>8 DEF OwnPart, StoreLocal
  <2>4. ReadPart'
    BY <1>0, <1>8 DEF ReadPart, StoreLocal, SharedPart
  <2>5. SharedPart' /\ HeapPart'
    BY <1>0, <1>8 DEF SharedPart, HeapPart, StoreLocal, refVars, heapVars, localVars, Call
  <2> QED
    BY TypePartsNext, <2>1, <2>2, <2>3, <2>4, <2>5
<1>9. ASSUME NEW c \in shared, CasNew(t, c)
      PROVE  TypeOK'
  <2>1. CountPart'
    BY <1>0, <1>9 DEF CountPart, CasNew, Obtain, CountType, ForAtomic
  <2>2. HeapPart'
    BY <1>0, <1>9 DEF HeapPart, CasNew, Obtain
  <2>3. CallPart'
    BY <1>0, <1>9, CallsLeft DEF CallPart, CasNew, Call, Goto
  <2>4. OwnPart'
    BY <1>0, <1>9 DEF OwnPart, CasNew
  <2>5. ReadPart'
    BY <1>0, <1>9 DEF ReadPart, CasNew, SharedPart
  <2>6. SharedPart'
    BY <1>0, <1>9 DEF SharedPart, CasNew, refVars, heapVars, localVars, Call
  <2> QED
    BY TypePartsNext, <2>1, <2>2, <2>3, <2>4, <2>5, <2>6
<1>10. ASSUME NEW c \in shared, AtomicDestroy(t, c)
      PROVE  TypeOK'
  <2>1. SharedPart'
    BY <1>0, <1>10 DEF SharedPart, AtomicDestroy
  <2>2. CallPart'
    BY <1>0, <1>10, CallsLeft DEF CallPart, AtomicDestroy, Call, Goto
  <2>3. OwnPart'
    BY <1>0, <1>10 DEF OwnPart, AtomicDestroy, SharedPart
  <2>4. CountPart' /\ HeapPart' /\ ReadPart'
    BY <1>0, <1>10 DEF CountPart, HeapPart, ReadPart, AtomicDestroy, refVars, heapVars, localVars, Call
  <2> QED
    BY TypePartsNext, <2>1, <2>2, <2>3, <2>4
<1>11. ASSUME NEW c \in shared, NEW d \in shared, CopyCall(t, c, d)
      PROVE  TypeOK'
  <2>1. CallPart'
    BY <1>0, <1>11, CallsLeft DEF CallPart, CopyCall, Call, Goto
  <2>2. ReadPart'
    BY <1>0, <1>11 DEF ReadPart, CopyCall, SharedPart
  <2>3. SharedPart' /\ CountPart' /\ HeapPart' /\ OwnPart'
    BY <1>0, <1>11 DEF SharedPart, CountPart, HeapPart, OwnPart, CopyCall, refVars, heapVars, localVars, Call
  <2> QED
    BY TypePartsNext, <2>1, <2>2, <2>3
<1> QED
  BY <1>1, <1>2, <1>3, <1>4, <1>5, <1>6, <1>7, <1>8, <1>9, <1>10, <1>11 DEF Enter

LEMMA StepType ==
    ASSUME TypeOK, NEW t \in Threads, Step(t), Operands,
           pc[t] = "a_drop" /\ obj[t].ptr # NULL => count[obj[t].ptr].rcount > 0,
           pc[t] = "free" => Exists(dead[t])
    PROVE  TypeOK'
<1> USE Values
<1>0. SharedPart /\ CountPart /\ HeapPart /\ CallPart /\ OwnPart /\ ReadPart
  BY TypeParts
<1>1. CASE GetLoadPtr(t)
  <2>1. CallPart'
    BY <1>0, <1>1 DEF CallPart, GetLoadPtr, Goto
  <2>2. ReadPart'
    BY <1>0, <1>1 DEF ReadPart, GetLoadPtr, SharedPart, Operands, Reads, Assigns
  <2>3. SharedPart' /\ CountPart' /\ HeapPart' /\ OwnPart'
    BY <1>0, <1>1 DEF SharedPart, CountPart, HeapPart, OwnPart, GetLoadPtr, refVars, heapVars, localVars
  <2> QED
    BY TypePartsNext, <2>1, <2>2, <2>3
<1>2. CASE GetCas(t)
  <2>1. SharedPart'
    <3>1. CASE GetMatches(t)
      <4>1. [ecount |-> old[t].ecount + 1, ptr |-> old[t].ptr] \in Differential
        BY <1>0 DEF ReadPart, Differential
      <4> QED
        BY <1>0, <1>2, <3>1, <4>1 DEF SharedPart, GetCas
    <3>2. CASE ~GetMatches(t)
      BY <1>0, <1>2, <3>2 DEF SharedPart, GetCas
    <3> QED
      BY <3>1, <3>2
  <2>2. CallPart'
    BY <1>0, <1>2 DEF CallPart, GetCas, Goto
  <2>3. OwnPart'
    <3>1. old[t].ptr \in RefOrNull /\ loc[t] \in RefOrNull
      BY <1>0 DEF ReadPart, OwnPart
    <3>2. loc' \in [Threads -> RefOrNull] /\ tmp' \in [Threads -> RefOrNull]
      <4>1. CASE GetMatches(t)
        <5>1. \E p, q \in RefOrNull :
                 loc' = [loc EXCEPT ![t] = p] /\ tmp' = [tmp EXCEPT ![t] = q]
          BY <1>2, <3>1, <4>1 DEF GetCas
        <5> QED
          BY <1>0, <5>1 DEF OwnPart
      <4>2. CASE ~GetMatches(t)
        BY <1>0, <1>2, <4>2 DEF OwnPart, GetCas
      <4> QED
        BY <4>1, <4>2
    <3> QED
      BY <1>0, <1>2, <3>2 DEF OwnPart, GetCas
  <2>4. ReadPart'
    BY <1>0, <1>2 DEF ReadPart, GetCas, SharedPart, Operands, Reads, Assigns
  <2>5. CountPart' /\ HeapPart'
    BY <1>0, <1>2 DEF CountPart, HeapPart, GetCas, refVars, heapVars, localVars
  <2> QED
    BY TypePartsNext, <2>1, <2>2, <2>3, <2>4, <2>5
<1>3. CASE FixCopy(t)
  <2>1. CountPart'
    <3>1. tmp[t] \in RefOrNull /\ AdjustIfAny(tmp[t], -1, 1)
      BY <1>0, <1>3 DEF OwnPart, FixCopy, FixLocal
    <3> QED
      BY <1>0, <3>1, -1 \in Int, 0 \in Int, 1 \in Int, 0 \in Nat, 1 \in Nat, AdjustUpType
  <2>2. CallPart'
    BY <1>0, <1>3 DEF CallPart, FixCopy, Goto
  <2>3. OwnPart'
    BY <1>0, <1>3 DEF OwnPart, FixCopy
  <2>4. SharedPart' /\ HeapPart' /\ ReadPart'
    BY <1>0, <1>3 DEF SharedPart, HeapPart, ReadPart, FixCopy, refVars, heapVars, localVars
  <2> QED
    BY TypePartsNext, <2>1, <2>2, <2>3, <2>4
<1>4. CASE Swap(t)
  <2>1. SharedPart'
    BY <1>0, <1>4 DEF SharedPart, Swap, OwnPart
  <2>2. CallPart'
    BY <1>0, <1>4 DEF CallPart, Swap, Goto
  <2>3. OwnPart'
    BY <1>0, <1>4 DEF OwnPart, Swap, SharedPart, Operands, Reads, Assigns
  <2>4. ReadPart'
    BY <1>0, <1>4 DEF ReadPart, Swap
  <2>5. CountPart' /\ HeapPart'
    BY <1>0, <1>4 DEF CountPart, HeapPart, Swap, refVars, heapVars, localVars
  <2> QED
    BY TypePartsNext, <2>1, <2>2, <2>3, <2>4, <2>5
<1>5. CASE CasCompare(t)
  <2>1. CountPart'
    <3>1. loc[t] \in RefOrNull /\ AdjustIfAny(loc[t], 1, 0)
      BY <1>0, <1>5 DEF OwnPart, CasCompare
    <3> QED
      BY <1>0, <3>1, -1 \in Int, 0 \in Int, 1 \in Int, 0 \in Nat, 1 \in Nat, AdjustUpType
  <2>2. CallPart'
    BY <1>0, <1>5 DEF CallPart, CasCompare, Goto
  <2>3. OwnPart'
    BY <1>0, <1>5 DEF OwnPart, CasCompare
  <2>4. SharedPart' /\ HeapPart' /\ ReadPart'
    BY <1>0, <1>5 DEF SharedPart, HeapPart, ReadPart, CasCompare, refVars, heapVars, localVars
  <2> QED
    BY TypePartsNext, <2>1, <2>2, <2>3, <2>4
<1>6. CASE CasLoad(t)
  <2>1. CallPart'
    BY <1>0, <1>6 DEF CallPart, CasLoad, Goto
  <2>2. ReadPart'
    BY <1>0, <1>6 DEF ReadPart, CasLoad, SharedPart, OwnPart, Operands, Assigns
  <2>3. SharedPart' /\ CountPart' /\ HeapPart' /\ OwnPart'
    BY <1>0, <1>6 DEF SharedPart, CountPart, HeapPart, OwnPart, CasLoad, refVars, heapVars, localVars
  <2> QED
    BY TypePartsNext, <2>1, <2>2, <2>3
<1>7. CASE CasCas(t)
  <2>1. SharedPart'
    BY <1>0, <1>7, SMTT(30) DEF SharedPart, CasCas, OwnPart
  <2>2. CallPart'
    BY <1>0, <1>7 DEF CallPart, CasCas, CasReturn, Goto
  <2>3. OwnPart'
    <3>1. old[t] \in Differential /\ cmp[t] \in RefOrNull
      BY <1>0 DEF ReadPart, OwnPart
    <3>2. tmp' \in [Threads -> RefOrNull] /\ cmp' \in [Threads -> RefOrNull]
      <4>1. \/ tmp' = [tmp EXCEPT ![t] = cmp[t]] /\ cmp' = [cmp EXCEPT ![t] = NULL]
            \/ tmp' = tmp /\ cmp' = cmp
        BY <1>7 DEF CasCas, CasReturn
      <4> QED
        BY <1>0, <3>1, <4>1, ZenonT(40) DEF OwnPart
    <3>3. obj' \in [Threads -> Differential]
      <4>1. obj' = [obj EXCEPT ![t] = old[t]] \/ obj' = obj
        BY <1>7 DEF CasCas
      <4> QED
        BY <1>0, <3>1, <4>1 DEF OwnPart
    <3> QED
      BY <1>0, <1>7, <3>2, <3>3 DEF OwnPart, CasCas
  <2>4. ReadPart'
    BY <1>0, <1>7 DEF ReadPart, CasCas, CasReturn, SharedPart, Operands, Assigns
  <2>5. CountPart' /\ HeapPart'
    BY <1>0, <1>7 DEF CountPart, HeapPart, CasCas, refVars, heapVars, localVars
  <2> QED
    BY TypePartsNext, <2>1, <2>2, <2>3, <2>4, <2>5
<1>8. CASE AtomicDrop(t)
  <2>1. CountPart'
    <3>1. /\ obj[t].ptr \in RefOrNull /\ obj[t].ecount \in Int
          /\ AdjustIfAny(obj[t].ptr, obj[t].ecount, -1)
      BY <1>0, <1>8 DEF OwnPart, AtomicDrop, Uncount, BroughtHome
    <3>2. obj[t].ptr # NULL => count[obj[t].ptr].rcount + (-1) \in Nat
      BY <1>0, <1>8, <3>1 DEF AtomicDrop, CountPart, CountType
    <3> QED
      BY <1>0, <3>1, <3>2, AdjustIfAnyType
  <2>2. CallPart'
    BY <1>0, <1>8 DEF CallPart, AtomicDrop, Uncount, NextDrop, Goto
  <2>3. OwnPart'
    <3>1. /\ obj[t].ptr \in RefOrNull
          /\ dead' = [dead EXCEPT ![t] = obj[t].ptr] \/ dead' = dead
          /\ obj' = [obj EXCEPT ![t] = Nothing]
          /\ loc' = loc /\ tmp' = tmp /\ cmp' = cmp
      BY <1>0, <1>8 DEF OwnPart, AtomicDrop, Uncount
    <3> QED
      BY <1>0, <3>1 DEF OwnPart
  <2>4. SharedPart' /\ HeapPart' /\ ReadPart'
    BY <1>0, <1>8 DEF SharedPart, HeapPart, ReadPart, AtomicDrop, refVars, heapVars, localVars
  <2> QED
    BY TypePartsNext, <2>1, <2>2, <2>3, <2>4
<1>9. CASE LocalDrop(t)
  <2>1. CountPart'
    <3>1. tmp[t] \in RefOrNull /\ AdjustIfAny(tmp[t], -1, 0)
      BY <1>0, <1>9 DEF OwnPart, LocalDrop, Uncount
    <3> QED
      BY <1>0, <3>1, -1 \in Int, 0 \in Int, 1 \in Int, 0 \in Nat, 1 \in Nat, AdjustUpType
  <2>2. CallPart'
    BY <1>0, <1>9 DEF CallPart, LocalDrop, Uncount, Goto
  <2>3. OwnPart'
    BY <1>0, <1>9 DEF OwnPart, LocalDrop, Uncount, LastUse
  <2>4. SharedPart' /\ HeapPart' /\ ReadPart'
    BY <1>0, <1>9 DEF SharedPart, HeapPart, ReadPart, LocalDrop, refVars, heapVars, localVars
  <2> QED
    BY TypePartsNext, <2>1, <2>2, <2>3, <2>4
<1>10. CASE Free(t)
  <2>1. HeapPart'
    <3>1. dead[t] \in heap /\ dead[t] \notin spare
      BY <1>10 DEF Free, Exists
    <3>2. /\ pool' = pool
          /\ \/ spare' = spare \union {dead[t]} /\ heap' = heap
             \/ heap' = heap \ {dead[t]} /\ spare' = spare
      BY <1>10 DEF Free, refVars
    <3> QED
      BY <1>0, <3>1, <3>2 DEF HeapPart
  <2>2. CallPart'
    BY <1>0, <1>10 DEF CallPart, Free, NextDrop, Goto
  <2>3. OwnPart'
    BY <1>0, <1>10 DEF OwnPart, Free
  <2>4. SharedPart' /\ CountPart' /\ ReadPart'
    BY <1>0, <1>10 DEF SharedPart, CountPart, ReadPart, Free, refVars, heapVars, localVars
  <2> QED
    BY TypePartsNext, <2>1, <2>2, <2>3, <2>4
<1> QED
  BY <1>1, <1>2, <1>3, <1>4, <1>5, <1>6, <1>7, <1>8, <1>9, <1>10 DEF Step

-------------------------------------------------------------------------------
(* Control.  An operation leaves the temporaries of a thread as the next   *)
(* one expects them.                                                       *)
LEMMA EnterControl ==
    ASSUME TypeOK, Temporaries, Operands, NEW t \in Threads, Enter(t)
    PROVE  Temporaries' /\ Operands'
<1> USE Values
<1>0. SharedPart /\ CallPart /\ OwnPart /\ ReadPart
  BY TypeParts
<1>1. CASE LocalNew(t)
  <2>1. Temporaries'
    BY <1>0, <1>1 DEF Temporaries, LocalNew, Call, Goto, CallPart, OwnPart, localVars, TmpFrom, CmpFrom, ObjFrom
  <2>2. Operands'
    BY <1>0, <1>1 DEF Operands, Reads, Assigns, LocalNew, Call, Goto, SharedPart, CallPart, ReadPart, localVars
  <2> QED
    BY <2>1, <2>2
<1>2. CASE LocalReset(t)
  <2>1. Temporaries'
    BY <1>0, <1>2 DEF Temporaries, LocalReset, Call, Goto, CallPart, OwnPart, localVars, TmpFrom, CmpFrom, ObjFrom
  <2>2. Operands'
    BY <1>0, <1>2 DEF Operands, Reads, Assigns, LocalReset, Call, Goto, SharedPart, CallPart, ReadPart, localVars
  <2> QED
    BY <2>1, <2>2
<1>3. CASE LocalCopy(t)
  <2>1. Temporaries'
    BY <1>0, <1>3 DEF Temporaries, LocalCopy, Call, Goto, CallPart, OwnPart, localVars, TmpFrom, CmpFrom, ObjFrom
  <2>2. Operands'
    BY <1>0, <1>3 DEF Operands, Reads, Assigns, LocalCopy, Call, Goto, SharedPart, CallPart, ReadPart, localVars
  <2> QED
    BY <2>1, <2>2
<1>4. CASE SetPool(t)
  <2>1. Temporaries'
    BY <1>0, <1>4 DEF Temporaries, SetPool, Call, Goto, CallPart, OwnPart, localVars, TmpFrom, CmpFrom, ObjFrom
  <2>2. Operands'
    BY <1>0, <1>4 DEF Operands, Reads, Assigns, SetPool, Call, Goto, SharedPart, CallPart, ReadPart, localVars
  <2> QED
    BY <2>1, <2>2
<1>5. ASSUME NEW c \in shared, LoadCall(t, c)
      PROVE  Temporaries' /\ Operands'
  <2>1. Temporaries'
    BY <1>0, <1>5 DEF Temporaries, LoadCall, Call, Goto, CallPart, OwnPart, localVars, TmpFrom, CmpFrom, ObjFrom
  <2>2. Operands'
    BY <1>0, <1>5 DEF Operands, Reads, Assigns, LoadCall, Call, Goto, SharedPart, CallPart, ReadPart, localVars
  <2> QED
    BY <2>1, <2>2
<1>6. ASSUME NEW c \in shared, StoreNew(t, c)
      PROVE  Temporaries' /\ Operands'
  <2>1. Temporaries'
    BY <1>0, <1>6 DEF Temporaries, StoreNew, Call, Goto, CallPart, OwnPart, localVars, TmpFrom, CmpFrom, ObjFrom
  <2>2. Operands'
    BY <1>0, <1>6 DEF Operands, Reads, Assigns, StoreNew, Call, Goto, SharedPart, CallPart, ReadPart, localVars
  <2> QED
    BY <2>1, <2>2
<1>7. ASSUME NEW c \in shared, StoreNull(t, c)
      PROVE  Temporaries' /\ Operands'
  <2>1. Temporaries'
    BY <1>0, <1>7 DEF Temporaries, StoreNull, Call, Goto, CallPart, OwnPart, localVars, TmpFrom, CmpFrom, ObjFrom
  <2>2. Operands'
    BY <1>0, <1>7 DEF Operands, Reads, Assigns, StoreNull, Call, Goto, SharedPart, CallPart, ReadPart, localVars
  <2> QED
    BY <2>1, <2>2
<1>8. ASSUME NEW c \in shared, StoreLocal(t, c)
      PROVE  Temporaries' /\ Operands'
  <2>1. Temporaries'
    BY <1>0, <1>8 DEF Temporaries, StoreLocal, Call, Goto, CallPart, OwnPart, localVars, TmpFrom, CmpFrom, ObjFrom
  <2>2. Operands'
    BY <1>0, <1>8 DEF Operands, Reads, Assigns, StoreLocal, Call, Goto, SharedPart, CallPart, ReadPart, localVars
  <2> QED
    BY <2>1, <2>2
<1>9. ASSUME NEW c \in shared, CasNew(t, c)
      PROVE  Temporaries' /\ Operands'
  <2>1. Temporaries'
    BY <1>0, <1>9 DEF Temporaries, CasNew, Call, Goto, CallPart, OwnPart, localVars, TmpFrom, CmpFrom, ObjFrom
  <2>2. Operands'
    BY <1>0, <1>9 DEF Operands, Reads, Assigns, CasNew, Call, Goto, SharedPart, CallPart, ReadPart, localVars
  <2> QED
    BY <2>1, <2>2
<1>10. ASSUME NEW c \in shared, AtomicDestroy(t, c)
      PROVE  Temporaries' /\ Operands'
  <2>1. Temporaries'
    BY <1>0, <1>10 DEF Temporaries, AtomicDestroy, Call, Goto, CallPart, OwnPart, localVars, TmpFrom, CmpFrom, ObjFrom
  <2>2. Operands'
    BY <1>0, <1>10 DEF Operands, Reads, Assigns, AtomicDestroy, Call, Goto, SharedPart, CallPart, ReadPart, localVars
  <2> QED
    BY <2>1, <2>2
<1>11. ASSUME NEW c \in shared, NEW d \in shared, CopyCall(t, c, d)
      PROVE  Temporaries' /\ Operands'
  <2>1. Temporaries'
    BY <1>0, <1>11 DEF Temporaries, CopyCall, Call, Goto, CallPart, OwnPart, localVars, TmpFrom, CmpFrom, ObjFrom
  <2>2. Operands'
    BY <1>0, <1>11 DEF Operands, Reads, Assigns, CopyCall, Call, Goto, SharedPart, CallPart, ReadPart, localVars
  <2> QED
    BY <2>1, <2>2
<1> QED
  BY <1>1, <1>2, <1>3, <1>4, <1>5, <1>6, <1>7, <1>8, <1>9, <1>10, <1>11 DEF Enter

LEMMA StepControl ==
    ASSUME TypeOK, Temporaries, Operands, NEW t \in Threads, Step(t)
    PROVE  Temporaries' /\ Operands'
<1> USE Values
<1>0. SharedPart /\ CallPart /\ OwnPart /\ ReadPart
  BY TypeParts
<1>1. CASE GetLoadPtr(t)
  <2>1. Temporaries'
    BY <1>0, <1>1 DEF Temporaries, GetLoadPtr, Goto, CallPart, OwnPart, localVars, TmpFrom, CmpFrom, ObjFrom
  <2>2. Operands'
    BY <1>0, <1>1 DEF Operands, Reads, Assigns, GetLoadPtr, Goto, SharedPart, CallPart, ReadPart, localVars
  <2> QED
    BY <2>1, <2>2
<1>2. CASE GetCas(t)
  <2>1. Temporaries'
    BY <1>0, <1>2 DEF Temporaries, GetCas, Goto, CallPart, OwnPart, localVars, TmpFrom, CmpFrom, ObjFrom
  <2>2. Operands'
    BY <1>0, <1>2 DEF Operands, Reads, Assigns, GetCas, Goto, SharedPart, CallPart, ReadPart, localVars
  <2> QED
    BY <2>1, <2>2
<1>3. CASE FixCopy(t)
  <2>1. Temporaries'
    BY <1>0, <1>3 DEF Temporaries, FixCopy, Goto, CallPart, OwnPart, localVars, TmpFrom, CmpFrom, ObjFrom
  <2>2. Operands'
    BY <1>0, <1>3 DEF Operands, Reads, Assigns, FixCopy, Goto, SharedPart, CallPart, ReadPart, localVars
  <2> QED
    BY <2>1, <2>2
<1>4. CASE Swap(t)
  <2>1. Temporaries'
    BY <1>0, <1>4 DEF Temporaries, Swap, Goto, CallPart, OwnPart, localVars, TmpFrom, CmpFrom, ObjFrom
  <2>2. Operands'
    BY <1>0, <1>4 DEF Operands, Reads, Assigns, Swap, Goto, SharedPart, CallPart, ReadPart, localVars
  <2> QED
    BY <2>1, <2>2
<1>5. CASE CasCompare(t)
  <2>1. Temporaries'
    BY <1>0, <1>5 DEF Temporaries, CasCompare, Goto, CallPart, OwnPart, localVars, TmpFrom, CmpFrom, ObjFrom
  <2>2. Operands'
    BY <1>0, <1>5 DEF Operands, Reads, Assigns, CasCompare, Goto, SharedPart, CallPart, ReadPart, localVars
  <2> QED
    BY <2>1, <2>2
<1>6. CASE CasLoad(t)
  <2>1. Temporaries'
    BY <1>0, <1>6 DEF Temporaries, CasLoad, Goto, CallPart, OwnPart, localVars, TmpFrom, CmpFrom, ObjFrom
  <2>2. Operands'
    BY <1>0, <1>6 DEF Operands, Reads, Assigns, CasLoad, Goto, SharedPart, CallPart, ReadPart, localVars
  <2> QED
    BY <2>1, <2>2
<1>7. CASE CasCas(t)
  <2>1. Temporaries'
    BY <1>0, <1>7 DEF Temporaries, CasCas, CasReturn, Goto, CallPart, OwnPart, localVars, TmpFrom, CmpFrom, ObjFrom
  <2>2. Operands'
    BY <1>0, <1>7 DEF Operands, Reads, Assigns, CasCas, CasReturn, Goto, SharedPart, CallPart, ReadPart, localVars
  <2> QED
    BY <2>1, <2>2
<1>8. CASE AtomicDrop(t)
  <2>1. Temporaries'
    BY <1>0, <1>8 DEF Temporaries, AtomicDrop, Uncount, LastUse, NextDrop, Goto, CallPart, OwnPart, localVars, TmpFrom, CmpFrom, ObjFrom
  <2>2. Operands'
    BY <1>0, <1>8 DEF Operands, Reads, Assigns, AtomicDrop, Uncount, LastUse, NextDrop, Goto, SharedPart, CallPart, ReadPart, localVars
  <2> QED
    BY <2>1, <2>2
<1>9. CASE LocalDrop(t)
  <2>1. Temporaries'
    BY <1>0, <1>9 DEF Temporaries, LocalDrop, Uncount, LastUse, Goto, CallPart, OwnPart, localVars, TmpFrom, CmpFrom, ObjFrom
  <2>2. Operands'
    BY <1>0, <1>9 DEF Operands, Reads, Assigns, LocalDrop, Uncount, LastUse, Goto, SharedPart, CallPart, ReadPart, localVars
  <2> QED
    BY <2>1, <2>2
<1>10. CASE Free(t)
  <2>1. Temporaries'
    BY <1>0, <1>10 DEF Temporaries, Free, NextDrop, Goto, CallPart, OwnPart, localVars, TmpFrom, CmpFrom, ObjFrom
  <2>2. Operands'
    BY <1>0, <1>10 DEF Operands, Reads, Assigns, Free, NextDrop, Goto, SharedPart, CallPart, ReadPart, localVars
  <2> QED
    BY <2>1, <2>2
<1> QED
  BY <1>1, <1>2, <1>3, <1>4, <1>5, <1>6, <1>7, <1>8, <1>9, <1>10 DEF Step

-------------------------------------------------------------------------------
(* Counts. *)
RightCount(r) ==
    /\ Exists(r) => Balanced(r)
    /\ Shared(r) + Held(r) > 0 <=> Exists(r) /\ ~Dying(r)

LEMMA CountsAre ==
    /\ Counts <=> \A r \in Refs : RightCount(r)
    /\ Counts' <=> \A r \in Refs : RightCount(r)'
BY DEF Counts, RightCount

(* What the lemmas on the sets above are used with.                        *)
LEMMA InNumbers ==
    /\ TypeOK => PointerType /\ Numbers
    /\ TypeOK' => PointerType' /\ Numbers'
    /\ TypeOK => \A r \in Refs : count[r].ecount \in Int /\ count[r].rcount \in Int
    /\ TypeOK' => \A r \in Refs : count'[r].ecount \in Int /\ count'[r].rcount \in Int
<1>1. (TypeOK => PointerType) /\ (TypeOK' => PointerType')
  BY DEF TypeOK, PointerType
<1> QED
  BY <1>1, AreNumbers, AreNumbersNext DEF TypeOK

(* Nothing changes as to who is to be deleted. *)
SameObjects == heap' = heap /\ spare' = spare /\ dead' = dead

LEMMA SameDeletes ==
    ASSUME Deletes, SameObjects
    PROVE  Deletes'
BY DEF Deletes, SameObjects, Exists

(* The counts follow the pointers, and some pointer remains if there was one. *)
LEMMA Follows ==
    ASSUME TypeOK, TypeOK', NEW r \in Refs, RightCount(r), SameObjects,
           Shared(r)' - Shared(r) = count'[r].rcount - count[r].rcount,
           Held(r)' - Held(r) = Carried(r)' - Carried(r) + count'[r].ecount - count[r].ecount,
           Shared(r) + Held(r) > 0 <=> Shared(r)' + Held(r)' > 0
    PROVE  RightCount(r)'
<1>1. (Exists(r)' <=> Exists(r)) /\ (Dying(r)' <=> Dying(r))
  BY DEF SameObjects, Exists, Dying
<1>2. /\ Shared(r) \in Nat /\ Carried(r) \in Nat /\ Held(r) \in Nat
      /\ Shared(r)' \in Nat /\ Carried(r)' \in Nat /\ Held(r)' \in Nat
  BY InNumbers DEF Numbers
<1>3. /\ count[r].ecount \in Int /\ count[r].rcount \in Int
      /\ count'[r].ecount \in Int /\ count'[r].rcount \in Int
  BY InNumbers
<1>4. Balanced(r) => Balanced(r)'
  <2>1. /\ Balanced(r) <=> /\ count[r].rcount = Shared(r)
                           /\ count[r].ecount + Carried(r) = Held(r)
        /\ Balanced(r)' <=> /\ count'[r].rcount = Shared(r)'
                            /\ count'[r].ecount + Carried(r)' = Held(r)'
    BY DEF Balanced
  <2> QED
    BY <1>2, <1>3, <2>1
<1> QED
  BY <1>1, <1>2, <1>4 DEF RightCount

(* What a thread counts for beside its shared pointers. *)
Has(t, r) == obj[t].ptr = r \/ loc[t] = r \/ tmp[t] = r \/ cmp[t] = r
Gives(t, r, e, n) ==
    /\ Is(obj'[t].ptr, r) - Is(obj[t].ptr, r) = n
    /\ Names(t, r)' - Names(t, r) = e
    /\ Share(obj'[t], r) = Share(obj[t], r)

(* A thread that copies, moves or converts a pointer to a, without the     *)
(* shared pointers, and adjusts the counts of a accordingly.               *)
LEMMA OwnCounts ==
    ASSUME TypeOK, TypeOK', Counts, NEW t \in Threads, OnlyBy(t), SameObjects,
           cell' = cell, NEW a \in RefOrNull, NEW e \in Int, NEW n \in Int,
           AdjustIfAny(a, e, n),
           \A r \in Refs : IF r = a THEN Gives(t, r, e, n) ELSE Gives(t, r, 0, 0),
           a # NULL => Has(t, a) /\ Has(t, a)'
    PROVE  Counts'
<1> SUFFICES ASSUME NEW r \in Refs
             PROVE  RightCount(r)'
  BY CountsAre
<1>1. /\ Shared(r)' = Shared(r) + Is(obj'[t].ptr, r) - Is(obj[t].ptr, r)
      /\ Carried(r)' = Carried(r) + Share(obj'[t], r) - Share(obj[t], r)
      /\ Held(r)' = Held(r) + Names(t, r)' - Names(t, r)
  BY InNumbers, OwnStep, HeldStep
<1>2. /\ Shared(r) \in Nat /\ Carried(r) \in Nat /\ Held(r) \in Nat
      /\ Shared(r)' \in Nat /\ Carried(r)' \in Nat /\ Held(r)' \in Nat
  BY InNumbers DEF Numbers
<1>3. /\ Is(obj'[t].ptr, r) \in Int /\ Is(obj[t].ptr, r) \in Int
      /\ Names(t, r)' \in Int /\ Names(t, r) \in Int
      /\ Share(obj'[t], r) \in Int /\ Share(obj[t], r) \in Int
  BY Values DEF Is, Names, Share, TypeOK
<1>4. CASE r = a
  <2>1. Gives(t, r, e, n)
    BY <1>4
  <2>2. Shared(r)' = Shared(r) + n /\ Held(r)' = Held(r) + e /\ Carried(r)' = Carried(r)
    BY <1>1, <1>2, <1>3, <2>1 DEF Gives
  <2>3. /\ count'[r].ecount = count[r].ecount + e
        /\ count'[r].rcount = count[r].rcount + n
    BY <1>4, Values DEF AdjustIfAny, Adjust, Adjusted, TypeOK
  <2>4. Shared(r) + Held(r) > 0 /\ Shared(r)' + Held(r)' > 0
    <3>1. Has(t, r) /\ Has(t, r)'
      BY <1>4, Values
    <3>2. /\ obj[t].ptr = r => Shared(r) > 0
          /\ loc[t] = r \/ tmp[t] = r \/ cmp[t] = r => Held(r) > 0
          /\ obj'[t].ptr = r => Shared(r)' > 0
          /\ loc'[t] = r \/ tmp'[t] = r \/ cmp'[t] = r => Held(r)' > 0
      <4>1. Numbers /\ Numbers'
        BY InNumbers
      <4>2. /\ obj[t].ptr = r => Shared(r) > 0
            /\ loc[t] = r \/ tmp[t] = r \/ cmp[t] = r => Held(r) > 0
        BY <4>1 DEF Numbers
      <4>3. /\ obj'[t].ptr = r => Shared(r)' > 0
            /\ loc'[t] = r \/ tmp'[t] = r \/ cmp'[t] = r => Held(r)' > 0
        BY <4>1 DEF Numbers
      <4> QED
        BY <4>2, <4>3
    <3> QED
      BY <1>2, <3>1, <3>2 DEF Has
  <2>5. count[r].ecount \in Int /\ count[r].rcount \in Int
    BY InNumbers
  <2>6. /\ Shared(r)' - Shared(r) = count'[r].rcount - count[r].rcount
        /\ Held(r)' - Held(r) = Carried(r)' - Carried(r) + count'[r].ecount - count[r].ecount
    BY <1>2, <2>2, <2>3, <2>5
  <2> QED
    BY <2>4, <2>6, Follows, CountsAre
<1>5. CASE r # a
  <2>1. Gives(t, r, 0, 0)
    BY <1>5
  <2>2. Shared(r)' = Shared(r) /\ Held(r)' = Held(r) /\ Carried(r)' = Carried(r)
    BY <1>1, <1>2, <1>3, <2>1 DEF Gives
  <2>3. count'[r] = count[r]
    BY <1>5, Values DEF AdjustIfAny, Adjust, TypeOK
  <2>4. count[r].ecount \in Int /\ count[r].rcount \in Int
    BY InNumbers
  <2>5. /\ Shared(r)' - Shared(r) = count'[r].rcount - count[r].rcount
        /\ Held(r)' - Held(r) = Carried(r)' - Carried(r) + count'[r].ecount - count[r].ecount
        /\ Shared(r) + Held(r) > 0 <=> Shared(r)' + Held(r)' > 0
    BY <1>2, <2>2, <2>3, <2>4
  <2> QED
    BY <2>5, Follows, CountsAre
<1> QED
  BY <1>4, <1>5

(* A thread that exchanges what it has with a shared pointer.              *)
LEMMA ExchangeCounts ==
    ASSUME TypeOK, TypeOK', Counts, NEW t \in Threads, OnlyBy(t), SameObjects,
           count' = count, NEW c \in Cells, \A b \in Cells \ {c} : cell'[b] = cell[b],
           cell'[c] = obj[t], obj'[t] = cell[c],
           \A r \in Refs : Names(t, r)' = Names(t, r)
    PROVE  Counts'
<1> SUFFICES ASSUME NEW r \in Refs
             PROVE  RightCount(r)'
  BY CountsAre
<1>1. /\ Shared(r)' = Shared(r) + Is(obj'[t].ptr, r) - Is(obj[t].ptr, r)
             + Is(cell'[c].ptr, r) - Is(cell[c].ptr, r)
      /\ Carried(r)' = Carried(r) + Share(obj'[t], r) - Share(obj[t], r)
             + Share(cell'[c], r) - Share(cell[c], r)
      /\ Held(r)' = Held(r) + Names(t, r)' - Names(t, r)
  BY InNumbers, CellStep, HeldStep
<1>2. /\ Shared(r) \in Nat /\ Carried(r) \in Nat /\ Held(r) \in Nat
      /\ count[r].ecount \in Int /\ count[r].rcount \in Int
  BY InNumbers DEF Numbers
<1>3. /\ Is(obj[t].ptr, r) \in Int /\ Is(cell[c].ptr, r) \in Int /\ Names(t, r) \in Int
      /\ Share(obj[t], r) \in Int /\ Share(cell[c], r) \in Int
  BY Values DEF Is, Names, Share, TypeOK
<1>4. Shared(r)' = Shared(r) /\ Carried(r)' = Carried(r) /\ Held(r)' = Held(r)
  BY <1>1, <1>2, <1>3
<1> QED
  BY <1>2, <1>4, Follows, CountsAre

(* A reading: the object is named by c before and after.                   *)
LEMMA ReadCounts ==
    ASSUME TypeOK, TypeOK', Counts, NEW t \in Threads, OnlyBy(t), SameObjects,
           count' = count, NEW c \in Cells, \A b \in Cells \ {c} : cell'[b] = cell[b],
           cell'[c].ptr = cell[c].ptr, cell'[c].ecount = cell[c].ecount + 1,
           obj'[t] = obj[t],
           \A r \in Refs : Names(t, r)' = Names(t, r) + Is(cell[c].ptr, r)
    PROVE  Counts'
<1> SUFFICES ASSUME NEW r \in Refs
             PROVE  RightCount(r)'
  BY CountsAre
<1>1. /\ Shared(r)' = Shared(r) + Is(obj'[t].ptr, r) - Is(obj[t].ptr, r)
             + Is(cell'[c].ptr, r) - Is(cell[c].ptr, r)
      /\ Carried(r)' = Carried(r) + Share(obj'[t], r) - Share(obj[t], r)
             + Share(cell'[c], r) - Share(cell[c], r)
      /\ Held(r)' = Held(r) + Names(t, r)' - Names(t, r)
  BY InNumbers, CellStep, HeldStep
<1>2. /\ Shared(r) \in Nat /\ Carried(r) \in Nat /\ Held(r) \in Nat
      /\ count[r].ecount \in Int /\ count[r].rcount \in Int
      /\ cell[c].ptr = r => Shared(r) > 0
  BY InNumbers DEF Numbers
<1>3. /\ Is(obj[t].ptr, r) \in Int /\ Is(cell[c].ptr, r) \in Int /\ Names(t, r) \in Int
      /\ Share(obj[t], r) \in Int /\ Share(cell[c], r) \in Int
  BY Values DEF Is, Names, Share, TypeOK
<1>4. Share(cell'[c], r) = Share(cell[c], r) + Is(cell[c].ptr, r)
  BY Values DEF Share, Is, TypeOK
<1>5. /\ Shared(r)' = Shared(r)
      /\ Carried(r)' = Carried(r) + Is(cell[c].ptr, r)
      /\ Held(r)' = Held(r) + Is(cell[c].ptr, r)
  BY <1>1, <1>2, <1>3, <1>4
<1>6. Shared(r) + Held(r) > 0 <=> Shared(r)' + Held(r)' > 0
  BY <1>2, <1>5 DEF Is
<1>7. /\ Shared(r)' - Shared(r) = count'[r].rcount - count[r].rcount
      /\ Held(r)' - Held(r) = Carried(r)' - Carried(r) + count'[r].ecount - count[r].ecount
  BY <1>2, <1>3, <1>5
<1> QED
  BY <1>6, <1>7, Follows, CountsAre

(* A new object, or one from the pool, has the one pointer that is made.   *)
LEMMA ObtainCounts ==
    ASSUME TypeOK, TypeOK', Counts, Deletes, NEW t \in Threads, OnlyBy(t),
           cell' = cell, dead' = dead, NEW a \in Refs, NEW k \in {ForLocal, ForAtomic},
           Obtain(a, k),
           \A r \in Refs : IF r = a THEN Gives(t, r, k.ecount, k.rcount) ELSE Gives(t, r, 0, 0)
    PROVE  Counts' /\ Deletes'
<1>1. /\ ~Exists(a) /\ Exists(a)'
      /\ \A r \in Refs \ {a} : Exists(r)' <=> Exists(r)
      /\ \A r : Dying(r)' <=> Dying(r)
      /\ ~Dying(a)
      /\ count'[a] = k
      /\ \A r \in Refs \ {a} : count'[r] = count[r]
  <2>1. ~Exists(a) /\ Exists(a)' /\ \A r \in Refs \ {a} : Exists(r)' <=> Exists(r)
    BY DEF Obtain, Exists, TypeOK
  <2>2. \A r : Dying(r)' <=> Dying(r)
    BY DEF Dying
  <2>3. ~Dying(a)
    BY <2>1, AtomicPtrAssumption DEF Dying, Deletes
  <2> QED
    BY <2>1, <2>2, <2>3 DEF Obtain, TypeOK
<1>2. ASSUME NEW r \in Refs
      PROVE  RightCount(r)'
  <2>1. /\ Shared(r)' = Shared(r) + Is(obj'[t].ptr, r) - Is(obj[t].ptr, r)
        /\ Carried(r)' = Carried(r) + Share(obj'[t], r) - Share(obj[t], r)
        /\ Held(r)' = Held(r) + Names(t, r)' - Names(t, r)
    BY InNumbers, OwnStep, HeldStep
  <2>2. /\ Shared(r) \in Nat /\ Carried(r) \in Nat /\ Held(r) \in Nat
        /\ Shared(r) = 0 => Carried(r) = 0
    BY InNumbers DEF Numbers
  <2>3. /\ Is(obj'[t].ptr, r) \in Int /\ Is(obj[t].ptr, r) \in Int
        /\ Names(t, r)' \in Int /\ Names(t, r) \in Int
        /\ Share(obj'[t], r) \in Int /\ Share(obj[t], r) \in Int
    BY Values DEF Is, Names, Share, TypeOK
  <2>4. RightCount(r)
    BY CountsAre
  <2>5. CASE r = a
    <3>1. Gives(t, r, k.ecount, k.rcount)
      BY <2>5
    <3>2. Shared(r) = 0 /\ Held(r) = 0 /\ Carried(r) = 0
      BY <1>1, <2>2, <2>4, <2>5 DEF RightCount
    <3>3. /\ k.ecount \in Nat /\ k.rcount \in Nat /\ k.ecount + k.rcount = 1
      BY DEF ForLocal, ForAtomic
    <3>4. Shared(r)' = k.rcount /\ Held(r)' = k.ecount /\ Carried(r)' = 0
      BY <2>1, <2>3, <3>1, <3>2, <3>3 DEF Gives
    <3> QED
      BY <1>1, <2>5, <3>3, <3>4 DEF RightCount, Balanced
  <2>6. CASE r # a
    <3>1. Gives(t, r, 0, 0)
      BY <2>6
    <3>2. Shared(r)' = Shared(r) /\ Held(r)' = Held(r) /\ Carried(r)' = Carried(r)
      BY <2>1, <2>2, <2>3, <3>1 DEF Gives
    <3> QED
      BY <1>1, <2>4, <2>6, <3>2 DEF RightCount, Balanced
  <2> QED
    BY <2>5, <2>6
<1>3. Deletes'
  BY <1>1, Values DEF Deletes, TypeOK
<1> QED
  BY <1>2, <1>3, CountsAre

(* A pointer to a is destroyed.  What it stood for is brought home, and    *)
(* whoever finds both counts zero is alone: with no atomic_ptr nothing is  *)
(* away, and so no local_ptr is left either.                               *)
LEMMA UncountCounts ==
    ASSUME TypeOK, TypeOK', Counts, Deletes, NEW t \in Threads, OnlyBy(t),
           cell' = cell, heap' = heap, spare' = spare, dead[t] = NULL,
           NEW a \in RefOrNull, NEW e \in Int, NEW n \in Int, NEW after,
           Uncount(t, a, e, n, after), a # NULL => Has(t, a),
           \A r \in Refs :
               /\ Is(obj'[t].ptr, r) - Is(obj[t].ptr, r) = IF r = a THEN n ELSE 0
               /\ Names(t, r)' - Names(t, r) - (Share(obj'[t], r) - Share(obj[t], r))
                      = IF r = a THEN e ELSE 0
               /\ r # a => Names(t, r)' = Names(t, r)
    PROVE  Counts' /\ Deletes'
<1>1. \A r : Exists(r)' <=> Exists(r)
  BY DEF Exists
<1>2. /\ LastUse(a, e, n) => dead' = [dead EXCEPT ![t] = a]
      /\ ~LastUse(a, e, n) => dead' = dead
      /\ AdjustIfAny(a, e, n)
  BY DEF Uncount
<1>3. a # NULL => a \in Refs /\ Exists(a) /\ ~Dying(a)
  <2> SUFFICES ASSUME a # NULL
               PROVE  a \in Refs /\ Exists(a) /\ ~Dying(a)
    OBVIOUS
  <2>1. a \in Refs
    BY Values
  <2>2. /\ Shared(a) \in Nat /\ Held(a) \in Nat
        /\ obj[t].ptr = a => Shared(a) > 0
        /\ loc[t] = a \/ tmp[t] = a \/ cmp[t] = a => Held(a) > 0
    BY <2>1, InNumbers DEF Numbers
  <2>3. Shared(a) + Held(a) > 0
    BY <2>2 DEF Has
  <2> QED
    BY <2>1, <2>3, CountsAre DEF RightCount
<1>4. \A r \in Refs : Dying(r)' <=> Dying(r) \/ (r = a /\ LastUse(a, e, n))
  BY <1>2, AtomicPtrAssumption DEF Dying, TypeOK, LastUse
<1>5. ASSUME NEW r \in Refs
      PROVE  RightCount(r)'
  <2>1. /\ Shared(r)' = Shared(r) + Is(obj'[t].ptr, r) - Is(obj[t].ptr, r)
        /\ Carried(r)' = Carried(r) + Share(obj'[t], r) - Share(obj[t], r)
        /\ Held(r)' = Held(r) + Names(t, r)' - Names(t, r)
    BY InNumbers, OwnStep, HeldStep
  <2>2. /\ Shared(r) \in Nat /\ Carried(r) \in Nat /\ Held(r) \in Nat
        /\ Shared(r)' \in Nat /\ Carried(r)' \in Nat /\ Held(r)' \in Nat
        /\ Shared(r)' = 0 => Carried(r)' = 0
        /\ count[r].ecount \in Int /\ count[r].rcount \in Int
    BY InNumbers DEF Numbers
  <2>3. /\ Is(obj'[t].ptr, r) \in Int /\ Is(obj[t].ptr, r) \in Int
        /\ Names(t, r)' \in Int /\ Names(t, r) \in Int
        /\ Share(obj'[t], r) \in Int /\ Share(obj[t], r) \in Int
    BY Values DEF Is, Names, Share, TypeOK
  <2>4. RightCount(r)
    BY CountsAre
  <2>5. CASE r = a
    <3>1. /\ count'[r] = Adjusted(a, e, n)
          /\ count'[r].ecount = count[r].ecount + e
          /\ count'[r].rcount = count[r].rcount + n
      BY <1>2, <2>5, Values DEF AdjustIfAny, Adjust, Adjusted, TypeOK
    <3>2. /\ Shared(r)' = Shared(r) + n
          /\ Held(r)' - Carried(r)' = Held(r) - Carried(r) + e
      BY <2>1, <2>2, <2>3, <2>5
    <3>3. /\ count[r].rcount = Shared(r)
          /\ count[r].ecount + Carried(r) = Held(r)
      BY <1>3, <2>4, <2>5, Values DEF RightCount, Balanced
    <3>4. /\ count'[r].rcount = Shared(r)'
          /\ count'[r].ecount + Carried(r)' = Held(r)'
      BY <2>2, <3>1, <3>2, <3>3
    <3>5. LastUse(a, e, n) <=> count'[r].ecount = 0 /\ count'[r].rcount = 0
      BY <2>5, <3>1, Values DEF LastUse, Zero
    <3>6. LastUse(a, e, n) <=> ~(Shared(r)' + Held(r)' > 0)
      <4>1. LastUse(a, e, n) => Shared(r)' = 0 /\ Held(r)' = 0
        BY <2>2, <3>4, <3>5
      <4>2. Shared(r)' = 0 /\ Held(r)' = 0 => LastUse(a, e, n)
        BY <2>2, <3>1, <3>4, <3>5
      <4>3. ~(Shared(r)' + Held(r)' > 0) <=> Shared(r)' = 0 /\ Held(r)' = 0
        BY <2>2
      <4> QED
        BY <4>1, <4>2, <4>3
    <3> QED
      BY <1>1, <1>3, <1>4, <2>5, <3>4, <3>6, Values DEF RightCount, Balanced
  <2>6. CASE r # a
    <3>1. Shared(r)' = Shared(r) /\ Held(r)' = Held(r) /\ Carried(r)' = Carried(r)
      BY <2>1, <2>2, <2>3, <2>6
    <3>2. count'[r] = count[r]
      BY <1>2, <2>6, Values DEF AdjustIfAny, Adjust, TypeOK
    <3> QED
      BY <1>1, <1>4, <2>4, <2>6, <3>1, <3>2 DEF RightCount, Balanced
  <2> QED
    BY <2>5, <2>6
<1>6. Deletes'
  <2>1. CASE LastUse(a, e, n)
    <3>1. dead' = [dead EXCEPT ![t] = a] /\ a # NULL
      BY <1>2, <2>1 DEF LastUse
    <3>2. \A u \in Threads : dead[u] # a
      BY <1>3, <3>1 DEF Dying
    <3> QED
      BY <1>1, <1>3, <3>1, <3>2 DEF Deletes, TypeOK
  <2>2. CASE ~LastUse(a, e, n)
    BY <1>1, <1>2, <2>2 DEF Deletes
  <2> QED
    BY <2>1, <2>2
<1> QED
  BY <1>5, <1>6, CountsAre

(* What is deleted has no pointers, before or after.                       *)
LEMMA FreeCounts ==
    ASSUME TypeOK, TypeOK', Counts, Deletes, NEW t \in Threads, Temporaries, Free(t)
    PROVE  Counts' /\ Deletes'
<1>1. PICK a \in Refs : a = dead[t] /\ a # NULL /\ Exists(a)
  BY Values DEF Free, Temporaries, Deletes, TypeOK
<1>2. /\ ~Exists(a)'
      /\ \A r \in Refs \ {a} : Exists(r)' <=> Exists(r)
  <2>1. CASE pool[a]
    BY <1>1, <2>1 DEF Free, Exists
  <2>2. CASE ~pool[a]
    BY <1>1, <2>2 DEF Free, Exists
  <2> QED
    BY <2>1, <2>2
<1>3. /\ Dying(a) /\ ~Dying(a)'
      /\ \A r \in Refs \ {a} : Dying(r)' <=> Dying(r)
  <2>1. dead' = [dead EXCEPT ![t] = NULL]
    BY DEF Free
  <2>2. dead'[t] = NULL /\ \A u \in Threads \ {t} : dead'[u] = dead[u]
    BY <2>1 DEF TypeOK
  <2>3. \A u \in Threads : dead[u] = a => u = t
    BY <1>1 DEF Deletes
  <2> QED
    BY <1>1, <2>2, <2>3, AtomicPtrAssumption DEF Dying
<1>4. ASSUME NEW r \in Refs
      PROVE  RightCount(r)'
  <2>1. AtomicPtrs(r)' = AtomicPtrs(r)
    BY DEF Free, AtomicPtrs, At
  <2>2. LocalPtrs(r)' = LocalPtrs(r)
    BY DEF Free, LocalPtrs
  <2>3. Away(r)' = Away(r)
    BY <2>1 DEF Free, Away, At
  <2>4. /\ Shared(r)' = Shared(r) /\ Held(r)' = Held(r) /\ Carried(r)' = Carried(r)
        /\ count' = count
    BY <2>1, <2>2, <2>3 DEF Shared, Held, Carried, Free, refVars
  <2>5. RightCount(r)
    BY CountsAre
  <2>6. CASE r = a
    BY <1>1, <1>2, <1>3, <2>4, <2>5, <2>6 DEF RightCount
  <2>7. CASE r # a
    BY <1>2, <1>3, <2>4, <2>5, <2>7 DEF RightCount, Balanced
  <2> QED
    BY <2>6, <2>7
<1>5. Deletes'
  <2>1. dead' = [dead EXCEPT ![t] = NULL]
    BY DEF Free
  <2>2. dead'[t] = NULL /\ \A u \in Threads \ {t} : dead'[u] = dead[u]
    BY <2>1 DEF TypeOK
  <2>3. \A u \in Threads : dead[u] = a => u = t
    BY <1>1 DEF Deletes
  <2>4. \A u \in Threads : dead[u] # NULL => dead[u] \in Refs
    BY Values DEF TypeOK
  <2> QED
    BY <1>2, <2>2, <2>3, <2>4 DEF Deletes
<1> QED
  BY <1>4, <1>5, CountsAre

(* Which temporaries a thread has free. *)
LEMMA FreeTemporaries ==
    ASSUME Temporaries, NEW t \in Threads
    PROVE  /\ pc[t] \notin TmpFrom => tmp[t] = NULL
           /\ pc[t] \notin CmpFrom => cmp[t] = NULL
           /\ pc[t] \notin ObjFrom => obj[t] = Nothing
           /\ pc[t] # "free" => dead[t] = NULL
BY DEF Temporaries

LEMMA OwnTypes ==
    ASSUME TypeOK, NEW t \in Threads
    PROVE  /\ loc[t] \in RefOrNull /\ tmp[t] \in RefOrNull
           /\ cmp[t] \in RefOrNull /\ dead[t] \in RefOrNull
           /\ obj[t].ptr \in RefOrNull /\ obj[t].ecount \in Nat
           /\ old[t].ptr \in RefOrNull /\ old[t].ecount \in Nat
           /\ loc \in [Threads -> RefOrNull] /\ tmp \in [Threads -> RefOrNull]
           /\ cmp \in [Threads -> RefOrNull] /\ obj \in [Threads -> Differential]
           /\ cell \in [Cells -> Differential] /\ dead \in [Threads -> RefOrNull]
BY Values DEF TypeOK

(* Calls.  A thread that makes one has no temporaries. *)
LEMMA EnterCounts ==
    ASSUME TypeOK, TypeOK', Temporaries, Operands, Counts, Deletes,
           NEW t \in Threads, Enter(t)
    PROVE  Counts' /\ Deletes'
<1>0. /\ tmp[t] = NULL /\ cmp[t] = NULL /\ obj[t] = Nothing
      /\ loc[t] \in RefOrNull
      /\ loc \in [Threads -> RefOrNull] /\ tmp \in [Threads -> RefOrNull]
      /\ cmp \in [Threads -> RefOrNull] /\ obj \in [Threads -> Differential]
      /\ cell \in [Cells -> Differential] /\ shared \subseteq Cells
  <2>1. pc[t] = "idle"
    BY DEF Enter, LocalNew, LocalReset, LocalCopy, SetPool, LoadCall, StoreNew, StoreNull,
           StoreLocal, CasNew, AtomicDestroy, CopyCall, Call
  <2> QED
    BY <2>1, FreeTemporaries, OwnTypes DEF TmpFrom, CmpFrom, ObjFrom, TypeOK
<1>1. CASE LocalNew(t)
  <2>1. PICK a \in Refs : Obtain(a, ForLocal) /\ loc' = [loc EXCEPT ![t] = a]
    BY <1>1 DEF LocalNew
  <2>2. OnlyBy(t) /\ cell' = cell /\ dead' = dead
    BY <1>0, <1>1, <2>1 DEF OnlyBy, LocalNew
  <2>3. \A r \in Refs : IF r = a THEN Gives(t, r, ForLocal.ecount, ForLocal.rcount) ELSE Gives(t, r, 0, 0)
    BY <1>0, <1>1, <2>1, Values, AtomicPtrAssumption DEF Gives, Names, Is, Share, ForLocal, LocalNew, Call
  <2> QED
    BY <2>1, <2>2, <2>3, ObtainCounts
<1>2. CASE LocalReset(t)
  <2>1. OnlyBy(t) /\ SameObjects /\ cell' = cell
    BY <1>0, <1>2 DEF OnlyBy, SameObjects, LocalReset, heapVars, localVars
  <2>2. AdjustIfAny(NULL, 0, 0)
    BY <1>2 DEF LocalReset, AdjustIfAny, refVars
  <2>3. \A r \in Refs : IF r = NULL THEN Gives(t, r, 0, 0) ELSE Gives(t, r, 0, 0)
    BY <1>0, <1>2, Values DEF Gives, Names, Is, Share, LocalReset, localVars
  <2> QED
    BY <2>1, <2>2, <2>3, Values, OwnCounts, SameDeletes
<1>3. CASE LocalCopy(t)
  <2>1. PICK a \in RefOrNull : a = loc[t]
    BY <1>0
  <2>2. OnlyBy(t) /\ SameObjects /\ cell' = cell
    BY <1>0, <1>3 DEF OnlyBy, SameObjects, LocalCopy, heapVars, localVars
  <2>3. AdjustIfAny(a, 1, 0)
    BY <1>3, <2>1 DEF LocalCopy, AdjustIfAny
  <2>4. \A r \in Refs : IF r = a THEN Gives(t, r, 1, 0) ELSE Gives(t, r, 0, 0)
    BY <1>0, <1>3, <2>1, Values DEF Gives, Names, Is, Share, LocalCopy, localVars
  <2>5. Has(t, a) /\ Has(t, a)'
    BY <1>0, <1>3, <2>1, Values DEF Has, LocalCopy
  <2> QED
    BY <2>2, <2>3, <2>4, <2>5, 1 \in Int, 0 \in Int, OwnCounts, SameDeletes
<1>4. CASE SetPool(t)
  <2>1. OnlyBy(t) /\ SameObjects /\ cell' = cell
    BY <1>0, <1>4 DEF OnlyBy, SameObjects, SetPool, heapVars, localVars
  <2>2. AdjustIfAny(NULL, 0, 0)
    BY <1>4 DEF SetPool, AdjustIfAny, refVars
  <2>3. \A r \in Refs : IF r = NULL THEN Gives(t, r, 0, 0) ELSE Gives(t, r, 0, 0)
    BY <1>0, <1>4, Values DEF Gives, Names, Is, Share, SetPool, localVars
  <2> QED
    BY <2>1, <2>2, <2>3, Values, OwnCounts, SameDeletes
<1>5. ASSUME NEW c \in shared, LoadCall(t, c)
      PROVE  Counts' /\ Deletes'
  <2>1. OnlyBy(t) /\ SameObjects /\ cell' = cell
    BY <1>0, <1>5 DEF OnlyBy, SameObjects, LoadCall, heapVars, localVars
  <2>2. AdjustIfAny(NULL, 0, 0)
    BY <1>5 DEF LoadCall, AdjustIfAny, refVars
  <2>3. \A r \in Refs : IF r = NULL THEN Gives(t, r, 0, 0) ELSE Gives(t, r, 0, 0)
    BY <1>0, <1>5, Values DEF Gives, Names, Is, Share, LoadCall, localVars
  <2> QED
    BY <2>1, <2>2, <2>3, Values, OwnCounts, SameDeletes
<1>6. ASSUME NEW c \in shared, StoreNew(t, c)
      PROVE  Counts' /\ Deletes'
  <2>1. PICK a \in Refs : Obtain(a, ForAtomic) /\ obj' = [obj EXCEPT ![t] = Fresh(a)]
    BY <1>6 DEF StoreNew
  <2>2. OnlyBy(t) /\ cell' = cell /\ dead' = dead
    BY <1>0, <1>6, <2>1 DEF OnlyBy, StoreNew
  <2>3. \A r \in Refs : IF r = a THEN Gives(t, r, ForAtomic.ecount, ForAtomic.rcount) ELSE Gives(t, r, 0, 0)
    BY <1>0, <1>6, <2>1, Values, AtomicPtrAssumption DEF Gives, Names, Is, Share, ForAtomic, StoreNew, Call
  <2> QED
    BY <2>1, <2>2, <2>3, ObtainCounts
<1>7. ASSUME NEW c \in shared, StoreNull(t, c)
      PROVE  Counts' /\ Deletes'
  <2>1. OnlyBy(t) /\ SameObjects /\ cell' = cell
    BY <1>0, <1>7 DEF OnlyBy, SameObjects, StoreNull, heapVars, localVars
  <2>2. AdjustIfAny(NULL, 0, 0)
    BY <1>7 DEF StoreNull, AdjustIfAny, refVars
  <2>3. \A r \in Refs : IF r = NULL THEN Gives(t, r, 0, 0) ELSE Gives(t, r, 0, 0)
    BY <1>0, <1>7, Values DEF Gives, Names, Is, Share, StoreNull, localVars
  <2> QED
    BY <2>1, <2>2, <2>3, Values, OwnCounts, SameDeletes
<1>8. ASSUME NEW c \in shared, StoreLocal(t, c)
      PROVE  Counts' /\ Deletes'
  <2>1. PICK a \in RefOrNull : a = loc[t]
    BY <1>0
  <2>2. OnlyBy(t) /\ SameObjects /\ cell' = cell
    BY <1>0, <1>8 DEF OnlyBy, SameObjects, StoreLocal, heapVars, localVars
  <2>3. AdjustIfAny(a, 0, 1)
    BY <1>8, <2>1 DEF StoreLocal, AdjustIfAny
  <2>4. \A r \in Refs : IF r = a THEN Gives(t, r, 0, 1) ELSE Gives(t, r, 0, 0)
    BY <1>0, <1>8, <2>1, Values DEF Gives, Names, Is, Share, StoreLocal, localVars
  <2>5. Has(t, a) /\ Has(t, a)'
    BY <1>0, <1>8, <2>1, Values DEF Has, StoreLocal
  <2> QED
    BY <2>2, <2>3, <2>4, <2>5, 0 \in Int, 1 \in Int, OwnCounts, SameDeletes
<1>9. ASSUME NEW c \in shared, CasNew(t, c)
      PROVE  Counts' /\ Deletes'
  <2>1. PICK a \in Refs : Obtain(a, ForAtomic) /\ obj' = [obj EXCEPT ![t] = Fresh(a)]
    BY <1>9 DEF CasNew
  <2>2. OnlyBy(t) /\ cell' = cell /\ dead' = dead
    BY <1>0, <1>9, <2>1 DEF OnlyBy, CasNew
  <2>3. \A r \in Refs : IF r = a THEN Gives(t, r, ForAtomic.ecount, ForAtomic.rcount) ELSE Gives(t, r, 0, 0)
    BY <1>0, <1>9, <2>1, Values, AtomicPtrAssumption DEF Gives, Names, Is, Share, ForAtomic, CasNew, Call
  <2> QED
    BY <2>1, <2>2, <2>3, ObtainCounts
<1>10. ASSUME NEW c \in shared, AtomicDestroy(t, c)
      PROVE  Counts' /\ Deletes'
  <2>1. OnlyBy(t) /\ SameObjects /\ count' = count
    BY <1>0, <1>10 DEF OnlyBy, SameObjects, AtomicDestroy, refVars, heapVars, localVars
  <2>2. c \in Cells
    BY <1>0, <1>10 DEF AtomicDestroy, Operands, Assigns, TypeOK
  <2>3. /\ \A b \in Cells \ {c} : cell'[b] = cell[b]
        /\ cell'[c] = obj[t] /\ obj'[t] = cell[c]
    BY <1>0, <1>10, <2>2 DEF AtomicDestroy, TypeOK
  <2>4. \A r \in Refs : Names(t, r)' = Names(t, r)
    BY <1>0, <1>10, Values DEF Names, Is, AtomicDestroy, TypeOK
  <2> QED
    BY <2>1, <2>2, <2>3, <2>4, ExchangeCounts, SameDeletes
<1>11. ASSUME NEW c \in shared, NEW d \in shared, CopyCall(t, c, d)
      PROVE  Counts' /\ Deletes'
  <2>1. OnlyBy(t) /\ SameObjects /\ cell' = cell
    BY <1>0, <1>11 DEF OnlyBy, SameObjects, CopyCall, heapVars, localVars
  <2>2. AdjustIfAny(NULL, 0, 0)
    BY <1>11 DEF CopyCall, AdjustIfAny, refVars
  <2>3. \A r \in Refs : IF r = NULL THEN Gives(t, r, 0, 0) ELSE Gives(t, r, 0, 0)
    BY <1>0, <1>11, Values DEF Gives, Names, Is, Share, CopyCall, localVars
  <2> QED
    BY <2>1, <2>2, <2>3, Values, OwnCounts, SameDeletes
<1> QED
  BY <1>1, <1>2, <1>3, <1>4, <1>5, <1>6, <1>7, <1>8, <1>9, <1>10, <1>11 DEF Enter

(* Steps within a call. *)
LEMMA StepCounts ==
    ASSUME TypeOK, TypeOK', Temporaries, Operands, Counts, Deletes,
           NEW t \in Threads, Step(t)
    PROVE  Counts' /\ Deletes'
<1>0. /\ loc[t] \in RefOrNull /\ tmp[t] \in RefOrNull /\ obj[t].ptr \in RefOrNull
      /\ obj[t].ecount \in Nat
      /\ loc \in [Threads -> RefOrNull] /\ tmp \in [Threads -> RefOrNull]
      /\ cmp \in [Threads -> RefOrNull] /\ obj \in [Threads -> Differential]
      /\ cell \in [Cells -> Differential] /\ dead \in [Threads -> RefOrNull]
      /\ pc[t] \notin TmpFrom => tmp[t] = NULL
      /\ pc[t] \notin CmpFrom => cmp[t] = NULL
      /\ pc[t] \notin ObjFrom => obj[t] = Nothing
      /\ pc[t] # "free" => dead[t] = NULL
  BY OwnTypes, FreeTemporaries
<1> USE DEF TmpFrom, CmpFrom, ObjFrom
<1>1. CASE GetLoadPtr(t)
  <2>1. OnlyBy(t) /\ SameObjects /\ cell' = cell
    BY <1>0, <1>1 DEF OnlyBy, SameObjects, GetLoadPtr, heapVars, localVars
  <2>2. AdjustIfAny(NULL, 0, 0)
    BY <1>1 DEF GetLoadPtr, AdjustIfAny, refVars
  <2>3. \A r \in Refs : IF r = NULL THEN Gives(t, r, 0, 0) ELSE Gives(t, r, 0, 0)
    BY <1>0, <1>1, Values DEF Gives, Names, Is, Share, GetLoadPtr, localVars
  <2> QED
    BY <2>1, <2>2, <2>3, Values, OwnCounts, SameDeletes
<1>2. CASE GetCas(t)
  <2>1. CASE GetMatches(t)
    <3>1. OnlyBy(t) /\ SameObjects /\ count' = count
      BY <1>0, <1>2, <2>1 DEF OnlyBy, SameObjects, GetCas, refVars, heapVars
    <3>2. src[t] \in Cells /\ cell[src[t]] = old[t]
      BY <1>2, <2>1 DEF GetCas, GetMatches, Operands, Reads
    <3>3. /\ \A b \in Cells \ {src[t]} : cell'[b] = cell[b]
          /\ cell'[src[t]] = [ecount |-> old[t].ecount + 1, ptr |-> old[t].ptr]
          /\ obj'[t] = obj[t]
      BY <1>0, <1>2, <2>1, <3>2 DEF GetCas
    <3>4. cell'[src[t]].ptr = cell[src[t]].ptr /\ cell'[src[t]].ecount = cell[src[t]].ecount + 1
      BY <3>2, <3>3
    <3>5. /\ tmp[t] = NULL /\ cmp'[t] = cmp[t]
          /\ \/ tmp'[t] = loc[t] /\ loc'[t] = old[t].ptr
             \/ tmp'[t] = old[t].ptr /\ loc'[t] = loc[t]
      BY <1>0, <1>2, <2>1 DEF GetCas
    <3>6. \A r \in Refs : Names(t, r)' = Names(t, r) + Is(cell[src[t]].ptr, r)
      BY <3>2, <3>5, Values DEF Names, Is
    <3> QED
      BY <3>1, <3>2, <3>3, <3>4, <3>6, ReadCounts, SameDeletes
  <2>2. CASE ~GetMatches(t)
    <3>1. OnlyBy(t) /\ SameObjects /\ cell' = cell
      BY <1>2, <2>2 DEF OnlyBy, SameObjects, GetCas, heapVars
    <3>2. AdjustIfAny(NULL, 0, 0)
      BY <1>2 DEF GetCas, AdjustIfAny, refVars
    <3>3. \A r \in Refs : IF r = NULL THEN Gives(t, r, 0, 0) ELSE Gives(t, r, 0, 0)
      BY <1>2, <2>2 DEF GetCas, Gives, Names, Is, Share
    <3> QED
      BY <3>1, <3>2, <3>3, Values, OwnCounts, SameDeletes
  <2> QED
    BY <2>1, <2>2
<1>3. CASE FixCopy(t)
  <2>1. PICK a \in RefOrNull : a = tmp[t]
    BY <1>0
  <2>2. OnlyBy(t) /\ SameObjects /\ cell' = cell
    BY <1>0, <1>3 DEF OnlyBy, SameObjects, FixCopy, FixLocal, heapVars, localVars
  <2>3. AdjustIfAny(a, -1, 1)
    BY <1>3, <2>1 DEF FixCopy, FixLocal, AdjustIfAny
  <2>4. \A r \in Refs : IF r = a THEN Gives(t, r, -1, 1) ELSE Gives(t, r, 0, 0)
    BY <1>0, <1>3, <2>1, Values DEF Gives, Names, Is, Share, FixCopy, FixLocal, localVars
  <2>5. Has(t, a) /\ Has(t, a)'
    BY <1>0, <1>3, <2>1, Values DEF Has, FixCopy, FixLocal
  <2> QED
    BY <2>2, <2>3, <2>4, <2>5, -1 \in Int, 1 \in Int, OwnCounts, SameDeletes
<1>4. CASE Swap(t)
  <2>1. OnlyBy(t) /\ SameObjects /\ count' = count
    BY <1>0, <1>4 DEF OnlyBy, SameObjects, Swap, refVars, heapVars, localVars
  <2>2. dst[t] \in Cells
    BY <1>0, <1>4 DEF Swap, Operands, Assigns, TypeOK
  <2>3. /\ \A b \in Cells \ {dst[t]} : cell'[b] = cell[b]
        /\ cell'[dst[t]] = obj[t] /\ obj'[t] = cell[dst[t]]
    BY <1>0, <1>4, <2>2 DEF Swap, TypeOK
  <2>4. \A r \in Refs : Names(t, r)' = Names(t, r)
    BY <1>0, <1>4, Values DEF Names, Is, Swap, TypeOK
  <2> QED
    BY <2>1, <2>2, <2>3, <2>4, ExchangeCounts, SameDeletes
<1>5. CASE CasCompare(t)
  <2>1. PICK a \in RefOrNull : a = loc[t]
    BY <1>0
  <2>2. OnlyBy(t) /\ SameObjects /\ cell' = cell
    BY <1>0, <1>5 DEF OnlyBy, SameObjects, CasCompare, heapVars, localVars
  <2>3. AdjustIfAny(a, 1, 0)
    BY <1>5, <2>1 DEF CasCompare, AdjustIfAny
  <2>4. \A r \in Refs : IF r = a THEN Gives(t, r, 1, 0) ELSE Gives(t, r, 0, 0)
    BY <1>0, <1>5, <2>1, Values DEF Gives, Names, Is, Share, CasCompare, localVars
  <2>5. Has(t, a) /\ Has(t, a)'
    BY <1>0, <1>5, <2>1, Values DEF Has, CasCompare
  <2> QED
    BY <2>2, <2>3, <2>4, <2>5, 1 \in Int, 0 \in Int, OwnCounts, SameDeletes
<1>6. CASE CasLoad(t)
  <2>1. OnlyBy(t) /\ SameObjects /\ cell' = cell
    BY <1>0, <1>6 DEF OnlyBy, SameObjects, CasLoad, heapVars, localVars
  <2>2. AdjustIfAny(NULL, 0, 0)
    BY <1>6 DEF CasLoad, AdjustIfAny, refVars
  <2>3. \A r \in Refs : IF r = NULL THEN Gives(t, r, 0, 0) ELSE Gives(t, r, 0, 0)
    BY <1>0, <1>6, Values DEF Gives, Names, Is, Share, CasLoad, localVars
  <2> QED
    BY <2>1, <2>2, <2>3, Values, OwnCounts, SameDeletes
<1>7. CASE CasCas(t)
  <2>1. CASE cell[dst[t]] = old[t]
    <3>1. OnlyBy(t) /\ SameObjects /\ count' = count
      BY <1>0, <1>7, <2>1 DEF OnlyBy, SameObjects, CasCas, CasReturn, refVars, heapVars
    <3>2. dst[t] \in Cells
      BY <1>7 DEF CasCas, Operands, Assigns
    <3>3. /\ \A b \in Cells \ {dst[t]} : cell'[b] = cell[b]
          /\ cell'[dst[t]] = obj[t] /\ obj'[t] = cell[dst[t]]
      BY <1>0, <1>7, <2>1, <3>2 DEF CasCas
    <3>4. \A r \in Refs : Names(t, r)' = Names(t, r)
      BY <1>0, <1>7, <2>1, Values DEF Names, Is, CasCas, CasReturn
    <3> QED
      BY <3>1, <3>2, <3>3, <3>4, ExchangeCounts, SameDeletes
  <2>2. CASE cell[dst[t]] # old[t]
    <3>1. OnlyBy(t) /\ SameObjects /\ cell' = cell
      BY <1>0, <1>7, <2>2 DEF OnlyBy, SameObjects, CasCas, CasReturn, heapVars
    <3>2. AdjustIfAny(NULL, 0, 0)
      BY <1>7 DEF CasCas, AdjustIfAny, refVars
    <3>3. \A r \in Refs : IF r = NULL THEN Gives(t, r, 0, 0) ELSE Gives(t, r, 0, 0)
      BY <1>0, <1>7, <2>2, Values DEF CasCas, CasReturn, Gives, Names, Is, Share
    <3> QED
      BY <3>1, <3>2, <3>3, Values, OwnCounts, SameDeletes
  <2> QED
    BY <2>1, <2>2
<1>8. CASE AtomicDrop(t)
  <2>1. /\ OnlyBy(t) /\ cell' = cell /\ heap' = heap /\ spare' = spare
        /\ dead[t] = NULL
    BY <1>0, <1>8 DEF OnlyBy, AtomicDrop, heapVars
  <2>2. Uncount(t, obj[t].ptr, obj[t].ecount, -1, NextDrop(t)) /\ obj[t].ptr \in RefOrNull /\ obj[t].ecount \in Int /\ -1 \in Int
    BY <1>0, <1>8 DEF AtomicDrop, BroughtHome
  <2>3. obj[t].ptr # NULL => Has(t, obj[t].ptr)
    BY DEF Has
  <2>4. \A r \in Refs :
            /\ Is(obj'[t].ptr, r) - Is(obj[t].ptr, r) = IF r = obj[t].ptr THEN -1 ELSE 0
            /\ Names(t, r)' - Names(t, r) - (Share(obj'[t], r) - Share(obj[t], r))
                   = IF r = obj[t].ptr THEN obj[t].ecount ELSE 0
            /\ r # obj[t].ptr => Names(t, r)' = Names(t, r)
    BY <1>0, <1>8, Values DEF AtomicDrop, Is, Share, Names
  <2> QED
    BY <2>1, <2>2, <2>3, <2>4, UncountCounts
<1>9. CASE LocalDrop(t)
  <2>1. /\ OnlyBy(t) /\ cell' = cell /\ heap' = heap /\ spare' = spare
        /\ dead[t] = NULL
    BY <1>0, <1>9 DEF OnlyBy, LocalDrop, heapVars
  <2>2. Uncount(t, tmp[t], -1, 0, "idle") /\ tmp[t] \in RefOrNull /\ -1 \in Int /\ 0 \in Int
    BY <1>0, <1>9 DEF LocalDrop
  <2>3. tmp[t] # NULL => Has(t, tmp[t])
    BY DEF Has
  <2>4. \A r \in Refs :
            /\ Is(obj'[t].ptr, r) - Is(obj[t].ptr, r) = IF r = tmp[t] THEN 0 ELSE 0
            /\ Names(t, r)' - Names(t, r) - (Share(obj'[t], r) - Share(obj[t], r))
                   = IF r = tmp[t] THEN -1 ELSE 0
            /\ r # tmp[t] => Names(t, r)' = Names(t, r)
    BY <1>0, <1>9, Values DEF LocalDrop, Is, Share, Names
  <2> QED
    BY <2>1, <2>2, <2>3, <2>4, UncountCounts
<1>10. CASE Free(t)
  BY <1>10, FreeCounts
<1> QED
  BY <1>1, <1>2, <1>3, <1>4, <1>5, <1>6, <1>7, <1>8, <1>9, <1>10 DEF Step

-------------------------------------------------------------------------------
(* The invariant. *)
LEMMA InitFacts ==
    ASSUME Init
    PROVE  TypeOK /\ IInv
<1>1. PICK first \in [Cells -> RefOrNull] :
          /\ \A c, d \in Cells : first[c] # NULL /\ first[c] = first[d] => c = d
          /\ cell = [c \in Cells |-> Fresh(first[c])]
          /\ spare \in SUBSET (Refs \ {first[c] : c \in Cells})
          /\ heap = spare \union ({first[c] : c \in Cells} \ {NULL})
  BY DEF Init
<1>2. TypeOK
  <2>1. \A c \in Cells : first[c] # NULL => first[c] \in Refs
    BY Values
  <2>2. SharedPart
    BY <1>1, Values DEF Init, SharedPart
  <2>3. CountPart
    BY DEF Init, CountPart, CountType, ForAtomic, Uncounted
  <2>4. HeapPart
    BY <1>1, <2>1 DEF Init, HeapPart
  <2>5. CallPart
    BY AtomicPtrAssumption DEF Init, CallPart
  <2>6. OwnPart /\ ReadPart
    BY Values DEF Init, OwnPart, ReadPart
  <2> QED
    BY <2>2, <2>3, <2>4, <2>5, <2>6, TypeParts
<1>3. Temporaries /\ Operands
  BY DEF Init, Temporaries, Operands, Reads, Assigns
<1>4. Deletes
  BY DEF Init, Deletes
<1>5. ASSUME NEW r \in Refs
      PROVE  RightCount(r)
  <2>1. /\ AtomicPtrs(r) = {c \in Cells : first[c] = r}
        /\ LocalPtrs(r) = {} /\ Away(r) = {} /\ ~Dying(r)
    <3>1. AtomicPtrs(r) = {c \in Cells : first[c] = r}
      BY <1>1, Values, AtomicPtrAssumption DEF Init, AtomicPtrs, At
    <3>2. LocalPtrs(r) = {} /\ ~Dying(r)
      BY AtomicPtrAssumption DEF Init, LocalPtrs, Dying
    <3>3. \A h \in AtomicPtrs(r) : At(h).ecount = 0
      BY <1>1, <3>1, Values DEF At
    <3>4. \A h \in AtomicPtrs(r) : 1..At(h).ecount = {}
      BY <3>3
    <3>5. Away(r) = {}
      BY <3>4 DEF Away
    <3> QED
      BY <3>1, <3>2, <3>5
  <2>2. Held(r) = 0 /\ Carried(r) = 0
    BY <2>1, FS_EmptySet DEF Held, Carried
  <2>3. CASE \E c \in Cells : first[c] = r
    <3>1. PICK c \in Cells : first[c] = r
      BY <2>3
    <3>2. AtomicPtrs(r) = {c}
      BY <1>1, <2>1, <3>1, AtomicPtrAssumption
    <3>3. Shared(r) = 1
      BY <3>2, FS_Singleton DEF Shared
    <3>4. Exists(r)
      BY <1>1, <3>1, AtomicPtrAssumption DEF Exists
    <3>5. count[r] = ForAtomic
      BY <3>4 DEF Init, Exists
    <3> QED
      BY <2>1, <2>2, <3>3, <3>4, <3>5 DEF RightCount, Balanced, ForAtomic
  <2>4. CASE \A c \in Cells : first[c] # r
    <3>1. Shared(r) = 0
      BY <2>1, <2>4, FS_EmptySet DEF Shared
    <3>2. ~Exists(r)
      BY <1>1, <2>4 DEF Exists
    <3> QED
      BY <2>2, <3>1, <3>2 DEF RightCount
  <2> QED
    BY <2>3, <2>4
<1> QED
  BY <1>2, <1>3, <1>4, <1>5, CountsAre DEF IInv

LEMMA NextCases ==
    ASSUME [Next]_vars
    PROVE  (\E t \in Threads : Enter(t) \/ Step(t)) \/ UNCHANGED vars
BY DEF Next, Stopped

(* The types need the counts, for an rcount that is one less is still a    *)
(* number because the temporary that is destroyed was counted.             *)
LEMMA Inductive ==
    ASSUME TypeOK, IInv, [Next]_vars
    PROVE  TypeOK' /\ IInv'
<1>1. ASSUME NEW t \in Threads, Enter(t)
      PROVE  TypeOK' /\ IInv'
  <2>1. TypeOK'
    BY <1>1, EnterType
  <2> QED
    BY <1>1, <2>1, EnterControl, EnterCounts DEF IInv
<1>2. ASSUME NEW t \in Threads, Step(t)
      PROVE  TypeOK' /\ IInv'
  <2>1. obj[t].ptr # NULL => count[obj[t].ptr].rcount > 0
    <3> SUFFICES ASSUME obj[t].ptr # NULL
                 PROVE  count[obj[t].ptr].rcount > 0
      OBVIOUS
    <3>1. obj[t].ptr \in Refs
      BY OwnTypes, Values
    <3>2. /\ Shared(obj[t].ptr) \in Nat /\ Held(obj[t].ptr) \in Nat
          /\ Shared(obj[t].ptr) > 0
      BY <3>1, InNumbers DEF Numbers
    <3> QED
      BY <3>1, <3>2 DEF IInv, Counts, Balanced
  <2>2. pc[t] = "free" => Exists(dead[t])
    BY DEF IInv, Temporaries, Deletes
  <2>3. TypeOK'
    BY <1>2, <2>1, <2>2, StepType DEF IInv
  <2> QED
    BY <1>2, <2>3, StepControl, StepCounts DEF IInv
<1>3. CASE UNCHANGED vars
  <2> USE <1>3 DEF vars, refVars, heapVars, localVars
  <2>1. TypeOK'
    BY DEF TypeOK
  <2>2. Temporaries' /\ Operands' /\ Deletes'
    BY DEF IInv, Temporaries, Operands, Reads, Assigns, Deletes, Exists
  <2>3. \A r \in Refs : /\ AtomicPtrs(r)' = AtomicPtrs(r) /\ LocalPtrs(r)' = LocalPtrs(r)
                        /\ Exists(r)' = Exists(r) /\ Dying(r)' = Dying(r)
    BY DEF AtomicPtrs, LocalPtrs, At, Exists, Dying
  <2>4. \A r \in Refs : Away(r)' = Away(r)
    BY <2>3 DEF Away, At
  <2>5. Counts'
    BY <2>3, <2>4 DEF IInv, Counts, Balanced, Shared, Held, Carried
  <2> QED
    BY <2>1, <2>2, <2>5 DEF IInv
<1> QED
  BY <1>1, <1>2, <1>3, NextCases

(* The types of AtomicPtr.tla, and that its counts mean what they should.  *)
THEOREM Invariance == Spec => [](TypeOK /\ IInv)
<1>1. Init => TypeOK /\ IInv
  BY InitFacts
<1>2. TypeOK /\ IInv /\ [Next]_vars => (TypeOK /\ IInv)'
  BY Inductive
<1> QED
  BY <1>1, <1>2, PTL DEF Spec

(* Every variable keeps its type; no rcount falls below zero.              *)
THEOREM TypeCorrect == Spec => []TypeOK
BY Invariance, PTL

LEMMA AliveMeans == \A r : Alive(r) <=> Exists(r) /\ ~Dying(r)
BY DEF Alive, Exists

(* An object that a pointer names exists and is not about to be deleted.   *)
THEOREM NamedIsAlive == Spec => []NamedAlive
<1>1. TypeOK /\ IInv => NamedAlive
  <2> SUFFICES ASSUME TypeOK, IInv, NEW r \in Refs,
                      AtomicPtrs(r) # {} \/ LocalPtrs(r) # {}
               PROVE  Alive(r)
    BY DEF NamedAlive
  <2>1. Shared(r) + Held(r) > 0
    BY InNumbers DEF Numbers
  <2> QED
    BY <2>1, AliveMeans DEF IInv, Counts
<1> QED
  BY <1>1, Invariance, PTL

(* The counts of an object are those of its pointers, in sum.              *)
THEOREM CountsAreRight == Spec => []CountsBalance
<1>1. IInv => CountsBalance
  BY AliveMeans DEF IInv, Counts, Balanced, CountsBalance, Shared, Carried, Held
<1> QED
  BY <1>1, Invariance, PTL

(* One thread deletes an object, and it exists until then.                 *)
THEOREM DeletesAlone == Spec => []DeletedOnce
<1>1. IInv => DeletedOnce
  BY DEF IInv, Deletes, DeletedOnce, Exists
<1> QED
  BY <1>1, Invariance, PTL

(* An object without pointers is with a thread that deletes it.            *)
THEOREM NothingLeaks == Spec => []NoneLeaked
<1>1. TypeOK /\ IInv => NoneLeaked
  <2> SUFFICES ASSUME TypeOK, IInv, NEW r \in Refs, Alive(r)
               PROVE  AtomicPtrs(r) # {} \/ LocalPtrs(r) # {}
    BY DEF NoneLeaked
  <2>1. Shared(r) + Held(r) > 0
    BY AliveMeans DEF IInv, Counts
  <2>2. /\ Shared(r) \in Nat /\ Held(r) \in Nat
        /\ Shared(r) = 0 <=> AtomicPtrs(r) = {}
        /\ Held(r) = 0 <=> LocalPtrs(r) = {}
    BY InNumbers DEF Numbers
  <2> QED
    BY <2>1, <2>2
<1> QED
  BY <1>1, Invariance, PTL

-------------------------------------------------------------------------------
(* Refinement.  What a state of SharedPointers is here.                    *)
Ptrs == [c \in Cells |-> cell[c].ptr]
Owned == [t \in Threads |-> Own(t)]
Live == heap \ spare

LEMMA AbstractInit == Init => Pointers!Init
<1> SUFFICES ASSUME Init
             PROVE  Pointers!Init
  OBVIOUS
<1>1. PICK first \in [Cells -> RefOrNull] :
          /\ cell = [c \in Cells |-> Fresh(first[c])]
          /\ spare \in SUBSET (Refs \ {first[c] : c \in Cells})
          /\ heap = spare \union ({first[c] : c \in Cells} \ {NULL})
  BY DEF Init
<1>2. \A c \in Cells : cell[c].ptr = first[c]
  BY <1>1, Values
<1>3. Ptrs \in [Cells -> Refs \union {NULL}]
  BY <1>2 DEF Ptrs, RefOrNull
<1>4. Owned = [t \in Threads |-> {}]
  BY DEF Owned, Own, Init, Nothing
<1>5. Live = {Ptrs[c] : c \in Cells} \ {NULL}
  BY <1>1, <1>2 DEF Ptrs, Live
<1> QED
  BY <1>3, <1>4, <1>5 DEF Pointers!Init, Ptrs, Owned, Live

(* A step of t changes what others own in no way.                          *)
LEMMA OwnedStep ==
    ASSUME NEW t \in Threads, OnlyBy(t)
    PROVE  Owned' = [Owned EXCEPT ![t] = Own(t)']
BY DEF Owned, Own, OnlyBy

(* A stutter. *)
LEMMA Stutters ==
    ASSUME NEW t \in Threads, OnlyBy(t), Own(t)' = Own(t), Ptrs' = Ptrs, Live' = Live
    PROVE  UNCHANGED Pointers!vars
<1>1. Owned' = Owned
  BY OwnedStep DEF Owned
<1> QED
  BY <1>1 DEF Pointers!vars, Ptrs, Owned, Live

LEMMA Makes ==
    ASSUME NEW t \in Threads, OnlyBy(t), NEW r \in Refs, r \notin Live,
           Live' = Live \union {r}, Own(t)' = Own(t) \union {r}, Ptrs' = Ptrs
    PROVE  Pointers!Next
<1>1. Owned' = [Owned EXCEPT ![t] = @ \union {r}]
  BY OwnedStep DEF Owned
<1>2. Pointers!New(t, r)
  BY <1>1 DEF Pointers!New, Ptrs, Owned, Live
<1> QED
  BY <1>2 DEF Pointers!Next

LEMMA ReadsOne ==
    ASSUME NEW t \in Threads, OnlyBy(t), NEW c \in Cells,
           Own(t)' = Own(t) \union ({cell[c].ptr} \ {NULL}), Ptrs' = Ptrs, Live' = Live
    PROVE  Pointers!Next
<1>1. Owned' = [Owned EXCEPT ![t] = @ \union ({Ptrs[c]} \ {NULL})]
  BY OwnedStep DEF Owned, Ptrs
<1>2. Pointers!Read(t, c)
  BY <1>1 DEF Pointers!Read, Ptrs, Owned, Live
<1> QED
  BY <1>2 DEF Pointers!Next

LEMMA Writes ==
    ASSUME NEW t \in Threads, OnlyBy(t), NEW c \in Cells,
           NEW r \in Own(t) \union {NULL}, NEW kept \in {Own(t), Own(t) \ {r}},
           Own(t)' = kept \union ({cell[c].ptr} \ {NULL}),
           Ptrs' = [Ptrs EXCEPT ![c] = r], Live' = Live
    PROVE  Pointers!Next
<1>1. /\ Owned' = [Owned EXCEPT ![t] = kept \union ({Ptrs[c]} \ {NULL})]
      /\ Owned[t] = Own(t)
  BY OwnedStep DEF Owned, Ptrs
<1>2. Pointers!Write(t, c)
  BY <1>1 DEF Pointers!Write, Ptrs, Owned, Live
<1> QED
  BY <1>2 DEF Pointers!Next

LEMMA Drops ==
    ASSUME NEW t \in Threads, OnlyBy(t), NEW r \in RefOrNull,
           r # NULL => r \in Own(t), Own(t)' \in {Own(t), Own(t) \ {r}},
           Ptrs' = Ptrs, Live' = Live
    PROVE  Pointers!Next \/ UNCHANGED Pointers!vars
<1>1. CASE Own(t)' = Own(t)
  BY <1>1, Stutters
<1>2. CASE Own(t)' # Own(t)
  <2>1. r \in Own(t) /\ Own(t)' = Own(t) \ {r}
    BY <1>2 DEF Own
  <2>2. Owned' = [Owned EXCEPT ![t] = @ \ {r}] /\ Owned[t] = Own(t)
    BY <2>1, OwnedStep DEF Owned
  <2>3. Pointers!Drop(t)
    BY <2>1, <2>2 DEF Pointers!Drop, Ptrs, Owned, Live
  <2> QED
    BY <2>3 DEF Pointers!Next
<1> QED
  BY <1>1, <1>2

(* Exchanges with a shared pointer are writes. *)
LEMMA ExchangeWrites ==
    ASSUME TypeOK, NEW t \in Threads, OnlyBy(t), NEW c \in Cells,
           cell' = [cell EXCEPT ![c] = obj[t]], obj'[t] = cell[c],
           {loc'[t], tmp'[t], cmp'[t]} \union {NULL} = {loc[t], tmp[t], cmp[t]} \union {NULL},
           Live' = Live
    PROVE  Pointers!Next
<1> DEFINE rest == {loc[t], tmp[t], cmp[t]} \ {NULL}
<1>1. PICK r : r = obj[t].ptr
  OBVIOUS
<1>2. r \in Own(t) \union {NULL}
  BY <1>1 DEF Own
<1>3. Own(t) = rest \union ({r} \ {NULL}) /\ Own(t)' = rest \union ({cell[c].ptr} \ {NULL})
  BY <1>1 DEF Own
<1>4. \E kept \in {Own(t), Own(t) \ {r}} : kept = rest
  BY <1>2, <1>3
<1>5. Ptrs' = [Ptrs EXCEPT ![c] = r]
  BY <1>1 DEF Ptrs, TypeOK
<1> HIDE DEF rest
<1> QED
  BY <1>2, <1>3, <1>4, <1>5, Writes

(* Calls make objects and destroy shared pointers; others only prepare.    *)
LEMMA EnterImplements ==
    ASSUME TypeOK, Temporaries, NEW t \in Threads, Enter(t)
    PROVE  Pointers!Next \/ UNCHANGED Pointers!vars
<1>0. /\ tmp[t] = NULL /\ cmp[t] = NULL /\ obj[t] = Nothing
      /\ loc[t] \in RefOrNull
      /\ loc \in [Threads -> RefOrNull] /\ tmp \in [Threads -> RefOrNull]
      /\ cmp \in [Threads -> RefOrNull] /\ obj \in [Threads -> Differential]
      /\ cell \in [Cells -> Differential] /\ shared \subseteq Cells
  <2>1. pc[t] = "idle"
    BY DEF Enter, LocalNew, LocalReset, LocalCopy, SetPool, LoadCall, StoreNew, StoreNull,
           StoreLocal, CasNew, AtomicDestroy, CopyCall, Call
  <2> QED
    BY <2>1, FreeTemporaries, OwnTypes DEF TmpFrom, CmpFrom, ObjFrom, TypeOK
<1>1. CASE LocalNew(t)
  <2>1. PICK a \in Refs : Obtain(a, ForLocal) /\ loc' = [loc EXCEPT ![t] = a]
    BY <1>1 DEF LocalNew
  <2>2. OnlyBy(t) /\ Own(t)' = Own(t) \union {a}
    BY <1>0, <1>1, <2>1, Values DEF OnlyBy, Own, LocalNew
  <2>3. Ptrs' = Ptrs
    BY <1>1 DEF Ptrs, LocalNew
  <2>4. a \notin Live /\ Live' = Live \union {a}
    BY <2>1 DEF Obtain, Live, TypeOK
  <2> QED
    BY <2>1, <2>2, <2>3, <2>4, Makes
<1>2. CASE LocalReset(t)
  <2>1. OnlyBy(t) /\ Own(t)' = Own(t)
    BY <1>0, <1>2, Values DEF OnlyBy, Own, LocalReset, localVars
  <2>2. Ptrs' = Ptrs /\ Live' = Live
    BY <1>2 DEF Ptrs, Live, LocalReset, heapVars
  <2> QED
    BY <2>1, <2>2, Stutters
<1>3. CASE LocalCopy(t)
  <2>1. OnlyBy(t) /\ Own(t)' = Own(t)
    BY <1>0, <1>3, Values DEF OnlyBy, Own, LocalCopy, localVars
  <2>2. Ptrs' = Ptrs /\ Live' = Live
    BY <1>3 DEF Ptrs, Live, LocalCopy, heapVars
  <2> QED
    BY <2>1, <2>2, Stutters
<1>4. CASE SetPool(t)
  <2>1. OnlyBy(t) /\ Own(t)' = Own(t)
    BY <1>0, <1>4, Values DEF OnlyBy, Own, SetPool, localVars
  <2>2. Ptrs' = Ptrs /\ Live' = Live
    BY <1>4 DEF Ptrs, Live, SetPool, heapVars
  <2> QED
    BY <2>1, <2>2, Stutters
<1>5. ASSUME NEW c \in shared, LoadCall(t, c)
      PROVE  Pointers!Next \/ UNCHANGED Pointers!vars
  <2>1. OnlyBy(t) /\ Own(t)' = Own(t)
    BY <1>0, <1>5, Values DEF OnlyBy, Own, LoadCall, localVars
  <2>2. Ptrs' = Ptrs /\ Live' = Live
    BY <1>5 DEF Ptrs, Live, LoadCall, heapVars
  <2> QED
    BY <2>1, <2>2, Stutters
<1>6. ASSUME NEW c \in shared, StoreNew(t, c)
      PROVE  Pointers!Next \/ UNCHANGED Pointers!vars
  <2>1. PICK a \in Refs : Obtain(a, ForAtomic) /\ obj' = [obj EXCEPT ![t] = Fresh(a)]
    BY <1>6 DEF StoreNew
  <2>2. OnlyBy(t) /\ Own(t)' = Own(t) \union {a}
    BY <1>0, <1>6, <2>1, Values DEF OnlyBy, Own, StoreNew
  <2>3. Ptrs' = Ptrs
    BY <1>6 DEF Ptrs, StoreNew
  <2>4. a \notin Live /\ Live' = Live \union {a}
    BY <2>1 DEF Obtain, Live, TypeOK
  <2> QED
    BY <2>1, <2>2, <2>3, <2>4, Makes
<1>7. ASSUME NEW c \in shared, StoreNull(t, c)
      PROVE  Pointers!Next \/ UNCHANGED Pointers!vars
  <2>1. OnlyBy(t) /\ Own(t)' = Own(t)
    BY <1>0, <1>7, Values DEF OnlyBy, Own, StoreNull, localVars
  <2>2. Ptrs' = Ptrs /\ Live' = Live
    BY <1>7 DEF Ptrs, Live, StoreNull, heapVars
  <2> QED
    BY <2>1, <2>2, Stutters
<1>8. ASSUME NEW c \in shared, StoreLocal(t, c)
      PROVE  Pointers!Next \/ UNCHANGED Pointers!vars
  <2>1. OnlyBy(t) /\ Own(t)' = Own(t)
    BY <1>0, <1>8, Values DEF OnlyBy, Own, StoreLocal, localVars
  <2>2. Ptrs' = Ptrs /\ Live' = Live
    BY <1>8 DEF Ptrs, Live, StoreLocal, heapVars
  <2> QED
    BY <2>1, <2>2, Stutters
<1>9. ASSUME NEW c \in shared, CasNew(t, c)
      PROVE  Pointers!Next \/ UNCHANGED Pointers!vars
  <2>1. PICK a \in Refs : Obtain(a, ForAtomic) /\ obj' = [obj EXCEPT ![t] = Fresh(a)]
    BY <1>9 DEF CasNew
  <2>2. OnlyBy(t) /\ Own(t)' = Own(t) \union {a}
    BY <1>0, <1>9, <2>1, Values DEF OnlyBy, Own, CasNew
  <2>3. Ptrs' = Ptrs
    BY <1>9 DEF Ptrs, CasNew
  <2>4. a \notin Live /\ Live' = Live \union {a}
    BY <2>1 DEF Obtain, Live, TypeOK
  <2> QED
    BY <2>1, <2>2, <2>3, <2>4, Makes
<1>10. ASSUME NEW c \in shared, AtomicDestroy(t, c)
      PROVE  Pointers!Next \/ UNCHANGED Pointers!vars
  <2>1. OnlyBy(t) /\ c \in Cells
    BY <1>0, <1>10 DEF OnlyBy, AtomicDestroy
  <2>2. /\ cell' = [cell EXCEPT ![c] = obj[t]] /\ obj'[t] = cell[c]
        /\ loc' = loc /\ tmp' = tmp /\ cmp' = cmp /\ Live' = Live
    BY <1>0, <1>10 DEF AtomicDestroy, Live, heapVars
  <2> QED
    BY <2>1, <2>2, ExchangeWrites
<1>11. ASSUME NEW c \in shared, NEW d \in shared, CopyCall(t, c, d)
      PROVE  Pointers!Next \/ UNCHANGED Pointers!vars
  <2>1. OnlyBy(t) /\ Own(t)' = Own(t)
    BY <1>0, <1>11, Values DEF OnlyBy, Own, CopyCall, localVars
  <2>2. Ptrs' = Ptrs /\ Live' = Live
    BY <1>11 DEF Ptrs, Live, CopyCall, heapVars
  <2> QED
    BY <2>1, <2>2, Stutters
<1> QED
  BY <1>1, <1>2, <1>3, <1>4, <1>5, <1>6, <1>7, <1>8, <1>9, <1>10, <1>11 DEF Enter

(* Within a call, the compare-and-swap of getrefptr reads, an exchange      *)
(* writes, and destructors drop and delete.                                *)
LEMMA StepImplements ==
    ASSUME TypeOK, IInv, NEW t \in Threads, Step(t)
    PROVE  Pointers!Next \/ UNCHANGED Pointers!vars
<1>0. /\ loc[t] \in RefOrNull /\ tmp[t] \in RefOrNull /\ obj[t].ptr \in RefOrNull
      /\ loc \in [Threads -> RefOrNull] /\ tmp \in [Threads -> RefOrNull]
      /\ cmp \in [Threads -> RefOrNull] /\ obj \in [Threads -> Differential]
      /\ cell \in [Cells -> Differential] /\ dead \in [Threads -> RefOrNull]
      /\ pc[t] \notin TmpFrom => tmp[t] = NULL
      /\ pc[t] \notin CmpFrom => cmp[t] = NULL
      /\ pc[t] \notin ObjFrom => obj[t] = Nothing
  BY OwnTypes, FreeTemporaries DEF IInv
<1> USE DEF TmpFrom, CmpFrom, ObjFrom
<1>1. CASE GetLoadPtr(t)
  <2>1. OnlyBy(t) /\ Own(t)' = Own(t)
    BY <1>0, <1>1, Values DEF OnlyBy, Own, GetLoadPtr, localVars
  <2>2. Ptrs' = Ptrs /\ Live' = Live
    BY <1>1 DEF Ptrs, Live, GetLoadPtr, heapVars
  <2> QED
    BY <2>1, <2>2, Stutters
<1>2. CASE GetCas(t)
  <2>1. CASE GetMatches(t)
    <3>1. PICK c \in Cells : c = src[t] /\ cell[c] = old[t]
      BY <1>2, <2>1 DEF GetCas, GetMatches, IInv, Operands, Reads
    <3>2. OnlyBy(t) /\ Live' = Live
      BY <1>0, <1>2, <2>1 DEF OnlyBy, Live, GetCas, heapVars
    <3>3. Ptrs' = Ptrs
      <4>1. cell' = [cell EXCEPT ![c] = [ecount |-> old[t].ecount + 1, ptr |-> old[t].ptr]]
        BY <1>2, <2>1, <3>1 DEF GetCas
      <4> QED
        BY <1>0, <3>1, <4>1 DEF Ptrs
    <3>4. /\ tmp[t] = NULL /\ cmp' = cmp /\ obj' = obj
          /\ \/ tmp'[t] = loc[t] /\ loc'[t] = cell[c].ptr
             \/ tmp'[t] = cell[c].ptr /\ loc'[t] = loc[t]
      BY <1>0, <1>2, <2>1, <3>1 DEF GetCas
    <3>5. Own(t)' = Own(t) \union ({cell[c].ptr} \ {NULL})
      BY <3>4 DEF Own
    <3> QED
      BY <3>2, <3>3, <3>5, ReadsOne
  <2>2. CASE ~GetMatches(t)
    <3>1. OnlyBy(t) /\ Own(t)' = Own(t)
      BY <1>2, <2>2 DEF GetCas, OnlyBy, Own
    <3>2. Ptrs' = Ptrs /\ Live' = Live
      BY <1>2, <2>2 DEF GetCas, Ptrs, Live, heapVars
    <3> QED
      BY <3>1, <3>2, Stutters
  <2> QED
    BY <2>1, <2>2
<1>3. CASE FixCopy(t)
  <2>1. OnlyBy(t) /\ Own(t)' = Own(t)
    BY <1>0, <1>3, Values DEF OnlyBy, Own, FixCopy, localVars
  <2>2. Ptrs' = Ptrs /\ Live' = Live
    BY <1>3 DEF Ptrs, Live, FixCopy, heapVars
  <2> QED
    BY <2>1, <2>2, Stutters
<1>4. CASE Swap(t)
  <2>1. PICK c \in Cells : c = dst[t]
    BY <1>4 DEF Swap, IInv, Operands, Assigns
  <2>2. /\ OnlyBy(t) /\ cell' = [cell EXCEPT ![c] = obj[t]] /\ obj'[t] = cell[c]
        /\ loc' = loc /\ tmp' = tmp /\ cmp' = cmp /\ Live' = Live
    BY <1>0, <1>4, <2>1 DEF OnlyBy, Swap, Live, heapVars
  <2> QED
    BY <2>1, <2>2, ExchangeWrites
<1>5. CASE CasCompare(t)
  <2>1. OnlyBy(t) /\ Own(t)' = Own(t)
    BY <1>0, <1>5, Values DEF OnlyBy, Own, CasCompare, localVars
  <2>2. Ptrs' = Ptrs /\ Live' = Live
    BY <1>5 DEF Ptrs, Live, CasCompare, heapVars
  <2> QED
    BY <2>1, <2>2, Stutters
<1>6. CASE CasLoad(t)
  <2>1. OnlyBy(t) /\ Own(t)' = Own(t)
    BY <1>0, <1>6, Values DEF OnlyBy, Own, CasLoad, localVars
  <2>2. Ptrs' = Ptrs /\ Live' = Live
    BY <1>6 DEF Ptrs, Live, CasLoad, heapVars
  <2> QED
    BY <2>1, <2>2, Stutters
<1>7. CASE CasCas(t)
  <2>1. CASE cell[dst[t]] = old[t]
    <3>1. PICK c \in Cells : c = dst[t]
      BY <1>7 DEF CasCas, IInv, Operands, Assigns
    <3>2. /\ OnlyBy(t) /\ cell' = [cell EXCEPT ![c] = obj[t]] /\ obj'[t] = cell[c]
          /\ loc' = loc /\ tmp[t] = NULL /\ tmp'[t] = cmp[t] /\ cmp'[t] = NULL
          /\ Live' = Live
      BY <1>0, <1>7, <2>1, <3>1 DEF OnlyBy, CasCas, CasReturn, Live, heapVars
    <3> QED
      BY <3>1, <3>2, ExchangeWrites
  <2>2. CASE cell[dst[t]] # old[t]
    <3>1. OnlyBy(t) /\ Own(t)' = Own(t)
      BY <1>0, <1>7, <2>2, Values DEF OnlyBy, Own, CasCas, CasReturn
    <3>2. Ptrs' = Ptrs /\ Live' = Live
      BY <1>7, <2>2 DEF Ptrs, Live, CasCas, heapVars
    <3> QED
      BY <3>1, <3>2, Stutters
  <2> QED
    BY <2>1, <2>2
<1>8. CASE AtomicDrop(t)
  <2>1. PICK r \in RefOrNull : r = obj[t].ptr
    BY <1>0
  <2>2. OnlyBy(t) /\ Ptrs' = Ptrs /\ Live' = Live
    BY <1>0, <1>8 DEF OnlyBy, Ptrs, Live, AtomicDrop, heapVars
  <2>3. r # NULL => r \in Own(t)
    BY <2>1 DEF Own
  <2>4. obj'[t].ptr = NULL /\ loc' = loc /\ tmp' = tmp /\ cmp' = cmp
    BY <1>0, <1>8, Values DEF AtomicDrop
  <2>5. Own(t)' \in {Own(t), Own(t) \ {r}}
    BY <2>1, <2>4 DEF Own
  <2> QED
    BY <2>2, <2>3, <2>5, Drops
<1>9. CASE LocalDrop(t)
  <2>1. PICK r \in RefOrNull : r = tmp[t]
    BY <1>0
  <2>2. OnlyBy(t) /\ Ptrs' = Ptrs /\ Live' = Live
    BY <1>0, <1>9 DEF OnlyBy, Ptrs, Live, LocalDrop, heapVars
  <2>3. r # NULL => r \in Own(t)
    BY <2>1 DEF Own
  <2>4. tmp'[t] = NULL /\ loc' = loc /\ obj' = obj /\ cmp' = cmp
    BY <1>0, <1>9, Values DEF LocalDrop
  <2>5. Own(t)' \in {Own(t), Own(t) \ {r}}
    BY <2>1, <2>4 DEF Own
  <2> QED
    BY <2>2, <2>3, <2>5, Drops
<1>10. CASE Free(t)
  <2>1. PICK r \in Refs : r = dead[t] /\ Exists(r) /\ Dying(r)
    BY <1>0, <1>10, Values DEF Free, IInv, Temporaries, Deletes, Dying
  <2>2. AtomicPtrs(r) = {} /\ LocalPtrs(r) = {}
    <3>1. /\ Shared(r) \in Nat /\ Held(r) \in Nat /\ ~(Shared(r) + Held(r) > 0)
          /\ Shared(r) = 0 <=> AtomicPtrs(r) = {}
          /\ Held(r) = 0 <=> LocalPtrs(r) = {}
      BY <2>1, InNumbers DEF Numbers, IInv, Counts
    <3> QED
      BY <3>1
  <2>3. \A c \in Cells : Ptrs[c] # r
    BY <2>2 DEF Ptrs, AtomicPtrs, At
  <2>4. \A u \in Threads : r \notin Owned[u]
    <3> SUFFICES ASSUME NEW u \in Threads, r \in Own(u)
                 PROVE  FALSE
      BY DEF Owned
    <3>1. obj[u].ptr # r
      BY <2>2, HoldersFinite DEF AtomicPtrs, At
    <3>2. PICK s \in {"loc", "tmp", "cmp"} : <<s, u>> \in LocalPtrs(r)
      BY <3>1 DEF Own, LocalPtrs
    <3> QED
      BY <2>2, <3>2
  <2>5. r \in Live /\ Live' = Live \ {r}
    <3>1. CASE pool[r]
      BY <1>10, <2>1, <3>1 DEF Free, Live, Exists
    <3>2. CASE ~pool[r]
      BY <1>10, <2>1, <3>2 DEF Free, Live, Exists
    <3> QED
      BY <3>1, <3>2
  <2>6. Ptrs' = Ptrs /\ Owned' = Owned
    BY <1>10 DEF Free, Ptrs, Owned, Own
  <2>7. Pointers!Delete(r)
    BY <2>3, <2>4, <2>5, <2>6 DEF Pointers!Delete, Pointers!Named, Ptrs, Owned, Live
  <2> QED
    BY <2>7 DEF Pointers!Next
<1> QED
  BY <1>1, <1>2, <1>3, <1>4, <1>5, <1>6, <1>7, <1>8, <1>9, <1>10 DEF Step

LEMMA StepsImplement ==
    ASSUME TypeOK, IInv, [Next]_vars
    PROVE  [Pointers!Next]_(Pointers!vars)
<1>1. CASE UNCHANGED vars
  BY <1>1 DEF vars, heapVars, localVars, Pointers!vars, Own
<1>2. ASSUME NEW t \in Threads, Enter(t) \/ Step(t)
      PROVE  Pointers!Next \/ UNCHANGED Pointers!vars
  BY <1>2, EnterImplements, StepImplements DEF IInv
<1> QED
  BY <1>1, <1>2, NextCases

(* AtomicPtr implements SharedPointers: a reading takes effect in one step *)
(* although the count of the object is not touched then, and an object is  *)
(* deleted only when no pointer names it.                                  *)
THEOREM Implements == Spec => ImplementsSharedPointers
<1>1. Init => Pointers!Init
  BY AbstractInit
<1>2. TypeOK /\ IInv /\ [Next]_vars => [Pointers!Next]_(Pointers!vars)
  BY StepsImplement
<1> QED
  BY <1>1, <1>2, Invariance, PTL DEF Spec, ImplementsSharedPointers, Pointers!Spec
===============================================================================
