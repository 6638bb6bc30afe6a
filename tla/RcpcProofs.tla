------------------------------ MODULE RcpcProofs ------------------------------
(***************************************************************************)
(* Proofs about the proxy collector of Rcpc.tla, for any latency and any   *)
(* number of threads, nodes, data and calls.                               *)
(***************************************************************************)
EXTENDS RcpcInv, FiniteSetTheorems, TLAPS

(* Splitting a step into actions, once for all the proofs below.           *)
LEMMA NextCases ==
    ASSUME [Next]_vars
    PROVE  \/ \E t \in Threads : Running /\ (Enter(t) \/ Step(t))
           \/ DeleteProxy
           \/ UNCHANGED vars
BY DEF Next, Stopped, Waiting

LEMMA Consts ==
    /\ Latency \in Nat /\ MaxLatency \in Nat /\ MaxLatency = Latency + 2
    /\ NULL \notin Nodes /\ NULL \notin Data
    /\ IsFiniteSet(Threads) /\ IsFiniteSet(Nodes)
BY RcpcAssumption DEF MaxLatency

(* What the proofs need to know of the sets that make up the types.        *)
LEMMA Types ==
    /\ NULL \in NodeOrNull /\ NULL \in DataOrNull
    /\ \A n \in Nodes : n \in NodeOrNull /\ n # NULL
    /\ \A n \in NodeOrNull : n # NULL => n \in Nodes
    /\ \A d \in Data : d \in DataOrNull /\ d # NULL
    /\ \A d \in DataOrNull : d # NULL => d \in Data
BY RcpcAssumption DEF NodeOrNull, DataOrNull

-------------------------------------------------------------------------------
(* A step of a thread changes the variables of no other thread.            *)
Others(t) ==
    \A u \in Threads \ {t} :
        /\ pc'[u] = pc[u] /\ ret'[u] = ret[u] /\ ref'[u] = ref[u]
        /\ use'[u] = use[u] /\ old'[u] = old[u] /\ seq'[u] = seq[u]
        /\ cur'[u] = cur[u] /\ lat'[u] = lat[u] /\ own'[u] = own[u]
        /\ drop'[u] = drop[u] /\ nxt'[u] = nxt[u] /\ free'[u] = free[u]
        /\ node'[u] = node[u] /\ arg'[u] = arg[u]

LEMMA EnterOwn ==
    ASSUME ClientType, LocalType, NEW t \in Threads, Enter(t)
    PROVE  Others(t)
<1> USE DEF ClientType, LocalType, Others, clientVars, localVars, getVars, newVars
<1>1. CASE GetCall(t)
  BY <1>1 DEF GetCall, Goto, Call
<1>2. CASE DropCall(t)
  BY <1>2 DEF DropCall, Goto
<1>3. CASE DeferCall(t)
  BY <1>3 DEF DeferCall, Goto, Call
<1>4. CASE TrimCall(t)
  BY <1>4 DEF TrimCall, TrimLoop, Goto, Call
<1> QED
  BY <1>1, <1>2, <1>3, <1>4 DEF Enter

LEMMA StepOwn ==
    ASSUME ClientType, LocalType, NEW t \in Threads, Step(t)
    PROVE  Others(t)
<1> USE DEF ClientType, LocalType, Others, clientVars, localVars, getVars, newVars
<1>1. CASE GetLoadSeq(t)
  BY <1>1 DEF GetLoadSeq, Goto
<1>2. CASE GetLoadTail(t)
  BY <1>2 DEF GetLoadTail, Goto
<1>3. CASE GetCas(t)
  BY <1>3 DEF GetCas, Goto
<1>4. CASE GetTest(t)
  BY <1>4 DEF GetTest, GetReturn, Goto
<1>5. CASE GetCompare(t)
  BY <1>5 DEF GetCompare, GetReturn, Goto
<1>6. CASE SetLoad(t)
  BY <1>6 DEF SetLoad, Goto
<1>7. CASE SetCas(t)
  BY <1>7 DEF SetCas, Goto
<1>8. CASE SetPrev(t)
  BY <1>8 DEF SetPrev, Goto
<1>9. CASE SetCount(t)
  BY <1>9 DEF SetCount, Goto
<1>10. CASE SetTail(t)
  BY <1>10 DEF SetTail, Goto
<1>11. CASE DropSub(t)
  BY <1>11 DEF DropSub, Goto
<1>12. CASE DropNext(t)
  BY <1>12 DEF DropNext, Goto
<1>13. CASE DropStore(t)
  BY <1>13 DEF DropStore, Goto
<1>14. CASE DropFree(t)
  BY <1>14 DEF DropFree, Goto
<1>15. CASE NewLoad(t)
  BY <1>15 DEF NewLoad, Goto
<1>16. CASE NewTest(t)
  BY <1>16 DEF NewTest, Goto
<1>17. CASE NewRead(t)
  BY <1>17 DEF NewRead, Goto
<1>18. CASE NewCas(t)
  BY <1>18 DEF NewCas, Goto
<1>19. CASE NewCount(t)
  BY <1>19 DEF NewCount, DropOwn, Goto
<1>20. CASE NewAlloc(t)
  BY <1>20 DEF NewAlloc, DropOwn, Goto
<1>21. CASE NewInit(t)
  BY <1>21 DEF NewInit, DropOwn, Goto
<1>22. CASE AddTry(t)
  BY <1>22 DEF AddTry, DropOwn, Goto
<1>23. CASE AddMore(t)
  BY <1>23 DEF AddMore, Goto
<1>24. CASE AddEnd(t)
  BY <1>24 DEF AddEnd, DropOwn, Goto
<1>25. CASE TrimFree(t)
  BY <1>25 DEF TrimFree, Goto
<1>26. CASE TrimDec(t)
  BY <1>26 DEF TrimDec, TrimLoop, Goto
<1>27. CASE Backoff(t)
  BY <1>27 DEF Backoff, Goto
<1> QED
  BY <1>1, <1>2, <1>3, <1>4, <1>5, <1>6, <1>7, <1>8, <1>9, <1>10, <1>11, <1>12, <1>13, <1>14, <1>15, <1>16, <1>17, <1>18, <1>19, <1>20, <1>21, <1>22, <1>23, <1>24, <1>25, <1>26, <1>27
     DEF Step, Get, Set, Drop, New, Add, Trim

-------------------------------------------------------------------------------
(* Counting.  What t adds to the size of a set is 1 if it is in it.        *)
In(t, A) == IF t \in A THEN 1 ELSE 0

LEMMA Recount ==
    ASSUME NEW t \in Threads, NEW A \in SUBSET Threads, NEW B \in SUBSET Threads,
           \A u \in Threads : u # t => (u \in A <=> u \in B)
    PROVE  /\ Cardinality(A) \in Nat /\ Cardinality(B) \in Nat
           /\ Cardinality(B) = Cardinality(A) + In(t, B) - In(t, A)
<1>1. IsFiniteSet(A) /\ IsFiniteSet(B)
  BY Consts, FS_Subset
<1>2. Cardinality(A) \in Nat /\ Cardinality(B) \in Nat
  BY <1>1, FS_CardinalityType
<1>3. CASE t \in A <=> t \in B
  <2>1. A = B
    BY <1>3
  <2> QED
    BY <2>1, <1>2 DEF In
<1>4. CASE t \in A /\ t \notin B
  <2>1. A = B \union {t}
    BY <1>4
  <2> QED
    BY <2>1, <1>1, <1>2, <1>4, FS_AddElement DEF In
<1>5. CASE t \notin A /\ t \in B
  <2>1. B = A \union {t}
    BY <1>5
  <2> QED
    BY <2>1, <1>1, <1>2, <1>5, FS_AddElement DEF In
<1> QED
  BY <1>3, <1>4, <1>5

LEMMA CountTwo ==
    ASSUME NEW A \in SUBSET Threads, NEW t \in Threads, NEW u \in Threads
    PROVE  /\ Cardinality(A) \in Nat
           /\ In(t, A) <= Cardinality(A)
           /\ t # u => In(t, A) + In(u, A) <= Cardinality(A)
           /\ In(t, A) \in {0, 1} /\ In(u, A) \in {0, 1}
<1>1. IsFiniteSet(A) /\ IsFiniteSet(A \ {t}) /\ IsFiniteSet((A \ {t}) \ {u})
  BY Consts, FS_Subset
<1>2. /\ Cardinality(A) \in Nat /\ Cardinality(A \ {t}) \in Nat
      /\ Cardinality((A \ {t}) \ {u}) \in Nat
  BY <1>1, FS_CardinalityType
<1>3. Cardinality(A) = Cardinality(A \ {t}) + In(t, A)
  BY <1>2, Recount DEF In
<1>4. t # u => Cardinality(A \ {t}) = Cardinality((A \ {t}) \ {u}) + In(u, A)
  BY <1>2, Recount DEF In
<1> QED
  BY <1>2, <1>3, <1>4 DEF In

(* The shares of one thread in a node.                                     *)
Share(t, n) == In(t, Refs(n)) + In(t, Owned(n)) + In(t, Numbers(n)) + In(t, Drops(n))
Place(n) == TailShare(n) + LinkShare(n)

LEMMA PlaceIs ==
    ASSUME NEW n
    PROVE  Place(n) \in Nat /\ Place(n)' \in Nat
BY DEF Place, TailShare, LinkShare

(* The shares of t and of another thread are no more than all shares.      *)
LEMMA SharesOf ==
    ASSUME NEW n, NEW t \in Threads
    PROVE  /\ Shares(n) \in Nat
           /\ Share(t, n) \in Nat
           /\ Share(t, n) + Place(n) <= Shares(n)
           /\ \A u \in Threads : u # t => Share(t, n) + Share(u, n) + Place(n) <= Shares(n)
<1> SUFFICES ASSUME NEW u \in Threads
             PROVE  /\ Shares(n) \in Nat
                    /\ Share(t, n) \in Nat
                    /\ Share(t, n) + Place(n) <= Shares(n)
                    /\ u # t => Share(t, n) + Share(u, n) + Place(n) <= Shares(n)
  OBVIOUS
<1> DEFINE K(A) == /\ Cardinality(A) \in Nat
                   /\ In(t, A) <= Cardinality(A)
                   /\ t # u => In(t, A) + In(u, A) <= Cardinality(A)
                   /\ In(t, A) \in {0, 1} /\ In(u, A) \in {0, 1}
<1>1. K(Refs(n)) /\ K(Owned(n)) /\ K(Numbers(n)) /\ K(Drops(n))
  <2>1. \A A \in SUBSET Threads : K(A)
    BY CountTwo
  <2>2. /\ Refs(n) \in SUBSET Threads /\ Owned(n) \in SUBSET Threads
        /\ Numbers(n) \in SUBSET Threads /\ Drops(n) \in SUBSET Threads
    BY DEF Refs, Owned, Numbers, Drops
  <2> HIDE DEF K
  <2> QED
    BY <2>1, <2>2
<1>2. TailShare(n) \in {0, 1} /\ LinkShare(n) \in {0, 1}
  BY DEF TailShare, LinkShare
<1>3. Place(n) = TailShare(n) + LinkShare(n)
  BY DEF Place
<1>4. Shares(n) = Cardinality(Refs(n)) + Cardinality(Owned(n)) + Cardinality(Numbers(n))
                      + Cardinality(Drops(n)) + TailShare(n) + LinkShare(n)
  BY DEF Shares
<1>5. \A v \in {t, u} :
          Share(v, n) = In(v, Refs(n)) + In(v, Owned(n)) + In(v, Numbers(n)) + In(v, Drops(n))
  BY DEF Share
<1> QED
  BY <1>1, <1>2, <1>3, <1>4, <1>5

(* A node without shares is nobody's.                                      *)
LEMMA Unshared ==
    ASSUME NEW n, Shares(n) = 0
    PROVE  /\ Place(n) = 0
           /\ \A t \in Threads : Share(t, n) = 0
<1>1. \A t \in Threads : Share(t, n) = 0
  BY SharesOf, PlaceIs
<1>2. Place(n) = 0
  <2>1. /\ Cardinality(Refs(n)) \in Nat /\ Cardinality(Owned(n)) \in Nat
        /\ Cardinality(Numbers(n)) \in Nat /\ Cardinality(Drops(n)) \in Nat
    <3>1. /\ IsFiniteSet(Refs(n)) /\ IsFiniteSet(Owned(n))
          /\ IsFiniteSet(Numbers(n)) /\ IsFiniteSet(Drops(n))
      <4>1. /\ Refs(n) \subseteq Threads /\ Owned(n) \subseteq Threads
            /\ Numbers(n) \subseteq Threads /\ Drops(n) \subseteq Threads
        BY DEF Refs, Owned, Numbers, Drops
      <4> QED
        BY <4>1, Consts, FS_Subset
    <3> QED
      BY <3>1, FS_CardinalityType
  <2>2. TailShare(n) \in {0, 1} /\ LinkShare(n) \in {0, 1}
    BY DEF TailShare, LinkShare
  <2> QED
    BY <2>1, <2>2 DEF Shares, Place
<1> QED
  BY <1>1, <1>2

(* What a step of t does to the shares, if the numbers of the others stay  *)
(* with their nodes.                                                       *)
LEMMA SharesStep ==
    ASSUME NEW t \in Threads, Others(t), NEW n,
           \A u \in Threads \ {t} : Has(u, n)' <=> Has(u, n)
    PROVE  /\ Shares(n) \in Nat /\ Shares(n)' \in Nat
           /\ Shares(n)' = Shares(n) + Share(t, n)' - Share(t, n) + Place(n)' - Place(n)
<1> DEFINE K(A, B) == /\ Cardinality(A) \in Nat /\ Cardinality(B) \in Nat
                      /\ Cardinality(B) = Cardinality(A) + In(t, B) - In(t, A)
<1>1. \A A, B \in SUBSET Threads :
          (\A u \in Threads : u # t => (u \in A <=> u \in B)) => K(A, B)
  BY Recount
<1>2. /\ Refs(n) \in SUBSET Threads /\ Refs(n)' \in SUBSET Threads
      /\ Owned(n) \in SUBSET Threads /\ Owned(n)' \in SUBSET Threads
      /\ Numbers(n) \in SUBSET Threads /\ Numbers(n)' \in SUBSET Threads
      /\ Drops(n) \in SUBSET Threads /\ Drops(n)' \in SUBSET Threads
  BY DEF Refs, Owned, Numbers, Drops
<1>3. \A u \in Threads : u # t =>
          /\ u \in Refs(n) <=> u \in Refs(n)'
          /\ u \in Owned(n) <=> u \in Owned(n)'
          /\ u \in Numbers(n) <=> u \in Numbers(n)'
          /\ u \in Drops(n) <=> u \in Drops(n)'
  BY DEF Others, Refs, Owned, Numbers, Drops
<1> HIDE DEF K
<1>4. K(Refs(n), Refs(n)')
  BY <1>1, <1>2, <1>3
<1>5. K(Owned(n), Owned(n)')
  BY <1>1, <1>2, <1>3
<1>6. K(Numbers(n), Numbers(n)')
  BY <1>1, <1>2, <1>3
<1>7. K(Drops(n), Drops(n)')
  BY <1>1, <1>2, <1>3
<1>8. \A A : In(t, A) \in {0, 1}
  BY DEF In
<1>9. /\ TailShare(n) \in {0, 1} /\ LinkShare(n) \in {0, 1}
      /\ TailShare(n)' \in {0, 1} /\ LinkShare(n)' \in {0, 1}
  BY DEF TailShare, LinkShare
<1>10. /\ Share(t, n) = In(t, Refs(n)) + In(t, Owned(n)) + In(t, Numbers(n)) + In(t, Drops(n))
       /\ Share(t, n)' = In(t, Refs(n)') + In(t, Owned(n)') + In(t, Numbers(n)') + In(t, Drops(n)')
  BY DEF Share, In
<1>11. /\ Place(n) = TailShare(n) + LinkShare(n)
       /\ Place(n)' = TailShare(n)' + LinkShare(n)'
  BY DEF Place
<1>12. /\ Shares(n) = Cardinality(Refs(n)) + Cardinality(Owned(n)) + Cardinality(Numbers(n))
                          + Cardinality(Drops(n)) + TailShare(n) + LinkShare(n)
       /\ Shares(n)' = Cardinality(Refs(n)') + Cardinality(Owned(n)') + Cardinality(Numbers(n)')
                          + Cardinality(Drops(n)') + TailShare(n)' + LinkShare(n)'
  BY DEF Shares
<1> QED
  <2>1. Shares(n) \in Nat /\ Shares(n)' \in Nat
    BY <1>4, <1>5, <1>6, <1>7, <1>9, <1>12 DEF K
  <2>2. /\ Cardinality(Refs(n)') = Cardinality(Refs(n)) + In(t, Refs(n)') - In(t, Refs(n))
        /\ Cardinality(Owned(n)') = Cardinality(Owned(n)) + In(t, Owned(n)') - In(t, Owned(n))
        /\ Cardinality(Numbers(n)') = Cardinality(Numbers(n)) + In(t, Numbers(n)') - In(t, Numbers(n))
        /\ Cardinality(Drops(n)') = Cardinality(Drops(n)) + In(t, Drops(n)') - In(t, Drops(n))
    BY <1>4, <1>5, <1>6, <1>7 DEF K
  <2>3. /\ Cardinality(Refs(n)) \in Nat /\ Cardinality(Owned(n)) \in Nat
        /\ Cardinality(Numbers(n)) \in Nat /\ Cardinality(Drops(n)) \in Nat
    BY <1>4, <1>5, <1>6, <1>7 DEF K
  <2> QED
    BY <2>1, <2>2, <2>3, <1>8, <1>9, <1>10, <1>11, <1>12, SMTT(30)

-------------------------------------------------------------------------------
(* The chain.                                                              *)
LEMMA TypesGive ==
    ASSUME TypeOK
    PROVE  /\ sequence \in Nat /\ numNodes \in Nat
           /\ tail \in Nodes /\ freeHead \in Nodes /\ freeTail \in Nodes
           /\ \A n \in Nodes : /\ next[n] \in NodeOrNull /\ pos[n] \in Nat /\ count[n] \in Int
                               /\ nodeSeq[n] \in Nat /\ prevSeq[n] \in Nat
           /\ \A t \in Threads :
                 /\ cur[t] \in NodeOrNull /\ own[t] \in NodeOrNull /\ ref[t] \in NodeOrNull
                 /\ drop[t] \in NodeOrNull /\ node[t] \in NodeOrNull
                 /\ seq[t] \in Nat /\ old[t] \in Nat /\ lat[t] \in Nat
BY DEF TypeOK, ProxyType, NodeType, ClientType, LocalType, HistoryType

(* The chain from the first node in use to the last.                       *)
LEMMA ChainFacts ==
    ASSUME TypeOK, Places, Links
    PROVE  /\ FirstInUse \in Nat /\ FirstInUse = pos[freeTail] + Latency + 2
           /\ 0 < pos[freeTail]
           /\ End \in Nat /\ pos[tail] <= End /\ End <= pos[tail] + 1 /\ FirstInUse <= pos[tail]
           /\ Newest \in Nodes /\ pos[Newest] = End /\ next[Newest] = NULL
           /\ \A n \in Nodes : Used(n) => Real(n)
           /\ \A n \in Nodes : Real(n) <=> pos[n] > Latency + 2
           /\ \A n \in Nodes : Used(n) <=> pos[n] >= FirstInUse
           /\ \A n \in Nodes : pos[n] = pos[tail] => n = tail
           /\ \A n \in Nodes : pos[n] > pos[tail] => n = Newest /\ n = next[tail] /\ n # tail
           /\ \A n \in Nodes : pos[n] > 0 =>
                 /\ pos[n] <= End
                 /\ next[n] = NULL => n = Newest
                 /\ next[n] # NULL => /\ next[n] \in Nodes /\ pos[n] < End
                                      /\ pos[next[n]] = pos[n] + 1
<1> USE Consts, TypesGive
<1>1. FirstInUse \in Nat /\ FirstInUse = pos[freeTail] + Latency + 2 /\ 0 < pos[freeTail]
  BY DEF FirstInUse, Places
<1>2. End \in Nat /\ pos[tail] <= End /\ End <= pos[tail] + 1 /\ FirstInUse <= pos[tail]
  BY DEF End, Places
<1>3. \A n \in Nodes : /\ Real(n) <=> pos[n] > Latency + 2
                       /\ Used(n) <=> pos[n] >= FirstInUse
  BY DEF Real, Used
<1>4. \A n \in Nodes : pos[n] > 0 => pos[n] <= End
  BY DEF Places
<1>5. \A n \in Nodes : pos[n] > 0 /\ next[n] # NULL =>
          next[n] \in Nodes /\ pos[n] < End /\ pos[next[n]] = pos[n] + 1
  BY DEF Links
<1>6. \A n \in Nodes : pos[n] > 0 /\ next[n] = NULL => pos[n] = End
  BY DEF Links
<1>7. \A n \in Nodes : pos[n] = pos[tail] => n = tail
  BY <1>1, <1>2 DEF Places
<1>8. next[tail] # NULL => /\ next[tail] \in Nodes /\ End = pos[tail] + 1
                           /\ pos[next[tail]] = End
  BY <1>1, <1>2, <1>5 DEF End
<1>9. Newest \in Nodes /\ pos[Newest] = End
  BY <1>8 DEF Newest, End
<1>10. next[Newest] = NULL
  BY <1>1, <1>2, <1>9, <1>5
<1>11. \A m, n \in Nodes : pos[m] > 0 /\ pos[m] = pos[n] => m = n
  BY DEF Places
<1>12. \A n \in Nodes : pos[n] > pos[tail] => n = Newest /\ n = next[tail] /\ n # tail
  <2> SUFFICES ASSUME NEW n \in Nodes, pos[n] > pos[tail]
               PROVE  n = Newest /\ n = next[tail] /\ n # tail
    OBVIOUS
  <2>1. pos[n] = End /\ End = pos[tail] + 1
    BY <1>2, <1>4
  <2>2. n = Newest
    BY <2>1, <1>9, <1>11
  <2> QED
    BY <2>1, <2>2 DEF Newest, End
<1>13. \A n \in Nodes : pos[n] > 0 /\ next[n] = NULL => n = Newest
  BY <1>6, <1>9, <1>11
<1> QED
  BY <1>1, <1>2, <1>3, <1>4, <1>5, <1>7, <1>9, <1>10, <1>12, <1>13

(* The sequences of a node are numbers in their order.                     *)
LEMMA SequenceFacts ==
    ASSUME TypeOK, Places, Links, Sequences
    PROVE  /\ \A n \in Nodes : Upper(n) \in Nat /\ From(n) \in Nat
           /\ \A n \in Nodes : Real(n) => From(n) <= Upper(n) /\ Upper(n) <= sequence
           /\ From(tail) = prevSeq[tail] /\ prevSeq[tail] # 0
           /\ next[tail] # NULL => From(next[tail]) = Upper(tail)
           /\ Upper(Newest) = sequence
           /\ \A n \in Nodes : Real(n) /\ pos[n] <= pos[tail] => From(n) = prevSeq[n]
<1> USE Consts, TypesGive, ChainFacts
<1>1. \A n \in Nodes : Upper(n) \in Nat /\ From(n) \in Nat
  BY DEF Upper, From
<1>2. \A n \in Nodes : Real(n) => From(n) <= Upper(n) /\ Upper(n) <= sequence
  BY DEF Sequences
<1>3. \A n \in Nodes : Real(n) /\ pos[n] <= pos[tail] => prevSeq[n] # 0 /\ From(n) = prevSeq[n]
  BY DEF Sequences, From
<1>4. Real(tail)
  OBVIOUS
<1>5. next[tail] # NULL => From(next[tail]) = Upper(tail)
  <2> SUFFICES ASSUME next[tail] # NULL
               PROVE  From(next[tail]) = Upper(tail)
    OBVIOUS
  <2>1. prevSeq[next[tail]] = 0 \/ prevSeq[next[tail]] = nodeSeq[tail]
    BY DEF Sequences
  <2> QED
    BY <2>1 DEF From, Upper
<1>6. Upper(Newest) = sequence
  BY DEF Sequences, Upper
<1> QED
  BY <1>1, <1>2, <1>3, <1>4, <1>5, <1>6

(* What a thread has, by where it is.                                      *)
LEMMA Controls ==
    ASSUME TypeOK, NEW t \in Threads, Role(t)
    PROVE  /\ pc[t] \in Seeks => cur[t] \in Nodes /\ seq[t] # 0 /\ own[t] = NULL
           /\ pc[t] \in Gets \union Adds => cur[t] \in Nodes /\ seq[t] = 0 /\ own[t] \in Nodes
           /\ Setting(t) => /\ cur[t] \in Nodes /\ drop[t] = NULL
                            /\ \/ ret[t] = "g_cmp" /\ seq[t] # 0 /\ own[t] = NULL
                               \/ ret[t] \in {"a_more", "a_end"} /\ seq[t] = 0 /\ own[t] \in Nodes
           /\ Dropping(t) => drop[t] \in Nodes
           /\ ~Dropping(t) => drop[t] = NULL
           /\ pc[t] = "g_cas" => /\ cur[t] \in Nodes /\ own[t] = NULL
                                 /\ seq[t] = 0 /\ lat[t] = 0
           /\ pc[t] \in {"idle", "g_seq", "g_tail", "t_free", "t_dec", "backoff"} =>
                 cur[t] = NULL /\ own[t] = NULL /\ seq[t] = 0 /\ lat[t] = 0
           /\ Looking(t) <=> seq[t] # 0 \/ own[t] # NULL
           /\ Looking(t) => cur[t] \in Nodes
           /\ ~Setting(t) /\ ~Dropping(t) => ret[t] = "idle"
<1> USE TypesGive, Types DEF Role, At, Seeks, Gets, Adds, Setting, Dropping
<1>1. /\ pc[t] \in Seeks => cur[t] \in Nodes /\ seq[t] # 0 /\ own[t] = NULL
      /\ pc[t] \in Gets \union Adds => cur[t] \in Nodes /\ seq[t] = 0 /\ own[t] \in Nodes
  OBVIOUS
<1>2. Setting(t) => /\ cur[t] \in Nodes /\ drop[t] = NULL
                    /\ \/ ret[t] = "g_cmp" /\ seq[t] # 0 /\ own[t] = NULL
                       \/ ret[t] \in {"a_more", "a_end"} /\ seq[t] = 0 /\ own[t] \in Nodes
  OBVIOUS
<1>3. /\ Dropping(t) => drop[t] \in Nodes
      /\ ~Dropping(t) => drop[t] = NULL
      /\ ~Setting(t) /\ ~Dropping(t) => ret[t] = "idle"
  OBVIOUS
<1>4. pc[t] = "g_cas" => /\ cur[t] \in Nodes /\ own[t] = NULL
                         /\ seq[t] = 0 /\ lat[t] = 0
  OBVIOUS
<1>5. pc[t] \in {"idle", "g_seq", "g_tail", "t_free", "t_dec", "backoff"} =>
          cur[t] = NULL /\ own[t] = NULL /\ seq[t] = 0 /\ lat[t] = 0
  OBVIOUS
<1>6. /\ Looking(t) <=> seq[t] # 0 \/ own[t] # NULL
      /\ Looking(t) => cur[t] \in Nodes
  BY <1>4 DEF Looking
<1> QED
  BY <1>1, <1>2, <1>3, <1>4, <1>5, <1>6

(* There are nodes for all places from freeTail to the tail.               *)
LEMMA EnoughNodes ==
    ASSUME TypeOK, Places, Links, alive, Allocated
    PROVE  Cardinality(heap) \in Nat /\ Cardinality(heap) >= MaxLatency + 1
<1> USE Consts, TypesGive, ChainFacts
<1> DEFINE P == pos[freeTail]..FirstInUse
           S == {n \in heap : pos[n] \in P}
           f == [n \in S |-> pos[n]]
<1>a. /\ pos[freeHead] \in Nat /\ pos[freeTail] \in Nat /\ FirstInUse \in Nat
      /\ pos[freeHead] <= pos[freeTail] /\ FirstInUse <= End /\ End \in Nat
      /\ FirstInUse = pos[freeTail] + MaxLatency
  BY DEF Places, FirstInUse
<1>1. \A p \in P : \E n \in Nodes : pos[n] = p
  <2> SUFFICES ASSUME NEW p \in P PROVE \E n \in Nodes : pos[n] = p
    OBVIOUS
  <2>1. p \in pos[freeHead]..End
    BY <1>a
  <2> QED
    BY <2>1 DEF Places
<1>2. \A n \in Nodes : pos[n] \in P => n \in heap
  BY DEF Allocated
<1>3. f \in Surjection(S, P)
  BY <1>1, <1>2 DEF Surjection
<1>4. IsFiniteSet(heap)
  BY FS_Subset DEF TypeOK, HeapType
<1>5. IsFiniteSet(S) /\ Cardinality(S) <= Cardinality(heap)
  BY <1>4, FS_Subset, S \subseteq heap
<1>6. Cardinality(heap) \in Nat /\ Cardinality(S) \in Nat /\ Cardinality(P) \in Nat
  <2>0. \A a, b \in Int : IsFiniteSet(a..b)
    BY FS_Interval
  <2>1. IsFiniteSet(P)
    BY <1>a, <2>0
  <2> QED
    BY <1>4, <1>5, <2>1, FS_CardinalityType
<1>7. Cardinality(P) = MaxLatency + 1
  <2>1. /\ pos[freeTail] \in Int /\ FirstInUse \in Int
        /\ pos[freeTail] <= FirstInUse /\ FirstInUse - pos[freeTail] + 1 = MaxLatency + 1
    BY <1>a
  <2>2. \A a, b \in Int : a <= b => Cardinality(a..b) = b - a + 1
    BY FS_Interval
  <2> QED
    BY <2>1, <2>2
<1>8. Cardinality(P) <= Cardinality(S)
  <2> HIDE DEF P, S, f
  <2> QED
    BY <1>3, <1>5, FS_Surjection
<1> QED
  BY <1>5, <1>6, <1>7, <1>8

(* What a thread that has come so far may rely on.                         *)
LEMMA ThreadFacts ==
    ASSUME TypeOK, Places, Links, NEW t \in Threads,
           Role(t), Stage(t), Walk(t), Touch(t), Reclaim(t), Pop(t)
    PROVE  /\ Looking(t) => cur[t] \in Nodes /\ Real(cur[t]) /\ pos[cur[t]] <= pos[tail]
           /\ Setting(t) => next[cur[t]] \in Nodes
           /\ pc[t] \in {"g_cmp", "a_more"} => next[cur[t]] \in Nodes
           /\ own[t] # NULL => own[t] \in Nodes /\ pos[own[t]] >= FirstInUse
           /\ pc[t] \in {"d_next", "d_store"} => /\ next[freeTail] \in Nodes
                                                 /\ pos[next[freeTail]] = pos[freeTail] + 1
                                                 /\ next[drop[t]] \in Nodes
                                                 /\ pos[next[drop[t]]] = FirstInUse + 1
                                                 /\ pos[drop[t]] = FirstInUse
                                                 /\ FirstInUse + 1 <= pos[tail]
           /\ pc[t] = "d_store" => nxt[t] = next[freeTail]
           /\ pc[t] \in {"n_read", "n_cas"} => free[t] \in Nodes
           /\ pc[t] = "n_cas" /\ freeHead = free[t] =>
                 /\ pos[freeHead] < pos[freeTail]
                 /\ nxt[t] = next[freeHead] /\ nxt[t] \in Nodes
                 /\ pos[nxt[t]] = pos[freeHead] + 1
<1> USE Consts, Types, TypesGive, ChainFacts
<1>0. /\ Setting(t) => Looking(t) /\ ~Dropping(t)
      /\ pc[t] \in {"g_cmp", "a_more"} => Looking(t)
      /\ pc[t] \in {"d_next", "d_store"} => Dropping(t)
      /\ pc[t] = "n_cas" => own[t] \in Nodes
  BY Controls DEF Setting, Dropping, Looking, Seeks, Gets, Adds
<1>1. Looking(t) => cur[t] \in Nodes /\ Real(cur[t]) /\ pos[cur[t]] <= pos[tail]
  BY Controls DEF Walk
<1>2. Setting(t) => next[cur[t]] \in Nodes
  BY <1>0, <1>1 DEF Stage
<1>3. pc[t] \in {"g_cmp", "a_more"} => next[cur[t]] \in Nodes
  <2>1. \A n \in Nodes : pos[n] > 0 /\ pos[n] < pos[tail] => next[n] \in Nodes
    BY DEF Links
  <2>2. pc[t] \in {"g_cmp", "a_more"} => pos[cur[t]] < pos[tail]
    BY DEF Stage
  <2> QED
    BY <1>0, <1>1, <2>1, <2>2
<1>4. own[t] # NULL => own[t] \in Nodes /\ pos[own[t]] >= FirstInUse
  BY DEF Touch
<1>5. pc[t] \in {"d_next", "d_store"} =>
          drop[t] \in Nodes /\ pos[drop[t]] = FirstInUse /\ FirstInUse < pos[tail]
  BY <1>0, Controls DEF Reclaim, Frees, Reclaiming
<1>6. pc[t] \in {"d_next", "d_store"} => /\ next[freeTail] \in Nodes
                                         /\ pos[next[freeTail]] = pos[freeTail] + 1
                                         /\ next[drop[t]] \in Nodes
                                         /\ pos[next[drop[t]]] = FirstInUse + 1
                                         /\ FirstInUse + 1 <= pos[tail]
  <2>1. \A n \in Nodes : pos[n] > 0 /\ pos[n] < pos[tail] =>
            next[n] \in Nodes /\ pos[next[n]] = pos[n] + 1
    BY DEF Links
  <2> QED
    BY <1>5, <2>1
<1>7. pc[t] = "d_store" => nxt[t] = next[freeTail]
  BY DEF Reclaim, Frees, Reclaiming
<1>8. pc[t] \in {"n_read", "n_cas"} => free[t] \in Nodes
  BY DEF Pop
<1>9. pc[t] = "n_cas" /\ freeHead = free[t] =>
          /\ pos[freeHead] < pos[freeTail]
          /\ nxt[t] = next[freeHead] /\ nxt[t] \in Nodes
          /\ pos[nxt[t]] = pos[freeHead] + 1
  <2> SUFFICES ASSUME pc[t] = "n_cas", freeHead = free[t]
               PROVE  /\ pos[freeHead] < pos[freeTail]
                      /\ nxt[t] = next[freeHead] /\ nxt[t] \in Nodes
                      /\ pos[nxt[t]] = pos[freeHead] + 1
    OBVIOUS
  <2>1. 0 < pos[freeHead] /\ pos[freeHead] <= pos[freeTail]
    BY DEF Places
  <2>2. Stayed(t)
    BY <1>0, <1>4, <2>1 DEF Stayed
  <2>3. pos[freeHead] < pos[freeTail] /\ nxt[t] = next[freeHead]
    BY <2>2 DEF Pop
  <2> QED
    BY <2>1, <2>3 DEF Links
<1> QED
  BY <1>1, <1>2, <1>3, <1>4, <1>5, <1>6, <1>7, <1>8, <1>9

(* A node that is about to be uncounted is counted.                        *)
LEMMA Uncounted ==
    ASSUME TypeOK, Places, Links, Allocated, Accounted, NEW t \in Threads, pc[t] = "t_dec"
    PROVE  numNodes > 0
<1> DEFINE A == {u \in Threads : pc[u] \in {"n_alloc", "t_dec"}}
<1>1. alive
  BY DEF Allocated
<1>2. Cardinality(heap) + failed = numNodes + MaxLatency + 1 - Cardinality(A)
  BY <1>1 DEF Accounted, NodeAccounting
<1>3. Cardinality(heap) \in Nat /\ Cardinality(heap) >= MaxLatency + 1
  BY <1>1, EnoughNodes
<1>4. Cardinality(A) \in Nat /\ In(t, A) <= Cardinality(A)
  <2>1. A \in SUBSET Threads
    OBVIOUS
  <2> HIDE DEF A
  <2> QED
    BY <2>1, CountTwo
<1>5. In(t, A) = 1
  BY DEF In
<1>6. failed \in Nat /\ numNodes \in Nat /\ MaxLatency \in Nat
  BY Consts, RcpcAssumption DEF TypeOK, HistoryType, ProxyType
<1> QED
  BY <1>2, <1>3, <1>4, <1>5, <1>6

LEMMA Bounds == MaxTrim \in Nat /\ MaxFail \in Nat /\ MaxNodes \in Nat
BY RcpcAssumption

(* One step for each action and under it one for each part that it changes. *)
LEMMA EnterType ==
    ASSUME TypeOK, NEW t \in Threads, Enter(t)
    PROVE  TypeOK'
<1> USE Types, Bounds
<1>0. ProxyType /\ NodeType /\ HeapType /\ ClientType /\ LocalType /\ HistoryType
  BY DEF TypeOK
<1>1. CASE GetCall(t)
  <2>1. ClientType'
    BY <1>0, <1>1 DEF ClientType, GetCall, Call, Goto, PCs, clientVars, localVars
  <2>2. LocalType'
    BY <1>0, <1>1 DEF LocalType, GetCall, ProxyType, localVars, getVars, newVars
  <2>3. ProxyType' /\ NodeType' /\ HeapType' /\ HistoryType'
    BY <1>0, <1>1 DEF ProxyType, NodeType, HeapType, HistoryType, GetCall, proxyVars, nodeVars, heapVars, historyVars
  <2> QED
    BY <2>1, <2>2, <2>3 DEF TypeOK
<1>2. CASE DropCall(t)
  <2>1. ClientType'
    BY <1>0, <1>2 DEF ClientType, DropCall, Goto, PCs, clientVars, localVars
  <2>2. LocalType'
    BY <1>0, <1>2 DEF LocalType, DropCall, ClientType, localVars, getVars, newVars
  <2>3. HistoryType'
    BY <1>0, <1>2 DEF HistoryType, DropCall, historyVars
  <2>4. ProxyType' /\ NodeType' /\ HeapType'
    BY <1>0, <1>2 DEF ProxyType, NodeType, HeapType, DropCall, proxyVars, nodeVars, heapVars
  <2> QED
    BY <2>1, <2>2, <2>3, <2>4 DEF TypeOK
<1>3. CASE DeferCall(t)
  <2>1. ClientType'
    BY <1>0, <1>3 DEF ClientType, DeferCall, Call, Goto, PCs, clientVars, localVars
  <2>2. LocalType'
    BY <1>0, <1>3 DEF LocalType, DeferCall, localVars, getVars, newVars
  <2>3. ProxyType' /\ NodeType' /\ HeapType' /\ HistoryType'
    BY <1>0, <1>3 DEF ProxyType, NodeType, HeapType, HistoryType, DeferCall, proxyVars, nodeVars, heapVars, historyVars
  <2> QED
    BY <2>1, <2>2, <2>3 DEF TypeOK
<1>4. CASE TrimCall(t)
  <2>1. ClientType'
    BY <1>0, <1>4 DEF ClientType, TrimCall, Call, TrimLoop, Goto, PCs, clientVars, localVars
  <2>2. LocalType'
    BY <1>0, <1>4 DEF LocalType, TrimCall, TrimLoop, localVars, getVars, newVars
  <2>3. ProxyType' /\ NodeType' /\ HeapType' /\ HistoryType'
    BY <1>0, <1>4 DEF ProxyType, NodeType, HeapType, HistoryType, TrimCall, proxyVars, nodeVars, heapVars, historyVars
  <2> QED
    BY <2>1, <2>2, <2>3 DEF TypeOK
<1> QED
  BY <1>1, <1>2, <1>3, <1>4 DEF Enter

LEMMA StepType ==
    ASSUME TypeOK, IInv, NEW t \in Threads, Step(t)
    PROVE  TypeOK'
<1> USE Types, Bounds
<1>0. ProxyType /\ NodeType /\ HeapType /\ ClientType /\ LocalType /\ HistoryType
  BY DEF TypeOK
<1>a. /\ Looking(t) => cur[t] \in Nodes
      /\ pc[t] \in {"g_test", "g_cmp"} => cur[t] \in Nodes
      /\ Setting(t) => cur[t] \in Nodes
      /\ pc[t] \in {"a_try", "a_more", "n_init", "a_end"} => cur[t] \in Nodes
      /\ pc[t] \in {"d_sub", "d_next", "d_store", "d_free"} => drop[t] \in Nodes
      /\ Setting(t) => ret[t] \in {"g_cmp", "a_more", "a_end"}
  BY Controls DEF IInv, Seeks, Gets, Adds, Setting, Dropping, Role
<1>b. /\ Setting(t) => next[cur[t]] \in Nodes
      /\ pc[t] = "d_store" => nxt[t] \in Nodes
      /\ pc[t] = "n_cas" /\ freeHead = free[t] => nxt[t] \in Nodes
      /\ pc[t] \in {"n_read", "n_cas"} => free[t] \in Nodes
  BY ThreadFacts DEF IInv
<1>c. pc[t] = "t_dec" => numNodes > 0
  BY Uncounted DEF IInv
<1>d. pc[t] \in {"n_init", "a_try"} => node[t] \in Nodes
  BY Types, TypesGive DEF IInv, Caller, At, Adds, Setting, Dropping
<1>1. CASE GetLoadSeq(t)
  <2>1. ClientType'
    BY <1>0, <1>1 DEF ClientType, GetLoadSeq, Goto, PCs, clientVars, localVars
  <2>2. LocalType'
    BY <1>0, <1>1 DEF LocalType, GetLoadSeq, ProxyType, localVars, getVars, newVars
  <2>3. ProxyType' /\ NodeType' /\ HeapType' /\ HistoryType'
    BY <1>0, <1>1 DEF ProxyType, NodeType, HeapType, HistoryType, GetLoadSeq, proxyVars, nodeVars, heapVars, historyVars
  <2> QED
    BY <2>1, <2>2, <2>3 DEF TypeOK
<1>2. CASE GetLoadTail(t)
  <2>1. ClientType'
    BY <1>0, <1>2 DEF ClientType, GetLoadTail, Goto, PCs, clientVars, localVars
  <2>2. LocalType'
    BY <1>0, <1>2 DEF LocalType, GetLoadTail, ProxyType, localVars, getVars, newVars
  <2>3. ProxyType' /\ NodeType' /\ HeapType' /\ HistoryType'
    BY <1>0, <1>2 DEF ProxyType, NodeType, HeapType, HistoryType, GetLoadTail, proxyVars, nodeVars, heapVars, historyVars
  <2> QED
    BY <2>1, <2>2, <2>3 DEF TypeOK
<1>3. CASE GetCas(t)
  <2>1. ProxyType'
    BY <1>0, <1>3 DEF ProxyType, GetCas, REFERENCE, proxyVars
  <2>2. ClientType'
    BY <1>0, <1>3 DEF ClientType, GetCas, Goto, PCs, clientVars, localVars
  <2>3. LocalType'
    BY <1>0, <1>3 DEF LocalType, GetCas, ProxyType, REFERENCE, localVars, getVars, newVars
  <2>4. NodeType' /\ HeapType' /\ HistoryType'
    BY <1>0, <1>3 DEF NodeType, HeapType, HistoryType, GetCas, nodeVars, heapVars, historyVars
  <2> QED
    BY <2>1, <2>2, <2>3, <2>4 DEF TypeOK
<1>4. CASE GetTest(t)
  <2>1. ClientType'
    BY <1>0, <1>4, <1>a DEF ClientType, GetTest, GetReturn, LocalType, Goto, PCs, clientVars, localVars
  <2>2. LocalType'
    BY <1>0, <1>4, <1>a DEF LocalType, GetTest, GetReturn, localVars, getVars, newVars
  <2>3. ProxyType' /\ NodeType' /\ HeapType' /\ HistoryType'
    BY <1>0, <1>4 DEF ProxyType, NodeType, HeapType, HistoryType, GetTest, proxyVars, nodeVars, heapVars, historyVars
  <2> QED
    BY <2>1, <2>2, <2>3 DEF TypeOK
<1>5. CASE GetCompare(t)
  <2>1. ClientType'
    BY <1>0, <1>5, <1>a DEF ClientType, GetCompare, GetReturn, LocalType, Goto, PCs, clientVars, localVars
  <2>2. LocalType'
    BY <1>0, <1>5, <1>a DEF LocalType, GetCompare, GetReturn, NodeType, localVars, getVars, newVars
  <2>3. ProxyType' /\ NodeType' /\ HeapType' /\ HistoryType'
    BY <1>0, <1>5 DEF ProxyType, NodeType, HeapType, HistoryType, GetCompare, proxyVars, nodeVars, heapVars, historyVars
  <2> QED
    BY <2>1, <2>2, <2>3 DEF TypeOK
<1>6. CASE SetLoad(t)
  <2>1. ClientType'
    BY <1>0, <1>6 DEF ClientType, SetLoad, Goto, PCs, clientVars, localVars
  <2>2. LocalType'
    BY <1>0, <1>6 DEF LocalType, SetLoad, ProxyType, localVars, getVars, newVars
  <2>3. ProxyType' /\ NodeType' /\ HeapType' /\ HistoryType'
    BY <1>0, <1>6 DEF ProxyType, NodeType, HeapType, HistoryType, SetLoad, proxyVars, nodeVars, heapVars, historyVars
  <2> QED
    BY <2>1, <2>2, <2>3 DEF TypeOK
<1>7. CASE SetCas(t)
  <2>1. NodeType'
    BY <1>0, <1>7, <1>a DEF NodeType, SetCas, LocalType, Setting, nodeVars
  <2>2. ClientType'
    BY <1>0, <1>7 DEF ClientType, SetCas, Goto, PCs, clientVars, localVars
  <2>3. LocalType'
    BY <1>0, <1>7 DEF LocalType, SetCas, localVars, getVars, newVars
  <2>4. ProxyType' /\ HeapType' /\ HistoryType'
    BY <1>0, <1>7 DEF ProxyType, HeapType, HistoryType, SetCas, proxyVars, heapVars, historyVars
  <2> QED
    BY <2>1, <2>2, <2>3, <2>4 DEF TypeOK
<1>8. CASE SetPrev(t)
  <2>1. NodeType'
    BY <1>0, <1>8, <1>a DEF NodeType, SetPrev, Setting, nodeVars
  <2>2. ClientType'
    BY <1>0, <1>8 DEF ClientType, SetPrev, Goto, PCs, clientVars, localVars
  <2>3. ProxyType' /\ HeapType' /\ LocalType' /\ HistoryType'
    BY <1>0, <1>8 DEF ProxyType, HeapType, LocalType, HistoryType, SetPrev, proxyVars, heapVars, localVars, getVars, newVars, historyVars
  <2> QED
    BY <2>1, <2>2, <2>3 DEF TypeOK
<1>9. CASE SetCount(t)
  <2>1. NodeType'
    BY <1>0, <1>9, <1>a DEF NodeType, SetCount, Adjustment, GUARD_BIT, Setting, nodeVars
  <2>2. ClientType'
    BY <1>0, <1>9 DEF ClientType, SetCount, Goto, PCs, clientVars, localVars
  <2>3. ProxyType' /\ HeapType' /\ LocalType' /\ HistoryType'
    BY <1>0, <1>9 DEF ProxyType, HeapType, LocalType, HistoryType, SetCount, proxyVars, heapVars, localVars, getVars, newVars, historyVars
  <2> QED
    BY <2>1, <2>2, <2>3 DEF TypeOK
<1>10. CASE SetTail(t)
  <2>1. ProxyType'
    BY <1>0, <1>10, <1>b DEF ProxyType, SetTail, Setting, proxyVars
  <2>2. ClientType'
    BY <1>0, <1>10, <1>a DEF ClientType, SetTail, Goto, Setting, PCs, clientVars, localVars
  <2>3. LocalType'
    BY <1>0, <1>10, <1>a DEF LocalType, SetTail, Setting, localVars, getVars, newVars
  <2>4. NodeType' /\ HeapType' /\ HistoryType'
    BY <1>0, <1>10 DEF NodeType, HeapType, HistoryType, SetTail, nodeVars, heapVars, historyVars
  <2> QED
    BY <2>1, <2>2, <2>3, <2>4 DEF TypeOK
<1>11. CASE DropSub(t)
  <2>1. NodeType'
    BY <1>0, <1>11, <1>a DEF NodeType, DropSub, REFERENCE, nodeVars
  <2>2. ClientType'
    BY <1>0, <1>11 DEF ClientType, DropSub, Goto, PCs, clientVars, localVars
  <2>3. LocalType'
    BY <1>0, <1>11 DEF LocalType, DropSub, localVars, getVars, newVars
  <2>4. ProxyType' /\ HeapType' /\ HistoryType'
    BY <1>0, <1>11 DEF ProxyType, HeapType, HistoryType, DropSub, proxyVars, heapVars, historyVars
  <2> QED
    BY <2>1, <2>2, <2>3, <2>4 DEF TypeOK
<1>12. CASE DropNext(t)
  <2>1. ClientType'
    BY <1>0, <1>12 DEF ClientType, DropNext, Goto, PCs, clientVars, localVars
  <2>2. LocalType'
    BY <1>0, <1>12 DEF LocalType, DropNext, ProxyType, NodeType, localVars, getVars, newVars
  <2>3. ProxyType' /\ NodeType' /\ HeapType' /\ HistoryType'
    BY <1>0, <1>12 DEF ProxyType, NodeType, HeapType, HistoryType, DropNext, proxyVars, nodeVars, heapVars, historyVars
  <2> QED
    BY <2>1, <2>2, <2>3 DEF TypeOK
<1>13. CASE DropStore(t)
  <2>1. ProxyType'
    BY <1>0, <1>13, <1>b DEF ProxyType, DropStore, proxyVars
  <2>2. ClientType'
    BY <1>0, <1>13 DEF ClientType, DropStore, Goto, PCs, clientVars, localVars
  <2>3. LocalType'
    BY <1>0, <1>13, <1>a DEF LocalType, DropStore, NodeType, localVars, getVars, newVars
  <2>4. NodeType' /\ HeapType' /\ HistoryType'
    BY <1>0, <1>13 DEF NodeType, HeapType, HistoryType, DropStore, nodeVars, heapVars, historyVars
  <2> QED
    BY <2>1, <2>2, <2>3, <2>4 DEF TypeOK
<1>14. CASE DropFree(t)
  <2>1. NodeType'
    <3>1. data' = data \/ data' = [data EXCEPT ![drop[t]] = NULL]
      BY <1>14 DEF DropFree
    <3>2. /\ next' = next /\ nodeSeq' = nodeSeq /\ prevSeq' = prevSeq /\ count' = count
      BY <1>14 DEF DropFree
    <3> QED
      BY <1>0, <3>1, <3>2 DEF NodeType
  <2>2. ClientType'
    BY <1>0, <1>14 DEF ClientType, DropFree, Goto, PCs, clientVars, localVars
  <2>3. HistoryType'
    <3>1. data[drop[t]] # NULL => Append(done, data[drop[t]]) \in Seq(Data)
      <4>1. data[drop[t]] # NULL => data[drop[t]] \in Data
        BY <1>0, <1>14, <1>a DEF DropFree, NodeType
      <4> QED
        BY <1>0, <4>1 DEF HistoryType
    <3> QED
      BY <1>0, <1>14, <3>1 DEF HistoryType, DropFree
  <2>4. ProxyType' /\ HeapType' /\ LocalType'
    BY <1>0, <1>14 DEF ProxyType, HeapType, LocalType, DropFree, proxyVars, heapVars, localVars, getVars, newVars
  <2> QED
    BY <2>1, <2>2, <2>3, <2>4 DEF TypeOK
<1>15. CASE NewLoad(t)
  <2>1. ClientType'
    BY <1>0, <1>15 DEF ClientType, NewLoad, Goto, PCs, clientVars, localVars
  <2>2. LocalType'
    BY <1>0, <1>15 DEF LocalType, NewLoad, ProxyType, localVars, getVars, newVars
  <2>3. ProxyType' /\ NodeType' /\ HeapType' /\ HistoryType'
    BY <1>0, <1>15 DEF ProxyType, NodeType, HeapType, HistoryType, NewLoad, proxyVars, nodeVars, heapVars, historyVars
  <2> QED
    BY <2>1, <2>2, <2>3 DEF TypeOK
<1>16. CASE NewTest(t)
  <2>1. ClientType'
    BY <1>0, <1>16 DEF ClientType, NewTest, Goto, PCs, clientVars, localVars
  <2>2. LocalType'
    BY <1>0, <1>16 DEF LocalType, NewTest, localVars, getVars, newVars
  <2>3. ProxyType' /\ NodeType' /\ HeapType' /\ HistoryType'
    BY <1>0, <1>16 DEF ProxyType, NodeType, HeapType, HistoryType, NewTest, proxyVars, nodeVars, heapVars, historyVars
  <2> QED
    BY <2>1, <2>2, <2>3 DEF TypeOK
<1>17. CASE NewRead(t)
  <2>1. ClientType'
    BY <1>0, <1>17 DEF ClientType, NewRead, Goto, PCs, clientVars, localVars
  <2>2. LocalType'
    BY <1>0, <1>17, <1>b DEF LocalType, NewRead, NextOf, NodeType, localVars, getVars, newVars
  <2>3. ProxyType' /\ NodeType' /\ HeapType' /\ HistoryType'
    BY <1>0, <1>17 DEF ProxyType, NodeType, HeapType, HistoryType, NewRead, proxyVars, nodeVars, heapVars, historyVars
  <2> QED
    BY <2>1, <2>2, <2>3 DEF TypeOK
<1>18. CASE NewCas(t)
  <2>1. ProxyType'
    BY <1>0, <1>18, <1>b DEF ProxyType, NewCas, proxyVars
  <2>2. ClientType'
    BY <1>0, <1>18 DEF ClientType, NewCas, Goto, PCs, clientVars, localVars
  <2>3. LocalType'
    BY <1>0, <1>18, <1>b DEF LocalType, NewCas, ProxyType, localVars, getVars, newVars
  <2>4. HistoryType'
    <3>1. pos' \in [Nodes -> Nat]
      BY <1>0, <1>18 DEF HistoryType, NewCas
    <3>2. log' = log /\ done' = done /\ guard' = guard /\ failed' = failed
      BY <1>18 DEF NewCas
    <3> QED
      BY <1>0, <3>1, <3>2 DEF HistoryType
  <2>5. NodeType' /\ HeapType'
    BY <1>0, <1>18 DEF NodeType, HeapType, NewCas, nodeVars, heapVars
  <2> QED
    BY <2>1, <2>2, <2>3, <2>4, <2>5 DEF TypeOK
<1>19. CASE NewCount(t)
  <2>1. ProxyType'
    BY <1>0, <1>19 DEF ProxyType, NewCount, proxyVars
  <2>2. ClientType'
    BY <1>0, <1>19 DEF ClientType, NewCount, DropOwn, Goto, PCs, clientVars, localVars
  <2>3. LocalType'
    BY <1>0, <1>19 DEF LocalType, NewCount, DropOwn, ClientType, localVars, getVars, newVars
  <2>4. NodeType' /\ HeapType' /\ HistoryType'
    BY <1>0, <1>19 DEF NodeType, HeapType, HistoryType, NewCount, nodeVars, heapVars, historyVars
  <2> QED
    BY <2>1, <2>2, <2>3, <2>4 DEF TypeOK
<1>20. CASE NewAlloc(t)
  <2>1. HeapType'
    BY <1>0, <1>20 DEF HeapType, NewAlloc, heapVars
  <2>2. ClientType'
    BY <1>0, <1>20 DEF ClientType, NewAlloc, DropOwn, Goto, PCs, clientVars, localVars
  <2>3. LocalType'
    BY <1>0, <1>20 DEF LocalType, NewAlloc, DropOwn, ClientType, localVars, getVars, newVars
  <2>4. HistoryType'
    BY <1>0, <1>20 DEF HistoryType, NewAlloc, historyVars
  <2>5. ProxyType' /\ NodeType'
    BY <1>0, <1>20 DEF ProxyType, NodeType, NewAlloc, proxyVars, nodeVars
  <2> QED
    BY <2>1, <2>2, <2>3, <2>4, <2>5 DEF TypeOK
<1>21. CASE NewInit(t)
  <2>1. NodeType'
    BY <1>0, <1>21, <1>d DEF NodeType, NewInit, LocalType, InitialCount, GUARD_BIT, REFERENCE, nodeVars
  <2>2. ClientType'
    BY <1>0, <1>21 DEF ClientType, NewInit, DropOwn, Goto, PCs, clientVars, localVars
  <2>3. LocalType'
    BY <1>0, <1>21 DEF LocalType, NewInit, DropOwn, ClientType, localVars, getVars, newVars
  <2>4. ProxyType' /\ HeapType' /\ HistoryType'
    BY <1>0, <1>21 DEF ProxyType, HeapType, HistoryType, NewInit, proxyVars, heapVars, historyVars
  <2> QED
    BY <2>1, <2>2, <2>3, <2>4 DEF TypeOK
<1>22. CASE AddTry(t)
  <2>1. NodeType'
    BY <1>0, <1>22, <1>d DEF NodeType, AddTry, LocalType, nodeVars
  <2>2. ClientType'
    BY <1>0, <1>22 DEF ClientType, AddTry, DropOwn, Goto, PCs, clientVars, localVars
  <2>3. LocalType'
    <3>1. /\ old' = old /\ seq' = seq /\ nxt' = nxt /\ free' = free /\ node' = node
          /\ arg' = arg /\ left' = left /\ use' = use
      BY <1>22 DEF AddTry, newVars
    <3>2. \/ drop' = drop /\ own' = own /\ cur' = cur /\ lat' = lat
          \/ DropOwn(t, "g_seq")
      BY <1>22 DEF AddTry
    <3> QED
      BY <1>0, <3>1, <3>2 DEF LocalType, DropOwn
  <2>4. HistoryType'
    <3>1. pos' \in [Nodes -> Nat]
      BY <1>0, <1>22, <1>a DEF HistoryType, AddTry
    <3>2. done' = done /\ failed' = failed
      BY <1>22 DEF AddTry
    <3>3. log' \in Seq(Data) /\ guard' \in [Data -> SUBSET Threads]
      <4>1. CASE UNCHANGED <<log, guard>>
        BY <1>0, <4>1 DEF HistoryType
      <4>2. CASE ~UNCHANGED <<log, guard>>
        <5>1. /\ arg[t] # NULL /\ log' = Append(log, arg[t])
              /\ guard' = [guard EXCEPT ![arg[t]] = Holding]
          BY <1>22, <4>2 DEF AddTry
        <5>2. arg[t] \in Data /\ Holding \in SUBSET Threads
          BY <1>0, <5>1 DEF LocalType, Holding
        <5> QED
          BY <1>0, <5>1, <5>2 DEF HistoryType
      <4> QED
        BY <4>1, <4>2
    <3> QED
      BY <1>0, <3>1, <3>2, <3>3 DEF HistoryType
  <2>5. ProxyType' /\ HeapType'
    BY <1>0, <1>22 DEF ProxyType, HeapType, AddTry, proxyVars, heapVars
  <2> QED
    BY <2>1, <2>2, <2>3, <2>4, <2>5 DEF TypeOK
<1>23. CASE AddMore(t)
  <2>1. ClientType'
    BY <1>0, <1>23 DEF ClientType, AddMore, Goto, PCs, clientVars, localVars
  <2>2. LocalType'
    BY <1>0, <1>23, <1>a DEF LocalType, AddMore, NodeType, localVars, getVars, newVars
  <2>3. ProxyType' /\ NodeType' /\ HeapType' /\ HistoryType'
    BY <1>0, <1>23 DEF ProxyType, NodeType, HeapType, HistoryType, AddMore, proxyVars, nodeVars, heapVars, historyVars
  <2> QED
    BY <2>1, <2>2, <2>3 DEF TypeOK
<1>24. CASE AddEnd(t)
  <2>1. ClientType'
    BY <1>0, <1>24 DEF ClientType, AddEnd, DropOwn, Goto, PCs, clientVars, localVars
  <2>2. LocalType'
    BY <1>0, <1>24 DEF LocalType, AddEnd, DropOwn, ClientType, localVars, getVars, newVars
  <2>3. ProxyType' /\ NodeType' /\ HeapType' /\ HistoryType'
    BY <1>0, <1>24 DEF ProxyType, NodeType, HeapType, HistoryType, AddEnd, proxyVars, nodeVars, heapVars, historyVars
  <2> QED
    BY <2>1, <2>2, <2>3 DEF TypeOK
<1>25. CASE TrimFree(t)
  <2>1. HeapType'
    BY <1>0, <1>25 DEF HeapType, TrimFree, heapVars
  <2>2. ClientType'
    BY <1>0, <1>25 DEF ClientType, TrimFree, Goto, PCs, clientVars, localVars
  <2>3. LocalType'
    BY <1>0, <1>25 DEF LocalType, TrimFree, localVars, getVars, newVars
  <2>4. ProxyType' /\ NodeType' /\ HistoryType'
    BY <1>0, <1>25 DEF ProxyType, NodeType, HistoryType, TrimFree, proxyVars, nodeVars, historyVars
  <2> QED
    BY <2>1, <2>2, <2>3, <2>4 DEF TypeOK
<1>26. CASE TrimDec(t)
  <2>1. ProxyType'
    BY <1>0, <1>26, <1>c DEF ProxyType, TrimDec, Decrement, proxyVars
  <2>2. ClientType'
    BY <1>0, <1>26, <1>c DEF ClientType, TrimDec, TrimLoop, Goto, PCs, clientVars, localVars
  <2>3. LocalType'
    BY <1>0, <1>26 DEF LocalType, TrimDec, TrimLoop, localVars, getVars, newVars
  <2>4. NodeType' /\ HeapType' /\ HistoryType'
    BY <1>0, <1>26 DEF NodeType, HeapType, HistoryType, TrimDec, nodeVars, heapVars, historyVars
  <2> QED
    BY <2>1, <2>2, <2>3, <2>4 DEF TypeOK
<1>27. CASE Backoff(t)
  <2>1. ClientType'
    BY <1>0, <1>27 DEF ClientType, Backoff, Goto, PCs, clientVars, localVars
  <2>2. ProxyType' /\ NodeType' /\ HeapType' /\ LocalType' /\ HistoryType'
    BY <1>0, <1>27 DEF ProxyType, NodeType, HeapType, LocalType, HistoryType, Backoff, proxyVars, nodeVars, heapVars, localVars, getVars, newVars, historyVars
  <2> QED
    BY <2>1, <2>2 DEF TypeOK
<1> QED
  BY <1>1, <1>2, <1>3, <1>4, <1>5, <1>6, <1>7, <1>8, <1>9, <1>10, <1>11, <1>12, <1>13, <1>14, <1>15, <1>16, <1>17, <1>18, <1>19, <1>20, <1>21, <1>22, <1>23, <1>24, <1>25, <1>26, <1>27
     DEF Step, Get, Set, Drop, New, Add, Trim

-------------------------------------------------------------------------------
(* What the invariant says of one thread.                                  *)
Mine(t) ==
    /\ Role(t) /\ Caller(t)
    /\ Stage(t) /\ Walk(t) /\ Pend(t) /\ Touch(t)
    /\ Reclaim(t) /\ Pop(t)

(* Where the others are, and what they have, is for them to change.        *)
LEMMA OthersControl ==
    ASSUME NEW t \in Threads, NEW u \in Threads \ {t}, Others(t)
    PROVE  /\ Setting(u)' <=> Setting(u)
           /\ Dropping(u)' <=> Dropping(u)
           /\ Looking(u)' <=> Looking(u)
           /\ Frees(u)' <=> Frees(u)
           /\ Reclaiming(u)' <=> Reclaiming(u)
           /\ Owns(u)' <=> Owns(u)
           /\ Ready(u)' <=> Ready(u)
           /\ Role(u) => Role(u)'
           /\ Caller(u) => Caller(u)'
<1>1. /\ Setting(u)' <=> Setting(u)
      /\ Dropping(u)' <=> Dropping(u)
      /\ Looking(u)' <=> Looking(u)
      /\ Frees(u)' <=> Frees(u)
      /\ Reclaiming(u)' <=> Reclaiming(u)
  BY DEF Others, Setting, Dropping, Looking, Frees, Reclaiming
<1>2. At(u)' = At(u)
  BY <1>1 DEF At, Others
<1>3. Owns(u)' <=> Owns(u)
  BY <1>2 DEF Owns, Others
<1>4. Ready(u)' <=> Ready(u)
  BY <1>2, <1>3 DEF Ready, Others
<1>5. Role(u) => Role(u)'
  BY <1>1, <1>2 DEF Role, Others
<1>6. Caller(u) => Caller(u)'
  BY <1>1, <1>2 DEF Caller, Others
<1> QED
  BY <1>1, <1>3, <1>4, <1>5, <1>6

(* The chain, and what setNodeSequence and the counts say of it, is kept.  *)
ChainKept ==
    /\ sequence' = sequence /\ tail' = tail
    /\ freeHead' = freeHead /\ freeTail' = freeTail /\ pos' = pos
    /\ \A n \in Nodes : pos[n] > 0 =>
          /\ next'[n] = next[n] /\ nodeSeq'[n] = nodeSeq[n]
          /\ prevSeq'[n] = prevSeq[n] /\ count'[n] = count[n]

LEMMA ChainStays ==
    ASSUME TypeOK, Places, Links, ChainKept
    PROVE  /\ Newest' = Newest /\ End' = End /\ FirstInUse' = FirstInUse
           /\ \A n : Used(n)' <=> Used(n)
           /\ \A n : Real(n)' <=> Real(n)
           /\ \A n : Place(n)' = Place(n)
           /\ \A n \in Nodes : pos[n] > 0 =>
                 Upper(n)' = Upper(n) /\ From(n)' = From(n) /\ Missing(n)' = Missing(n)
           /\ \A n \in Nodes : pos[n] > 0 /\ next[n] # NULL =>
                 (Passed(n)' <=> Passed(n)) /\ (Settled(n)' <=> Settled(n))
<1> USE DEF ChainKept
<1>0. tail \in Nodes /\ pos[tail] > 0
  BY Consts, TypesGive, ChainFacts
<1>1. Newest' = Newest /\ End' = End
  BY <1>0 DEF Newest, End
<1>2. FirstInUse' = FirstInUse
  BY DEF FirstInUse
<1>3. /\ \A n : Used(n)' <=> Used(n)
      /\ \A n : Real(n)' <=> Real(n)
      /\ \A n : Place(n)' = Place(n)
  BY <1>2 DEF Used, Real, Place, TailShare, LinkShare
<1>4. \A n \in Nodes : pos[n] > 0 =>
          Upper(n)' = Upper(n) /\ From(n)' = From(n) /\ Missing(n)' = Missing(n)
  <2>1. \A n \in Nodes : pos[n] > 0 => Upper(n)' = Upper(n)
    BY DEF Upper
  <2>2. \A n \in Nodes : pos[n] > 0 => From(n)' = From(n)
    BY <1>0, <2>1 DEF From
  <2> QED
    BY <2>1, <2>2 DEF Missing
<1>5. \A n \in Nodes : pos[n] > 0 /\ next[n] # NULL =>
          (Passed(n)' <=> Passed(n)) /\ (Settled(n)' <=> Settled(n))
  <2> SUFFICES ASSUME NEW n \in Nodes, pos[n] > 0, next[n] # NULL
               PROVE  (Passed(n)' <=> Passed(n)) /\ (Settled(n)' <=> Settled(n))
    OBVIOUS
  <2>1. next[n] \in Nodes /\ pos[next[n]] > 0
    BY Consts, TypesGive, ChainFacts
  <2>2. Passed(n)' <=> Passed(n)
    BY <2>1 DEF Passed
  <2> QED
    BY <2>2 DEF Settled
<1> QED
  BY <1>1, <1>2, <1>3, <1>4, <1>5

(* A step that keeps the chain, and gets nobody a number or a share.       *)
Kept(t) ==
    /\ ChainKept
    /\ \/ seq'[t] = seq[t]
       \/ /\ seq'[t] = 0
          /\ \A u \in Threads \ {t} : pc[u] = "s_set" /\ Unset(u) => seq[t] <= old[u]
    /\ Looking(t)' => Looking(t) /\ Base(t)' = Base(t)
    /\ \A n \in Nodes : Used(n) => Share(t, n)' = Share(t, n)
    /\ Frees(t)' => Frees(t)
    /\ Reclaiming(t) => Reclaiming(t)' /\ drop'[t] = drop[t]
    /\ Setting(t) /\ cur[t] = tail => Setting(t)' /\ cur'[t] = tail

LEMMA KeptStep ==
    ASSUME TypeOK, TypeOK', IInv, NEW t \in Threads, Others(t), Kept(t),
           Mine(t)', Owners', Allocated', Accounted'
    PROVE  IInv'
<1> USE Consts, TypesGive, ChainFacts
<1>a. /\ Places /\ Links /\ Sequences /\ Counts /\ Swinging
      /\ \A u \in Threads : Mine(u)
  BY DEF IInv, Mine
<1>b. /\ Newest' = Newest /\ End' = End /\ FirstInUse' = FirstInUse
      /\ \A n : Used(n)' <=> Used(n)
      /\ \A n : Real(n)' <=> Real(n)
      /\ \A n : Place(n)' = Place(n)
      /\ \A n \in Nodes : pos[n] > 0 =>
            Upper(n)' = Upper(n) /\ From(n)' = From(n) /\ Missing(n)' = Missing(n)
      /\ \A n \in Nodes : pos[n] > 0 /\ next[n] # NULL =>
            (Passed(n)' <=> Passed(n)) /\ (Settled(n)' <=> Settled(n))
  BY <1>a, ChainStays DEF Kept
<1>c. ChainKept
  BY DEF Kept
<1>1. Places'
  BY <1>a, <1>b, <1>c DEF Places, ChainKept
<1>2. Links'
  BY <1>a, <1>b, <1>c DEF Links, ChainKept
<1>3. Sequences'
  <2>1. \A n \in Nodes : Real(n) => pos[n] > 0
    BY <1>a
  <2>2. \A n \in Nodes : Real(n)' /\ pos'[n] < pos'[tail'] => Settled(n)'
    BY <1>a, <1>b, <1>c, <2>1 DEF Sequences, ChainKept
  <2>3. \A n \in Nodes : Real(n)' /\ pos'[n] <= pos'[tail'] => prevSeq'[n] # 0
    BY <1>a, <1>b, <1>c, <2>1 DEF Sequences, ChainKept
  <2>4. next'[tail'] # NULL => prevSeq'[next'[tail']] \in {0, nodeSeq'[tail']}
    BY <1>a, <1>b, <1>c, <2>1 DEF Sequences, ChainKept
  <2>5. ~Odd(count'[tail']) => next'[tail'] # NULL /\ Passed(tail)'
    BY <1>a, <1>b, <1>c, <2>1 DEF Sequences, ChainKept
  <2>6. nodeSeq'[Newest'] = 0 /\ Odd(count'[Newest'])
    BY <1>a, <1>b, <1>c, <2>1 DEF Sequences, ChainKept
  <2>7. \A n \in Nodes : Real(n)' => From(n)' <= Upper(n)' /\ Upper(n)' <= sequence'
    BY <1>a, <1>b, <1>c, <2>1 DEF Sequences, ChainKept
  <2>8. \A m, n \in Nodes : Real(m)' /\ pos'[m] < pos'[n] => Upper(m)' <= From(n)'
    BY <1>a, <1>b, <1>c, <2>1 DEF Sequences, ChainKept
  <2>9. tail' = tail
    BY <1>c DEF ChainKept
  <2> QED
    BY <2>2, <2>3, <2>4, <2>5, <2>6, <2>7, <2>8, <2>9 DEF Sequences
<1>d. \A n \in Nodes : Real(n) => \A u \in Threads \ {t} : Has(u, n)' <=> Has(u, n)
  BY <1>a, <1>b DEF Has, Others
<1>4. Counts'
  <2> SUFFICES ASSUME NEW n \in Nodes, Used(n)
               PROVE  /\ count'[n] + Missing(n)' = REFERENCE * Shares(n)'
                      /\ Shares(n)' > 0 \/ \E u \in Threads : Reclaiming(u)' /\ drop'[u] = n
    BY <1>b DEF Counts
  <2>1. Real(n) /\ pos[n] > 0
    BY <1>a
  <2>2. count'[n] = count[n] /\ Missing(n)' = Missing(n)
    BY <1>b, <1>c, <2>1 DEF ChainKept
  <2>3. Shares(n)' = Shares(n)
    <3>1. /\ Shares(n) \in Nat
          /\ Shares(n)' = Shares(n) + Share(t, n)' - Share(t, n) + Place(n)' - Place(n)
      BY <1>d, <2>1, SharesStep
    <3>2. Share(t, n)' = Share(t, n) /\ Place(n)' = Place(n)
      BY <1>b DEF Kept
    <3>3. Share(t, n) \in Nat /\ Place(n) \in Nat
      BY SharesOf, PlaceIs
    <3> QED
      BY <3>1, <3>2, <3>3
  <2>4. ASSUME NEW u \in Threads, Reclaiming(u), drop[u] = n
        PROVE  Reclaiming(u)' /\ drop'[u] = n
    BY <2>4, OthersControl DEF Others, Kept
  <2> QED
    BY <1>a, <2>2, <2>3, <2>4 DEF Counts
<1>5. Swinging'
  <2>1. ASSUME NEW u \in Threads, Setting(u), cur[u] = tail
        PROVE  Setting(u)' /\ cur'[u] = tail
    BY <2>1, OthersControl DEF Others, Kept
  <2> QED
    BY <1>a, <1>c, <2>1 DEF Swinging, ChainKept
<1>6. ASSUME NEW u \in Threads \ {t}
      PROVE  Mine(u)'
  <2>1. Mine(u)
    BY <1>a
  <2>2. /\ Setting(u)' <=> Setting(u)
        /\ Dropping(u)' <=> Dropping(u)
        /\ Looking(u)' <=> Looking(u)
        /\ Role(u)' /\ Caller(u)'
    BY <2>1, OthersControl DEF Mine
  <2>3. Looking(u) => cur[u] \in Nodes /\ Real(cur[u]) /\ pos[cur[u]] > 0
    BY <2>1, ThreadFacts, <1>a DEF Mine
  <2>4. Stage(u)'
    <3>1. Stage(u)
      BY <2>1 DEF Mine
    <3>a. /\ Setting(u) \/ pc[u] \in {"g_cmp", "a_more", "a_end"} => Looking(u)
          /\ Dropping(u) /\ cur[u] # NULL => Looking(u)
          /\ pc[u] \in {"s_load", "s_set", "s_prev", "s_count", "s_tail"} => Setting(u)
      <4>1. Role(u)
        BY <2>1 DEF Mine
      <4>2. Setting(u) => cur[u] # NULL
        BY <4>1, Types, Controls
      <4>3. pc[u] \in {"g_cmp", "a_more", "a_end"} => cur[u] # NULL
        BY <4>1, Types, Controls DEF Seeks, Adds
      <4> QED
        BY <4>2, <4>3 DEF Looking, Setting, Dropping
    <3>2. /\ Setting(u)' => next'[cur'[u]] # NULL
          /\ pc'[u] \in {"g_cmp", "a_more", "a_end"} => pos'[cur'[u]] < pos'[tail']
          /\ Dropping(u)' /\ cur'[u] # NULL => pos'[cur'[u]] < pos'[tail']
      BY <1>c, <2>1, <2>2, <2>3, <3>1, <3>a, Controls DEF Stage, Others, ChainKept, Mine, Seeks, Adds
    <3>3. pc'[u] \in {"s_prev", "s_count", "s_tail"} => nodeSeq'[cur'[u]] # 0
      BY <1>c, <2>3, <3>1, <3>a DEF Stage, Others, ChainKept
    <3>4. /\ pc'[u] \in {"s_count", "s_tail"} => Passed(cur[u])'
          /\ pc'[u] = "s_tail" => Settled(cur[u])'
      BY <1>b, <2>3, <3>1, <3>a DEF Stage, Others
    <3>5. pc'[u] = "s_set" /\ Unset(u)' =>
            /\ prevSeq'[tail'] <= old'[u] /\ old'[u] <= sequence'
            /\ REFERENCE * Cardinality(Above(old[u])') = sequence' - old'[u]
            /\ \A v \in Above(old[u])' : End' <= Reach(v)'
      <4> SUFFICES ASSUME pc[u] = "s_set", Unset(u)'
                   PROVE  /\ prevSeq'[tail'] <= old'[u] /\ old'[u] <= sequence'
                          /\ REFERENCE * Cardinality(Above(old[u])') = sequence' - old'[u]
                          /\ \A v \in Above(old[u])' : End' <= Reach(v)'
        BY DEF Others
      <4>1. Unset(u)
        BY <1>c, <2>3, <3>a DEF Unset, Others, ChainKept
      <4>2. /\ prevSeq[tail] <= old[u] /\ old[u] <= sequence
            /\ REFERENCE * Cardinality(Above(old[u])) = sequence - old[u]
            /\ \A v \in Above(old[u]) : End <= Reach(v)
        BY <3>1, <4>1 DEF Stage
      <4>3. Above(old[u])' = Above(old[u])
        <5>1. \A v \in Threads \ {t} : seq'[v] = seq[v] /\ old'[u] = old[u]
          BY DEF Others
        <5>2. seq'[t] > old[u] <=> seq[t] > old[u]
          BY <4>1 DEF Kept
        <5> QED
          BY <5>1, <5>2 DEF Above
      <4>4. prevSeq'[tail'] = prevSeq[tail] /\ old'[u] = old[u] /\ sequence' = sequence
        BY <1>a, <1>c DEF ChainKept, Others
      <4>5. ASSUME NEW v \in Above(old[u])
            PROVE  Reach(v)' = Reach(v)
        <5>1. CASE v = t
          <6>1. seq'[t] # 0
            <7>1. seq'[t] > old'[u]
              BY <5>1, <4>3 DEF Above
            <7>2. old'[u] \in Nat
              BY <4>4, TypesGive
            <7> QED
              BY <7>1, <7>2
          <6>2. Looking(t)'
            BY <6>1 DEF Mine, Role, Looking, At, Seeks, Setting, Dropping
          <6> QED
            BY <5>1, <6>2 DEF Kept, Reach
        <5>2. CASE v # t
          BY <5>2, <1>c DEF Reach, Base, Above, Others, ChainKept
        <5> QED
          BY <5>1, <5>2
      <4> QED
        BY <1>b, <4>2, <4>3, <4>4, <4>5
    <3> QED
      BY <3>2, <3>3, <3>4, <3>5 DEF Stage, Others
  <2>a. Base(u)' = Base(u) /\ Reach(u)' = Reach(u)
    BY <1>c DEF Base, Reach, Others, ChainKept
  <2>5. Walk(u)'
    <3>1. Walk(u)
      BY <2>1 DEF Mine
    <3>2. Looking(u)' => Real(cur[u])' /\ pos'[cur'[u]] <= pos'[tail']
      BY <1>b, <1>c, <2>2, <2>3, <3>1 DEF Walk, ChainKept, Others
    <3>3. seq[u] # 0 => seq'[u] <= sequence'
      BY <1>c, <3>1 DEF Walk, ChainKept, Others
    <3>4. ASSUME NEW n \in Nodes, Used(n), Has(u, n), pos[cur[u]] <= pos[n], pos[n] <= Reach(u)
          PROVE  Used(n)' /\ Has(u, n)' /\ pos'[cur'[u]] <= pos'[n] /\ pos'[n] <= Reach(u)'
      BY <1>a, <1>b, <1>c, <1>d, <2>a, <3>4 DEF ChainKept, Others
    <3> QED
      BY <3>1, <3>2, <3>3, <3>4 DEF Walk, Others
  <2>6. Pend(u)'
    <3>1. Pend(u)
      BY <2>1 DEF Mine
    <3>2. ASSUME NEW v \in Threads, Looking(v)'
          PROVE  Looking(v) /\ Base(v)' = Base(v)
      <4>1. CASE v = t
        BY <3>2, <4>1 DEF Kept
      <4>2. CASE v # t
        BY <3>2, <4>2, <1>c, OthersControl DEF Base, Others, ChainKept
      <4> QED
        BY <4>1, <4>2
    <3>3. SequenceMatches(u)' <=> SequenceMatches(u)
      BY <1>c DEF SequenceMatches, Others, ChainKept
    <3> QED
      BY <1>b, <1>c, <3>1, <3>2, <3>3 DEF Pend, Others, ChainKept
  <2>7. Touch(u)'
    BY <1>b, <1>c, <2>1 DEF Touch, Mine, Others, ChainKept
  <2>8. Reclaim(u)'
    <3>1. Reclaim(u)
      BY <2>1 DEF Mine
    <3>2. \A v \in Threads : Frees(v)' => Frees(v)
      BY OthersControl DEF Kept
    <3>3. Frees(u)' => Frees(u)
      BY <3>2
    <3>4. Frees(u)' => pos'[drop'[u]] = FirstInUse'
      BY <1>b, <1>c, <3>1, <3>3 DEF Reclaim, Others, ChainKept
    <3>5. Reclaiming(u)' => pos'[drop'[u]] < pos'[tail'] /\ count'[drop'[u]] = 0
      <4>1. Reclaiming(u) => drop[u] \in Nodes /\ pos[drop[u]] > 0
        BY <1>a, <2>1, Controls, <3>1 DEF Mine, Reclaiming, Dropping, Reclaim, Frees
      <4> QED
        BY <1>c, <3>1, <4>1, OthersControl DEF Reclaim, Frees, Others, ChainKept
    <3>6. pc'[u] = "d_store" => nxt'[u] = next'[freeTail']
      BY <1>a, <1>c, <3>1 DEF Reclaim, Frees, Reclaiming, Others, ChainKept
    <3> QED
      BY <3>1, <3>2, <3>3, <3>4, <3>5, <3>6 DEF Reclaim
  <2>9. Pop(u)'
    <3>1. Pop(u)
      BY <2>1 DEF Mine
    <3>2. Stayed(u)' <=> Stayed(u)
      BY <1>c DEF Stayed, Others, ChainKept
    <3>3. free'[u] \in Nodes /\ Stayed(u) => next'[free'[u]] = next[free[u]]
      BY <1>c DEF Stayed, Others, ChainKept
    <3> QED
      BY <1>c, <3>1, <3>2, <3>3 DEF Pop, Others, ChainKept
  <2> QED
    BY <2>2, <2>4, <2>5, <2>6, <2>7, <2>8, <2>9 DEF Mine
<1> QED
  BY <1>1, <1>2, <1>3, <1>4, <1>5, <1>6 DEF IInv, Mine
(* Threads that have counted a node and not allocated it yet, or deleted   *)
(* one that is still counted.                                              *)
Between == {t \in Threads : pc[t] \in {"n_alloc", "t_dec"}}
IsBetween(t) == IF pc[t] \in {"n_alloc", "t_dec"} THEN 1 ELSE 0

LEMMA BetweenStep ==
    ASSUME NEW t \in Threads, Others(t)
    PROVE  /\ Cardinality(Between) \in Nat /\ IsBetween(t) <= Cardinality(Between)
           /\ Cardinality(Between)' = Cardinality(Between) + IsBetween(t)' - IsBetween(t)
<1>1. Between \in SUBSET Threads /\ Between' \in SUBSET Threads
  BY DEF Between
<1>2. \A u \in Threads : u # t => (u \in Between <=> u \in Between')
  BY DEF Between, Others
<1>3. In(t, Between) = IsBetween(t) /\ In(t, Between') = IsBetween(t)'
  BY DEF In, Between, IsBetween
<1>4. /\ Cardinality(Between) \in Nat
      /\ Cardinality(Between') = Cardinality(Between) + In(t, Between') - In(t, Between)
  BY <1>1, <1>2, Recount
<1>5. In(t, Between) <= Cardinality(Between)
  BY <1>1, CountTwo
<1> QED
  BY <1>3, <1>4, <1>5

LEMMA BalanceStep ==
    ASSUME NEW t \in Threads,
           Cardinality(heap) + failed = numNodes + MaxLatency + 1 - Cardinality(Between),
           Cardinality(Between) \in Nat,
           Cardinality(Between)' = Cardinality(Between) + IsBetween(t)' - IsBetween(t),
           failed \in Nat, failed' \in Nat, numNodes \in Nat, numNodes' \in Nat,
           MaxLatency \in Nat, Cardinality(heap) \in Nat,
           IsBetween(t) \in Nat, IsBetween(t)' \in Nat,
           numNodes' - IsBetween(t)' - failed' = numNodes - IsBetween(t) - failed
    PROVE  Cardinality(heap) + failed' = numNodes' + MaxLatency + 1 - Cardinality(Between)'
<1>1. PICK h \in Int, f \in Int, f1 \in Int, n \in Int, n1 \in Int, l \in Int,
           c \in Int, i \in Int, i1 \in Int :
          /\ h = Cardinality(heap) /\ f = failed /\ f1 = failed'
          /\ n = numNodes /\ n1 = numNodes' /\ l = MaxLatency
          /\ c = Cardinality(Between) /\ i = IsBetween(t) /\ i1 = IsBetween(t)'
  OBVIOUS
<1>2. h + f = n + l + 1 - c /\ n1 - i1 - f1 = n - i - f
  BY <1>1
<1>3. h + f1 = n1 + l + 1 - (c + i1 - i)
  BY <1>2
<1> QED
  BY <1>1, <1>3

(* A step that neither allocates a node nor puts it on the chain.           *)
SameHeap(t) ==
    /\ heap' = heap /\ alive' = alive /\ pos' = pos
    /\ (Owns(t)' <=> Owns(t)) /\ (Owns(t) => node'[t] = node[t])
    /\ numNodes' \in 0..MaxNodes
    /\ numNodes' - IsBetween(t)' - failed' = numNodes - IsBetween(t) - failed

LEMMA SameHeapStep ==
    ASSUME TypeOK, TypeOK', IInv, alive, NEW t \in Threads, Others(t), SameHeap(t)
    PROVE  Allocated' /\ Accounted'
<1> USE DEF SameHeap
<1>a. \A u \in Threads : (Owns(u)' <=> Owns(u)) /\ (Owns(u) => node'[u] = node[u])
  BY OthersControl DEF Others
<1>b. Allocated /\ Accounted
  BY DEF IInv
<1>3. Allocated'
  BY <1>b DEF Allocated
<1>4. NodeAccounting'
  <2>1. Cardinality(heap) + failed = numNodes + MaxLatency + 1 - Cardinality(Between)
    BY <1>b DEF Accounted, NodeAccounting, Between
  <2>2. /\ Cardinality(Between) \in Nat
        /\ Cardinality(Between)' = Cardinality(Between) + IsBetween(t)' - IsBetween(t)
    BY BetweenStep
  <2>3. /\ failed \in Nat /\ failed' \in Nat /\ numNodes \in Nat /\ numNodes' \in Nat
        /\ MaxLatency \in Nat /\ Cardinality(heap) \in Nat
        /\ IsBetween(t) \in Nat /\ IsBetween(t)' \in Nat
    <3>1. IsFiniteSet(heap)
      BY Consts, FS_Subset DEF TypeOK, HeapType
    <3> QED
      BY <3>1, Consts, RcpcAssumption, FS_CardinalityType
         DEF TypeOK, HistoryType, ProxyType, IsBetween
  <2>4. numNodes' - IsBetween(t)' - failed' = numNodes - IsBetween(t) - failed
    OBVIOUS
  <2>5. Cardinality(heap) + failed' = numNodes' + MaxLatency + 1 - Cardinality(Between)'
    BY <2>1, <2>2, <2>3, <2>4, BalanceStep
  <2> QED
    BY <2>5 DEF NodeAccounting, Between
<1>5. Accounted'
  BY <1>a, <1>b, <1>4 DEF Accounted
<1> QED
  BY <1>3, <1>5

(* What a thread does to its own node, or to the nodes on the chain, is    *)
(* nothing to the other owners.                                            *)
LEMMA OwnersStep ==
    ASSUME TypeOK, Owners, NEW t \in Threads, Others(t), Owner(t)',
           Owns(t)' => (Owns(t) /\ node'[t] = node[t]) \/ node'[t] \notin heap,
           \A n \in Nodes : n \in heap /\ pos[n] = 0 /\ ~(Owns(t) /\ n = node[t]) =>
              /\ n \in heap' /\ pos'[n] = 0
              /\ next'[n] = next[n] /\ nodeSeq'[n] = nodeSeq[n]
              /\ prevSeq'[n] = prevSeq[n] /\ count'[n] = count[n] /\ data'[n] = data[n]
    PROVE  Owners'
<1>1. ASSUME NEW u \in Threads \ {t}
      PROVE  Owner(u)'
  <2>1. /\ Owner(u) /\ (Ready(u) => Owns(u))
        /\ Owns(u) => node[u] \in Nodes /\ ~(Owns(t) /\ node[u] = node[t])
    BY TypesGive, Types DEF Owners, Owns, Ready
  <2>2. /\ (Owns(u)' <=> Owns(u)) /\ (Ready(u)' <=> Ready(u))
        /\ node'[u] = node[u] /\ arg'[u] = arg[u]
    BY OthersControl DEF Others
  <2> QED
    BY <2>1, <2>2 DEF Owner
<1>2. ASSUME NEW u \in Threads \ {t}, Owns(u)', Owns(t)', node'[u] = node'[t]
      PROVE  FALSE
  <2>1. Owns(u) /\ node'[u] = node[u]
    BY <1>2, OthersControl DEF Others
  <2> QED
    BY <1>2, <2>1 DEF Owners, Owner
<1>3. \A u, v \in Threads : Owns(u)' /\ Owns(v)' /\ node'[u] = node'[v] => u = v
  <2> SUFFICES ASSUME NEW u \in Threads, NEW v \in Threads,
                      Owns(u)', Owns(v)', node'[u] = node'[v], u # v
               PROVE  FALSE
    OBVIOUS
  <2>1. CASE u = t
    BY <1>2, <2>1
  <2>2. CASE v = t
    BY <1>2, <2>2
  <2>3. CASE u # t /\ v # t
    <3>1. Owns(u) /\ Owns(v) /\ node[u] = node[v]
      BY <2>3, OthersControl DEF Others
    <3> QED
      BY <3>1 DEF Owners
  <2> QED
    BY <2>1, <2>2, <2>3
<1> QED
  BY <1>1, <1>3 DEF Owners

(* A step that is about the nodes on the chain or none.                    *)
Plain(t) ==
    /\ SameHeap(t)
    /\ \A n \in Nodes : pos[n] = 0 =>
          /\ next'[n] = next[n] /\ nodeSeq'[n] = nodeSeq[n]
          /\ prevSeq'[n] = prevSeq[n] /\ count'[n] = count[n] /\ data'[n] = data[n]
    /\ Ready(t)' => Ready(t) /\ arg'[t] = arg[t]

LEMMA PlainStep ==
    ASSUME TypeOK, TypeOK', IInv, alive, NEW t \in Threads, Others(t), Plain(t)
    PROVE  Owners' /\ Allocated' /\ Accounted'
<1>1. Owners
  BY DEF IInv
<1>2. Ready(t)' => Owns(t)'
  BY DEF Ready
<1>3. Owner(t)'
  <2>1. Owner(t) /\ (Owns(t) => node[t] \in Nodes) /\ (Ready(t) => Owns(t))
    BY <1>1, TypesGive, Types DEF Owners, Owns, Ready
  <2> QED
    BY <1>2, <2>1 DEF Owner, Plain, SameHeap
<1>4. Owners'
  BY <1>1, <1>3, OwnersStep DEF Plain, SameHeap
<1> QED
  BY <1>4, SameHeapStep DEF Plain

(* The shares of a thread, one by one.                                     *)
LEMMA ShareIs ==
    ASSUME NEW t \in Threads, NEW n
    PROVE  /\ Share(t, n) = (IF ref[t] = n THEN 1 ELSE 0) + (IF own[t] = n THEN 1 ELSE 0)
                  + (IF Has(t, n) THEN 1 ELSE 0)
                  + (IF drop[t] = n /\ pc[t] \in {"d_sub", "d_free"} THEN 1 ELSE 0)
           /\ Share(t, n)' = (IF ref'[t] = n THEN 1 ELSE 0) + (IF own'[t] = n THEN 1 ELSE 0)
                  + (IF Has(t, n)' THEN 1 ELSE 0)
                  + (IF drop'[t] = n /\ pc'[t] \in {"d_sub", "d_free"} THEN 1 ELSE 0)
<1>1. /\ In(t, Refs(n)) = (IF ref[t] = n THEN 1 ELSE 0)
      /\ In(t, Owned(n)) = (IF own[t] = n THEN 1 ELSE 0)
      /\ In(t, Numbers(n)) = (IF Has(t, n) THEN 1 ELSE 0)
      /\ In(t, Drops(n)) = (IF drop[t] = n /\ pc[t] \in {"d_sub", "d_free"} THEN 1 ELSE 0)
  BY DEF In, Refs, Owned, Numbers, Drops
<1>2. /\ In(t, Refs(n))' = (IF ref'[t] = n THEN 1 ELSE 0)
      /\ In(t, Owned(n))' = (IF own'[t] = n THEN 1 ELSE 0)
      /\ In(t, Numbers(n))' = (IF Has(t, n)' THEN 1 ELSE 0)
      /\ In(t, Drops(n))' = (IF drop'[t] = n /\ pc'[t] \in {"d_sub", "d_free"} THEN 1 ELSE 0)
  BY DEF In, Refs, Owned, Numbers, Drops
<1> QED
  BY <1>1, <1>2 DEF Share

(* Steps of a thread that go on with what it has.                          *)
Holds(t) ==
    /\ ChainKept
    /\ seq'[t] = seq[t] /\ own'[t] = own[t] /\ ref'[t] = ref[t] /\ drop'[t] = drop[t]
    /\ Looking(t)' => Looking(t) /\ cur'[t] = cur[t] /\ lat'[t] = lat[t]
    /\ Frees(t)' => Frees(t)
    /\ Reclaiming(t)' <=> Reclaiming(t)
    /\ Setting(t) /\ cur[t] = tail => Setting(t)' /\ cur'[t] = tail

LEMMA HoldsStep ==
    ASSUME TypeOK, IInv, NEW t \in Threads, Holds(t), Role(t)'
    PROVE  Kept(t) /\ Walk(t)' /\ Touch(t)'
<1> USE Consts, TypesGive, ChainFacts DEF Holds
<1>a. Places /\ Links /\ Walk(t) /\ Touch(t) /\ Role(t) /\ Stage(t) /\ Reclaim(t) /\ Pop(t)
  BY DEF IInv
<1>b. /\ FirstInUse' = FirstInUse
      /\ \A n : Used(n)' <=> Used(n)
      /\ \A n : Real(n)' <=> Real(n)
      /\ \A n \in Nodes : pos[n] > 0 => Upper(n)' = Upper(n) /\ From(n)' = From(n)
  BY <1>a, ChainStays
<1>c. \A n \in Nodes : Used(n) => (Has(t, n)' <=> Has(t, n))
  BY <1>a, <1>b DEF Has
<1>d. drop[t] # NULL => (pc'[t] \in {"d_sub", "d_free"} <=> pc[t] \in {"d_sub", "d_free"})
  <2>1. drop[t] # NULL <=> Dropping(t)
    BY <1>a DEF Role
  <2>2. drop[t] # NULL <=> Dropping(t)'
    BY DEF Role
  <2> QED
    BY <2>1, <2>2 DEF Dropping, Reclaiming
<1>1. \A n \in Nodes : Used(n) => Share(t, n)' = Share(t, n)
  BY <1>c, <1>d, Types, ShareIs
<1>2. /\ Looking(t)' => cur'[t] = cur[t] /\ Base(t)' = Base(t)
      /\ seq'[t] # 0 \/ own'[t] # NULL => Looking(t)'
  BY DEF Base, ChainKept, Role, Looking, At, Seeks, Gets, Adds, Setting, Dropping
<1>3. Kept(t)
  BY <1>1, <1>2 DEF Kept
<1>4. Walk(t)'
  <2>1. Looking(t)' => Real(cur[t])' /\ pos'[cur'[t]] <= pos'[tail']
    BY <1>a, <1>b DEF Walk, ChainKept
  <2>2. seq[t] # 0 => seq'[t] <= sequence'
    BY <1>a DEF Walk, ChainKept
  <2>3. ASSUME NEW n \in Nodes, Used(n), Has(t, n), pos[cur[t]] <= pos[n], pos[n] <= Reach(t)
        PROVE  seq'[t] # 0 =>
                  Used(n)' /\ Has(t, n)' /\ pos'[cur'[t]] <= pos'[n] /\ pos'[n] <= Reach(t)'
    BY <1>b, <1>c, <1>2, <2>3 DEF ChainKept, Reach
  <2> QED
    BY <1>a, <2>1, <2>2, <2>3 DEF Walk
<1>5. Touch(t)'
  BY <1>a, <1>b, <1>2 DEF Touch, ChainKept
<1> QED
  BY <1>3, <1>4, <1>5

-------------------------------------------------------------------------------
(* Only the tail is not settled among the nodes that a thread comes to.    *)
LEMMA Unsettled ==
    ASSUME TypeOK, Places, Links, Sequences, NEW t \in Threads,
           Role(t), Walk(t), Stage(t), Setting(t), ~Settled(cur[t])
    PROVE  cur[t] = tail /\ next[tail] # NULL
<1> USE Consts, TypesGive, ChainFacts
<1>1. cur[t] \in Nodes /\ Real(cur[t]) /\ pos[cur[t]] <= pos[tail] /\ next[cur[t]] # NULL
  BY Controls DEF Walk, Stage
<1>2. ~(pos[cur[t]] < pos[tail])
  BY <1>1 DEF Sequences
<1> QED
  BY <1>1, <1>2

(* A number is one node's.                                                 *)
LEMMA OneNode ==
    ASSUME TypeOK, Places, Links, Sequences, NEW t \in Threads,
           NEW m \in Nodes, NEW n \in Nodes, Used(m), Used(n), Has(t, m), Has(t, n)
    PROVE  m = n
<1> USE Consts, TypesGive, ChainFacts, SequenceFacts
<1>1. \A a, b \in Nodes : Used(a) /\ Used(b) /\ Has(t, a) /\ Has(t, b) => ~(pos[a] < pos[b])
  <2> SUFFICES ASSUME NEW a \in Nodes, NEW b \in Nodes, Used(a), Used(b),
                      Has(t, a), Has(t, b), pos[a] < pos[b]
               PROVE  FALSE
    OBVIOUS
  <2>1. Upper(a) <= From(b)
    BY DEF Sequences
  <2> QED
    BY <2>1 DEF Has
<1>2. pos[m] = pos[n]
  BY <1>1
<1> QED
  BY <1>2 DEF Places, Used

(* The node that a thread looks for is the one it has come to.             *)
LEMMA Arrived ==
    ASSUME TypeOK, Places, Links, Sequences, NEW t \in Threads,
           Role(t), Walk(t), Stage(t), seq[t] # 0,
           \/ next[cur[t]] = NULL
           \/ pc[t] = "g_cmp" /\ Belongs(t)
    PROVE  /\ Used(cur[t]) /\ Has(t, cur[t])
           /\ \A n \in Nodes : Used(n) => (Has(t, n) <=> n = cur[t])
           /\ \A u \in Threads :
                 Role(u) /\ Walk(u) /\ Stage(u) /\ pc[u] = "s_set" /\ Unset(u) => seq[t] <= old[u]
<1> USE Consts, TypesGive, ChainFacts, SequenceFacts
<1>1. Looking(t) /\ cur[t] \in Nodes
  BY Controls
<1>2. Real(cur[t]) /\ pos[cur[t]] <= pos[tail]
  BY <1>1 DEF Walk
<1>3. PICK n \in Nodes : Used(n) /\ Has(t, n) /\ pos[cur[t]] <= pos[n]
  BY DEF Walk
<1>4. n = cur[t]
  <2>1. CASE next[cur[t]] = NULL
    <3>1. pos[cur[t]] = End
      BY <1>1, <1>2, <2>1
    <3> QED
      BY <1>1, <1>3, <3>1 DEF Places, Used
  <2>2. CASE pc[t] = "g_cmp" /\ Belongs(t)
    <3>1. Upper(cur[t]) = nodeSeq[cur[t]] /\ seq[t] <= Upper(cur[t])
      BY <1>1, <2>2 DEF Belongs, Upper
    <3>2. ~(pos[cur[t]] < pos[n])
      <4>1. pos[cur[t]] < pos[n] => Upper(cur[t]) <= From(n)
        BY <1>1, <1>2 DEF Sequences
      <4>2. From(n) < seq[t]
        BY <1>3 DEF Has
      <4> QED
        BY <1>1, <3>1, <4>1, <4>2
    <3>3. pos[cur[t]] = pos[n]
      BY <1>1, <1>3, <3>2, SMTT(30)
    <3> QED
      BY <1>1, <1>3, <3>3 DEF Places, Used
  <2> QED
    BY <2>1, <2>2
<1>5. Used(cur[t]) /\ Has(t, cur[t])
  BY <1>3, <1>4
<1>6. \A m \in Nodes : Used(m) => (Has(t, m) <=> m = cur[t])
  BY <1>1, <1>5, OneNode
<1>7. ASSUME NEW u \in Threads, Role(u), Walk(u), Stage(u), pc[u] = "s_set", Unset(u)
      PROVE  seq[t] <= old[u]
  <2>1. cur[u] = tail /\ next[tail] # NULL
    BY <1>7, Unsettled DEF Settled, Passed, Unset, Setting
  <2>2. cur[t] # tail \/ (pc[t] = "g_cmp" /\ Belongs(t))
    BY <2>1
  <2>3. cur[t] # tail
    BY <2>2 DEF Stage
  <2>4. pos[cur[t]] < pos[tail]
    BY <1>1, <1>2, <2>3
  <2>5. Upper(cur[t]) <= From(tail)
    BY <1>1, <1>2, <2>4 DEF Sequences
  <2>6. prevSeq[tail] <= old[u]
    BY <1>7 DEF Stage
  <2> QED
    BY <1>1, <1>5, <2>5, <2>6 DEF Has
<1> QED
  BY <1>5, <1>6, <1>7

(* Finding the node: the share goes from the number to the reference.      *)
LEMMA ReturnStep ==
    ASSUME TypeOK, TypeOK', IInv, NEW t \in Threads, ChainKept, GetReturn(t),
           pc[t] \in Seeks,
           \/ next[cur[t]] = NULL
           \/ pc[t] = "g_cmp" /\ Belongs(t),
           UNCHANGED <<ret, use, old, drop, nxt, free, node, arg>>
    PROVE  Kept(t) /\ Mine(t)'
<1> USE Consts, TypesGive, Types
<1>a. /\ Places /\ Links /\ Sequences
      /\ \A u \in Threads : Role(u) /\ Walk(u) /\ Stage(u)
      /\ Caller(t) /\ Touch(t)
  BY DEF IInv
<1>b. /\ seq[t] # 0 /\ own[t] = NULL /\ cur[t] \in Nodes /\ drop[t] = NULL
      /\ Looking(t) /\ ret[t] = "idle"
  BY <1>a, Controls DEF Seeks, Setting, Dropping
<1>c. /\ Used(cur[t]) /\ Has(t, cur[t])
      /\ \A n \in Nodes : Used(n) => (Has(t, n) <=> n = cur[t])
      /\ \A u \in Threads : pc[u] = "s_set" /\ Unset(u) => seq[t] <= old[u]
  BY <1>a, <1>b, Arrived
<1>d. /\ seq'[t] = 0 /\ drop'[t] = NULL /\ ret'[t] = "idle"
      /\ \/ /\ use[t] = "hold" /\ ref'[t] = cur[t] /\ own'[t] = NULL
            /\ cur'[t] = NULL /\ lat'[t] = 0 /\ pc'[t] = "idle"
         \/ /\ use[t] # "hold" /\ own'[t] = cur[t] /\ ref'[t] = ref[t]
            /\ cur'[t] = cur[t] /\ lat'[t] = lat[t]
            /\ pc'[t] = IF node[t] = NULL THEN "n_head" ELSE "a_try"
  BY <1>b DEF GetReturn, Goto, TypeOK, ClientType, LocalType
<1>e. use[t] = "hold" => ref[t] = NULL /\ node[t] = NULL
  BY <1>a DEF Caller, At, Seeks, Setting, Dropping
<1>f. /\ ~Setting(t) /\ ~Dropping(t) /\ ~Setting(t)' /\ ~Dropping(t)'
      /\ ~Frees(t)' /\ ~Reclaiming(t)
      /\ At(t) = pc[t] /\ At(t)' = pc'[t]
  BY <1>d DEF Seeks, Setting, Dropping, At, Frees, Reclaiming
<1>g. FirstInUse' = FirstInUse /\ (\A n : Used(n)' <=> Used(n)) /\ (\A n : Real(n)' <=> Real(n))
  BY <1>a, ChainStays
<1>1. Role(t)'
  BY <1>b, <1>d, <1>f DEF Role, Seeks, Gets, Adds
<1>2. Caller(t)'
  <2>1. use'[t] = use[t] /\ node'[t] = node[t]
    OBVIOUS
  <2>2. At(t) \in Seeks
    BY <1>f
  <2>3. use[t] = "trim" => node[t] = NULL
    BY <1>a, <2>2 DEF Caller, Seeks
  <2> QED
    BY <1>d, <1>e, <1>f, <2>1, <2>3 DEF Caller, Seeks, Adds
<1>3. Stage(t)'
  BY <1>d, <1>f DEF Stage, Setting, Dropping
<1>4. Walk(t)'
  <2>1. Looking(t)' => cur'[t] = cur[t]
    BY <1>d DEF Looking
  <2> QED
    BY <1>a, <1>b, <1>d, <1>g, <2>1 DEF Walk, ChainKept
<1>5. Pend(t)'
  BY <1>d DEF Pend
<1>6. Touch(t)'
  BY <1>a, <1>b, <1>c, <1>d, <1>e, <1>g DEF Touch, ChainKept
<1>7. Reclaim(t)' /\ Pop(t)'
  BY <1>d, <1>f DEF Reclaim, Pop
<1>8. Kept(t)
  <2>1. Looking(t)' => Looking(t) /\ Base(t)' = Base(t)
    BY <1>b, <1>d DEF Looking, Base, ChainKept
  <2>2. \A n \in Nodes : Used(n) => Share(t, n)' = Share(t, n)
    <3> SUFFICES ASSUME NEW n \in Nodes, Used(n)
                 PROVE  Share(t, n)' = Share(t, n)
      OBVIOUS
    <3>1. Has(t, n)' <=> FALSE
      <4>1. Has(t, n)' => FALSE
        BY <1>d DEF Has, From, Upper, TypeOK, ProxyType, NodeType
      <4> QED
        BY <4>1
    <3>2. Has(t, n) <=> n = cur[t]
      BY <1>c
    <3> QED
      BY <1>b, <1>d, <1>e, <3>1, <3>2, ShareIs
  <2> QED
    BY <1>c, <1>d, <1>f, <2>1, <2>2 DEF Kept
<1> QED
  BY <1>1, <1>2, <1>3, <1>4, <1>5, <1>6, <1>7, <1>8 DEF Mine

(* The library drops its own reference.                                    *)
LEMMA DropOwnStep ==
    ASSUME TypeOK, TypeOK', IInv, NEW t \in Threads, NEW label, ChainKept, DropOwn(t, label),
           label \in {"backoff", "t_free", "g_seq", "idle"}, pc[t] \in Gets \union Adds,
           seq'[t] = seq[t], ref'[t] = ref[t]
    PROVE  /\ Kept(t) /\ Role(t)'
           /\ Stage(t)' /\ Walk(t)' /\ Pend(t)' /\ Touch(t)' /\ Reclaim(t)' /\ Pop(t)'
           /\ At(t) = pc[t] /\ At(t)' = label
<1> USE Consts, TypesGive, Types
<1>a. Places /\ Links /\ Role(t) /\ Touch(t)
  BY DEF IInv
<1>b. seq[t] = 0 /\ own[t] \in Nodes /\ cur[t] \in Nodes /\ drop[t] = NULL
  BY <1>a, Controls DEF Gets, Adds, Dropping
<1>c. /\ pc'[t] = "d_sub" /\ drop'[t] = own[t] /\ own'[t] = NULL /\ ret'[t] = label
      /\ cur'[t] = NULL /\ lat'[t] = 0
  BY DEF DropOwn, Goto, TypeOK, ClientType, LocalType
<1>d. /\ ~Setting(t) /\ ~Dropping(t) /\ ~Setting(t)' /\ Dropping(t)'
      /\ ~Frees(t)' /\ ~Reclaiming(t) /\ ~Reclaiming(t)' /\ ~Looking(t)'
      /\ At(t) = pc[t] /\ At(t)' = label
  BY <1>c DEF Gets, Adds, Setting, Dropping, At, Frees, Reclaiming, Looking
<1>e. FirstInUse' = FirstInUse /\ (\A n : Used(n)' <=> Used(n))
  BY <1>a, ChainStays
<1>1. Role(t)'
  BY <1>b, <1>c, <1>d DEF Role, Seeks, Gets, Adds
<1>2. Stage(t)'
  BY <1>c, <1>d DEF Stage
<1>3. Walk(t)' /\ Pend(t)' /\ Reclaim(t)' /\ Pop(t)'
  BY <1>b, <1>c, <1>d DEF Walk, Pend, Reclaim, Pop
<1>4. Touch(t)'
  BY <1>a, <1>b, <1>c, <1>e DEF Touch, ChainKept
<1>5. Kept(t)
  <2>1. \A n \in Nodes : Used(n) => Share(t, n)' = Share(t, n)
    <3> SUFFICES ASSUME NEW n \in Nodes, Used(n)
                 PROVE  Share(t, n)' = Share(t, n)
      OBVIOUS
    <3>1. ~Has(t, n) /\ ~Has(t, n)'
      <4>1. (Has(t, n) => FALSE) /\ (Has(t, n)' => FALSE)
        BY <1>b DEF Has, From, Upper, TypeOK, ProxyType, NodeType
      <4> QED
        BY <4>1
    <3> QED
      BY <1>b, <1>c, <3>1, ShareIs DEF Gets, Adds
  <2> QED
    BY <1>d, <2>1 DEF Kept
<1> QED
  BY <1>1, <1>2, <1>3, <1>4, <1>5, <1>d
LEMMA GetCallKept ==
    ASSUME TypeOK, TypeOK', IInv, NEW t \in Threads, Others(t), GetCall(t)
    PROVE  IInv'
<1> USE Types, TypesGive, Bounds
<1>0. /\ ClientType /\ LocalType /\ Places /\ Links /\ Sequences /\ Allocated
      /\ Role(t) /\ Caller(t) /\ Stage(t) /\ Walk(t) /\ Pend(t) /\ Touch(t)
      /\ Reclaim(t) /\ Pop(t) /\ numNodes \in 0..MaxNodes
  BY DEF TypeOK, IInv, Accounted, NodeAccounting
<1>1. /\ pc[t] = "idle"
      /\ pc'[t] = "g_tail"
      /\ ref[t] = NULL /\ alive
      /\ use'[t] = "hold" /\ old'[t] = sequence /\ ret'[t] = ret[t] /\ ref'[t] = ref[t]
      /\ seq'[t] = seq[t] /\ cur'[t] = cur[t] /\ lat'[t] = lat[t] /\ own'[t] = own[t]
      /\ drop'[t] = drop[t] /\ nxt'[t] = nxt[t] /\ free'[t] = free[t] /\ node'[t] = node[t]
      /\ arg'[t] = arg[t]
  BY <1>0 DEF GetCall, Goto, clientVars, localVars, getVars, newVars, ClientType, LocalType, Call
<1>2. ChainKept /\ alive
  BY <1>0, <1>1 DEF GetCall, ChainKept, Allocated, proxyVars, nodeVars, historyVars, heapVars
<1>3. Role(t)'
  BY <1>0, <1>1 DEF Role, At, Setting, Dropping, Seeks, Gets, Adds
<1>4. Caller(t)'
  BY <1>0, <1>1 DEF Caller, At, Setting, Dropping, Seeks, Gets, Adds
<1>5. Holds(t)
  BY <1>0, <1>1, <1>2 DEF Holds, Looking, Frees, Reclaiming, Setting
<1>6. Kept(t) /\ Walk(t)' /\ Touch(t)'
  BY <1>3, <1>5, HoldsStep
<1>7. Stage(t)'
  BY <1>0, <1>1, <1>2 DEF Stage, Setting, Dropping, ChainKept
<1>8. Pend(t)'
  BY <1>1, <1>2 DEF Pend, ChainKept
<1>9. Reclaim(t)'
  BY <1>1 DEF Reclaim, Frees, Reclaiming
<1>10. Pop(t)'
  BY <1>1 DEF Pop
<1>11. Plain(t)
  BY <1>0, <1>1 DEF Plain, SameHeap, GetCall, Owns, Ready, IsBetween, heapVars, proxyVars, nodeVars, historyVars, At, Setting, Dropping, Seeks, Gets, Adds, Caller
<1>12. Owners' /\ Allocated' /\ Accounted'
  BY <1>2, <1>11, PlainStep
<1> QED
  BY <1>3, <1>4, <1>6, <1>7, <1>8, <1>9, <1>10, <1>12, KeptStep DEF Mine

LEMMA DeferCallKept ==
    ASSUME TypeOK, TypeOK', IInv, NEW t \in Threads, Others(t), DeferCall(t)
    PROVE  IInv'
<1> USE Types, TypesGive, Bounds
<1>0. /\ ClientType /\ LocalType /\ Places /\ Links /\ Sequences /\ Allocated
      /\ Role(t) /\ Caller(t) /\ Stage(t) /\ Walk(t) /\ Pend(t) /\ Touch(t)
      /\ Reclaim(t) /\ Pop(t) /\ numNodes \in 0..MaxNodes
  BY DEF TypeOK, IInv, Accounted, NodeAccounting
<1>1. /\ pc[t] = "idle"
      /\ pc'[t] = "g_seq"
      /\ alive
      /\ use'[t] = "defer" /\ ret'[t] = ret[t] /\ ref'[t] = ref[t] /\ old'[t] = old[t]
      /\ seq'[t] = seq[t] /\ cur'[t] = cur[t] /\ lat'[t] = lat[t] /\ own'[t] = own[t]
      /\ drop'[t] = drop[t] /\ nxt'[t] = nxt[t] /\ free'[t] = free[t] /\ node'[t] = node[t]
  BY <1>0 DEF DeferCall, Goto, clientVars, localVars, getVars, newVars, ClientType, LocalType, Call
<1>2. ChainKept /\ alive
  BY <1>0, <1>1 DEF DeferCall, ChainKept, Allocated, proxyVars, nodeVars, historyVars, heapVars
<1>3. Role(t)'
  BY <1>0, <1>1 DEF Role, At, Setting, Dropping, Seeks, Gets, Adds
<1>4. Caller(t)'
  BY <1>0, <1>1 DEF Caller, At, Setting, Dropping, Seeks, Gets, Adds
<1>5. Holds(t)
  BY <1>0, <1>1, <1>2 DEF Holds, Looking, Frees, Reclaiming, Setting
<1>6. Kept(t) /\ Walk(t)' /\ Touch(t)'
  BY <1>3, <1>5, HoldsStep
<1>7. Stage(t)'
  BY <1>0, <1>1, <1>2 DEF Stage, Setting, Dropping, ChainKept
<1>8. Pend(t)'
  BY <1>1, <1>2 DEF Pend, ChainKept
<1>9. Reclaim(t)'
  BY <1>1 DEF Reclaim, Frees, Reclaiming
<1>10. Pop(t)'
  BY <1>1 DEF Pop
<1>11. Plain(t)
  BY <1>0, <1>1 DEF Plain, SameHeap, DeferCall, Owns, Ready, IsBetween, heapVars, proxyVars, nodeVars, historyVars, At, Setting, Dropping, Seeks, Gets, Adds, Caller
<1>12. Owners' /\ Allocated' /\ Accounted'
  BY <1>2, <1>11, PlainStep
<1> QED
  BY <1>3, <1>4, <1>6, <1>7, <1>8, <1>9, <1>10, <1>12, KeptStep DEF Mine

LEMMA TrimCallKept ==
    ASSUME TypeOK, TypeOK', IInv, NEW t \in Threads, Others(t), TrimCall(t)
    PROVE  IInv'
<1> USE Types, TypesGive, Bounds
<1>0. /\ ClientType /\ LocalType /\ Places /\ Links /\ Sequences /\ Allocated
      /\ Role(t) /\ Caller(t) /\ Stage(t) /\ Walk(t) /\ Pend(t) /\ Touch(t)
      /\ Reclaim(t) /\ Pop(t) /\ numNodes \in 0..MaxNodes
  BY DEF TypeOK, IInv, Accounted, NodeAccounting
<1>1. /\ pc[t] = "idle"
      /\ pc'[t] \in {"g_seq", "idle"}
      /\ alive
      /\ use'[t] = "trim" /\ ret'[t] = ret[t] /\ ref'[t] = ref[t] /\ old'[t] = old[t]
      /\ seq'[t] = seq[t] /\ cur'[t] = cur[t] /\ lat'[t] = lat[t] /\ own'[t] = own[t]
      /\ drop'[t] = drop[t] /\ nxt'[t] = nxt[t] /\ free'[t] = free[t] /\ node'[t] = node[t]
      /\ arg'[t] = arg[t]
  BY <1>0 DEF TrimCall, Goto, clientVars, localVars, getVars, newVars, ClientType, LocalType, Call, TrimLoop
<1>2. ChainKept /\ alive
  BY <1>0, <1>1 DEF TrimCall, ChainKept, Allocated, proxyVars, nodeVars, historyVars, heapVars
<1>3. Role(t)'
  BY <1>0, <1>1 DEF Role, At, Setting, Dropping, Seeks, Gets, Adds
<1>4. Caller(t)'
  BY <1>0, <1>1 DEF Caller, At, Setting, Dropping, Seeks, Gets, Adds
<1>5. Holds(t)
  BY <1>0, <1>1, <1>2 DEF Holds, Looking, Frees, Reclaiming, Setting
<1>6. Kept(t) /\ Walk(t)' /\ Touch(t)'
  BY <1>3, <1>5, HoldsStep
<1>7. Stage(t)'
  BY <1>0, <1>1, <1>2 DEF Stage, Setting, Dropping, ChainKept
<1>8. Pend(t)'
  BY <1>1, <1>2 DEF Pend, ChainKept
<1>9. Reclaim(t)'
  BY <1>1 DEF Reclaim, Frees, Reclaiming
<1>10. Pop(t)'
  BY <1>1 DEF Pop
<1>11. Plain(t)
  BY <1>0, <1>1 DEF Plain, SameHeap, TrimCall, Owns, Ready, IsBetween, heapVars, proxyVars, nodeVars, historyVars, At, Setting, Dropping, Seeks, Gets, Adds
<1>12. Owners' /\ Allocated' /\ Accounted'
  BY <1>2, <1>11, PlainStep
<1> QED
  BY <1>3, <1>4, <1>6, <1>7, <1>8, <1>9, <1>10, <1>12, KeptStep DEF Mine

LEMMA GetLoadSeqKept ==
    ASSUME TypeOK, TypeOK', IInv, NEW t \in Threads, Others(t), GetLoadSeq(t)
    PROVE  IInv'
<1> USE Types, TypesGive, Bounds
<1>0. /\ ClientType /\ LocalType /\ Places /\ Links /\ Sequences /\ Allocated
      /\ Role(t) /\ Caller(t) /\ Stage(t) /\ Walk(t) /\ Pend(t) /\ Touch(t)
      /\ Reclaim(t) /\ Pop(t) /\ numNodes \in 0..MaxNodes
  BY DEF TypeOK, IInv, Accounted, NodeAccounting
<1>1. /\ pc[t] = "g_seq"
      /\ pc'[t] = "g_tail"
      /\ old'[t] = sequence /\ ret'[t] = ret[t] /\ ref'[t] = ref[t] /\ use'[t] = use[t]
      /\ seq'[t] = seq[t] /\ cur'[t] = cur[t] /\ lat'[t] = lat[t] /\ own'[t] = own[t]
      /\ drop'[t] = drop[t] /\ nxt'[t] = nxt[t] /\ free'[t] = free[t] /\ node'[t] = node[t]
      /\ arg'[t] = arg[t]
  BY <1>0 DEF GetLoadSeq, Goto, clientVars, localVars, getVars, newVars, ClientType, LocalType
<1>2. ChainKept /\ alive
  BY <1>0, <1>1 DEF GetLoadSeq, ChainKept, Allocated, proxyVars, nodeVars, historyVars, heapVars
<1>3. Role(t)'
  BY <1>0, <1>1 DEF Role, At, Setting, Dropping, Seeks, Gets, Adds
<1>4. Caller(t)'
  BY <1>0, <1>1 DEF Caller, At, Setting, Dropping, Seeks, Gets, Adds
<1>5. Holds(t)
  BY <1>0, <1>1, <1>2 DEF Holds, Looking, Frees, Reclaiming, Setting
<1>6. Kept(t) /\ Walk(t)' /\ Touch(t)'
  BY <1>3, <1>5, HoldsStep
<1>7. Stage(t)'
  BY <1>0, <1>1, <1>2 DEF Stage, Setting, Dropping, ChainKept
<1>8. Pend(t)'
  BY <1>1, <1>2 DEF Pend, ChainKept
<1>9. Reclaim(t)'
  BY <1>1 DEF Reclaim, Frees, Reclaiming
<1>10. Pop(t)'
  BY <1>1 DEF Pop
<1>11. Plain(t)
  BY <1>0, <1>1 DEF Plain, SameHeap, GetLoadSeq, Owns, Ready, IsBetween, heapVars, proxyVars, nodeVars, historyVars, At, Setting, Dropping, Seeks, Gets, Adds
<1>12. Owners' /\ Allocated' /\ Accounted'
  BY <1>2, <1>11, PlainStep
<1> QED
  BY <1>3, <1>4, <1>6, <1>7, <1>8, <1>9, <1>10, <1>12, KeptStep DEF Mine

LEMMA GetLoadTailKept ==
    ASSUME TypeOK, TypeOK', IInv, NEW t \in Threads, Others(t), GetLoadTail(t)
    PROVE  IInv'
<1> USE Types, TypesGive, Bounds
<1>0. /\ ClientType /\ LocalType /\ Places /\ Links /\ Sequences /\ Allocated
      /\ Role(t) /\ Caller(t) /\ Stage(t) /\ Walk(t) /\ Pend(t) /\ Touch(t)
      /\ Reclaim(t) /\ Pop(t) /\ numNodes \in 0..MaxNodes
  BY DEF TypeOK, IInv, Accounted, NodeAccounting
<1>1. /\ pc[t] = "g_tail"
      /\ pc'[t] = "g_cas"
      /\ cur'[t] = tail /\ ret'[t] = ret[t] /\ ref'[t] = ref[t] /\ use'[t] = use[t]
      /\ old'[t] = old[t] /\ seq'[t] = seq[t] /\ lat'[t] = lat[t] /\ own'[t] = own[t]
      /\ drop'[t] = drop[t] /\ nxt'[t] = nxt[t] /\ free'[t] = free[t] /\ node'[t] = node[t]
      /\ arg'[t] = arg[t]
  BY <1>0 DEF GetLoadTail, Goto, clientVars, localVars, getVars, newVars, ClientType, LocalType
<1>2. ChainKept /\ alive
  BY <1>0, <1>1 DEF GetLoadTail, ChainKept, Allocated, proxyVars, nodeVars, historyVars, heapVars
<1>3. Role(t)'
  BY <1>0, <1>1 DEF Role, At, Setting, Dropping, Seeks, Gets, Adds
<1>4. Caller(t)'
  BY <1>0, <1>1 DEF Caller, At, Setting, Dropping, Seeks, Gets, Adds
<1>5. Holds(t)
  BY <1>0, <1>1, <1>2 DEF Holds, Looking, Frees, Reclaiming, Setting
<1>6. Kept(t) /\ Walk(t)' /\ Touch(t)'
  BY <1>3, <1>5, HoldsStep
<1>7. Stage(t)'
  BY <1>0, <1>1, <1>2 DEF Stage, Setting, Dropping, ChainKept
<1>8. Pend(t)'
  <2>1. old[t] <= sequence
    BY <1>0, <1>1 DEF Pend
  <2>2. Real(tail)' /\ End' <= pos'[tail'] + Latency + 1
    <3>1. Real(tail) /\ End <= pos[tail] + Latency + 1
      BY <1>0, Consts, ChainFacts
    <3>2. End' = End /\ (Real(tail) => Real(tail)') /\ pos' = pos
      BY <1>0, <1>2, ChainStays DEF ChainKept, Real
    <3> QED
      BY <1>2, <3>1, <3>2 DEF ChainKept
  <2>3. ASSUME NEW u \in Threads, Looking(u)'
        PROVE  Base(u)' <= pos'[tail']
    <3>1. u # t
      BY <1>1, <2>3 DEF Looking
    <3>2. Role(u) /\ Walk(u)
      BY DEF IInv
    <3>3. Looking(u) /\ Base(u)' = Base(u)
      BY <1>2, <2>3, <3>1, OthersControl DEF Base, Others, ChainKept
    <3>4. cur[u] \in Nodes /\ pos[cur[u]] <= pos[tail]
      BY <3>2, <3>3, Controls DEF Walk
    <3> QED
      BY <1>2, <3>3, <3>4 DEF Base, ChainKept
  <2> QED
    BY <1>1, <1>2, <2>1, <2>2, <2>3 DEF Pend, ChainKept
<1>9. Reclaim(t)'
  BY <1>1 DEF Reclaim, Frees, Reclaiming
<1>10. Pop(t)'
  BY <1>1 DEF Pop
<1>11. Plain(t)
  BY <1>0, <1>1 DEF Plain, SameHeap, GetLoadTail, Owns, Ready, IsBetween, heapVars, proxyVars, nodeVars, historyVars, At, Setting, Dropping, Seeks, Gets, Adds
<1>12. Owners' /\ Allocated' /\ Accounted'
  BY <1>2, <1>11, PlainStep
<1> QED
  BY <1>3, <1>4, <1>6, <1>7, <1>8, <1>9, <1>10, <1>12, KeptStep DEF Mine

LEMMA GetCasKept ==
    ASSUME TypeOK, TypeOK', IInv, NEW t \in Threads, Others(t), GetCas(t) /\ ~SequenceMatches(t)
    PROVE  IInv'
<1> USE Types, TypesGive, Bounds
<1>0. /\ ClientType /\ LocalType /\ Places /\ Links /\ Sequences /\ Allocated
      /\ Role(t) /\ Caller(t) /\ Stage(t) /\ Walk(t) /\ Pend(t) /\ Touch(t)
      /\ Reclaim(t) /\ Pop(t) /\ numNodes \in 0..MaxNodes
  BY DEF TypeOK, IInv, Accounted, NodeAccounting
<1>1. /\ pc[t] = "g_cas"
      /\ pc'[t] = "g_tail"
      /\ old'[t] = sequence /\ cur'[t] = NULL /\ ret'[t] = ret[t] /\ ref'[t] = ref[t]
      /\ use'[t] = use[t] /\ seq'[t] = seq[t] /\ lat'[t] = lat[t] /\ own'[t] = own[t]
      /\ drop'[t] = drop[t] /\ nxt'[t] = nxt[t] /\ free'[t] = free[t] /\ node'[t] = node[t]
      /\ arg'[t] = arg[t]
  BY <1>0 DEF GetCas, Goto, clientVars, localVars, getVars, newVars, ClientType, LocalType
<1>2. ChainKept /\ alive
  BY <1>0, <1>1 DEF GetCas, ChainKept, Allocated, proxyVars, nodeVars, historyVars, heapVars
<1>3. Role(t)'
  BY <1>0, <1>1 DEF Role, At, Setting, Dropping, Seeks, Gets, Adds
<1>4. Caller(t)'
  BY <1>0, <1>1 DEF Caller, At, Setting, Dropping, Seeks, Gets, Adds
<1>5. Holds(t)
  BY <1>0, <1>1, <1>2 DEF Holds, Looking, Frees, Reclaiming, Setting
<1>6. Kept(t) /\ Walk(t)' /\ Touch(t)'
  BY <1>3, <1>5, HoldsStep
<1>7. Stage(t)'
  BY <1>0, <1>1, <1>2 DEF Stage, Setting, Dropping, ChainKept
<1>8. Pend(t)'
  BY <1>1, <1>2 DEF Pend, ChainKept
<1>9. Reclaim(t)'
  BY <1>1 DEF Reclaim, Frees, Reclaiming
<1>10. Pop(t)'
  BY <1>1 DEF Pop
<1>11. Plain(t)
  BY <1>0, <1>1 DEF Plain, SameHeap, GetCas, Owns, Ready, IsBetween, heapVars, proxyVars, nodeVars, historyVars, At, Setting, Dropping, Seeks, Gets, Adds
<1>12. Owners' /\ Allocated' /\ Accounted'
  BY <1>2, <1>11, PlainStep
<1> QED
  BY <1>3, <1>4, <1>6, <1>7, <1>8, <1>9, <1>10, <1>12, KeptStep DEF Mine

LEMMA SetLoadKept ==
    ASSUME TypeOK, TypeOK', IInv, NEW t \in Threads, Others(t), SetLoad(t)
    PROVE  IInv'
<1> USE Types, TypesGive, Bounds
<1>0. /\ ClientType /\ LocalType /\ Places /\ Links /\ Sequences /\ Allocated
      /\ Role(t) /\ Caller(t) /\ Stage(t) /\ Walk(t) /\ Pend(t) /\ Touch(t)
      /\ Reclaim(t) /\ Pop(t) /\ numNodes \in 0..MaxNodes
  BY DEF TypeOK, IInv, Accounted, NodeAccounting
<1>1. /\ pc[t] = "s_load"
      /\ \/ pc'[t] = "s_set" /\ old'[t] = sequence
         \/ pc'[t] = "s_prev" /\ old'[t] = old[t] /\ ~Unset(t)
      /\ ret'[t] = ret[t] /\ ref'[t] = ref[t] /\ use'[t] = use[t] /\ seq'[t] = seq[t]
      /\ cur'[t] = cur[t] /\ lat'[t] = lat[t] /\ own'[t] = own[t] /\ drop'[t] = drop[t]
      /\ nxt'[t] = nxt[t] /\ free'[t] = free[t] /\ node'[t] = node[t] /\ arg'[t] = arg[t]
  BY <1>0 DEF SetLoad, Goto, clientVars, localVars, getVars, newVars, ClientType, LocalType
<1>2. ChainKept /\ alive
  BY <1>0, <1>1 DEF SetLoad, ChainKept, Allocated, proxyVars, nodeVars, historyVars, heapVars
<1>3. Role(t)'
  BY <1>0, <1>1 DEF Role, At, Setting, Dropping, Seeks, Gets, Adds
<1>4. Caller(t)'
  BY <1>0, <1>1 DEF Caller, At, Setting, Dropping, Seeks, Gets, Adds
<1>5. Holds(t)
  BY <1>0, <1>1, <1>2 DEF Holds, Looking, Frees, Reclaiming, Setting
<1>6. Kept(t) /\ Walk(t)' /\ Touch(t)'
  BY <1>3, <1>5, HoldsStep
<1>7. Stage(t)'
  <2>a. Setting(t) /\ Looking(t)
    <3>1. Setting(t)
      BY <1>1 DEF Setting
    <3> QED
      BY <1>0, <3>1, Controls
  <2>1. /\ cur[t] \in Nodes /\ pos[cur[t]] > 0 /\ pos[cur[t]] <= pos[tail]
        /\ next[cur[t]] \in Nodes /\ pos[next[cur[t]]] > 0 /\ tail \in Nodes
        /\ pos[cur[t]] = pos[tail] => cur[t] = tail
    <3>1. cur[t] \in Nodes /\ Real(cur[t]) /\ pos[cur[t]] <= pos[tail] /\ next[cur[t]] \in Nodes
      BY <1>0, <2>a, ThreadFacts
    <3> QED
      BY <1>0, <3>1, Consts, ChainFacts
  <2>2. CASE pc'[t] = "s_prev" /\ ~Unset(t)
    BY <1>0, <1>1, <1>2, <2>1, <2>2 DEF Stage, Setting, Dropping, ChainKept, Unset
  <2>3. CASE pc'[t] = "s_set" /\ old'[t] = sequence
    <3>1. prevSeq[tail] <= sequence
      BY <1>0, SequenceFacts, ChainFacts, Consts
    <3>2. Above(old[t])' = {}
      <4>1. \A u \in Threads : seq[u] <= sequence
        BY DEF IInv, Walk
      <4> QED
        BY <1>1, <2>3, <4>1 DEF Above, Others
    <3>3. Cardinality(Above(old[t])') = 0
      BY <3>2, FS_EmptySet
    <3> QED
      BY <1>0, <1>1, <1>2, <2>1, <2>3, <3>1, <3>2, <3>3
         DEF Stage, Setting, Dropping, ChainKept, REFERENCE
  <2> QED
    BY <1>1, <2>2, <2>3
<1>8. Pend(t)'
  BY <1>1, <1>2 DEF Pend, ChainKept
<1>9. Reclaim(t)'
  BY <1>1 DEF Reclaim, Frees, Reclaiming
<1>10. Pop(t)'
  BY <1>1 DEF Pop
<1>11. Plain(t)
  BY <1>0, <1>1 DEF Plain, SameHeap, SetLoad, Owns, Ready, IsBetween, heapVars, proxyVars, nodeVars, historyVars, At, Setting, Dropping, Seeks, Gets, Adds
<1>12. Owners' /\ Allocated' /\ Accounted'
  BY <1>2, <1>11, PlainStep
<1> QED
  BY <1>3, <1>4, <1>6, <1>7, <1>8, <1>9, <1>10, <1>12, KeptStep DEF Mine

LEMMA SetCasKept ==
    ASSUME TypeOK, TypeOK', IInv, NEW t \in Threads, Others(t), SetCas(t) /\ ~Unset(t)
    PROVE  IInv'
<1> USE Types, TypesGive, Bounds
<1>0. /\ ClientType /\ LocalType /\ Places /\ Links /\ Sequences /\ Allocated
      /\ Role(t) /\ Caller(t) /\ Stage(t) /\ Walk(t) /\ Pend(t) /\ Touch(t)
      /\ Reclaim(t) /\ Pop(t) /\ numNodes \in 0..MaxNodes
  BY DEF TypeOK, IInv, Accounted, NodeAccounting
<1>1. /\ pc[t] = "s_set"
      /\ pc'[t] = "s_prev"
      /\ ~Unset(t)
      /\ ret'[t] = ret[t] /\ ref'[t] = ref[t] /\ use'[t] = use[t] /\ seq'[t] = seq[t]
      /\ cur'[t] = cur[t] /\ lat'[t] = lat[t] /\ own'[t] = own[t] /\ drop'[t] = drop[t]
      /\ nxt'[t] = nxt[t] /\ free'[t] = free[t] /\ node'[t] = node[t] /\ arg'[t] = arg[t]
  BY <1>0 DEF SetCas, Goto, clientVars, localVars, getVars, newVars, ClientType, LocalType
<1>2. ChainKept /\ alive
  BY <1>0, <1>1 DEF SetCas, ChainKept, Allocated, proxyVars, nodeVars, historyVars, heapVars
<1>3. Role(t)'
  BY <1>0, <1>1 DEF Role, At, Setting, Dropping, Seeks, Gets, Adds
<1>4. Caller(t)'
  BY <1>0, <1>1 DEF Caller, At, Setting, Dropping, Seeks, Gets, Adds
<1>5. Holds(t)
  BY <1>0, <1>1, <1>2 DEF Holds, Looking, Frees, Reclaiming, Setting
<1>6. Kept(t) /\ Walk(t)' /\ Touch(t)'
  BY <1>3, <1>5, HoldsStep
<1>7. Stage(t)'
  <2>a. Setting(t) /\ Looking(t)
    <3>1. Setting(t)
      BY <1>1 DEF Setting
    <3> QED
      BY <1>0, <3>1, Controls
  <2>1. /\ cur[t] \in Nodes /\ pos[cur[t]] > 0 /\ pos[cur[t]] <= pos[tail]
        /\ next[cur[t]] \in Nodes /\ pos[next[cur[t]]] > 0 /\ tail \in Nodes
        /\ pos[cur[t]] = pos[tail] => cur[t] = tail
    <3>1. cur[t] \in Nodes /\ Real(cur[t]) /\ pos[cur[t]] <= pos[tail] /\ next[cur[t]] \in Nodes
      BY <1>0, <2>a, ThreadFacts
    <3> QED
      BY <1>0, <3>1, Consts, ChainFacts
  <2> QED
    BY <1>0, <1>1, <1>2, <2>1 DEF Stage, Setting, Dropping, ChainKept, Unset
<1>8. Pend(t)'
  BY <1>1, <1>2 DEF Pend, ChainKept
<1>9. Reclaim(t)'
  BY <1>1 DEF Reclaim, Frees, Reclaiming
<1>10. Pop(t)'
  BY <1>1 DEF Pop
<1>11. Plain(t)
  BY <1>0, <1>1 DEF Plain, SameHeap, SetCas, Owns, Ready, IsBetween, heapVars, proxyVars, nodeVars, historyVars, At, Setting, Dropping, Seeks, Gets, Adds
<1>12. Owners' /\ Allocated' /\ Accounted'
  BY <1>2, <1>11, PlainStep
<1> QED
  BY <1>3, <1>4, <1>6, <1>7, <1>8, <1>9, <1>10, <1>12, KeptStep DEF Mine

LEMMA SetCountKept ==
    ASSUME TypeOK, TypeOK', IInv, NEW t \in Threads, Others(t), SetCount(t) /\ ~Unadjusted(cur[t])
    PROVE  IInv'
<1> USE Types, TypesGive, Bounds
<1>0. /\ ClientType /\ LocalType /\ Places /\ Links /\ Sequences /\ Allocated
      /\ Role(t) /\ Caller(t) /\ Stage(t) /\ Walk(t) /\ Pend(t) /\ Touch(t)
      /\ Reclaim(t) /\ Pop(t) /\ numNodes \in 0..MaxNodes
  BY DEF TypeOK, IInv, Accounted, NodeAccounting
<1>1. /\ pc[t] = "s_count"
      /\ pc'[t] = "s_tail"
      /\ ~Unadjusted(cur[t])
      /\ ret'[t] = ret[t] /\ ref'[t] = ref[t] /\ use'[t] = use[t] /\ old'[t] = old[t]
      /\ seq'[t] = seq[t] /\ cur'[t] = cur[t] /\ lat'[t] = lat[t] /\ own'[t] = own[t]
      /\ drop'[t] = drop[t] /\ nxt'[t] = nxt[t] /\ free'[t] = free[t] /\ node'[t] = node[t]
      /\ arg'[t] = arg[t]
  BY <1>0 DEF SetCount, Goto, clientVars, localVars, getVars, newVars, ClientType, LocalType
<1>2. ChainKept /\ alive
  BY <1>0, <1>1 DEF SetCount, ChainKept, Allocated, proxyVars, nodeVars, historyVars, heapVars
<1>3. Role(t)'
  BY <1>0, <1>1 DEF Role, At, Setting, Dropping, Seeks, Gets, Adds
<1>4. Caller(t)'
  BY <1>0, <1>1 DEF Caller, At, Setting, Dropping, Seeks, Gets, Adds
<1>5. Holds(t)
  BY <1>0, <1>1, <1>2 DEF Holds, Looking, Frees, Reclaiming, Setting
<1>6. Kept(t) /\ Walk(t)' /\ Touch(t)'
  BY <1>3, <1>5, HoldsStep
<1>7. Stage(t)'
  <2>a. Setting(t) /\ Looking(t)
    <3>1. Setting(t)
      BY <1>1 DEF Setting
    <3> QED
      BY <1>0, <3>1, Controls
  <2>1. /\ cur[t] \in Nodes /\ pos[cur[t]] > 0 /\ pos[cur[t]] <= pos[tail]
        /\ next[cur[t]] \in Nodes /\ pos[next[cur[t]]] > 0 /\ tail \in Nodes
        /\ pos[cur[t]] = pos[tail] => cur[t] = tail
    <3>1. cur[t] \in Nodes /\ Real(cur[t]) /\ pos[cur[t]] <= pos[tail] /\ next[cur[t]] \in Nodes
      BY <1>0, <2>a, ThreadFacts
    <3> QED
      BY <1>0, <3>1, Consts, ChainFacts
  <2>2. Passed(cur[t]) /\ nodeSeq[cur[t]] # 0 /\ Settled(cur[t])
    BY <1>0, <1>1 DEF Stage, Settled, Unadjusted
  <2>3. Passed(cur[t])' /\ Settled(cur[t])'
    <3>1. (Passed(cur[t]) => Passed(cur[t])') /\ (Settled(cur[t]) => Settled(cur[t])')
      BY <1>1, <1>2, <2>1 DEF Passed, Settled, ChainKept
    <3> QED
      BY <2>2, <3>1
  <2> QED
    BY <1>0, <1>1, <1>2, <2>1, <2>2, <2>3 DEF Stage, Setting, Dropping, ChainKept
<1>8. Pend(t)'
  BY <1>1, <1>2 DEF Pend, ChainKept
<1>9. Reclaim(t)'
  BY <1>1 DEF Reclaim, Frees, Reclaiming
<1>10. Pop(t)'
  BY <1>1 DEF Pop
<1>11. Plain(t)
  BY <1>0, <1>1 DEF Plain, SameHeap, SetCount, Owns, Ready, IsBetween, heapVars, proxyVars, nodeVars, historyVars, At, Setting, Dropping, Seeks, Gets, Adds
<1>12. Owners' /\ Allocated' /\ Accounted'
  BY <1>2, <1>11, PlainStep
<1> QED
  BY <1>3, <1>4, <1>6, <1>7, <1>8, <1>9, <1>10, <1>12, KeptStep DEF Mine

LEMMA SetTailKept ==
    ASSUME TypeOK, TypeOK', IInv, NEW t \in Threads, Others(t), SetTail(t) /\ ~Swings(t)
    PROVE  IInv'
<1> USE Types, TypesGive, Bounds
<1>0. /\ ClientType /\ LocalType /\ Places /\ Links /\ Sequences /\ Allocated
      /\ Role(t) /\ Caller(t) /\ Stage(t) /\ Walk(t) /\ Pend(t) /\ Touch(t)
      /\ Reclaim(t) /\ Pop(t) /\ numNodes \in 0..MaxNodes
  BY DEF TypeOK, IInv, Accounted, NodeAccounting
<1>1. /\ pc[t] = "s_tail"
      /\ pc'[t] = ret[t]
      /\ ~Swings(t) /\ ret[t] \in {"g_cmp", "a_more", "a_end"}
      /\ ret'[t] = "idle" /\ ref'[t] = ref[t] /\ use'[t] = use[t] /\ old'[t] = old[t]
      /\ seq'[t] = seq[t] /\ cur'[t] = cur[t] /\ lat'[t] = lat[t] /\ own'[t] = own[t]
      /\ drop'[t] = drop[t] /\ nxt'[t] = nxt[t] /\ free'[t] = free[t] /\ node'[t] = node[t]
      /\ arg'[t] = arg[t]
  BY <1>0 DEF SetTail, Goto, clientVars, localVars, getVars, newVars, ClientType, LocalType, Role, Setting
<1>2. ChainKept /\ alive
  BY <1>0, <1>1 DEF SetTail, ChainKept, Allocated, proxyVars, nodeVars, historyVars, heapVars
<1>3. Role(t)'
  BY <1>0, <1>1 DEF Role, At, Setting, Dropping, Seeks, Gets, Adds
<1>4. Caller(t)'
  BY <1>0, <1>1 DEF Caller, At, Setting, Dropping, Seeks, Gets, Adds
<1>5. Holds(t)
  BY <1>0, <1>1, <1>2 DEF Holds, Looking, Frees, Reclaiming, Setting, Swings
<1>6. Kept(t) /\ Walk(t)' /\ Touch(t)'
  BY <1>3, <1>5, HoldsStep
<1>7. Stage(t)'
  <2>a. Setting(t) /\ Looking(t)
    <3>1. Setting(t)
      BY <1>1 DEF Setting
    <3> QED
      BY <1>0, <3>1, Controls
  <2>1. /\ cur[t] \in Nodes /\ pos[cur[t]] > 0 /\ pos[cur[t]] <= pos[tail]
        /\ next[cur[t]] \in Nodes /\ pos[next[cur[t]]] > 0 /\ tail \in Nodes
        /\ pos[cur[t]] = pos[tail] => cur[t] = tail
    <3>1. cur[t] \in Nodes /\ Real(cur[t]) /\ pos[cur[t]] <= pos[tail] /\ next[cur[t]] \in Nodes
      BY <1>0, <2>a, ThreadFacts
    <3> QED
      BY <1>0, <3>1, Consts, ChainFacts
  <2>2. pos[cur[t]] < pos[tail]
    BY <1>1, <2>1 DEF Swings
  <2> QED
    BY <1>0, <1>1, <1>2, <2>1, <2>2 DEF Stage, Setting, Dropping, ChainKept
<1>8. Pend(t)'
  BY <1>1, <1>2 DEF Pend, ChainKept
<1>9. Reclaim(t)'
  BY <1>1 DEF Reclaim, Frees, Reclaiming
<1>10. Pop(t)'
  BY <1>1 DEF Pop
<1>11. Plain(t)
  BY <1>0, <1>1 DEF Plain, SameHeap, SetTail, Owns, Ready, IsBetween, heapVars, proxyVars, nodeVars, historyVars, At, Setting, Dropping, Seeks, Gets, Adds
<1>12. Owners' /\ Allocated' /\ Accounted'
  BY <1>2, <1>11, PlainStep
<1> QED
  BY <1>3, <1>4, <1>6, <1>7, <1>8, <1>9, <1>10, <1>12, KeptStep DEF Mine

LEMMA DropNextKept ==
    ASSUME TypeOK, TypeOK', IInv, NEW t \in Threads, Others(t), DropNext(t)
    PROVE  IInv'
<1> USE Types, TypesGive, Bounds
<1>0. /\ ClientType /\ LocalType /\ Places /\ Links /\ Sequences /\ Allocated
      /\ Role(t) /\ Caller(t) /\ Stage(t) /\ Walk(t) /\ Pend(t) /\ Touch(t)
      /\ Reclaim(t) /\ Pop(t) /\ numNodes \in 0..MaxNodes
  BY DEF TypeOK, IInv, Accounted, NodeAccounting
<1>1. /\ pc[t] = "d_next"
      /\ pc'[t] = "d_store"
      /\ nxt'[t] = next[freeTail] /\ ret'[t] = ret[t] /\ ref'[t] = ref[t] /\ use'[t] = use[t]
      /\ old'[t] = old[t] /\ seq'[t] = seq[t] /\ cur'[t] = cur[t] /\ lat'[t] = lat[t]
      /\ own'[t] = own[t] /\ drop'[t] = drop[t] /\ free'[t] = free[t] /\ node'[t] = node[t]
      /\ arg'[t] = arg[t]
  BY <1>0 DEF DropNext, Goto, clientVars, localVars, getVars, newVars, ClientType, LocalType
<1>2. ChainKept /\ alive
  BY <1>0, <1>1 DEF DropNext, ChainKept, Allocated, proxyVars, nodeVars, historyVars, heapVars
<1>3. Role(t)'
  BY <1>0, <1>1 DEF Role, At, Setting, Dropping, Seeks, Gets, Adds
<1>4. Caller(t)'
  BY <1>0, <1>1 DEF Caller, At, Setting, Dropping, Seeks, Gets, Adds
<1>5. Holds(t)
  BY <1>0, <1>1, <1>2 DEF Holds, Looking, Frees, Reclaiming, Setting
<1>6. Kept(t) /\ Walk(t)' /\ Touch(t)'
  BY <1>3, <1>5, HoldsStep
<1>7. Stage(t)'
  BY <1>0, <1>1, <1>2 DEF Stage, Setting, Dropping, ChainKept
<1>8. Pend(t)'
  BY <1>1, <1>2 DEF Pend, ChainKept
<1>9. Reclaim(t)'
  <2>1. Frees(t)
    BY <1>1 DEF Frees, Reclaiming
  <2>2. Dropping(t)
    BY <1>1 DEF Dropping
  <2>3. drop[t] \in Nodes /\ pos[drop[t]] > 0 /\ freeTail \in Nodes /\ pos[freeTail] > 0
    BY <1>0, <2>1, <2>2, Controls, Consts, ChainFacts DEF Reclaim
  <2>4. \A u \in Threads : Frees(u)' => u = t
    BY <1>0, <2>1, OthersControl DEF Reclaim
  <2>5. /\ pos'[drop'[t]] = FirstInUse'
        /\ pos'[drop'[t]] < pos'[tail'] /\ count'[drop'[t]] = 0
    BY <1>0, <1>1, <1>2, <2>1, <2>3 DEF Reclaim, Reclaiming, ChainKept, FirstInUse
  <2>6. nxt'[t] = next'[freeTail']
    BY <1>1, <1>2, <2>3 DEF ChainKept
  <2> QED
    BY <2>4, <2>5, <2>6 DEF Reclaim
<1>10. Pop(t)'
  BY <1>1 DEF Pop
<1>11. Plain(t)
  BY <1>0, <1>1 DEF Plain, SameHeap, DropNext, Owns, Ready, IsBetween, heapVars, proxyVars, nodeVars, historyVars, At, Setting, Dropping, Seeks, Gets, Adds
<1>12. Owners' /\ Allocated' /\ Accounted'
  BY <1>2, <1>11, PlainStep
<1> QED
  BY <1>3, <1>4, <1>6, <1>7, <1>8, <1>9, <1>10, <1>12, KeptStep DEF Mine

LEMMA DropFreeKept ==
    ASSUME TypeOK, TypeOK', IInv, NEW t \in Threads, Others(t), DropFree(t)
    PROVE  IInv'
<1> USE Types, TypesGive, Bounds
<1>0. /\ ClientType /\ LocalType /\ Places /\ Links /\ Sequences /\ Allocated
      /\ Role(t) /\ Caller(t) /\ Stage(t) /\ Walk(t) /\ Pend(t) /\ Touch(t)
      /\ Reclaim(t) /\ Pop(t) /\ numNodes \in 0..MaxNodes
  BY DEF TypeOK, IInv, Accounted, NodeAccounting
<1>1. /\ pc[t] = "d_free"
      /\ pc'[t] = "d_sub"
      /\ ret'[t] = ret[t] /\ ref'[t] = ref[t] /\ use'[t] = use[t] /\ old'[t] = old[t]
      /\ seq'[t] = seq[t] /\ cur'[t] = cur[t] /\ lat'[t] = lat[t] /\ own'[t] = own[t]
      /\ drop'[t] = drop[t] /\ nxt'[t] = nxt[t] /\ free'[t] = free[t] /\ node'[t] = node[t]
      /\ arg'[t] = arg[t]
  BY <1>0 DEF DropFree, Goto, clientVars, localVars, getVars, newVars, ClientType, LocalType
<1>2. ChainKept /\ alive
  BY <1>0, <1>1 DEF DropFree, ChainKept, Allocated, proxyVars, nodeVars, historyVars, heapVars
<1>3. Role(t)'
  BY <1>0, <1>1 DEF Role, At, Setting, Dropping, Seeks, Gets, Adds
<1>4. Caller(t)'
  BY <1>0, <1>1 DEF Caller, At, Setting, Dropping, Seeks, Gets, Adds
<1>5. Holds(t)
  BY <1>0, <1>1, <1>2 DEF Holds, Looking, Frees, Reclaiming, Setting
<1>6. Kept(t) /\ Walk(t)' /\ Touch(t)'
  BY <1>3, <1>5, HoldsStep
<1>7. Stage(t)'
  BY <1>0, <1>1, <1>2 DEF Stage, Setting, Dropping, ChainKept
<1>8. Pend(t)'
  BY <1>1, <1>2 DEF Pend, ChainKept
<1>9. Reclaim(t)'
  BY <1>1 DEF Reclaim, Frees, Reclaiming
<1>10. Pop(t)'
  BY <1>1 DEF Pop
<1>11. Plain(t)
  <2>1. drop[t] \in Nodes /\ pos[drop[t]] > 0
    <3>1. Dropping(t)
      BY <1>1 DEF Dropping
    <3>2. drop[t] \in Nodes /\ Used(drop[t])
      BY <1>0, <3>1, Controls DEF Touch
    <3> QED
      BY <1>0, <3>2, Consts, ChainFacts
  <2>2. \A n \in Nodes : pos[n] = 0 => data'[n] = data[n]
    <3>1. data' = data \/ data' = [data EXCEPT ![drop[t]] = NULL]
      BY DEF DropFree
    <3>2. data \in [Nodes -> DataOrNull]
      BY DEF TypeOK, NodeType
    <3> QED
      BY <2>1, <3>1, <3>2
  <2> QED
    BY <1>0, <1>1, <2>2 DEF Plain, SameHeap, DropFree, Owns, Ready, IsBetween, heapVars, proxyVars, At, Setting, Dropping
<1>12. Owners' /\ Allocated' /\ Accounted'
  BY <1>2, <1>11, PlainStep
<1> QED
  BY <1>3, <1>4, <1>6, <1>7, <1>8, <1>9, <1>10, <1>12, KeptStep DEF Mine

LEMMA NewLoadKept ==
    ASSUME TypeOK, TypeOK', IInv, NEW t \in Threads, Others(t), NewLoad(t)
    PROVE  IInv'
<1> USE Types, TypesGive, Bounds
<1>0. /\ ClientType /\ LocalType /\ Places /\ Links /\ Sequences /\ Allocated
      /\ Role(t) /\ Caller(t) /\ Stage(t) /\ Walk(t) /\ Pend(t) /\ Touch(t)
      /\ Reclaim(t) /\ Pop(t) /\ numNodes \in 0..MaxNodes
  BY DEF TypeOK, IInv, Accounted, NodeAccounting
<1>1. /\ pc[t] = "n_head"
      /\ pc'[t] = "n_tail"
      /\ free'[t] = freeHead /\ ret'[t] = ret[t] /\ ref'[t] = ref[t] /\ use'[t] = use[t]
      /\ old'[t] = old[t] /\ seq'[t] = seq[t] /\ cur'[t] = cur[t] /\ lat'[t] = lat[t]
      /\ own'[t] = own[t] /\ drop'[t] = drop[t] /\ nxt'[t] = nxt[t] /\ node'[t] = node[t]
      /\ arg'[t] = arg[t]
  BY <1>0 DEF NewLoad, Goto, clientVars, localVars, getVars, newVars, ClientType, LocalType
<1>2. ChainKept /\ alive
  BY <1>0, <1>1 DEF NewLoad, ChainKept, Allocated, proxyVars, nodeVars, historyVars, heapVars
<1>3. Role(t)'
  BY <1>0, <1>1 DEF Role, At, Setting, Dropping, Seeks, Gets, Adds
<1>4. Caller(t)'
  BY <1>0, <1>1 DEF Caller, At, Setting, Dropping, Seeks, Gets, Adds
<1>5. Holds(t)
  BY <1>0, <1>1, <1>2 DEF Holds, Looking, Frees, Reclaiming, Setting
<1>6. Kept(t) /\ Walk(t)' /\ Touch(t)'
  BY <1>3, <1>5, HoldsStep
<1>7. Stage(t)'
  BY <1>0, <1>1, <1>2 DEF Stage, Setting, Dropping, ChainKept
<1>8. Pend(t)'
  BY <1>1, <1>2 DEF Pend, ChainKept
<1>9. Reclaim(t)'
  BY <1>1 DEF Reclaim, Frees, Reclaiming
<1>10. Pop(t)'
  BY <1>0, <1>1, <1>2 DEF Pop, Stayed, Places, ChainKept
<1>11. Plain(t)
  BY <1>0, <1>1 DEF Plain, SameHeap, NewLoad, Owns, Ready, IsBetween, heapVars, proxyVars, nodeVars, historyVars, At, Setting, Dropping, Seeks, Gets, Adds
<1>12. Owners' /\ Allocated' /\ Accounted'
  BY <1>2, <1>11, PlainStep
<1> QED
  BY <1>3, <1>4, <1>6, <1>7, <1>8, <1>9, <1>10, <1>12, KeptStep DEF Mine

LEMMA NewTestKept ==
    ASSUME TypeOK, TypeOK', IInv, NEW t \in Threads, Others(t), NewTest(t)
    PROVE  IInv'
<1> USE Types, TypesGive, Bounds
<1>0. /\ ClientType /\ LocalType /\ Places /\ Links /\ Sequences /\ Allocated
      /\ Role(t) /\ Caller(t) /\ Stage(t) /\ Walk(t) /\ Pend(t) /\ Touch(t)
      /\ Reclaim(t) /\ Pop(t) /\ numNodes \in 0..MaxNodes
  BY DEF TypeOK, IInv, Accounted, NodeAccounting
<1>1. /\ pc[t] = "n_tail"
      /\ \/ pc'[t] = "n_read" /\ free'[t] = free[t] /\ ~FreeListEmpty(t)
         \/ pc'[t] \in {"n_num", "fault"}
      /\ ret'[t] = ret[t] /\ ref'[t] = ref[t] /\ use'[t] = use[t] /\ old'[t] = old[t]
      /\ seq'[t] = seq[t] /\ cur'[t] = cur[t] /\ lat'[t] = lat[t] /\ own'[t] = own[t]
      /\ drop'[t] = drop[t] /\ nxt'[t] = nxt[t] /\ node'[t] = node[t] /\ arg'[t] = arg[t]
  BY <1>0 DEF NewTest, Goto, clientVars, localVars, getVars, newVars, ClientType, LocalType
<1>2. ChainKept /\ alive
  BY <1>0, <1>1 DEF NewTest, ChainKept, Allocated, proxyVars, nodeVars, historyVars, heapVars
<1>3. Role(t)'
  BY <1>0, <1>1 DEF Role, At, Setting, Dropping, Seeks, Gets, Adds
<1>4. Caller(t)'
  BY <1>0, <1>1 DEF Caller, At, Setting, Dropping, Seeks, Gets, Adds
<1>5. Holds(t)
  BY <1>0, <1>1, <1>2 DEF Holds, Looking, Frees, Reclaiming, Setting
<1>6. Kept(t) /\ Walk(t)' /\ Touch(t)'
  BY <1>3, <1>5, HoldsStep
<1>7. Stage(t)'
  BY <1>0, <1>1, <1>2 DEF Stage, Setting, Dropping, ChainKept
<1>8. Pend(t)'
  BY <1>1, <1>2 DEF Pend, ChainKept
<1>9. Reclaim(t)'
  BY <1>1 DEF Reclaim, Frees, Reclaiming
<1>10. Pop(t)'
  <2>1. free[t] \in Nodes /\ (Stayed(t) => pos[free[t]] <= pos[freeTail])
    BY <1>0, <1>1 DEF Pop
  <2>2. pc'[t] = "n_read" => free[t] # freeTail
    BY <1>1 DEF FreeListEmpty
  <2>3. pc'[t] = "n_read" /\ Stayed(t) => pos[free[t]] < pos[freeTail]
    <3>1. \A m, n \in Nodes : pos[m] > 0 /\ pos[m] = pos[n] => m = n
      BY <1>0 DEF Places
    <3> QED
      BY <2>1, <2>2, <3>1 DEF Stayed
  <2> QED
    BY <1>1, <1>2, <2>1, <2>3 DEF Pop, Stayed, ChainKept
<1>11. Plain(t)
  BY <1>0, <1>1 DEF Plain, SameHeap, NewTest, Owns, Ready, IsBetween, heapVars, proxyVars, nodeVars, historyVars, At, Setting, Dropping, Seeks, Gets, Adds
<1>12. Owners' /\ Allocated' /\ Accounted'
  BY <1>2, <1>11, PlainStep
<1> QED
  BY <1>3, <1>4, <1>6, <1>7, <1>8, <1>9, <1>10, <1>12, KeptStep DEF Mine

LEMMA NewReadKept ==
    ASSUME TypeOK, TypeOK', IInv, NEW t \in Threads, Others(t), NewRead(t)
    PROVE  IInv'
<1> USE Types, TypesGive, Bounds
<1>0. /\ ClientType /\ LocalType /\ Places /\ Links /\ Sequences /\ Allocated
      /\ Role(t) /\ Caller(t) /\ Stage(t) /\ Walk(t) /\ Pend(t) /\ Touch(t)
      /\ Reclaim(t) /\ Pop(t) /\ numNodes \in 0..MaxNodes
  BY DEF TypeOK, IInv, Accounted, NodeAccounting
<1>1. /\ pc[t] = "n_read"
      /\ pc'[t] = "n_cas"
      /\ nxt'[t] \in NextOf(free[t])
      /\ ret'[t] = ret[t] /\ ref'[t] = ref[t] /\ use'[t] = use[t] /\ old'[t] = old[t]
      /\ seq'[t] = seq[t] /\ cur'[t] = cur[t] /\ lat'[t] = lat[t] /\ own'[t] = own[t]
      /\ drop'[t] = drop[t] /\ free'[t] = free[t] /\ node'[t] = node[t] /\ arg'[t] = arg[t]
  BY <1>0 DEF NewRead, Goto, clientVars, localVars, getVars, newVars, ClientType, LocalType
<1>2. ChainKept /\ alive
  BY <1>0, <1>1 DEF NewRead, ChainKept, Allocated, proxyVars, nodeVars, historyVars, heapVars
<1>3. Role(t)'
  BY <1>0, <1>1 DEF Role, At, Setting, Dropping, Seeks, Gets, Adds
<1>4. Caller(t)'
  BY <1>0, <1>1 DEF Caller, At, Setting, Dropping, Seeks, Gets, Adds
<1>5. Holds(t)
  BY <1>0, <1>1, <1>2 DEF Holds, Looking, Frees, Reclaiming, Setting
<1>6. Kept(t) /\ Walk(t)' /\ Touch(t)'
  BY <1>3, <1>5, HoldsStep
<1>7. Stage(t)'
  BY <1>0, <1>1, <1>2 DEF Stage, Setting, Dropping, ChainKept
<1>8. Pend(t)'
  BY <1>1, <1>2 DEF Pend, ChainKept
<1>9. Reclaim(t)'
  BY <1>1 DEF Reclaim, Frees, Reclaiming
<1>10. Pop(t)'
  <2>1. free[t] \in Nodes /\ (Stayed(t) => pos[free[t]] < pos[freeTail])
    BY <1>0, <1>1 DEF Pop
  <2>2. Stayed(t) => nxt'[t] = next[free[t]]
    BY <1>0, <1>1, <1>2, <2>1 DEF Allocated, Stayed, NextOf
  <2> QED
    BY <1>1, <1>2, <2>1, <2>2 DEF Pop, Stayed, ChainKept
<1>11. Plain(t)
  BY <1>0, <1>1 DEF Plain, SameHeap, NewRead, Owns, Ready, IsBetween, heapVars, proxyVars, nodeVars, historyVars, At, Setting, Dropping, Seeks, Gets, Adds
<1>12. Owners' /\ Allocated' /\ Accounted'
  BY <1>2, <1>11, PlainStep
<1> QED
  BY <1>3, <1>4, <1>6, <1>7, <1>8, <1>9, <1>10, <1>12, KeptStep DEF Mine

LEMMA NewCasKept ==
    ASSUME TypeOK, TypeOK', IInv, NEW t \in Threads, Others(t), NewCas(t) /\ freeHead # free[t]
    PROVE  IInv'
<1> USE Types, TypesGive, Bounds
<1>0. /\ ClientType /\ LocalType /\ Places /\ Links /\ Sequences /\ Allocated
      /\ Role(t) /\ Caller(t) /\ Stage(t) /\ Walk(t) /\ Pend(t) /\ Touch(t)
      /\ Reclaim(t) /\ Pop(t) /\ numNodes \in 0..MaxNodes
  BY DEF TypeOK, IInv, Accounted, NodeAccounting
<1>1. /\ pc[t] = "n_cas"
      /\ pc'[t] = "n_tail"
      /\ free'[t] = freeHead /\ nxt'[t] = NULL /\ ret'[t] = ret[t] /\ ref'[t] = ref[t]
      /\ use'[t] = use[t] /\ old'[t] = old[t] /\ seq'[t] = seq[t] /\ cur'[t] = cur[t]
      /\ lat'[t] = lat[t] /\ own'[t] = own[t] /\ drop'[t] = drop[t] /\ node'[t] = node[t]
      /\ arg'[t] = arg[t]
  BY <1>0 DEF NewCas, Goto, clientVars, localVars, getVars, newVars, ClientType, LocalType
<1>2. ChainKept /\ alive
  BY <1>0, <1>1 DEF NewCas, ChainKept, Allocated, proxyVars, nodeVars, historyVars, heapVars
<1>3. Role(t)'
  BY <1>0, <1>1 DEF Role, At, Setting, Dropping, Seeks, Gets, Adds
<1>4. Caller(t)'
  BY <1>0, <1>1 DEF Caller, At, Setting, Dropping, Seeks, Gets, Adds
<1>5. Holds(t)
  BY <1>0, <1>1, <1>2 DEF Holds, Looking, Frees, Reclaiming, Setting
<1>6. Kept(t) /\ Walk(t)' /\ Touch(t)'
  BY <1>3, <1>5, HoldsStep
<1>7. Stage(t)'
  BY <1>0, <1>1, <1>2 DEF Stage, Setting, Dropping, ChainKept
<1>8. Pend(t)'
  BY <1>1, <1>2 DEF Pend, ChainKept
<1>9. Reclaim(t)'
  BY <1>1 DEF Reclaim, Frees, Reclaiming
<1>10. Pop(t)'
  BY <1>0, <1>1, <1>2 DEF Pop, Stayed, Places, ChainKept
<1>11. Plain(t)
  BY <1>0, <1>1 DEF Plain, SameHeap, NewCas, Owns, Ready, IsBetween, heapVars, proxyVars, nodeVars, historyVars, At, Setting, Dropping, Seeks, Gets, Adds
<1>12. Owners' /\ Allocated' /\ Accounted'
  BY <1>2, <1>11, PlainStep
<1> QED
  BY <1>3, <1>4, <1>6, <1>7, <1>8, <1>9, <1>10, <1>12, KeptStep DEF Mine

LEMMA AddTryKept ==
    ASSUME TypeOK, TypeOK', IInv, NEW t \in Threads, Others(t), AddTry(t) /\ Near(lat[t]) /\ next[cur[t]] # NULL
    PROVE  IInv'
<1> USE Types, TypesGive, Bounds
<1>0. /\ ClientType /\ LocalType /\ Places /\ Links /\ Sequences /\ Allocated
      /\ Role(t) /\ Caller(t) /\ Stage(t) /\ Walk(t) /\ Pend(t) /\ Touch(t)
      /\ Reclaim(t) /\ Pop(t) /\ numNodes \in 0..MaxNodes
  BY DEF TypeOK, IInv, Accounted, NodeAccounting
<1>1. /\ pc[t] = "a_try"
      /\ pc'[t] = "s_load"
      /\ next[cur[t]] # NULL
      /\ ret'[t] = "a_more" /\ ref'[t] = ref[t] /\ use'[t] = use[t] /\ old'[t] = old[t]
      /\ seq'[t] = seq[t] /\ cur'[t] = cur[t] /\ lat'[t] = lat[t] /\ own'[t] = own[t]
      /\ drop'[t] = drop[t] /\ nxt'[t] = nxt[t] /\ free'[t] = free[t] /\ node'[t] = node[t]
      /\ arg'[t] = arg[t]
  BY <1>0 DEF AddTry, Goto, clientVars, localVars, getVars, newVars, ClientType, LocalType
<1>2. ChainKept /\ alive
  BY <1>0, <1>1 DEF AddTry, ChainKept, Allocated, proxyVars, nodeVars, historyVars, heapVars
<1>3. Role(t)'
  BY <1>0, <1>1 DEF Role, At, Setting, Dropping, Seeks, Gets, Adds
<1>4. Caller(t)'
  BY <1>0, <1>1 DEF Caller, At, Setting, Dropping, Seeks, Gets, Adds
<1>5. Holds(t)
  BY <1>0, <1>1, <1>2 DEF Holds, Looking, Frees, Reclaiming, Setting
<1>6. Kept(t) /\ Walk(t)' /\ Touch(t)'
  BY <1>3, <1>5, HoldsStep
<1>7. Stage(t)'
  <2>1. /\ cur[t] \in Nodes /\ pos[cur[t]] > 0
    <3>1. cur[t] \in Nodes /\ Looking(t)
      BY <1>0, <1>1, Controls DEF Looking, Adds
    <3>2. Real(cur[t])
      BY <1>0, <3>1 DEF Walk
    <3> QED
      BY <1>0, <3>1, <3>2, Consts, ChainFacts
  <2> QED
    BY <1>0, <1>1, <1>2, <2>1 DEF Stage, Setting, Dropping, ChainKept
<1>8. Pend(t)'
  BY <1>1, <1>2 DEF Pend, ChainKept
<1>9. Reclaim(t)'
  BY <1>1 DEF Reclaim, Frees, Reclaiming
<1>10. Pop(t)'
  BY <1>1 DEF Pop
<1>11. Plain(t)
  BY <1>0, <1>1 DEF Plain, SameHeap, AddTry, Owns, Ready, IsBetween, heapVars, proxyVars, nodeVars, historyVars, At, Setting, Dropping, Seeks, Gets, Adds
<1>12. Owners' /\ Allocated' /\ Accounted'
  BY <1>2, <1>11, PlainStep
<1> QED
  BY <1>3, <1>4, <1>6, <1>7, <1>8, <1>9, <1>10, <1>12, KeptStep DEF Mine

LEMMA TrimFreeKept ==
    ASSUME TypeOK, TypeOK', IInv, NEW t \in Threads, Others(t), TrimFree(t)
    PROVE  IInv'
<1> USE Types, TypesGive, Bounds
<1>0. /\ ClientType /\ LocalType /\ Places /\ Links /\ Sequences /\ Allocated
      /\ Role(t) /\ Caller(t) /\ Stage(t) /\ Walk(t) /\ Pend(t) /\ Touch(t)
      /\ Reclaim(t) /\ Pop(t) /\ numNodes \in 0..MaxNodes
  BY DEF TypeOK, IInv, Accounted, NodeAccounting
<1>1. /\ pc[t] = "t_free"
      /\ pc'[t] = "t_dec"
      /\ node'[t] = NULL /\ ret'[t] = ret[t] /\ ref'[t] = ref[t] /\ use'[t] = use[t]
      /\ old'[t] = old[t] /\ seq'[t] = seq[t] /\ cur'[t] = cur[t] /\ lat'[t] = lat[t]
      /\ own'[t] = own[t] /\ drop'[t] = drop[t] /\ nxt'[t] = nxt[t] /\ free'[t] = free[t]
      /\ arg'[t] = arg[t]
  BY <1>0 DEF TrimFree, Goto, clientVars, localVars, getVars, newVars, ClientType, LocalType
<1>2. ChainKept /\ alive
  BY <1>0, <1>1 DEF TrimFree, ChainKept, Allocated, proxyVars, nodeVars, historyVars, heapVars
<1>3. Role(t)'
  BY <1>0, <1>1 DEF Role, At, Setting, Dropping, Seeks, Gets, Adds
<1>4. Caller(t)'
  BY <1>0, <1>1 DEF Caller, At, Setting, Dropping, Seeks, Gets, Adds
<1>5. Holds(t)
  BY <1>0, <1>1, <1>2 DEF Holds, Looking, Frees, Reclaiming, Setting
<1>6. Kept(t) /\ Walk(t)' /\ Touch(t)'
  BY <1>3, <1>5, HoldsStep
<1>7. Stage(t)'
  BY <1>0, <1>1, <1>2 DEF Stage, Setting, Dropping, ChainKept
<1>8. Pend(t)'
  BY <1>1, <1>2 DEF Pend, ChainKept
<1>9. Reclaim(t)'
  BY <1>1 DEF Reclaim, Frees, Reclaiming
<1>10. Pop(t)'
  BY <1>1 DEF Pop
<1>11. Owners'
  <2>1. Owners /\ Owns(t) /\ ~Owns(t)' /\ node[t] \in Nodes
    <3>1. At(t) = "t_free" /\ At(t)' = "t_dec"
      BY <1>1 DEF At, Setting, Dropping
    <3> QED
      BY <1>0, <1>1, <3>1 DEF IInv, Owns, Caller
  <2>2. ASSUME NEW u \in Threads \ {t}
        PROVE  Owner(u)'
    <3>1. Owner(u) /\ (Owns(u) => node[u] \in Nodes /\ node[u] # node[t]) /\ (Ready(u) => Owns(u))
      BY <2>1 DEF Owners, Owns, Ready
    <3>2. /\ (Owns(u)' <=> Owns(u)) /\ (Ready(u)' <=> Ready(u))
          /\ node'[u] = node[u] /\ arg'[u] = arg[u]
      BY OthersControl DEF Others
    <3>3. heap' = heap \ {node[t]} /\ UNCHANGED nodeVars /\ pos' = pos
      BY DEF TrimFree, historyVars
    <3> QED
      BY <3>1, <3>2, <3>3 DEF Owner, nodeVars
  <2>3. Owner(t)'
    BY <2>1 DEF Owner, Ready
  <2> QED
    BY <2>1, <2>2, <2>3, OthersControl DEF Owners, Others
<1>12. Allocated' /\ Accounted'
  <2>1. Owners /\ Owns(t) /\ ~Owns(t)' /\ node[t] \in Nodes
    <3>1. At(t) = "t_free" /\ At(t)' = "t_dec"
      BY <1>1 DEF At, Setting, Dropping
    <3> QED
      BY <1>0, <1>1, <3>1 DEF IInv, Owns, Caller
  <2>2. /\ heap' = heap \ {node[t]} /\ pos' = pos /\ alive' = alive /\ alive
        /\ numNodes' = numNodes /\ failed' = failed
    BY <1>2 DEF TrimFree, historyVars, proxyVars
  <2>3. node[t] \in heap /\ pos[node[t]] = 0
    BY <2>1 DEF Owners, Owner
  <2>4. Allocated'
    BY <1>0, <2>2, <2>3 DEF Allocated
  <2>5. NodeAccounting'
    <3>1. Cardinality(heap) + failed = numNodes + MaxLatency + 1 - Cardinality(Between)
      BY <2>2 DEF IInv, Accounted, NodeAccounting, Between
    <3>2. /\ Cardinality(Between) \in Nat
          /\ Cardinality(Between)' = Cardinality(Between) + 1
      <4>1. IsBetween(t) = 0 /\ IsBetween(t)' = 1
        BY <1>1 DEF IsBetween
      <4> QED
        BY <4>1, BetweenStep
    <3>3. Cardinality(heap') = Cardinality(heap) - 1 /\ Cardinality(heap) \in Nat
      <4>1. IsFiniteSet(heap)
        BY Consts, FS_Subset DEF TypeOK, HeapType
      <4> QED
        BY <2>2, <2>3, <4>1, FS_RemoveElement, FS_CardinalityType
    <3>4. failed \in Nat /\ numNodes \in Nat /\ MaxLatency \in Nat
      BY Consts DEF TypeOK, HistoryType, ProxyType
    <3>5. Cardinality(heap') + failed' = numNodes' + MaxLatency + 1 - Cardinality(Between)'
      BY <2>2, <3>1, <3>2, <3>3, <3>4
    <3> QED
      BY <1>0, <2>2, <3>5 DEF NodeAccounting, Between
  <2>6. ASSUME NEW n \in heap', pos'[n] = 0
        PROVE  \E u \in Threads : Owns(u)' /\ node'[u] = n
    <3>1. PICK u \in Threads : Owns(u) /\ node[u] = n
      BY <2>2, <2>6 DEF IInv, Accounted, TypeOK, HeapType
    <3>2. u # t
      BY <2>2, <2>6, <3>1
    <3> QED
      BY <3>1, <3>2, OthersControl DEF Others
  <2>7. Accounted'
    BY <2>2, <2>5, <2>6 DEF Accounted, TypeOK, HeapType
  <2> QED
    BY <2>4, <2>7
<1> QED
  BY <1>3, <1>4, <1>6, <1>7, <1>8, <1>9, <1>10, <1>11, <1>12, KeptStep DEF Mine

LEMMA TrimDecKept ==
    ASSUME TypeOK, TypeOK', IInv, NEW t \in Threads, Others(t), TrimDec(t)
    PROVE  IInv'
<1> USE Types, TypesGive, Bounds
<1>0. /\ ClientType /\ LocalType /\ Places /\ Links /\ Sequences /\ Allocated
      /\ Role(t) /\ Caller(t) /\ Stage(t) /\ Walk(t) /\ Pend(t) /\ Touch(t)
      /\ Reclaim(t) /\ Pop(t) /\ numNodes \in 0..MaxNodes
  BY DEF TypeOK, IInv, Accounted, NodeAccounting
<1>1. /\ pc[t] = "t_dec"
      /\ pc'[t] \in {"g_seq", "idle"}
      /\ ret'[t] = ret[t] /\ ref'[t] = ref[t] /\ use'[t] = use[t] /\ old'[t] = old[t]
      /\ seq'[t] = seq[t] /\ cur'[t] = cur[t] /\ lat'[t] = lat[t] /\ own'[t] = own[t]
      /\ drop'[t] = drop[t] /\ nxt'[t] = nxt[t] /\ free'[t] = free[t] /\ node'[t] = node[t]
      /\ arg'[t] = arg[t]
  BY <1>0 DEF TrimDec, Goto, clientVars, localVars, getVars, newVars, ClientType, LocalType, TrimLoop
<1>2. ChainKept /\ alive
  BY <1>0, <1>1 DEF TrimDec, ChainKept, Allocated, proxyVars, nodeVars, historyVars, heapVars
<1>3. Role(t)'
  BY <1>0, <1>1 DEF Role, At, Setting, Dropping, Seeks, Gets, Adds
<1>4. Caller(t)'
  BY <1>0, <1>1 DEF Caller, At, Setting, Dropping, Seeks, Gets, Adds
<1>5. Holds(t)
  BY <1>0, <1>1, <1>2 DEF Holds, Looking, Frees, Reclaiming, Setting
<1>6. Kept(t) /\ Walk(t)' /\ Touch(t)'
  BY <1>3, <1>5, HoldsStep
<1>7. Stage(t)'
  BY <1>0, <1>1, <1>2 DEF Stage, Setting, Dropping, ChainKept
<1>8. Pend(t)'
  BY <1>1, <1>2 DEF Pend, ChainKept
<1>9. Reclaim(t)'
  BY <1>1 DEF Reclaim, Frees, Reclaiming
<1>10. Pop(t)'
  BY <1>1 DEF Pop
<1>11. Plain(t)
  <2>1. numNodes > 0
    BY <1>1, Uncounted DEF IInv
  <2>2. /\ numNodes' = numNodes - 1 /\ failed' = failed /\ heap' = heap /\ alive' = alive
        /\ pos' = pos /\ UNCHANGED nodeVars
    BY DEF TrimDec, Decrement, heapVars, historyVars
  <2>3. numNodes' \in 0..MaxNodes
    BY <1>0, <2>1, <2>2
  <2>4. IsBetween(t) = 1 /\ IsBetween(t)' = 0
    BY <1>1 DEF IsBetween
  <2>5. numNodes' - IsBetween(t)' - failed' = numNodes - IsBetween(t) - failed
    BY <2>2, <2>4 DEF TypeOK, HistoryType
  <2> QED
    BY <1>0, <1>1, <2>2, <2>3, <2>5 DEF Plain, SameHeap, Caller, Owns, Ready, nodeVars, At, Setting, Dropping, Seeks, Adds
<1>12. Owners' /\ Allocated' /\ Accounted'
  BY <1>2, <1>11, PlainStep
<1> QED
  BY <1>3, <1>4, <1>6, <1>7, <1>8, <1>9, <1>10, <1>12, KeptStep DEF Mine

LEMMA NewCountKept ==
    ASSUME TypeOK, TypeOK', IInv, NEW t \in Threads, Others(t), NewCount(t) /\ Room(t)
    PROVE  IInv'
<1> USE Types, TypesGive, Bounds
<1>0. /\ ClientType /\ LocalType /\ Places /\ Links /\ Sequences /\ Allocated
      /\ Role(t) /\ Caller(t) /\ Stage(t) /\ Walk(t) /\ Pend(t) /\ Touch(t)
      /\ Reclaim(t) /\ Pop(t) /\ numNodes \in 0..MaxNodes
  BY DEF TypeOK, IInv, Accounted, NodeAccounting
<1>1. /\ pc[t] = "n_num"
      /\ pc'[t] = "n_alloc"
      /\ ret'[t] = ret[t] /\ ref'[t] = ref[t] /\ use'[t] = use[t] /\ old'[t] = old[t]
      /\ seq'[t] = seq[t] /\ cur'[t] = cur[t] /\ lat'[t] = lat[t] /\ own'[t] = own[t]
      /\ drop'[t] = drop[t] /\ nxt'[t] = nxt[t] /\ free'[t] = free[t] /\ node'[t] = node[t]
      /\ arg'[t] = arg[t]
  BY <1>0 DEF NewCount, Goto, clientVars, localVars, getVars, newVars, ClientType, LocalType
<1>2. ChainKept /\ alive
  BY <1>0, <1>1 DEF NewCount, ChainKept, Allocated, proxyVars, nodeVars, historyVars, heapVars
<1>3. Role(t)'
  BY <1>0, <1>1 DEF Role, At, Setting, Dropping, Seeks, Gets, Adds
<1>4. Caller(t)'
  BY <1>0, <1>1 DEF Caller, At, Setting, Dropping, Seeks, Gets, Adds
<1>5. Holds(t)
  BY <1>0, <1>1, <1>2 DEF Holds, Looking, Frees, Reclaiming, Setting
<1>6. Kept(t) /\ Walk(t)' /\ Touch(t)'
  BY <1>3, <1>5, HoldsStep
<1>7. Stage(t)'
  BY <1>0, <1>1, <1>2 DEF Stage, Setting, Dropping, ChainKept
<1>8. Pend(t)'
  BY <1>1, <1>2 DEF Pend, ChainKept
<1>9. Reclaim(t)'
  BY <1>1 DEF Reclaim, Frees, Reclaiming
<1>10. Pop(t)'
  BY <1>1 DEF Pop
<1>11. Plain(t)
  <2>2. /\ numNodes' = numNodes + 1 /\ failed' = failed /\ heap' = heap /\ alive' = alive
        /\ pos' = pos /\ UNCHANGED nodeVars /\ numNodes < MaxNodes
    BY <1>1 DEF NewCount, Room, heapVars, historyVars, Goto, DropOwn
  <2>3. numNodes' \in 0..MaxNodes
    BY <1>0, <2>2, RcpcAssumption
  <2>4. IsBetween(t) = 0 /\ IsBetween(t)' = 1
    BY <1>1 DEF IsBetween
  <2>5. numNodes' - IsBetween(t)' - failed' = numNodes - IsBetween(t) - failed
    BY <2>2, <2>4 DEF TypeOK, HistoryType
  <2> QED
    BY <1>0, <1>1, <2>2, <2>3, <2>5 DEF Plain, SameHeap, Caller, Owns, Ready, nodeVars, At, Setting, Dropping, Seeks, Adds
<1>12. Owners' /\ Allocated' /\ Accounted'
  BY <1>2, <1>11, PlainStep
<1> QED
  BY <1>3, <1>4, <1>6, <1>7, <1>8, <1>9, <1>10, <1>12, KeptStep DEF Mine

LEMMA BackoffKept ==
    ASSUME TypeOK, TypeOK', IInv, NEW t \in Threads, Others(t), Backoff(t)
    PROVE  IInv'
<1> USE Types, TypesGive, Bounds
<1>0. /\ ClientType /\ LocalType /\ Places /\ Links /\ Sequences /\ Allocated
      /\ Role(t) /\ Caller(t) /\ Stage(t) /\ Walk(t) /\ Pend(t) /\ Touch(t)
      /\ Reclaim(t) /\ Pop(t) /\ numNodes \in 0..MaxNodes
  BY DEF TypeOK, IInv, Accounted, NodeAccounting
<1>1. /\ pc[t] = "backoff"
      /\ pc'[t] = "g_seq"
      /\ ret'[t] = ret[t] /\ ref'[t] = ref[t] /\ use'[t] = use[t] /\ old'[t] = old[t]
      /\ seq'[t] = seq[t] /\ cur'[t] = cur[t] /\ lat'[t] = lat[t] /\ own'[t] = own[t]
      /\ drop'[t] = drop[t] /\ nxt'[t] = nxt[t] /\ free'[t] = free[t] /\ node'[t] = node[t]
      /\ arg'[t] = arg[t]
  BY <1>0 DEF Backoff, Goto, clientVars, localVars, getVars, newVars, ClientType, LocalType
<1>2. ChainKept /\ alive
  BY <1>0, <1>1 DEF Backoff, ChainKept, Allocated, proxyVars, nodeVars, historyVars, heapVars
<1>3. Role(t)'
  BY <1>0, <1>1 DEF Role, At, Setting, Dropping, Seeks, Gets, Adds
<1>4. Caller(t)'
  BY <1>0, <1>1 DEF Caller, At, Setting, Dropping, Seeks, Gets, Adds
<1>5. Holds(t)
  BY <1>0, <1>1, <1>2 DEF Holds, Looking, Frees, Reclaiming, Setting
<1>6. Kept(t) /\ Walk(t)' /\ Touch(t)'
  BY <1>3, <1>5, HoldsStep
<1>7. Stage(t)'
  BY <1>0, <1>1, <1>2 DEF Stage, Setting, Dropping, ChainKept
<1>8. Pend(t)'
  BY <1>1, <1>2 DEF Pend, ChainKept
<1>9. Reclaim(t)'
  BY <1>1 DEF Reclaim, Frees, Reclaiming
<1>10. Pop(t)'
  BY <1>1 DEF Pop
<1>11. Plain(t)
  BY <1>0, <1>1 DEF Plain, SameHeap, Backoff, Owns, Ready, IsBetween, heapVars, proxyVars, nodeVars, historyVars, At, Setting, Dropping, Seeks, Gets, Adds
<1>12. Owners' /\ Allocated' /\ Accounted'
  BY <1>2, <1>11, PlainStep
<1> QED
  BY <1>3, <1>4, <1>6, <1>7, <1>8, <1>9, <1>10, <1>12, KeptStep DEF Mine

LEMMA GetTestKept ==
    ASSUME TypeOK, TypeOK', IInv, NEW t \in Threads, Others(t), GetTest(t) /\ next[cur[t]] # NULL
    PROVE  IInv'
<1> USE Types, TypesGive, Bounds
<1>0. /\ ClientType /\ LocalType /\ Places /\ Links /\ Sequences /\ Allocated
      /\ Role(t) /\ Caller(t) /\ Stage(t) /\ Walk(t) /\ Pend(t) /\ Touch(t)
      /\ Reclaim(t) /\ Pop(t) /\ numNodes \in 0..MaxNodes
  BY DEF TypeOK, IInv, Accounted, NodeAccounting
<1>1. /\ pc[t] = "g_test"
      /\ pc'[t] = "s_load"
      /\ next[cur[t]] # NULL
      /\ ret'[t] = "g_cmp" /\ ref'[t] = ref[t] /\ use'[t] = use[t] /\ old'[t] = old[t]
      /\ seq'[t] = seq[t] /\ cur'[t] = cur[t] /\ lat'[t] = lat[t] /\ own'[t] = own[t]
      /\ drop'[t] = drop[t] /\ nxt'[t] = nxt[t] /\ free'[t] = free[t] /\ node'[t] = node[t]
      /\ arg'[t] = arg[t]
  BY <1>0 DEF GetTest, Goto, clientVars, localVars, getVars, newVars, ClientType, LocalType
<1>2. ChainKept /\ alive
  BY <1>0, <1>1 DEF GetTest, ChainKept, Allocated, proxyVars, nodeVars, historyVars, heapVars
<1>3. Role(t)'
  BY <1>0, <1>1 DEF Role, At, Setting, Dropping, Seeks, Gets, Adds
<1>4. Caller(t)'
  BY <1>0, <1>1 DEF Caller, At, Setting, Dropping, Seeks, Gets, Adds
<1>5. Holds(t)
  BY <1>0, <1>1, <1>2 DEF Holds, Looking, Frees, Reclaiming, Setting
<1>6. Kept(t) /\ Walk(t)' /\ Touch(t)'
  BY <1>3, <1>5, HoldsStep
<1>7. Stage(t)'
  <2>1. /\ cur[t] \in Nodes /\ pos[cur[t]] > 0
    <3>1. cur[t] \in Nodes /\ Looking(t)
      BY <1>0, <1>1, Controls DEF Looking, Seeks
    <3>2. Real(cur[t])
      BY <1>0, <3>1 DEF Walk
    <3> QED
      BY <1>0, <3>1, <3>2, Consts, ChainFacts
  <2> QED
    BY <1>0, <1>1, <1>2, <2>1 DEF Stage, Setting, Dropping, ChainKept
<1>8. Pend(t)'
  BY <1>1, <1>2 DEF Pend, ChainKept
<1>9. Reclaim(t)'
  BY <1>1 DEF Reclaim, Frees, Reclaiming
<1>10. Pop(t)'
  BY <1>1 DEF Pop
<1>11. Plain(t)
  BY <1>0, <1>1 DEF Plain, SameHeap, GetTest, Owns, Ready, IsBetween, heapVars, proxyVars, nodeVars, historyVars, At, Setting, Dropping, Seeks, Gets, Adds
<1>12. Owners' /\ Allocated' /\ Accounted'
  BY <1>2, <1>11, PlainStep
<1> QED
  BY <1>3, <1>4, <1>6, <1>7, <1>8, <1>9, <1>10, <1>12, KeptStep DEF Mine

LEMMA SetPrevKept ==
    ASSUME TypeOK, TypeOK', IInv, NEW t \in Threads, Others(t), SetPrev(t) /\ prevSeq[next[cur[t]]] = nodeSeq[cur[t]]
    PROVE  IInv'
<1> USE Types, TypesGive, Bounds
<1>0. /\ ClientType /\ LocalType /\ Places /\ Links /\ Sequences /\ Allocated
      /\ Role(t) /\ Caller(t) /\ Stage(t) /\ Walk(t) /\ Pend(t) /\ Touch(t)
      /\ Reclaim(t) /\ Pop(t) /\ numNodes \in 0..MaxNodes
  BY DEF TypeOK, IInv, Accounted, NodeAccounting
<1>1. /\ pc[t] = "s_prev"
      /\ pc'[t] = "s_count"
      /\ ret'[t] = ret[t] /\ ref'[t] = ref[t] /\ use'[t] = use[t] /\ old'[t] = old[t]
      /\ seq'[t] = seq[t] /\ cur'[t] = cur[t] /\ lat'[t] = lat[t] /\ own'[t] = own[t]
      /\ drop'[t] = drop[t] /\ nxt'[t] = nxt[t] /\ free'[t] = free[t] /\ node'[t] = node[t]
      /\ arg'[t] = arg[t]
  BY <1>0 DEF SetPrev, Goto, clientVars, localVars, getVars, newVars, ClientType, LocalType
<1>2. ChainKept /\ alive
  BY <1>0, <1>1 DEF SetPrev, ChainKept, Allocated, proxyVars, nodeVars, historyVars, heapVars, NodeType
<1>3. Role(t)'
  BY <1>0, <1>1 DEF Role, At, Setting, Dropping, Seeks, Gets, Adds
<1>4. Caller(t)'
  BY <1>0, <1>1 DEF Caller, At, Setting, Dropping, Seeks, Gets, Adds
<1>5. Holds(t)
  BY <1>0, <1>1, <1>2 DEF Holds, Looking, Frees, Reclaiming, Setting
<1>6. Kept(t) /\ Walk(t)' /\ Touch(t)'
  BY <1>3, <1>5, HoldsStep
<1>7. Stage(t)'
  <2>a. Setting(t) /\ Looking(t)
    <3>1. Setting(t)
      BY <1>1 DEF Setting
    <3> QED
      BY <1>0, <3>1, Controls
  <2>1. /\ cur[t] \in Nodes /\ pos[cur[t]] > 0 /\ pos[cur[t]] <= pos[tail]
        /\ next[cur[t]] \in Nodes /\ pos[next[cur[t]]] > 0 /\ tail \in Nodes
        /\ pos[cur[t]] = pos[tail] => cur[t] = tail
    <3>1. cur[t] \in Nodes /\ Real(cur[t]) /\ pos[cur[t]] <= pos[tail] /\ next[cur[t]] \in Nodes
      BY <1>0, <2>a, ThreadFacts
    <3> QED
      BY <1>0, <3>1, Consts, ChainFacts
  <2>2. nodeSeq[cur[t]] # 0 /\ Passed(cur[t])
    BY <1>0, <1>1 DEF Stage, Passed
  <2>3. Passed(cur[t])'
    BY <1>1, <1>2, <2>1, <2>2 DEF Passed, ChainKept
  <2> QED
    BY <1>0, <1>1, <1>2, <2>1, <2>2, <2>3 DEF Stage, Setting, Dropping, ChainKept
<1>8. Pend(t)'
  BY <1>1, <1>2 DEF Pend, ChainKept
<1>9. Reclaim(t)'
  BY <1>1 DEF Reclaim, Frees, Reclaiming
<1>10. Pop(t)'
  BY <1>1 DEF Pop
<1>11. Plain(t)
  BY <1>0, <1>1 DEF Plain, SameHeap, SetPrev, Owns, Ready, IsBetween, heapVars, proxyVars, nodeVars, historyVars, At, Setting, Dropping, Seeks, Gets, Adds
<1>12. Owners' /\ Allocated' /\ Accounted'
  BY <1>2, <1>11, PlainStep
<1> QED
  BY <1>3, <1>4, <1>6, <1>7, <1>8, <1>9, <1>10, <1>12, KeptStep DEF Mine

LEMMA NewAllocKept ==
    ASSUME TypeOK, TypeOK', IInv, NEW t \in Threads, Others(t), NewAlloc(t) /\ failed' = failed
    PROVE  IInv'
<1> USE Types, TypesGive, Bounds
<1>0. /\ ClientType /\ LocalType /\ Places /\ Links /\ Sequences /\ Allocated
      /\ Role(t) /\ Caller(t) /\ Stage(t) /\ Walk(t) /\ Pend(t) /\ Touch(t)
      /\ Reclaim(t) /\ Pop(t) /\ numNodes \in 0..MaxNodes
  BY DEF TypeOK, IInv, Accounted, NodeAccounting
<1>1. /\ pc[t] = "n_alloc"
      /\ pc'[t] = "n_init"
      /\ failed' = failed /\ node'[t] \in Nodes \ heap /\ heap' = heap \union {node'[t]}
      /\ ret'[t] = ret[t] /\ ref'[t] = ref[t] /\ use'[t] = use[t] /\ old'[t] = old[t]
      /\ seq'[t] = seq[t] /\ cur'[t] = cur[t] /\ lat'[t] = lat[t] /\ own'[t] = own[t]
      /\ drop'[t] = drop[t] /\ nxt'[t] = nxt[t] /\ free'[t] = free[t] /\ arg'[t] = arg[t]
  <2>1. ~(failed' = failed + 1)
    BY DEF TypeOK, HistoryType
  <2> QED
    BY <1>0, <2>1 DEF NewAlloc, Goto, clientVars, localVars, getVars, newVars, ClientType, LocalType
<1>2. ChainKept /\ alive
  BY <1>0, <1>1 DEF NewAlloc, ChainKept, Allocated, proxyVars, nodeVars, historyVars, heapVars
<1>3. Role(t)'
  BY <1>0, <1>1 DEF Role, At, Setting, Dropping, Seeks, Gets, Adds
<1>4. Caller(t)'
  BY <1>0, <1>1 DEF Caller, At, Setting, Dropping, Seeks, Gets, Adds
<1>5. Holds(t)
  BY <1>0, <1>1, <1>2 DEF Holds, Looking, Frees, Reclaiming, Setting
<1>6. Kept(t) /\ Walk(t)' /\ Touch(t)'
  BY <1>3, <1>5, HoldsStep
<1>7. Stage(t)'
  BY <1>0, <1>1, <1>2 DEF Stage, Setting, Dropping, ChainKept
<1>8. Pend(t)'
  BY <1>1, <1>2 DEF Pend, ChainKept
<1>9. Reclaim(t)'
  BY <1>1 DEF Reclaim, Frees, Reclaiming
<1>10. Pop(t)'
  BY <1>1 DEF Pop
<1>11. Owners'
  <2>1. Owners /\ heap' = heap \union {node'[t]} /\ pos' = pos /\ UNCHANGED nodeVars
    BY <1>1 DEF NewAlloc, IInv, historyVars
  <2>2. ~Ready(t)'
    BY <1>1 DEF Ready, At, Setting, Dropping
  <2>3. pos[node'[t]] = 0
    BY <1>0, <1>1, <1>2 DEF Allocated
  <2>4. Owner(t)'
    BY <1>1, <2>1, <2>2, <2>3 DEF Owner
  <2> QED
    BY <1>1, <2>1, <2>4, OwnersStep DEF nodeVars
<1>12. Allocated' /\ Accounted'
  <2>2. /\ heap' = heap \union {node'[t]} /\ pos' = pos /\ alive' = alive /\ alive
        /\ numNodes' = numNodes /\ failed' = failed
    BY <1>1, <1>2 DEF NewAlloc, proxyVars
  <2>4. Allocated'
    BY <1>0, <2>2 DEF Allocated
  <2>5. NodeAccounting'
    <3>1. Cardinality(heap) + failed = numNodes + MaxLatency + 1 - Cardinality(Between)
      BY <2>2 DEF IInv, Accounted, NodeAccounting, Between
    <3>2. /\ Cardinality(Between) \in Nat
          /\ Cardinality(Between)' = Cardinality(Between) - 1
      <4>1. IsBetween(t) = 1 /\ IsBetween(t)' = 0
        BY <1>1 DEF IsBetween
      <4> QED
        BY <4>1, BetweenStep
    <3>3. Cardinality(heap') = Cardinality(heap) + 1 /\ Cardinality(heap) \in Nat
      <4>1. IsFiniteSet(heap)
        BY Consts, FS_Subset DEF TypeOK, HeapType
      <4> QED
        BY <1>1, <2>2, <4>1, FS_AddElement, FS_CardinalityType, ZenonT(40)
    <3>4. failed \in Nat /\ numNodes \in Nat /\ MaxLatency \in Nat
      BY Consts DEF TypeOK, HistoryType, ProxyType
    <3>5. Cardinality(heap') + failed' = numNodes' + MaxLatency + 1 - Cardinality(Between)'
      BY <2>2, <3>1, <3>2, <3>3, <3>4
    <3> QED
      BY <1>0, <2>2, <3>5 DEF NodeAccounting, Between
  <2>6. ASSUME NEW n \in heap', pos'[n] = 0
        PROVE  \E u \in Threads : Owns(u)' /\ node'[u] = n
    <3>a. ~Owns(t) /\ Owns(t)'
      BY <1>0, <1>1, Types DEF Owns, Caller, At, Setting, Dropping, Seeks, Adds
    <3>1. CASE n = node'[t]
      BY <3>1, <3>a
    <3>2. CASE n # node'[t]
      <4>1. PICK u \in Threads : Owns(u) /\ node[u] = n
        BY <2>2, <2>6, <3>2 DEF IInv, Accounted, TypeOK, HeapType
      <4>2. u # t
        BY <3>a, <4>1
      <4> QED
        BY <4>1, <4>2, OthersControl DEF Others
    <3> QED
      BY <3>1, <3>2
  <2>7. Accounted'
    BY <2>2, <2>5, <2>6 DEF Accounted, TypeOK, HeapType
  <2> QED
    BY <2>4, <2>7
<1> QED
  BY <1>3, <1>4, <1>6, <1>7, <1>8, <1>9, <1>10, <1>11, <1>12, KeptStep DEF Mine

LEMMA NewInitKept ==
    ASSUME TypeOK, TypeOK', IInv, NEW t \in Threads, Others(t), NewInit(t) /\ Alloc(t)
    PROVE  IInv'
<1> USE Types, TypesGive, Bounds
<1>0. /\ ClientType /\ LocalType /\ Places /\ Links /\ Sequences /\ Allocated
      /\ Role(t) /\ Caller(t) /\ Stage(t) /\ Walk(t) /\ Pend(t) /\ Touch(t)
      /\ Reclaim(t) /\ Pop(t) /\ numNodes \in 0..MaxNodes
  BY DEF TypeOK, IInv, Accounted, NodeAccounting
<1>1. /\ pc[t] = "n_init"
      /\ pc'[t] = "a_try"
      /\ Alloc(t)
      /\ ret'[t] = ret[t] /\ ref'[t] = ref[t] /\ use'[t] = use[t] /\ old'[t] = old[t]
      /\ seq'[t] = seq[t] /\ cur'[t] = cur[t] /\ lat'[t] = lat[t] /\ own'[t] = own[t]
      /\ drop'[t] = drop[t] /\ nxt'[t] = nxt[t] /\ free'[t] = free[t] /\ node'[t] = node[t]
      /\ arg'[t] = arg[t]
  BY <1>0 DEF NewInit, Goto, clientVars, localVars, getVars, newVars, ClientType, LocalType
<1>2. ChainKept /\ alive
  <2>0. Owns(t) /\ node[t] \in Nodes /\ node[t] \in heap /\ pos[node[t]] = 0 /\ Owners
    <3>1. At(t) = "n_init"
      BY <1>1 DEF At, Setting, Dropping
    <3>2. Owns(t) /\ node[t] \in Nodes
      BY <1>0, <3>1 DEF Owns, Caller
    <3> QED
      BY <3>2 DEF IInv, Owners, Owner
  <2> QED
    BY <1>0, <1>1, <2>0 DEF NewInit, ChainKept, Allocated, proxyVars, NodeType, historyVars, heapVars
<1>3. Role(t)'
  BY <1>0, <1>1 DEF Role, At, Setting, Dropping, Seeks, Gets, Adds
<1>4. Caller(t)'
  BY <1>0, <1>1 DEF Caller, At, Setting, Dropping, Seeks, Gets, Adds, Alloc
<1>5. Holds(t)
  BY <1>0, <1>1, <1>2 DEF Holds, Looking, Frees, Reclaiming, Setting
<1>6. Kept(t) /\ Walk(t)' /\ Touch(t)'
  BY <1>3, <1>5, HoldsStep
<1>7. Stage(t)'
  BY <1>0, <1>1, <1>2 DEF Stage, Setting, Dropping, ChainKept
<1>8. Pend(t)'
  BY <1>1, <1>2 DEF Pend, ChainKept
<1>9. Reclaim(t)'
  BY <1>1 DEF Reclaim, Frees, Reclaiming
<1>10. Pop(t)'
  BY <1>1 DEF Pop
<1>11. Owners'
  <2>0. Owns(t) /\ node[t] \in Nodes /\ node[t] \in heap /\ pos[node[t]] = 0 /\ Owners
    <3>1. At(t) = "n_init"
      BY <1>1 DEF At, Setting, Dropping
    <3>2. Owns(t) /\ node[t] \in Nodes
      BY <1>0, <3>1 DEF Owns, Caller
    <3> QED
      BY <3>2 DEF IInv, Owners, Owner
  <2>1. /\ heap' = heap /\ pos' = pos
        /\ \A n \in Nodes : n # node[t] =>
              /\ next'[n] = next[n] /\ nodeSeq'[n] = nodeSeq[n]
              /\ prevSeq'[n] = prevSeq[n] /\ count'[n] = count[n] /\ data'[n] = data[n]
        /\ next'[node[t]] = NULL /\ nodeSeq'[node[t]] = 0 /\ prevSeq'[node[t]] = 0
        /\ count'[node[t]] = InitialCount /\ data'[node[t]] = arg[t]
    BY <1>0, <1>1, <2>0 DEF NewInit, heapVars, historyVars, TypeOK, NodeType
  <2>2. Owner(t)'
    BY <1>1, <2>0, <2>1 DEF Owner
  <2> QED
    BY <1>1, <2>0, <2>1, <2>2, OwnersStep
<1>12. Allocated' /\ Accounted'
  <2>1. SameHeap(t)
    BY <1>0, <1>1 DEF SameHeap, NewInit, Owns, At, Setting, Dropping, IsBetween, heapVars, historyVars, proxyVars
  <2> QED
    BY <1>2, <2>1, SameHeapStep
<1> QED
  BY <1>3, <1>4, <1>6, <1>7, <1>8, <1>9, <1>10, <1>11, <1>12, KeptStep DEF Mine

LEMMA ReturnKept ==
    ASSUME TypeOK, TypeOK', IInv, NEW t \in Threads, Others(t),
           \/ GetTest(t) /\ next[cur[t]] = NULL
           \/ GetCompare(t) /\ Belongs(t)
    PROVE  IInv'
<1>1. /\ GetReturn(t) /\ pc[t] \in Seeks
      /\ next[cur[t]] = NULL \/ (pc[t] = "g_cmp" /\ Belongs(t))
      /\ UNCHANGED <<proxyVars, nodeVars, heapVars, historyVars>>
      /\ UNCHANGED <<ret, use, old, drop, nxt, free, node, arg>>
  <2>1. CASE GetTest(t) /\ next[cur[t]] = NULL
    BY <2>1 DEF GetTest, Seeks, newVars
  <2>2. CASE GetCompare(t) /\ Belongs(t)
    BY <2>2 DEF GetCompare, Seeks, newVars
  <2> QED
    BY <2>1, <2>2
<1>2. ChainKept /\ alive
  BY <1>1 DEF ChainKept, proxyVars, nodeVars, historyVars, IInv, Allocated, Seeks
<1>3. Kept(t) /\ Mine(t)'
  BY <1>1, <1>2, ReturnStep
<1>4. Plain(t)
  <2>1. pc[t] \in Seeks /\ pc'[t] \in {"idle", "n_head", "a_try"}
    BY <1>1 DEF GetReturn, Goto, TypeOK, ClientType
  <2>2. At(t) = pc[t] /\ At(t)' = pc'[t]
    BY <2>1 DEF At, Setting, Dropping, Seeks
  <2>3. node'[t] = node[t] /\ use'[t] = use[t] /\ arg'[t] = arg[t]
    BY <1>1
  <2>4. /\ Owns(t)' <=> Owns(t)
        /\ Ready(t)' => Ready(t)
    BY <2>1, <2>2, <2>3 DEF Owns, Ready, Seeks
  <2>5. IsBetween(t) = 0 /\ IsBetween(t)' = 0
    BY <2>1 DEF IsBetween, Seeks
  <2>6. numNodes \in 0..MaxNodes
    BY DEF IInv, Accounted, NodeAccounting
  <2> QED
    BY <1>1, <2>3, <2>4, <2>5, <2>6
       DEF Plain, SameHeap, proxyVars, nodeVars, heapVars, historyVars
<1>5. Owners' /\ Allocated' /\ Accounted'
  BY <1>2, <1>4, PlainStep
<1> QED
  BY <1>3, <1>5, KeptStep

(* Going on to the next node, which the tail has reached.                  *)
LEMMA AdvanceKept ==
    ASSUME TypeOK, TypeOK', IInv, NEW t \in Threads, Others(t),
           (GetCompare(t) /\ ~Belongs(t)) \/ AddMore(t)
    PROVE  IInv'
<1> USE Types, TypesGive
<1>0. /\ ClientType /\ LocalType /\ Places /\ Links /\ Sequences /\ Allocated
      /\ Role(t) /\ Caller(t) /\ Stage(t) /\ Walk(t) /\ Pend(t) /\ Touch(t)
      /\ Reclaim(t) /\ Pop(t) /\ numNodes \in 0..MaxNodes
  BY DEF TypeOK, IInv, Accounted, NodeAccounting
<1>1. /\ \/ pc[t] = "g_cmp" /\ pc'[t] = "g_test" /\ ~Belongs(t)
         \/ pc[t] = "a_more" /\ pc'[t] = "a_try"
      /\ cur'[t] = next[cur[t]] /\ lat'[t] = lat[t] + 1
      /\ ret'[t] = ret[t] /\ ref'[t] = ref[t] /\ use'[t] = use[t] /\ old'[t] = old[t]
      /\ seq'[t] = seq[t] /\ own'[t] = own[t] /\ drop'[t] = drop[t]
      /\ node'[t] = node[t] /\ arg'[t] = arg[t]
      /\ UNCHANGED <<proxyVars, nodeVars, heapVars, historyVars>>
  <2>1. CASE GetCompare(t) /\ ~Belongs(t)
    BY <1>0, <2>1 DEF GetCompare, GetReturn, Goto, newVars, ClientType, LocalType
  <2>2. CASE AddMore(t)
    BY <1>0, <2>2 DEF AddMore, Goto, clientVars, newVars, ClientType, LocalType
  <2> QED
    BY <2>1, <2>2
<1>2. ChainKept /\ alive
  BY <1>0, <1>1 DEF ChainKept, proxyVars, nodeVars, historyVars, Allocated
<1>a. /\ Looking(t) /\ Looking(t)' /\ drop[t] = NULL
      /\ cur[t] \in Nodes /\ Real(cur[t]) /\ pos[cur[t]] < pos[tail]
      /\ next[cur[t]] \in Nodes /\ pos[next[cur[t]]] = pos[cur[t]] + 1
      /\ pc[t] = "a_more" => seq[t] = 0 /\ own[t] # NULL
      /\ pc[t] = "g_cmp" => seq[t] # 0 /\ own[t] = NULL
  <2>1. cur[t] \in Nodes /\ drop[t] = NULL /\ (pc[t] = "a_more" => seq[t] = 0 /\ own[t] # NULL)
        /\ (pc[t] = "g_cmp" => seq[t] # 0 /\ own[t] = NULL)
    BY <1>0, <1>1, Controls DEF Seeks, Adds, Dropping
  <2>2. Looking(t) /\ pos[cur[t]] < pos[tail]
    BY <1>0, <1>1, <2>1 DEF Looking, Stage
  <2>3. Real(cur[t]) /\ next[cur[t]] \in Nodes
    BY <1>0, <1>1, <2>2, ThreadFacts
  <2>4. pos[next[cur[t]]] = pos[cur[t]] + 1
    BY <1>0, <2>1, <2>3, Consts, ChainFacts
  <2> QED
    BY <1>1, <2>1, <2>2, <2>3, <2>4 DEF Looking
<1>b. /\ FirstInUse' = FirstInUse
      /\ \A n : Used(n)' <=> Used(n)
      /\ \A n : Real(n)' <=> Real(n)
      /\ \A n \in Nodes : pos[n] > 0 => Upper(n)' = Upper(n) /\ From(n)' = From(n)
  BY <1>0, <1>2, ChainStays
<1>c. Base(t)' = Base(t) /\ Reach(t)' = Reach(t)
  BY <1>1, <1>2, <1>a DEF Base, Reach, ChainKept
<1>d. \A n \in Nodes : Used(n) => (Has(t, n)' <=> Has(t, n)) /\ pos[n] > 0
  BY <1>0, <1>1, <1>b, Consts, ChainFacts DEF Has
<1>3. Role(t)' /\ Caller(t)'
  BY <1>0, <1>1, <1>a DEF Role, Caller, At, Setting, Dropping, Seeks, Gets, Adds
<1>4. Stage(t)' /\ Pend(t)' /\ Reclaim(t)' /\ Pop(t)'
  BY <1>1, <1>a DEF Stage, Setting, Dropping, Pend, Reclaim, Frees, Reclaiming, Pop
<1>5. Walk(t)'
  <2>1. Real(cur[t])' /\ pos'[cur'[t]] <= pos'[tail']
    BY <1>0, <1>1, <1>2, <1>a, <1>b, Consts DEF ChainKept, Real
  <2>2. CASE seq[t] = 0
    BY <1>1, <2>1, <2>2 DEF Walk
  <2>3. CASE seq[t] # 0
    <3>1. pc[t] = "g_cmp" /\ ~Belongs(t)
      BY <1>1, <1>a, <2>3
    <3>2. PICK n \in Nodes : /\ Used(n) /\ Has(t, n)
                             /\ pos[cur[t]] <= pos[n] /\ pos[n] <= Reach(t)
      BY <1>0, <2>3 DEF Walk
    <3>3. n # cur[t]
      <4>1. Settled(cur[t])
        BY <1>0, <1>a DEF Sequences
      <4>2. Upper(cur[t]) = nodeSeq[cur[t]]
        BY <4>1 DEF Upper, Settled, Passed
      <4>3. seq[t] > Upper(cur[t])
        BY <1>a, <3>1, <4>2 DEF Belongs
      <4> QED
        BY <1>a, <3>2, <4>2, <4>3 DEF Has
    <3>4. pos[cur[t]] # pos[n]
      <4>1. \A a, b \in Nodes : pos[a] > 0 /\ pos[a] = pos[b] => a = b
        BY <1>0 DEF Places
      <4> QED
        BY <1>a, <1>d, <3>2, <3>3, <4>1
    <3>5. pos[next[cur[t]]] <= pos[n]
      BY <1>a, <3>2, <3>4
    <3>6. /\ Used(n)' /\ Has(t, n)' /\ pos'[cur'[t]] <= pos'[n] /\ pos'[n] <= Reach(t)'
      BY <1>1, <1>2, <1>b, <1>c, <1>d, <3>2, <3>5 DEF ChainKept
    <3>7. seq'[t] <= sequence'
      BY <1>0, <1>1, <1>2, <2>3 DEF Walk, ChainKept
    <3> QED
      BY <2>1, <3>6, <3>7 DEF Walk
  <2> QED
    BY <2>2, <2>3
<1>6. Touch(t)'
  BY <1>0, <1>1, <1>2, <1>a, <1>b DEF Touch, ChainKept
<1>7. Kept(t)
  <2>1. \A n \in Nodes : Used(n) => Share(t, n)' = Share(t, n)
    <3> SUFFICES ASSUME NEW n \in Nodes, Used(n)
                 PROVE  Share(t, n)' = Share(t, n)
      OBVIOUS
    <3>1. (drop[t] = n <=> FALSE) /\ (drop'[t] = n <=> FALSE)
      BY <1>1, <1>a
    <3> QED
      BY <1>1, <1>d, <3>1, ShareIs
  <2> QED
    BY <1>1, <1>2, <1>a, <1>c, <2>1 DEF Kept, Frees, Reclaiming, Setting
<1>8. Plain(t)
  BY <1>0, <1>1 DEF Plain, SameHeap, Owns, Ready, IsBetween, At, Setting, Dropping,
                    proxyVars, nodeVars, heapVars, historyVars
<1>9. Owners' /\ Allocated' /\ Accounted'
  BY <1>2, <1>8, PlainStep
<1> QED
  BY <1>3, <1>4, <1>5, <1>6, <1>7, <1>9, KeptStep DEF Mine

LEMMA DropCallKept ==
    ASSUME TypeOK, TypeOK', IInv, NEW t \in Threads, Others(t), DropCall(t)
    PROVE  IInv'
<1> USE Types, TypesGive
<1>0. /\ ClientType /\ LocalType /\ Places /\ Links
      /\ Role(t) /\ Caller(t) /\ Touch(t) /\ numNodes \in 0..MaxNodes
  BY DEF TypeOK, IInv, Accounted, NodeAccounting
<1>1. /\ pc[t] = "idle" /\ pc'[t] = "d_sub" /\ ref[t] # NULL /\ alive
      /\ drop'[t] = ref[t] /\ ref'[t] = NULL /\ ret'[t] = "idle"
      /\ use'[t] = use[t] /\ old'[t] = old[t] /\ seq'[t] = seq[t] /\ cur'[t] = cur[t]
      /\ lat'[t] = lat[t] /\ own'[t] = own[t] /\ node'[t] = node[t] /\ arg'[t] = arg[t]
      /\ pos' = pos /\ failed' = failed /\ UNCHANGED <<proxyVars, nodeVars, heapVars>>
  BY <1>0 DEF DropCall, Goto, getVars, newVars, ClientType, LocalType
<1>2. ChainKept
  BY <1>1 DEF ChainKept, proxyVars, nodeVars
<1>a. /\ seq[t] = 0 /\ own[t] = NULL /\ cur[t] = NULL /\ drop[t] = NULL
      /\ At(t) = "idle" /\ At(t)' = "idle"
  BY <1>0, <1>1, Controls DEF At, Setting, Dropping
<1>b. FirstInUse' = FirstInUse /\ (\A n : Used(n)' <=> Used(n))
  BY <1>0, <1>2, ChainStays
<1>3. Role(t)' /\ Caller(t)'
  BY <1>0, <1>1, <1>a DEF Role, Caller, Setting, Dropping, Seeks, Gets, Adds
<1>4. Stage(t)' /\ Walk(t)' /\ Pend(t)' /\ Reclaim(t)' /\ Pop(t)'
  BY <1>1, <1>a DEF Stage, Setting, Dropping, Walk, Looking, Pend, Reclaim, Frees, Reclaiming, Pop
<1>5. Touch(t)'
  BY <1>0, <1>1, <1>a, <1>b DEF Touch
<1>6. Kept(t)
  <2>1. \A n \in Nodes : Used(n) => Share(t, n)' = Share(t, n)
    <3> SUFFICES ASSUME NEW n \in Nodes, Used(n)
                 PROVE  Share(t, n)' = Share(t, n)
      OBVIOUS
    <3>1. ~Has(t, n) /\ ~Has(t, n)'
      <4>1. (Has(t, n) => FALSE) /\ (Has(t, n)' => FALSE)
        BY <1>1, <1>a DEF Has, From, Upper, TypeOK, ProxyType, NodeType
      <4> QED
        BY <4>1
    <3> QED
      BY <1>1, <1>a, <3>1, ShareIs
  <2> QED
    BY <1>1, <1>2, <1>a, <2>1 DEF Kept, Frees, Reclaiming, Setting, Looking
<1>7. Plain(t)
  BY <1>0, <1>1, <1>a DEF Plain, SameHeap, Owns, Ready, IsBetween,
                          proxyVars, nodeVars, heapVars, Caller, Seeks, Adds
<1>8. Owners' /\ Allocated' /\ Accounted'
  BY <1>1, <1>7, PlainStep
<1> QED
  BY <1>3, <1>4, <1>5, <1>6, <1>8, KeptStep DEF Mine

(* The library's reference is dropped for want of a node, to start again   *)
(* from a newer one, or at the end.                                        *)
LEMMA GiveUpKept ==
    ASSUME TypeOK, TypeOK', IInv, NEW t \in Threads, Others(t),
           \/ NewCount(t) /\ ~Room(t)
           \/ NewAlloc(t) /\ failed' # failed
           \/ NewInit(t) /\ ~Alloc(t)
           \/ AddTry(t) /\ ~Near(lat[t])
           \/ AddEnd(t)
    PROVE  IInv'
<1> USE Types, TypesGive, Bounds
<1>0. /\ ClientType /\ LocalType /\ Places /\ Links /\ Owners /\ Allocated
      /\ Role(t) /\ Caller(t) /\ numNodes \in 0..MaxNodes
  BY DEF TypeOK, IInv, Accounted, NodeAccounting
<1>1. PICK label \in {"backoff", "t_free", "g_seq", "idle"} :
          /\ DropOwn(t, label)
          /\ \/ label = "backoff" /\ pc[t] \in {"n_num", "n_alloc"} /\ node'[t] = node[t]
             \/ label = "t_free" /\ pc[t] = "n_init" /\ use[t] = "trim" /\ node'[t] = node[t]
             \/ label = "g_seq" /\ pc[t] = "a_try" /\ node'[t] = node[t]
             \/ label = "idle" /\ pc[t] = "a_end" /\ node'[t] = NULL
          /\ seq'[t] = seq[t] /\ ref'[t] = ref[t] /\ use'[t] = use[t]
          /\ label # "idle" => arg'[t] = arg[t]
          /\ heap' = heap /\ alive' = alive /\ pos' = pos
          /\ sequence' = sequence /\ tail' = tail
          /\ freeHead' = freeHead /\ freeTail' = freeTail /\ numNodes' = numNodes
          /\ label # "t_free" => UNCHANGED nodeVars
          /\ \A n \in Nodes : n # node[t] =>
                /\ next'[n] = next[n] /\ nodeSeq'[n] = nodeSeq[n]
                /\ prevSeq'[n] = prevSeq[n] /\ count'[n] = count[n] /\ data'[n] = data[n]
          /\ IF pc[t] = "n_alloc" THEN failed' = failed + 1 ELSE failed' = failed
  <2>1. CASE NewCount(t) /\ ~Room(t)
    BY <1>0, <2>1 DEF NewCount, nodeVars, heapVars, historyVars, clientVars, newVars
  <2>2. CASE NewAlloc(t) /\ failed' # failed
    BY <1>0, <2>2 DEF NewAlloc, proxyVars, nodeVars, clientVars
  <2>3. CASE NewInit(t) /\ ~Alloc(t)
    <3>1. \A n \in Nodes : n # node[t] =>
              /\ next'[n] = next[n] /\ nodeSeq'[n] = nodeSeq[n]
              /\ prevSeq'[n] = prevSeq[n] /\ count'[n] = count[n] /\ data'[n] = data[n]
      BY <2>3 DEF NewInit, TypeOK, NodeType
    <3> QED
      BY <1>0, <2>3, <3>1 DEF NewInit, Alloc, proxyVars, heapVars, historyVars, clientVars, newVars
  <2>4. CASE AddTry(t) /\ ~Near(lat[t])
    BY <1>0, <2>4 DEF AddTry, proxyVars, nodeVars, heapVars, clientVars, newVars
  <2>5. CASE AddEnd(t)
    <3>1. node'[t] = NULL
      BY <1>0, <2>5 DEF AddEnd, LocalType
    <3> QED
      BY <1>0, <2>5, <3>1 DEF AddEnd, proxyVars, nodeVars, heapVars, historyVars, clientVars
  <2> QED
    BY <2>1, <2>2, <2>3, <2>4, <2>5
<1>2. alive /\ pc[t] \in Gets \union Adds
  BY <1>0, <1>1 DEF Allocated, Gets, Adds
<1>3. At(t) = pc[t] /\ At(t)' = label
  BY <1>1 DEF At, Setting, Dropping, DropOwn, Goto, TypeOK, ClientType
<1>4. /\ label # "idle" /\ node[t] # NULL => Owns(t) /\ Owns(t)'
      /\ node'[t] = NULL \/ node[t] = NULL => (Owns(t)' <=> Owns(t))
      /\ label = "t_free" => Owns(t) /\ Owns(t)' /\ ~Ready(t)'
      /\ Ready(t)' => Ready(t) /\ label # "idle"
  BY <1>0, <1>1, <1>3 DEF Owns, Ready, Caller, Adds
<1>5. (Owns(t)' <=> Owns(t)) /\ (Owns(t) => node'[t] = node[t])
  BY <1>1, <1>3, <1>4 DEF Owns
<1>6. Owns(t) => node[t] \in Nodes /\ node[t] \in heap /\ pos[node[t]] = 0
  BY <1>0 DEF Owners, Owner, Owns
<1>7. ChainKept
  BY <1>1, <1>4, <1>6 DEF ChainKept, nodeVars
<1>8. /\ Kept(t) /\ Role(t)'
      /\ Stage(t)' /\ Walk(t)' /\ Pend(t)' /\ Touch(t)' /\ Reclaim(t)' /\ Pop(t)'
  BY <1>1, <1>2, <1>7, DropOwnStep
<1>9. Caller(t)'
  BY <1>0, <1>1, <1>3 DEF Caller, Seeks, Adds
<1>10. Owners'
  <2>1. Owner(t)'
    <3>1. Owner(t) /\ (Ready(t)' => Owns(t)) /\ (Ready(t) => Owns(t))
      BY <1>0, <1>5 DEF Owners, Ready
    <3> QED
      BY <1>1, <1>4, <1>5, <1>6, <3>1 DEF Owner, nodeVars
  <2> QED
    BY <1>0, <1>1, <1>4, <1>5, <2>1, OwnersStep DEF nodeVars
<1>11. Allocated' /\ Accounted'
  <2>1. pc'[t] = "d_sub"
    BY <1>0, <1>1 DEF DropOwn, Goto, ClientType
  <2>2. numNodes' - IsBetween(t)' - failed' = numNodes - IsBetween(t) - failed
    BY <1>1, <2>1, SMTT(30) DEF IsBetween, TypeOK, HistoryType
  <2>3. SameHeap(t)
    BY <1>0, <1>1, <1>5, <2>2 DEF SameHeap
  <2> QED
    BY <1>2, <2>3, SameHeapStep
<1> QED
  BY <1>8, <1>9, <1>10, <1>11, KeptStep DEF Mine

-------------------------------------------------------------------------------
(* The other steps: they set sequences and counts, move the ends of the    *)
(* chain, or take a number.  Those that leave the links as they are first. *)
LinksKept ==
    /\ tail' = tail /\ freeHead' = freeHead /\ freeTail' = freeTail /\ pos' = pos
    /\ \A n \in Nodes : pos[n] > 0 => next'[n] = next[n]

LEMMA LinksStep ==
    ASSUME TypeOK, Places, Links, LinksKept
    PROVE  /\ Places' /\ Links'
           /\ Newest' = Newest /\ End' = End /\ FirstInUse' = FirstInUse
           /\ \A n : Used(n)' <=> Used(n)
           /\ \A n : Real(n)' <=> Real(n)
           /\ \A n : Place(n)' = Place(n)
<1> USE DEF LinksKept
<1>0. tail \in Nodes /\ pos[tail] > 0
  BY Consts, TypesGive, ChainFacts
<1>1. Newest' = Newest /\ End' = End /\ FirstInUse' = FirstInUse
  BY <1>0 DEF Newest, End, FirstInUse
<1>2. /\ \A n : Used(n)' <=> Used(n)
      /\ \A n : Real(n)' <=> Real(n)
      /\ \A n : Place(n)' = Place(n)
  BY <1>1 DEF Used, Real, Place, TailShare, LinkShare
<1>3. Places'
  BY <1>1 DEF Places
<1>4. Links'
  BY <1>1 DEF Links
<1> QED
  BY <1>1, <1>2, <1>3, <1>4

LEMMA OthersLinks ==
    ASSUME TypeOK, IInv, LinksKept, NEW t \in Threads, Others(t), NEW u \in Threads \ {t}
    PROVE  /\ Role(u)' /\ Caller(u)' /\ Touch(u)' /\ Pop(u)'
           /\ Base(u)' = Base(u) /\ Reach(u)' = Reach(u)
           /\ Looking(u) => /\ cur[u] \in Nodes /\ pos[cur[u]] > 0
                            /\ next'[cur[u]] = next[cur[u]]
           /\ Setting(u) => cur[u] \in Nodes /\ pos[cur[u]] > 0 /\ next[cur[u]] \in Nodes
           /\ Looking(u)' => Real(cur[u])' /\ pos'[cur'[u]] <= pos'[tail']
           /\ Setting(u)' => next'[cur'[u]] # NULL
           /\ pc'[u] \in {"g_cmp", "a_more", "a_end"} => pos'[cur'[u]] < pos'[tail']
           /\ Dropping(u)' /\ cur'[u] # NULL => pos'[cur'[u]] < pos'[tail']
<1> USE Consts, Types, TypesGive
<1>a. /\ Places /\ Links /\ Role(u) /\ Caller(u) /\ Touch(u) /\ Pop(u)
      /\ Walk(u) /\ Stage(u) /\ Reclaim(u)
  BY DEF IInv
<1>b. /\ FirstInUse' = FirstInUse
      /\ \A n : Used(n)' <=> Used(n)
      /\ \A n : Real(n)' <=> Real(n)
  BY <1>a, LinksStep
<1>c. /\ Role(u)' /\ Caller(u)'
      /\ Setting(u)' <=> Setting(u)
      /\ Dropping(u)' <=> Dropping(u)
      /\ Looking(u)' <=> Looking(u)
  BY <1>a, OthersControl
<1>1. /\ Looking(u) => cur[u] \in Nodes /\ Real(cur[u]) /\ pos[cur[u]] <= pos[tail]
      /\ Setting(u) => next[cur[u]] \in Nodes
  BY <1>a, ThreadFacts
<1>2. Setting(u) => Looking(u)
  BY <1>a, Controls DEF Setting, Looking
<1>3. Looking(u) => pos[cur[u]] > 0 /\ next'[cur[u]] = next[cur[u]]
  BY <1>1 DEF LinksKept, Real
<1>4. Base(u)' = Base(u) /\ Reach(u)' = Reach(u)
  BY DEF Base, Reach, Others, LinksKept
<1>5. Touch(u)'
  BY <1>a, <1>b DEF Touch, Others, LinksKept
<1>6. Pop(u)'
  <2>1. Stayed(u)' <=> Stayed(u)
    BY DEF Stayed, Others, LinksKept
  <2>2. free'[u] \in Nodes /\ Stayed(u) => next'[free'[u]] = next[free[u]]
    BY DEF Stayed, Others, LinksKept
  <2> QED
    BY <1>a, <2>1, <2>2 DEF Pop, Others, LinksKept
<1>7. Looking(u)' => Real(cur[u])' /\ pos'[cur'[u]] <= pos'[tail']
  BY <1>1, <1>b, <1>c DEF Others, LinksKept
<1>8. Setting(u)' => next'[cur'[u]] # NULL
  BY <1>1, <1>2, <1>3, <1>c DEF Others
<1>9. pc'[u] \in {"g_cmp", "a_more", "a_end"} => pos'[cur'[u]] < pos'[tail']
  BY <1>a DEF Stage, Others, LinksKept
<1>10. Dropping(u)' /\ cur'[u] # NULL => pos'[cur'[u]] < pos'[tail']
  BY <1>a, <1>c DEF Stage, Others, LinksKept
<1> QED
  BY <1>c, <1>1, <1>2, <1>3, <1>4, <1>5, <1>6, <1>7, <1>8, <1>9, <1>10

===============================================================================
