----------------------------- MODULE StpcInvProofs -----------------------------
(***************************************************************************)
(* Proofs about the proxy collector of Stpc.tla: its types, its inductive  *)
(* invariant (StpcInv.tla), and what follows from it, for any number of    *)
(* threads, nodes, data and calls.                                         *)
(***************************************************************************)
EXTENDS StpcInv, FiniteSetTheorems, TLAPS

-------------------------------------------------------------------------------
(* The types *)

(* Splitting a step into actions, once for all the proofs below. *)
LEMMA NextCases ==
    ASSUME [Next]_vars
    PROVE  \/ \E t \in Threads : Running /\ (Enter(t) \/ Step(t))
           \/ \E m \in Limits : SetMaxNodes(m)
           \/ DeleteProxy
           \/ UNCHANGED vars
BY DEF Next, Stopped

(* What the proofs need to know of the sets that make up the types. *)
LEMMA Types ==
    /\ NULL \in NodeOrNull /\ NULL \in DataOrNull /\ Nowhere \in Sequenced
    /\ \A n \in Nodes : n \in NodeOrNull
    /\ \A d \in Data : d \in DataOrNull
    /\ \A d \in DataOrNull : d # NULL => d \in Data
    /\ \A s \in Sequenced : s.ptr \in NodeOrNull /\ s.seq \in Int
    /\ \A p \in NodeOrNull, i \in Int : [ptr |-> p, seq |-> i] \in Sequenced
    /\ \A s \in Sequenced, p \in NodeOrNull : [s EXCEPT !.ptr = p] \in Sequenced
    /\ \A s \in Sequenced, i \in Int : [s EXCEPT !.seq = i] \in Sequenced
BY StpcAssumption DEF NodeOrNull, DataOrNull, Sequenced, Nowhere

(* The types hold of a new proxy. *)
LEMMA TypeInit == Init => TypeOK
<1> SUFFICES ASSUME Init PROVE TypeOK
  OBVIOUS
<1> USE Types, StpcAssumption DEF Init
<1>1. ProxyType
  BY DEF ProxyType, Sequenced
<1>2. NodeType
  BY DEF NodeType, GUARD_BIT, REFERENCE
<1>3. HeapType
  BY DEF HeapType
<1>4. ClientType
  BY DEF ClientType, PCs
<1>5. LocalType
  BY DEF LocalType
<1>6. HistoryType
  BY DEF HistoryType
<1> QED
  BY <1>1, <1>2, <1>3, <1>4, <1>5, <1>6 DEF TypeOK

(* Leaving the library and trying again keep the types of the locals. *)
LEMMA ReturnType ==
    ASSUME LocalType, pc \in [Threads -> PCs], NEW t \in Threads, Return(t)
    PROVE  LocalType' /\ pc' \in [Threads -> PCs]
BY Types DEF Return, Goto, LocalType, PCs

(* The retry of stpcDeferredDelete sets only what it passes to _newNode. *)
LEMMA RetryType ==
    ASSUME LocalType, NEW t \in Threads, Retry(t)
    PROVE  LocalType'
BY Types DEF Retry, Goto, LocalType

(* Either outcome of the loop test keeps the types. *)
LEMMA TrimLoopType ==
    ASSUME LocalType, pc \in [Threads -> PCs], NEW t \in Threads,
           NEW k \in Int, NEW cur \in Int, TrimLoop(t, k, cur)
    PROVE  LocalType' /\ pc' \in [Threads -> PCs]
<1>1. CASE k > 0 /\ cur > 1
  <2>1. LocalType'
    BY <1>1 DEF TrimLoop, LocalType
  <2>2. pc' \in [Threads -> PCs]
    BY <1>1 DEF TrimLoop, Goto, PCs
  <2> QED
    BY <2>1, <2>2
<1>2. CASE ~(k > 0 /\ cur > 1)
  BY <1>2, ReturnType DEF TrimLoop
<1> QED
  BY <1>1, <1>2

(* Every action keeps the types; the cases below have one step per action  *)
(* and under it one per part of TypeOK.                                    *)
LEMMA TypeStep == TypeOK /\ [Next]_vars => TypeOK'
<1> SUFFICES ASSUME TypeOK, [Next]_vars PROVE TypeOK'
  OBVIOUS
<1> USE Types DEF TypeOK
<1>1. ASSUME NEW t \in Threads, GetCall(t) PROVE TypeOK'
  <2>1. ProxyType'
    BY <1>1 DEF GetCall, ProxyType, proxyVars
  <2>2. NodeType'
    BY <1>1 DEF GetCall, NodeType, nodeVars
  <2>3. HeapType'
    BY <1>1 DEF GetCall, HeapType, heapVars
  <2>4. ClientType'
    BY <1>1 DEF GetCall, Call, Goto, ClientType, PCs
  <2>5. LocalType'
    BY <1>1 DEF GetCall, LoadPtr, ProxyType, LocalType
  <2>6. HistoryType'
    BY <1>1 DEF GetCall, HistoryType, historyVars
  <2> QED
    BY <2>1, <2>2, <2>3, <2>4, <2>5, <2>6
<1>2. ASSUME NEW t \in Threads, GetLoadSeq(t) PROVE TypeOK'
  <2>1. ProxyType'
    BY <1>2 DEF GetLoadSeq, ProxyType, proxyVars
  <2>2. NodeType'
    BY <1>2 DEF GetLoadSeq, NodeType, nodeVars
  <2>3. HeapType'
    BY <1>2 DEF GetLoadSeq, HeapType, heapVars
  <2>4. ClientType'
    BY <1>2 DEF GetLoadSeq, Goto, ClientType, clientVars, PCs
  <2>5. LocalType'
    BY <1>2 DEF GetLoadSeq, LoadSeq, ProxyType, LocalType
  <2>6. HistoryType'
    BY <1>2 DEF GetLoadSeq, HistoryType, historyVars
  <2> QED
    BY <2>1, <2>2, <2>3, <2>4, <2>5, <2>6
<1>3. ASSUME NEW t \in Threads, GetCas(t) PROVE TypeOK'
  <2>1. ProxyType'
    <3>1. CASE tail = old[t]
      <4>1. tail' \in Sequenced
        <5>1. old[t].seq + REFERENCE \in Int
          BY DEF LocalType, REFERENCE
        <5> QED
          BY <1>3, <3>1, <5>1 DEF GetCas, ProxyType
      <4> QED
        BY <1>3, <4>1 DEF GetCas, ProxyType
    <3>2. CASE tail # old[t]
      BY <1>3, <3>2 DEF GetCas, ProxyType
    <3> QED
      BY <3>1, <3>2
  <2>2. NodeType'
    BY <1>3 DEF GetCas, NodeType, nodeVars
  <2>3. HeapType'
    BY <1>3 DEF GetCas, HeapType, heapVars
  <2>4. ClientType'
    <3>1. CASE tail = old[t]
      <4>1. Return(t) /\ ref' = [ref EXCEPT ![t] = old[t].ptr] /\ calls' = calls
        BY <1>3, <3>1 DEF GetCas
      <4> QED
        BY <4>1, ReturnType DEF ClientType, LocalType
    <3>2. CASE tail # old[t]
      BY <1>3, <3>2 DEF GetCas, ClientType
    <3> QED
      BY <3>1, <3>2
  <2>5. LocalType'
    <3>1. CASE tail = old[t]
      BY <1>3, <3>1, ReturnType DEF GetCas, ClientType
    <3>2. CASE tail # old[t]
      BY <1>3, <3>2 DEF GetCas, LocalType, ProxyType
    <3> QED
      BY <3>1, <3>2
  <2>6. HistoryType'
    BY <1>3 DEF GetCas, HistoryType, historyVars
  <2> QED
    BY <2>1, <2>2, <2>3, <2>4, <2>5, <2>6
<1>4. ASSUME NEW t \in Threads, DropCall(t) PROVE TypeOK'
  <2>1. ProxyType'
    BY <1>4 DEF DropCall, ProxyType, proxyVars
  <2>2. NodeType'
    BY <1>4 DEF DropCall, NodeType, nodeVars
  <2>3. HeapType'
    BY <1>4 DEF DropCall, HeapType, heapVars
  <2>4. ClientType'
    BY <1>4 DEF DropCall, Goto, ClientType, PCs
  <2>5. LocalType'
    BY <1>4 DEF DropCall, REFERENCE, ClientType, LocalType
  <2>6. HistoryType'
    BY <1>4 DEF DropCall, HistoryType
  <2> QED
    BY <2>1, <2>2, <2>3, <2>4, <2>5, <2>6
<1>5. ASSUME NEW t \in Threads, DropLoad(t) PROVE TypeOK'
  <2>1. ProxyType'
    BY <1>5 DEF DropLoad, ProxyType, proxyVars
  <2>2. NodeType'
    BY <1>5 DEF DropLoad, NodeType, nodeVars
  <2>3. HeapType'
    BY <1>5 DEF DropLoad, HeapType, heapVars
  <2>4. ClientType'
    BY <1>5 DEF DropLoad, Goto, ClientType, clientVars, PCs
  <2>5. LocalType'
    BY <1>5 DEF DropLoad, LocalType, localVars
  <2>6. HistoryType'
    BY <1>5 DEF DropLoad, HistoryType, historyVars
  <2> QED
    BY <2>1, <2>2, <2>3, <2>4, <2>5, <2>6
<1>6. ASSUME NEW t \in Threads, DropSub(t) PROVE TypeOK'
  <2>1. ProxyType'
    BY <1>6 DEF DropSub, ProxyType, proxyVars
  <2>2. NodeType'
    <3>1. rcount[t] \in Int /\ (node[t] \in Nodes => count[node[t]] \in Int)
      BY DEF NodeType, LocalType
    <3>2. count' \in [Nodes -> Int]
      <4>1. CASE node[t] \in Nodes
        BY <1>6, <3>1, <4>1 DEF DropSub, NodeType
      <4>2. CASE node[t] \notin Nodes
        BY <1>6, <3>1, <4>2 DEF DropSub, NodeType
      <4> QED
        BY <4>1, <4>2
    <3> QED
      BY <1>6, <3>2 DEF DropSub, NodeType
  <2>3. HeapType'
    BY <1>6 DEF DropSub, HeapType, heapVars
  <2>4. ClientType'
    BY <1>6, ReturnType DEF DropSub, Goto, ClientType, PCs, clientVars
  <2>5. LocalType'
    BY <1>6, ReturnType DEF DropSub, ClientType, LocalType, localVars
  <2>6. HistoryType'
    BY <1>6 DEF DropSub, HistoryType, historyVars
  <2> QED
    BY <2>1, <2>2, <2>3, <2>4, <2>5, <2>6
<1>7. ASSUME NEW t \in Threads, DropNext(t) PROVE TypeOK'
  <2>1. ProxyType'
    BY <1>7 DEF DropNext, ProxyType, proxyVars
  <2>2. NodeType'
    BY <1>7 DEF DropNext, NodeType, nodeVars
  <2>3. HeapType'
    BY <1>7 DEF DropNext, HeapType, heapVars
  <2>4. ClientType'
    BY <1>7 DEF DropNext, Goto, ClientType, clientVars, PCs
  <2>5. LocalType'
    BY <1>7 DEF DropNext, NextOf, NodeType, HeapType, LocalType
  <2>6. HistoryType'
    BY <1>7 DEF DropNext, HistoryType, historyVars
  <2> QED
    BY <2>1, <2>2, <2>3, <2>4, <2>5, <2>6
<1>8. ASSUME NEW t \in Threads, DropStore(t) PROVE TypeOK'
  <2>1. ProxyType'
    BY <1>8 DEF DropStore, ProxyType, LocalType
  <2>2. NodeType'
    BY <1>8 DEF DropStore, NodeType, nodeVars
  <2>3. HeapType'
    BY <1>8 DEF DropStore, HeapType, heapVars
  <2>4. ClientType'
    BY <1>8 DEF DropStore, Goto, ClientType, clientVars, PCs
  <2>5. LocalType'
    BY <1>8 DEF DropStore, LocalType
  <2>6. HistoryType'
    BY <1>8 DEF DropStore, HistoryType, historyVars
  <2> QED
    BY <2>1, <2>2, <2>3, <2>4, <2>5, <2>6
<1>9. ASSUME NEW t \in Threads, DropFree(t) PROVE TypeOK'
  <2>1. ProxyType'
    BY <1>9 DEF DropFree, ProxyType, proxyVars
  <2>2. NodeType'
    BY <1>9 DEF DropFree, NodeType, nodeVars
  <2>3. HeapType'
    BY <1>9 DEF DropFree, HeapType, heapVars
  <2>4. ClientType'
    BY <1>9 DEF DropFree, Goto, ClientType, clientVars, PCs
  <2>5. LocalType'
    BY <1>9 DEF DropFree, REFERENCE, LocalType
  <2>6. HistoryType'
    <3>1. PICK d \in DataOf(node[t]) :
             done' = done \/ (HasData(d) /\ done' = Append(done, d))
      BY <1>9 DEF DropFree
    <3>2. d \in DataOrNull
      BY DEF DataOf, NodeType, HeapType
    <3>3. done' \in Seq(Data)
      <4>1. CASE HasData(d) /\ done' = Append(done, d)
        <5>1. d \in Data
          BY <4>1, <3>2 DEF HasData
        <5> QED
          BY <4>1, <5>1 DEF HistoryType
      <4>2. CASE done' = done
        BY <4>2 DEF HistoryType
      <4> QED
        BY <3>1, <4>1, <4>2
    <3> QED
      BY <1>9, <3>3 DEF DropFree, HistoryType
  <2> QED
    BY <2>1, <2>2, <2>3, <2>4, <2>5, <2>6
<1>10. ASSUME NEW t \in Threads, DropClear(t) PROVE TypeOK'
  <2>1. ProxyType'
    BY <1>10 DEF DropClear, ProxyType, proxyVars
  <2>2. NodeType'
    BY <1>10 DEF DropClear, NodeType
  <2>3. HeapType'
    BY <1>10 DEF DropClear, HeapType, heapVars
  <2>4. ClientType'
    BY <1>10 DEF DropClear, Goto, ClientType, clientVars, PCs
  <2>5. LocalType'
    BY <1>10 DEF DropClear, REFERENCE, LocalType
  <2>6. HistoryType'
    BY <1>10 DEF DropClear, HistoryType, historyVars
  <2> QED
    BY <2>1, <2>2, <2>3, <2>4, <2>5, <2>6
<1>11. ASSUME NEW t \in Threads, DeferCall(t) PROVE TypeOK'
  <2>1. ProxyType'
    BY <1>11 DEF DeferCall, ProxyType, proxyVars
  <2>2. NodeType'
    BY <1>11 DEF DeferCall, NodeType, nodeVars
  <2>3. HeapType'
    BY <1>11 DEF DeferCall, HeapType, heapVars
  <2>4. ClientType'
    BY <1>11 DEF DeferCall, Call, Goto, ClientType, PCs
  <2>5. LocalType'
    BY <1>11 DEF DeferCall, LocalType
  <2>6. HistoryType'
    BY <1>11 DEF DeferCall, HistoryType, historyVars
  <2> QED
    BY <2>1, <2>2, <2>3, <2>4, <2>5, <2>6
<1>12. ASSUME NEW t \in Threads, TrimCall(t) PROVE TypeOK'
  <2>1. ProxyType'
    BY <1>12 DEF TrimCall, ProxyType, proxyVars
  <2>2. NodeType'
    BY <1>12 DEF TrimCall, NodeType, nodeVars
  <2>3. HeapType'
    BY <1>12 DEF TrimCall, HeapType, heapVars
  <2>4. ClientType'
    <3>1. PICK k \in 1..MaxTrim : TrimLoop(t, k, numNodes)
      BY <1>12 DEF TrimCall
    <3>2. pc' \in [Threads -> PCs]
      BY <3>1, TrimLoopType, StpcAssumption DEF ClientType, ProxyType
    <3>3. ref' = ref
      BY <1>12 DEF TrimCall
    <3>4. calls' \in [Threads -> Nat]
      BY <1>12 DEF TrimCall, Call, ClientType
    <3> QED
      BY <3>2, <3>3, <3>4 DEF ClientType
  <2>5. LocalType'
    <3>1. PICK k \in 1..MaxTrim : TrimLoop(t, k, numNodes)
      BY <1>12 DEF TrimCall
    <3> QED
      BY <3>1, TrimLoopType, StpcAssumption DEF ClientType, ProxyType
  <2>6. HistoryType'
    BY <1>12 DEF TrimCall, HistoryType, historyVars
  <2> QED
    BY <2>1, <2>2, <2>3, <2>4, <2>5, <2>6
<1>13. ASSUME NEW t \in Threads, TrimFree(t) PROVE TypeOK'
  <2>1. ProxyType'
    BY <1>13 DEF TrimFree, ProxyType, proxyVars
  <2>2. NodeType'
    BY <1>13 DEF TrimFree, NodeType, nodeVars
  <2>3. HeapType'
    BY <1>13 DEF TrimFree, HeapType
  <2>4. ClientType'
    BY <1>13 DEF TrimFree, Goto, ClientType, clientVars, PCs
  <2>5. LocalType'
    BY <1>13 DEF TrimFree, LocalType, localVars
  <2>6. HistoryType'
    BY <1>13 DEF TrimFree, HistoryType, historyVars
  <2> QED
    BY <2>1, <2>2, <2>3, <2>4, <2>5, <2>6
<1>14. ASSUME NEW t \in Threads, TrimDec(t) PROVE TypeOK'
  <2>1. ProxyType'
    BY <1>14 DEF TrimDec, Decremented, ProxyType
  <2>2. NodeType'
    BY <1>14 DEF TrimDec, NodeType, nodeVars
  <2>3. HeapType'
    BY <1>14 DEF TrimDec, HeapType, heapVars
  <2>4. ClientType'
    <3>1. left[t] - 1 \in Int /\ Decremented(t) \in Int
      BY DEF LocalType, ProxyType, Decremented
    <3>2. pc' \in [Threads -> PCs]
      BY <1>14, <3>1, TrimLoopType DEF TrimDec, ClientType
    <3> QED
      BY <1>14, <3>2 DEF TrimDec, ClientType, clientVars
  <2>5. LocalType'
    <3>1. left[t] - 1 \in Int /\ Decremented(t) \in Int
      BY DEF LocalType, ProxyType, Decremented
    <3> QED
      BY <1>14, <3>1, TrimLoopType DEF TrimDec, ClientType
  <2>6. HistoryType'
    BY <1>14 DEF TrimDec, HistoryType, historyVars
  <2> QED
    BY <2>1, <2>2, <2>3, <2>4, <2>5, <2>6
<1>15. ASSUME NEW t \in Threads, NewLoadPtr(t) PROVE TypeOK'
  <2>1. ProxyType'
    BY <1>15 DEF NewLoadPtr, ProxyType, proxyVars
  <2>2. NodeType'
    BY <1>15 DEF NewLoadPtr, NodeType, nodeVars
  <2>3. HeapType'
    BY <1>15 DEF NewLoadPtr, HeapType, heapVars
  <2>4. ClientType'
    BY <1>15 DEF NewLoadPtr, Goto, ClientType, clientVars, PCs
  <2>5. LocalType'
    BY <1>15 DEF NewLoadPtr, LoadPtr, ProxyType, LocalType
  <2>6. HistoryType'
    BY <1>15 DEF NewLoadPtr, HistoryType, historyVars
  <2> QED
    BY <2>1, <2>2, <2>3, <2>4, <2>5, <2>6
<1>16. ASSUME NEW t \in Threads, NewLoadSeq(t) PROVE TypeOK'
  <2>1. ProxyType'
    BY <1>16 DEF NewLoadSeq, ProxyType, proxyVars
  <2>2. NodeType'
    BY <1>16 DEF NewLoadSeq, NodeType, nodeVars
  <2>3. HeapType'
    BY <1>16 DEF NewLoadSeq, HeapType, heapVars
  <2>4. ClientType'
    BY <1>16 DEF NewLoadSeq, Goto, ClientType, clientVars, PCs
  <2>5. LocalType'
    BY <1>16 DEF NewLoadSeq, LoadSeq, ProxyType, LocalType
  <2>6. HistoryType'
    BY <1>16 DEF NewLoadSeq, HistoryType, historyVars
  <2> QED
    BY <2>1, <2>2, <2>3, <2>4, <2>5, <2>6
<1>17. ASSUME NEW t \in Threads, NewTest(t) PROVE TypeOK'
  <2>1. ProxyType'
    BY <1>17 DEF NewTest, ProxyType, proxyVars
  <2>2. NodeType'
    BY <1>17 DEF NewTest, NodeType, nodeVars
  <2>3. HeapType'
    BY <1>17 DEF NewTest, HeapType, heapVars
  <2>4. ClientType'
    BY <1>17 DEF NewTest, Goto, ClientType, clientVars, PCs
  <2>5. LocalType'
    BY <1>17 DEF NewTest, LocalType, localVars
  <2>6. HistoryType'
    BY <1>17 DEF NewTest, HistoryType, historyVars
  <2> QED
    BY <2>1, <2>2, <2>3, <2>4, <2>5, <2>6
<1>18. ASSUME NEW t \in Threads, NewRead(t) PROVE TypeOK'
  <2>1. ProxyType'
    BY <1>18 DEF NewRead, ProxyType, proxyVars
  <2>2. NodeType'
    BY <1>18 DEF NewRead, NodeType, nodeVars
  <2>3. HeapType'
    BY <1>18 DEF NewRead, HeapType, heapVars
  <2>4. ClientType'
    BY <1>18 DEF NewRead, Goto, ClientType, clientVars, PCs
  <2>5. LocalType'
    BY <1>18 DEF NewRead, NextOf, NodeType, HeapType, LocalType
  <2>6. HistoryType'
    BY <1>18 DEF NewRead, HistoryType, historyVars
  <2> QED
    BY <2>1, <2>2, <2>3, <2>4, <2>5, <2>6
<1>19. ASSUME NEW t \in Threads, NewCas(t) PROVE TypeOK'
  <2>1. ProxyType'
    BY <1>19 DEF NewCas, ProxyType, LocalType
  <2>2. NodeType'
    BY <1>19 DEF NewCas, NodeType, nodeVars
  <2>3. HeapType'
    BY <1>19 DEF NewCas, HeapType, heapVars
  <2>4. ClientType'
    BY <1>19 DEF NewCas, Goto, ClientType, clientVars, PCs
  <2>5. LocalType'
    <3>1. /\ freeHead \in Sequenced /\ node \in [Threads -> NodeOrNull]
          /\ old \in [Threads -> Sequenced] /\ old[t].ptr \in NodeOrNull
      BY DEF ProxyType, LocalType, Sequenced
    <3>2. node' \in [Threads -> NodeOrNull] /\ old' \in [Threads -> Sequenced]
      BY <1>19, <3>1 DEF NewCas
    <3> QED
      BY <1>19, <3>2 DEF NewCas, LocalType
  <2>6. HistoryType'
    <3>1. pos' \in [Nodes -> Int]
      BY <1>19 DEF NewCas, HistoryType
    <3>2. mark' \in [Nodes -> Nat]
      <4>1. mark' = mark \/ mark' = [mark EXCEPT ![old[t].ptr] = 0]
        BY <1>19 DEF NewCas
      <4> QED
        BY <4>1 DEF HistoryType
    <3> QED
      BY <1>19, <3>1, <3>2 DEF NewCas, HistoryType
  <2> QED
    BY <2>1, <2>2, <2>3, <2>4, <2>5, <2>6
<1>20. ASSUME NEW t \in Threads, NewLoadNum(t) PROVE TypeOK'
  <2>1. ProxyType'
    BY <1>20 DEF NewLoadNum, ProxyType, proxyVars
  <2>2. NodeType'
    BY <1>20 DEF NewLoadNum, NodeType, nodeVars
  <2>3. HeapType'
    BY <1>20 DEF NewLoadNum, HeapType, heapVars
  <2>4. ClientType'
    BY <1>20 DEF NewLoadNum, Goto, ClientType, clientVars, PCs
  <2>5. LocalType'
    BY <1>20 DEF NewLoadNum, ProxyType, LocalType
  <2>6. HistoryType'
    BY <1>20 DEF NewLoadNum, HistoryType, historyVars
  <2> QED
    BY <2>1, <2>2, <2>3, <2>4, <2>5, <2>6
<1>21. ASSUME NEW t \in Threads, NewIncNum(t) PROVE TypeOK'
  <2>1. ProxyType'
    BY <1>21 DEF NewIncNum, ProxyType
  <2>2. NodeType'
    BY <1>21 DEF NewIncNum, NodeType, nodeVars
  <2>3. HeapType'
    BY <1>21 DEF NewIncNum, HeapType, heapVars
  <2>4. ClientType'
    BY <1>21 DEF NewIncNum, Goto, ClientType, clientVars, PCs
  <2>5. LocalType'
    BY <1>21 DEF NewIncNum, ProxyType, LocalType
  <2>6. HistoryType'
    BY <1>21 DEF NewIncNum, HistoryType, historyVars
  <2> QED
    BY <2>1, <2>2, <2>3, <2>4, <2>5, <2>6
<1>22. ASSUME NEW t \in Threads, NewCheckMax(t) PROVE TypeOK'
  <2>1. ProxyType'
    BY <1>22 DEF NewCheckMax, ProxyType, proxyVars
  <2>2. NodeType'
    BY <1>22 DEF NewCheckMax, NodeType, nodeVars
  <2>3. HeapType'
    BY <1>22 DEF NewCheckMax, HeapType, heapVars
  <2>4. ClientType'
    BY <1>22 DEF NewCheckMax, Retry, Goto, ClientType, clientVars, PCs
  <2>5. LocalType'
    BY <1>22, RetryType DEF NewCheckMax, LocalType, localVars
  <2>6. HistoryType'
    BY <1>22 DEF NewCheckMax, HistoryType, historyVars
  <2> QED
    BY <2>1, <2>2, <2>3, <2>4, <2>5, <2>6
<1>23. ASSUME NEW t \in Threads, NewAlloc(t) PROVE TypeOK'
  <2>1. ProxyType'
    BY <1>23 DEF NewAlloc, ProxyType, proxyVars
  <2>2. NodeType'
    BY <1>23 DEF NewAlloc, NodeType, nodeVars
  <2>3. HeapType'
    BY <1>23 DEF NewAlloc, HeapType
  <2>4. ClientType'
    BY <1>23 DEF NewAlloc, Retry, Goto, ClientType, clientVars, PCs
  <2>5. LocalType'
    BY <1>23, RetryType DEF NewAlloc, LocalType
  <2>6. HistoryType'
    BY <1>23 DEF NewAlloc, HistoryType, historyVars
  <2> QED
    BY <2>1, <2>2, <2>3, <2>4, <2>5, <2>6
<1>24. ASSUME NEW t \in Threads, NewInit(t) PROVE TypeOK'
  <2>1. ProxyType'
    BY <1>24 DEF NewInit, ProxyType, proxyVars
  <2>2. NodeType'
    <3>1. arg[t] \in DataOrNull
      BY DEF LocalType
    <3>2. next' \in [Nodes -> NodeOrNull]
      BY <1>24 DEF NewInit, NodeType
    <3>3. data' \in [Nodes -> DataOrNull]
      BY <1>24, <3>1 DEF NewInit, NodeType
    <3>4. count' \in [Nodes -> Int]
      <4>1. InitialCount \in Int
        BY DEF InitialCount, GUARD_BIT, REFERENCE
      <4>2. CASE Alloc(t)
        BY <1>24, <4>1, <4>2 DEF NewInit, NodeType
      <4>3. CASE ~Alloc(t)
        <5>1. count' = [count EXCEPT ![node[t]] = 0]
          BY <1>24, <4>3 DEF NewInit
        <5>2. CASE node[t] \in Nodes
          BY <5>1, <5>2 DEF NodeType
        <5>3. CASE node[t] \notin Nodes
          BY <5>1, <5>3 DEF NodeType
        <5> QED
          BY <5>2, <5>3
      <4> QED
        BY <4>2, <4>3
    <3> QED
      BY <3>2, <3>3, <3>4 DEF NodeType
  <2>3. HeapType'
    BY <1>24 DEF NewInit, HeapType, heapVars
  <2>4. ClientType'
    BY <1>24 DEF NewInit, Goto, ClientType, clientVars, PCs
  <2>5. LocalType'
    BY <1>24 DEF NewInit, LocalType, localVars
  <2>6. HistoryType'
    BY <1>24 DEF NewInit, HistoryType, historyVars
  <2> QED
    BY <2>1, <2>2, <2>3, <2>4, <2>5, <2>6
<1>25. ASSUME NEW t \in Threads, QueueLoadPtr(t) PROVE TypeOK'
  <2>1. ProxyType'
    BY <1>25 DEF QueueLoadPtr, ProxyType, proxyVars
  <2>2. NodeType'
    BY <1>25 DEF QueueLoadPtr, NodeType, nodeVars
  <2>3. HeapType'
    BY <1>25 DEF QueueLoadPtr, HeapType, heapVars
  <2>4. ClientType'
    BY <1>25 DEF QueueLoadPtr, Goto, ClientType, clientVars, PCs
  <2>5. LocalType'
    BY <1>25 DEF QueueLoadPtr, LoadPtr, ProxyType, LocalType
  <2>6. HistoryType'
    BY <1>25 DEF QueueLoadPtr, HistoryType, historyVars
  <2> QED
    BY <2>1, <2>2, <2>3, <2>4, <2>5, <2>6
<1>26. ASSUME NEW t \in Threads, QueueLoadSeq(t) PROVE TypeOK'
  <2>1. ProxyType'
    BY <1>26 DEF QueueLoadSeq, ProxyType, proxyVars
  <2>2. NodeType'
    BY <1>26 DEF QueueLoadSeq, NodeType, nodeVars
  <2>3. HeapType'
    BY <1>26 DEF QueueLoadSeq, HeapType, heapVars
  <2>4. ClientType'
    BY <1>26 DEF QueueLoadSeq, Goto, ClientType, clientVars, PCs
  <2>5. LocalType'
    BY <1>26 DEF QueueLoadSeq, LoadSeq, ProxyType, LocalType
  <2>6. HistoryType'
    BY <1>26 DEF QueueLoadSeq, HistoryType, historyVars
  <2> QED
    BY <2>1, <2>2, <2>3, <2>4, <2>5, <2>6
<1>27. ASSUME NEW t \in Threads, QueueCas(t) PROVE TypeOK'
  <2>1. ProxyType'
    BY <1>27 DEF QueueCas, ProxyType, LocalType
  <2>2. NodeType'
    BY <1>27 DEF QueueCas, NodeType, nodeVars
  <2>3. HeapType'
    BY <1>27 DEF QueueCas, HeapType, heapVars
  <2>4. ClientType'
    BY <1>27 DEF QueueCas, Goto, ClientType, clientVars, PCs
  <2>5. LocalType'
    BY <1>27 DEF QueueCas, ProxyType, LocalType
  <2>6. HistoryType'
    <3>1. CASE tail = old[t]
      <4>1. log' \in Seq(Data)
        <5>1. CASE arg[t] = NULL
          BY <1>27, <3>1, <5>1 DEF QueueCas, HistoryType
        <5>2. CASE arg[t] # NULL
          <6>1. arg[t] \in Data
            BY <5>2 DEF LocalType
          <6>2. log' = Append(log, arg[t])
            BY <1>27, <3>1, <5>2 DEF QueueCas
          <6> QED
            BY <6>1, <6>2 DEF HistoryType
        <5> QED
          BY <5>1, <5>2
      <4>2. guard' \in [Data -> SUBSET Threads]
        <5>1. Holding \in SUBSET Threads
          BY DEF Holding
        <5>2. guard' = guard \/ guard' = [guard EXCEPT ![arg[t]] = Holding]
          BY <1>27, <3>1 DEF QueueCas
        <5> QED
          BY <5>1, <5>2 DEF HistoryType
      <4>3. mark' \in [Nodes -> Nat]
        BY <1>27, <3>1, <4>1 DEF QueueCas, HistoryType
      <4>4. pos' \in [Nodes -> Int]
        <5>1. Place(old[t].ptr) \in Int
          BY DEF Place, HistoryType
        <5> QED
          BY <1>27, <3>1, <5>1 DEF QueueCas, HistoryType
      <4> QED
        BY <1>27, <3>1, <4>1, <4>2, <4>3, <4>4 DEF QueueCas, HistoryType
    <3>2. CASE tail # old[t]
      BY <1>27, <3>2 DEF QueueCas, HistoryType
    <3> QED
      BY <3>1, <3>2
  <2> QED
    BY <2>1, <2>2, <2>3, <2>4, <2>5, <2>6
<1>28. ASSUME NEW t \in Threads, QueueLink(t) PROVE TypeOK'
  <2>1. ProxyType'
    BY <1>28 DEF QueueLink, ProxyType, proxyVars
  <2>2. NodeType'
    BY <1>28 DEF QueueLink, NodeType, LocalType
  <2>3. HeapType'
    BY <1>28 DEF QueueLink, HeapType, heapVars
  <2>4. ClientType'
    BY <1>28 DEF QueueLink, Goto, ClientType, clientVars, PCs
  <2>5. LocalType'
    BY <1>28 DEF QueueLink, Adjust, REFERENCE, GUARD_BIT, LocalType, clientVars, historyVars
  <2>6. HistoryType'
    BY <1>28 DEF QueueLink, HistoryType, historyVars
  <2> QED
    BY <2>1, <2>2, <2>3, <2>4, <2>5, <2>6
<1>29. ASSUME NEW m \in Limits, SetMaxNodes(m) PROVE TypeOK'
  BY <1>29, StpcAssumption DEF SetMaxNodes, ProxyType, NodeType, HeapType, ClientType,
     LocalType, HistoryType, nodeVars, heapVars, clientVars, localVars, historyVars
<1>30. CASE DeleteProxy
  BY <1>30 DEF DeleteProxy, ProxyType, NodeType, HeapType, ClientType, LocalType,
     HistoryType, proxyVars, nodeVars, clientVars, localVars, historyVars
<1>31. CASE UNCHANGED vars
  BY <1>31 DEF vars, ProxyType, NodeType, HeapType, ClientType, LocalType, HistoryType,
     proxyVars, nodeVars, heapVars, clientVars, localVars, historyVars
<1> QED
  BY NextCases, <1>1, <1>2, <1>3, <1>4, <1>5, <1>6, <1>7, <1>8, <1>9, <1>10, <1>11, <1>12,
     <1>13, <1>14, <1>15, <1>16, <1>17, <1>18, <1>19, <1>20, <1>21, <1>22, <1>23, <1>24,
     <1>25, <1>26, <1>27, <1>28, <1>29, <1>30, <1>31
     DEF Enter, Step

(* Every variable keeps the type that the C declarations give it; in       *)
(* particular nothing but data ever gets into log and done.                *)
THEOREM TypeCorrect == Spec => []TypeOK
<1>1. Init => TypeOK
  BY TypeInit
<1>2. TypeOK /\ [Next]_vars => TypeOK'
  BY TypeStep
<1> QED
  BY <1>1, <1>2, PTL DEF Spec

-------------------------------------------------------------------------------
(* Counting references *)

(* The users of a node can be counted, there being finitely many threads. *)
LEMMA UsersNat ==
    ASSUME NEW n
    PROVE  /\ IsFiniteSet(Refs(n)) /\ IsFiniteSet(Drops(n))
           /\ Cardinality(Refs(n)) \in Nat /\ Cardinality(Drops(n)) \in Nat
           /\ LinkTo(n) \in {0, 1}
           /\ Users(n) \in Nat
<1>1. Refs(n) \subseteq Threads /\ Drops(n) \subseteq Threads
  BY DEF Refs, Drops
<1>2. IsFiniteSet(Refs(n)) /\ IsFiniteSet(Drops(n))
  BY <1>1, StpcAssumption, FS_Subset
<1>3. Cardinality(Refs(n)) \in Nat /\ Cardinality(Drops(n)) \in Nat
  BY <1>2, FS_CardinalityType
<1>4. LinkTo(n) \in {0, 1}
  BY DEF LinkTo
<1> QED
  BY <1>2, <1>3, <1>4 DEF Users

(* Nobody uses a node with no users. *)
LEMMA NoUsers ==
    ASSUME NEW n, Users(n) = 0
    PROVE  Refs(n) = {} /\ Drops(n) = {} /\ LinkTo(n) = 0
<1>1. Cardinality(Refs(n)) = 0 /\ Cardinality(Drops(n)) = 0 /\ LinkTo(n) = 0
  BY UsersNat DEF Users
<1> QED
  BY <1>1, UsersNat, FS_EmptySet

(* The only user of a node is the dropper t. *)
LEMMA OneUser ==
    ASSUME NEW n, NEW t \in Drops(n), Users(n) = 1
    PROVE  Refs(n) = {} /\ Drops(n) = {t} /\ LinkTo(n) = 0
<1>1. Drops(n) # {}
  OBVIOUS
<1>2. Cardinality(Drops(n)) # 0
  BY <1>1, UsersNat, FS_EmptySet
<1>3. Cardinality(Refs(n)) = 0 /\ Cardinality(Drops(n)) = 1 /\ LinkTo(n) = 0
  BY <1>2, UsersNat DEF Users
<1>4. Refs(n) = {}
  BY <1>3, UsersNat, FS_EmptySet
<1>5. \E x : Drops(n) = {x}
  BY <1>3, UsersNat, FS_Singleton
<1> QED
  BY <1>3, <1>4, <1>5

-------------------------------------------------------------------------------
(* Steps that do not concern the chain *)

(* A thread that has something to do with nodes of the chain. *)
Held(t) == Dropping(t) \/ Passing(t) \/ Reclaiming(t) \/ Linking(t)

(* The other threads' part in the invariant. *)
OthersSame(t) ==
    \A u \in Threads \ {t} :
        /\ pc'[u] = pc[u] /\ old'[u] = old[u] /\ node'[u] = node[u]
        /\ nxt'[u] = nxt[u] /\ adv'[u] = adv[u]
        /\ rcount'[u] = rcount[u] /\ arg'[u] = arg[u]

(* A step of t that leaves the nodes in use, and what is owed to them, as  *)
(* they are.                                                               *)
InUseSame(t) ==
    /\ UNCHANGED <<tail, freeTail, ref>>
    /\ OthersSame(t)
    /\ ~Held(t) /\ ~Held(t)'
    /\ \A n \in Nodes :
          \/ /\ pos[n] >= pos[freeTail] /\ pos'[n] = pos[n]
             /\ count'[n] = count[n] /\ next'[n] = next[n]
          \/ pos[n] < pos[freeTail] /\ pos'[n] < pos[freeTail]

(* Such a step of t keeps the parts of the invariant that are about the    *)
(* nodes in use.                                                           *)
LEMMA InUseStep ==
    ASSUME TypeOK, TypeOK', ChainInv, NEW t \in Threads, InUseSame(t)
    PROVE  /\ Touched' /\ Counts' /\ Reclaims'
           /\ \A u \in Threads : Held(u)' <=> Held(u)
<1> USE DEF InUseSame, OthersSame
<1>1. \A u \in Threads : /\ Linking(u)' <=> Linking(u)
                         /\ Dropping(u)' <=> Dropping(u)
                         /\ Passing(u)' <=> Passing(u)
                         /\ Reclaiming(u)' <=> Reclaiming(u)
                         /\ (pc'[u] = "d_store") <=> (pc[u] = "d_store")
                         /\ Held(u) => u # t
  BY DEF Linking, Dropping, Passing, Reclaiming, Held
<1>2. /\ freeTail \in Nodes /\ tail.ptr \in Nodes
      /\ pos[tail.ptr] >= pos[freeTail]
      /\ \A n \in Nodes : pos[n] \in Nat /\ pos'[n] \in Int
      /\ pos'[freeTail] = pos[freeTail]
  <2>1. /\ freeTail \in Nodes /\ tail.ptr \in Nodes
        /\ pos[tail.ptr] >= pos[freeTail]
        /\ \A n \in Nodes : pos[n] \in Nat
    BY DEF ChainInv, Places
  <2>2. pos' \in [Nodes -> Int]
    BY DEF TypeOK, HistoryType
  <2>3. pos'[freeTail] = pos[freeTail]
    BY <2>1
  <2> QED
    BY <2>1, <2>2, <2>3
<1>3. Touched'
  BY <1>1, <1>2 DEF ChainInv, Touched, Held, TypeOK, ClientType, NodeOrNull
<1>4. \A n \in Nodes : /\ Refs(n)' = Refs(n) /\ Drops(n)' = Drops(n)
                       /\ Users(n)' = Users(n)
  <2> SUFFICES ASSUME NEW n \in Nodes
               PROVE  Refs(n)' = Refs(n) /\ Drops(n)' = Drops(n) /\ Users(n)' = Users(n)
    OBVIOUS
  <2>1. Refs(n)' = Refs(n)
    BY DEF Refs
  <2>2. Drops(n)' = Drops(n)
    BY <1>1 DEF Drops, Held
  <2>3. LinkTo(n)' = LinkTo(n)
    BY <1>2 DEF LinkTo
  <2> QED
    BY <2>1, <2>2, <2>3 DEF Users
<1>5. \A u \in Threads, n \in Nodes : /\ Closes(u, n)' <=> Closes(u, n)
                                      /\ Closes(u, n) => Taken(u)' = Taken(u)
                                      /\ Closes(u, n) => pos[n] >= pos[freeTail]
  BY <1>1, <1>2 DEF Closes, Taken, Held, ChainInv, Links, Touched
<1>6. Counts'
  BY <1>1, <1>2, <1>4, <1>5 DEF ChainInv, Counts, Held
<1>7. Reclaims'
  BY <1>1, <1>2, <1>4, <1>5 DEF ChainInv, Reclaims, Held
<1> QED
  BY <1>1, <1>3, <1>6, <1>7 DEF Held

(* A step of t on its own, before it owns a node or while it queues it.    *)
Local(t) ==
    /\ UNCHANGED <<tail, freeHead, freeTail, nodeVars, heapVars, ref,
                   log, done, guard, pos>>
    /\ OthersSame(t)
    /\ ~Held(t) /\ ~Held(t)'
    /\ Owns(t)' =>
          /\ Owns(t) /\ node'[t] = node[t] /\ arg'[t] = arg[t]
          /\ pc[t] \in {"q_ptr", "q_seq", "q_cas"}

(* What is left to show of such a step. *)
PopOf(t) ==
    /\ pc[t] \in {"n_test", "n_read", "n_cas"} => old[t].seq <= freeHead.seq
    /\ pc[t] \in {"n_read", "n_cas"} /\ old[t] = freeHead => freeHead.ptr # freeTail
    /\ pc[t] = "n_cas" /\ old[t] = freeHead => nxt[t] = next[freeHead.ptr]

(* The data that t is to defer is nobody else's and not yet deferred. *)
ArgOf(t) ==
    /\ \A u \in Threads \ {t} : arg[t] # NULL => arg[t] # arg[u]
    /\ Unqueued(t) => arg[t] \notin Logged

(* With that, such a step keeps the invariant. *)
LEMMA LocalStep ==
    ASSUME TypeOK, TypeOK', ChainInv, NEW t \in Threads, Local(t), PopOf(t)', ArgOf(t)',
           pc'[t] \in {"g_seq", "g_cas"} => ref[t] = NULL
    PROVE  ChainInv'
<1> USE DEF Local, OthersSame, nodeVars, heapVars
<1>1. Places'
  BY DEF ChainInv, Places
<1>2. InUseSame(t)
  BY DEF InUseSame, ChainInv, Places
<1>3. Touched' /\ Counts' /\ Reclaims'
  BY <1>2, InUseStep
<1>4. Links'
  BY DEF ChainInv, Links, Linking, Held
<1>5. Owners'
  BY DEF ChainInv, Owners, Owns
<1>6. Pops'
  BY DEF ChainInv, Pops, PopOf
<1>7. Queued'
  BY DEF ChainInv, Queued, ArgOf, Unqueued, Logged
<1>8. Guards'
  BY DEF ChainInv, Guards
<1> QED
  BY <1>1, <1>3, <1>4, <1>5, <1>6, <1>7, <1>8 DEF ChainInv

(* What becomes of the thread's own variables. *)
LEMMA AfterReturn ==
    ASSUME TypeOK, NEW t \in Threads, Return(t)
    PROVE  pc'[t] = "idle" /\ arg'[t] = NULL /\ OthersSame(t)
BY DEF TypeOK, ClientType, LocalType, Return, Goto, OthersSame

(* The retry of stpcDeferredDelete when no node could be had. *)
LEMMA AfterRetry ==
    ASSUME TypeOK, NEW t \in Threads, Retry(t)
    PROVE  pc'[t] = "n_ptr" /\ arg' = arg /\ OthersSame(t)
BY DEF TypeOK, ClientType, LocalType, Retry, Goto, OthersSame

(* The loop of stpcTryDeleteProxyNodes goes on to _newNode or returns. *)
LEMMA AfterTrimLoop ==
    ASSUME TypeOK, NEW t \in Threads, NEW k \in Int, NEW cur \in Int, TrimLoop(t, k, cur)
    PROVE  /\ pc'[t] \in {"idle", "n_ptr"}
           /\ arg'[t] \in {NULL, arg[t]} /\ OthersSame(t)
<1>1. CASE k > 0 /\ cur > 1
  BY <1>1 DEF TypeOK, ClientType, LocalType, TrimLoop, Goto, OthersSame
<1>2. CASE ~(k > 0 /\ cur > 1)
  BY <1>2, AfterReturn DEF TrimLoop
<1> QED
  BY <1>1, <1>2

(* A node without data adds nothing to the log. *)
LEMMA NullNotLogged ==
    ASSUME TypeOK
    PROVE  Logged \subseteq Data /\ NULL \notin Logged
BY StpcAssumption DEF TypeOK, HistoryType, Logged

(* The two steps that begin an iteration of stpcTryDeleteProxyNodes.       *)
LEMMA AfterTrim ==
    ASSUME TypeOK, ChainInv, NEW t \in Threads, pc[t] \in {"idle", "t_dec"},
           UNCHANGED <<tail, freeHead, freeTail, nodeVars, heapVars, ref, historyVars>>,
           pc'[t] \in {"idle", "n_ptr"}, arg'[t] \in {NULL, arg[t]}, OthersSame(t)
    PROVE  /\ Local(t) /\ PopOf(t)' /\ ArgOf(t)'
           /\ pc'[t] \in {"g_seq", "g_cas"} => ref[t] = NULL
<1>1. Local(t)
  BY DEF Local, Held, Dropping, Passing, Reclaiming, Linking, Owns, historyVars
<1>2. PopOf(t)'
  BY DEF PopOf
<1>3. /\ \A u \in Threads \ {t} : arg[t] # NULL => arg[t] # arg[u]
      /\ arg[t] \notin Logged
  BY DEF ChainInv, Queued, Unqueued
<1>4. Logged' = Logged
  BY DEF Logged, historyVars
<1>5. ArgOf(t)'
  <2>1. CASE arg'[t] = NULL
    BY <1>4, <2>1, NullNotLogged DEF ArgOf
  <2>2. CASE arg'[t] = arg[t]
    BY <1>3, <1>4, <2>2 DEF ArgOf, OthersSame
  <2> QED
    BY <2>1, <2>2
<1> QED
  BY <1>1, <1>2, <1>5

(* The actions that are such steps. *)
LEMMA LocalActions ==
    ASSUME TypeOK, TypeOK', ChainInv, NEW t \in Threads,
           \/ GetCall(t) \/ GetLoadSeq(t) \/ (GetCas(t) /\ tail # old[t])
           \/ DeferCall(t) \/ TrimCall(t) \/ TrimDec(t)
           \/ NewLoadPtr(t) \/ NewLoadSeq(t) \/ NewTest(t) \/ NewRead(t)
           \/ (NewCas(t) /\ freeHead # old[t])
           \/ NewLoadNum(t) \/ NewIncNum(t) \/ NewCheckMax(t)
           \/ (NewAlloc(t) /\ heap' = heap)
           \/ QueueLoadPtr(t) \/ QueueLoadSeq(t) \/ (QueueCas(t) /\ tail # old[t])
    PROVE  ChainInv'
<1> DEFINE Q == /\ Local(t) /\ PopOf(t)' /\ ArgOf(t)'
                /\ pc'[t] \in {"g_seq", "g_cas"} => ref[t] = NULL
<1> SUFFICES Q
  BY LocalStep
<1> USE DEF TypeOK, ClientType, LocalType, Held, Dropping, Passing, Reclaiming, Linking,
            Owns, Unqueued, Local, OthersSame, PopOf, ArgOf, Logged,
            proxyVars, nodeVars, heapVars, clientVars, localVars, historyVars
<1>0. /\ \A u \in Threads \ {t} : arg[t] # NULL => arg[t] # arg[u]
      /\ Unqueued(t) => arg[t] \notin Logged
      /\ pc[t] \in {"g_seq", "g_cas"} => ref[t] = NULL
  BY DEF ChainInv, Queued, Guards
<1>1. CASE GetCall(t)
  BY <1>0, <1>1 DEF GetCall, Call, LoadPtr, Goto
<1>2. CASE GetLoadSeq(t)
  BY <1>0, <1>2 DEF GetLoadSeq, LoadSeq, Goto
<1>3. CASE GetCas(t) /\ tail # old[t]
  BY <1>0, <1>3 DEF GetCas
<1>4. CASE DeferCall(t)
  <2>1. pc[t] = "idle" /\ pc'[t] = "n_ptr" /\ OthersSame(t)
    BY <1>4 DEF DeferCall, Call, Goto
  <2>2. /\ arg'[t] \notin Logged
        /\ \A u \in Threads \ {t} : arg'[t] # NULL => arg'[t] # arg[u]
    BY <1>4, NullNotLogged DEF DeferCall
  <2>3. UNCHANGED <<tail, freeHead, freeTail, nodeVars, heapVars, ref, historyVars>>
    BY <1>4 DEF DeferCall
  <2> QED
    BY <2>1, <2>2, <2>3
<1>5. CASE TrimCall(t)
  <2>1. PICK k \in 1..MaxTrim : TrimLoop(t, k, numNodes)
    BY <1>5 DEF TrimCall
  <2>2. k \in Int /\ numNodes \in Int
    BY StpcAssumption DEF ProxyType
  <2>3. /\ pc'[t] \in {"idle", "n_ptr"}
        /\ arg'[t] \in {NULL, arg[t]} /\ OthersSame(t)
    BY <2>1, <2>2, AfterTrimLoop
  <2>4. pc[t] = "idle"
    BY <1>5 DEF TrimCall, Call
  <2>5. UNCHANGED <<tail, freeHead, freeTail, nodeVars, heapVars, ref, historyVars>>
    BY <1>5 DEF TrimCall
  <2> QED
    BY <2>3, <2>4, <2>5, AfterTrim
<1>6. CASE TrimDec(t)
  <2>1. left[t] - 1 \in Int /\ Decremented(t) \in Int
    BY DEF ProxyType, Decremented
  <2>2. /\ pc'[t] \in {"idle", "n_ptr"}
        /\ arg'[t] \in {NULL, arg[t]} /\ OthersSame(t)
    BY <1>6, <2>1, AfterTrimLoop DEF TrimDec
  <2>3. pc[t] = "t_dec"
    BY <1>6 DEF TrimDec
  <2>4. UNCHANGED <<tail, freeHead, freeTail, nodeVars, heapVars, ref, historyVars>>
    BY <1>6 DEF TrimDec
  <2> QED
    BY <2>2, <2>3, <2>4, AfterTrim
<1>7. CASE NewLoadPtr(t)
  BY <1>0, <1>7 DEF NewLoadPtr, LoadPtr, Goto
<1>8. CASE NewLoadSeq(t)
  BY <1>0, <1>8 DEF NewLoadSeq, LoadSeq, Goto, ProxyType, Sequenced
<1>9. CASE NewTest(t)
  BY <1>0, <1>9 DEF NewTest, FreeListEmpty, Goto, ChainInv, Pops
<1>10. CASE NewRead(t)
  <2>1. freeHead.ptr \in heap
    BY DEF ChainInv, Places
  <2> QED
    BY <1>0, <1>10, <2>1 DEF NewRead, NextOf, Goto, ChainInv, Pops
<1>11. CASE NewCas(t) /\ freeHead # old[t]
  BY <1>0, <1>11 DEF NewCas, FreeHeadMatches, Goto, ProxyType, Sequenced
<1>12. CASE NewLoadNum(t)
  BY <1>0, <1>12 DEF NewLoadNum, Goto
<1>13. CASE NewIncNum(t)
  BY <1>0, <1>13 DEF NewIncNum, Goto
<1>14. CASE NewCheckMax(t)
  <2>1. CASE Retry(t)
    BY <1>0, <1>14, <2>1, AfterRetry DEF NewCheckMax
  <2>2. CASE Goto(t, "n_alloc") /\ UNCHANGED localVars
    BY <1>0, <1>14, <2>2 DEF NewCheckMax, Goto
  <2> QED
    BY <1>14, <2>1, <2>2 DEF NewCheckMax
<1>15. CASE NewAlloc(t) /\ heap' = heap
  BY <1>0, <1>15, AfterRetry DEF NewAlloc
<1>16. CASE QueueLoadPtr(t)
  BY <1>0, <1>16 DEF QueueLoadPtr, LoadPtr, Goto
<1>17. CASE QueueLoadSeq(t)
  BY <1>0, <1>17 DEF QueueLoadSeq, LoadSeq, Goto
<1>18. CASE QueueCas(t) /\ tail # old[t]
  BY <1>0, <1>18 DEF QueueCas
<1> QED
  BY <1>1, <1>2, <1>3, <1>4, <1>5, <1>6, <1>7, <1>8, <1>9, <1>10, <1>11, <1>12,
     <1>13, <1>14, <1>15, <1>16, <1>17, <1>18

-------------------------------------------------------------------------------
(* Steps on a thread's own node and on the free list *)

(* An allocated node becomes the thread's own, for no one can have it yet. *)
LEMMA NewAllocStep ==
    ASSUME TypeOK, TypeOK', ChainInv, NEW t \in Threads, NewAlloc(t), heap' # heap
    PROVE  ChainInv'
<1>1. PICK n \in Nodes \ heap : /\ heap' = heap \union {n}
                                /\ node' = [node EXCEPT ![t] = n]
                                /\ Goto(t, "n_init")
                                /\ UNCHANGED <<old, nxt, adv, rcount, arg, num, left>>
  BY DEF NewAlloc
<1> USE DEF proxyVars, nodeVars, clientVars, historyVars
<1>2. /\ pc[t] = "n_alloc" /\ pc'[t] = "n_init" /\ node'[t] = n /\ OthersSame(t)
      /\ UNCHANGED <<proxyVars, nodeVars, alive, clientVars, historyVars>>
  BY <1>1 DEF NewAlloc, Goto, TypeOK, ClientType, LocalType, OthersSame
<1>3. pos[n] = 0
  BY DEF ChainInv, Places
<1>4. InUseSame(t)
  BY <1>2 DEF InUseSame, ChainInv, Places, Held, Dropping, Passing, Reclaiming, Linking
<1>5. Touched' /\ Counts' /\ Reclaims'
  BY <1>4, InUseStep
<1>6. Places'
  BY <1>1, <1>2 DEF ChainInv, Places
<1>7. Links'
  BY <1>2 DEF ChainInv, Links, Linking, OthersSame
<1>8. Owners'
  BY <1>1, <1>2, <1>3 DEF ChainInv, Owners, Owns, OthersSame
<1>9. Pops'
  BY <1>2 DEF ChainInv, Pops, OthersSame
<1>10. Queued'
  BY <1>1, <1>2 DEF ChainInv, Queued, Unqueued, Logged, OthersSame
<1>11. Guards'
  BY <1>2 DEF ChainInv, Guards, OthersSame
<1> QED
  BY <1>5, <1>6, <1>7, <1>8, <1>9, <1>10, <1>11 DEF ChainInv

(* _newNode clears the thread's own node, which nobody else looks at. *)
LEMMA NewInitStep ==
    ASSUME TypeOK, TypeOK', ChainInv, NEW t \in Threads, NewInit(t)
    PROVE  ChainInv'
<1> DEFINE n == node[t]
<1> USE DEF proxyVars, heapVars, clientVars, localVars, historyVars
<1>1. n \in Nodes /\ n \in heap /\ pos[n] = 0
  BY DEF NewInit, ChainInv, Owners, Owns
<1>2. /\ pc[t] = "n_init" /\ pc'[t] \in {"q_ptr", "t_free"} /\ OthersSame(t)
      /\ UNCHANGED <<proxyVars, heapVars, clientVars, localVars, historyVars>>
  BY DEF NewInit, Goto, TypeOK, ClientType, OthersSame
<1>3. /\ \A m \in Nodes : m # n => /\ next'[m] = next[m]
                                   /\ count'[m] = count[m] /\ data'[m] = data[m]
      /\ pc'[t] = "q_ptr" => count'[n] = InitialCount
      /\ data'[n] = arg[t]
  BY <1>1 DEF NewInit, Goto, TypeOK, NodeType, ClientType
<1>4. InUseSame(t)
  BY <1>1, <1>2, <1>3
     DEF InUseSame, ChainInv, Places, Held, Dropping, Passing, Reclaiming, Linking
<1>5. Touched' /\ Counts' /\ Reclaims'
  BY <1>4, InUseStep
<1>6. Places'
  BY <1>2 DEF ChainInv, Places
<1>7. Links'
  BY <1>1, <1>2, <1>3 DEF ChainInv, Places, Links, Linking, OthersSame
<1>8. Owners'
  BY <1>1, <1>2, <1>3 DEF ChainInv, Owners, Owns, OthersSame
<1>9. Pops'
  BY <1>1, <1>2, <1>3 DEF ChainInv, Pops, Places, OthersSame
<1>10. Queued'
  BY <1>1, <1>2, <1>3 DEF ChainInv, Queued, Unqueued, Logged, OthersSame
<1>11. Guards'
  BY <1>1, <1>2, <1>3 DEF ChainInv, Guards, OthersSame
<1> QED
  BY <1>5, <1>6, <1>7, <1>8, <1>9, <1>10, <1>11 DEF ChainInv

(* Only the thread that popped a node gives it back to the allocator. *)
LEMMA TrimFreeStep ==
    ASSUME TypeOK, TypeOK', ChainInv, NEW t \in Threads, TrimFree(t)
    PROVE  ChainInv'
<1> USE DEF proxyVars, nodeVars, clientVars, localVars, historyVars
<1>1. node[t] \in Nodes /\ pos[node[t]] = 0
  BY DEF TrimFree, ChainInv, Owners, Owns
<1>2. /\ pc[t] = "t_free" /\ pc'[t] = "t_dec" /\ OthersSame(t)
      /\ UNCHANGED <<proxyVars, nodeVars, alive, clientVars, localVars, historyVars>>
      /\ heap' = heap \ {node[t]}
  BY DEF TrimFree, Goto, TypeOK, ClientType, OthersSame
<1>3. InUseSame(t)
  BY <1>2 DEF InUseSame, ChainInv, Places, Held, Dropping, Passing, Reclaiming, Linking
<1>4. Touched' /\ Counts' /\ Reclaims'
  BY <1>3, InUseStep
<1>5. Places'
  BY <1>1, <1>2 DEF ChainInv, Places
<1>6. Links'
  BY <1>2 DEF ChainInv, Links, Linking, OthersSame
<1>7. Owners'
  BY <1>1, <1>2 DEF ChainInv, Owners, Owns, OthersSame
<1>8. Pops'
  BY <1>2 DEF ChainInv, Pops, OthersSame
<1>9. Queued'
  BY <1>2 DEF ChainInv, Queued, Unqueued, Logged, OthersSame
<1>10. Guards'
  BY <1>2 DEF ChainInv, Guards, OthersSame
<1> QED
  BY <1>4, <1>5, <1>6, <1>7, <1>8, <1>9, <1>10 DEF ChainInv

(* A successful pop: the head is a free node whose successor is on the     *)
(* chain and becomes the head.                                             *)
LEMMA PopFacts ==
    ASSUME TypeOK, ChainInv, NEW t \in Threads, pc[t] = "n_cas", freeHead = old[t]
    PROVE  LET h == freeHead.ptr
               n == next[freeHead.ptr]
           IN  /\ h \in Nodes /\ pos[h] > 0 /\ pos[h] < pos[freeTail]
               /\ nxt[t] = n /\ n \in Nodes /\ pos[n] = pos[h] + 1
               /\ h # freeTail /\ h # tail.ptr
<1> DEFINE h == freeHead.ptr
<1>1. h # freeTail /\ nxt[t] = next[h]
  BY DEF ChainInv, Pops
<1>2. /\ h \in Nodes /\ pos[h] > 0 /\ pos[h] < pos[freeTail]
      /\ pos[freeTail] <= pos[tail.ptr] /\ h # tail.ptr
  BY <1>1 DEF ChainInv, Places
<1>3. ~\E u \in Threads : Linking(u) /\ old[u].ptr = h
  BY <1>2 DEF ChainInv, Places, Links
<1> QED
  BY <1>1, <1>2, <1>3 DEF ChainInv, Links

(* A pop takes the first place off the chain; by Pops the new free head is *)
(* the successor of the old one, and by Places the old one is not in use.  *)
LEMMA NewCasStep ==
    ASSUME TypeOK, TypeOK', ChainInv, NEW t \in Threads, NewCas(t), freeHead = old[t]
    PROVE  ChainInv'
<1> DEFINE h == freeHead.ptr
           n == next[h]
<1> USE DEF nodeVars, heapVars, clientVars
<1>1. /\ h \in Nodes /\ pos[h] > 0 /\ pos[h] < pos[freeTail]
      /\ nxt[t] = n /\ n \in Nodes /\ pos[n] = pos[h] + 1
      /\ h # freeTail /\ h # tail.ptr
  BY PopFacts DEF NewCas
<1>2. /\ pc[t] = "n_cas" /\ pc'[t] = "n_init" /\ node'[t] = h /\ OthersSame(t)
      /\ freeHead' = [ptr |-> n, seq |-> freeHead.seq + 1]
      /\ UNCHANGED <<tail, freeTail, nodeVars, heapVars, ref, arg, log, done, guard>>
  BY <1>1 DEF NewCas, FreeHeadMatches, Goto, TypeOK, ClientType, LocalType, OthersSame
<1>3. pos'[h] = 0 /\ \A m \in Nodes : m # h => pos'[m] = pos[m]
  BY <1>1 DEF NewCas, FreeHeadMatches, TypeOK, HistoryType
<1>4. \A m \in Nodes : pos[m] \in Nat
  BY DEF ChainInv, Places
<1>5. InUseSame(t)
  BY <1>1, <1>2, <1>3, <1>4
     DEF InUseSame, ChainInv, Places, Held, Dropping, Passing, Reclaiming, Linking
<1>6. Touched' /\ Counts' /\ Reclaims'
  BY <1>5, InUseStep
<1>7. Places'
  BY <1>1, <1>2, <1>3, <1>4 DEF ChainInv, Places
<1>8. Links'
  BY <1>1, <1>2, <1>3, <1>4 DEF ChainInv, Places, Links, Linking, OthersSame
<1>9. Owners'
  BY <1>1, <1>2, <1>3 DEF ChainInv, Places, Owners, Owns, OthersSame
<1>10. Pops'
  <2>1. freeHead'.seq = freeHead.seq + 1 /\ freeHead.seq \in Int
    BY <1>2 DEF TypeOK, ProxyType, Sequenced
  <2>2. \A u \in Threads : old[u].seq \in Int
    BY DEF TypeOK, LocalType, Sequenced
  <2> QED
    BY <1>2, <2>1, <2>2 DEF ChainInv, Pops, OthersSame
<1>11. Queued'
  BY <1>1, <1>2, <1>3 DEF ChainInv, Queued, Unqueued, Logged, OthersSame
<1>12. Guards'
  <2>1. \A d \in Data : guard[d] \subseteq Threads
    BY DEF TypeOK, HistoryType
  <2>2. \A u \in Threads : ref[u] # NULL => ref[u] \in Nodes /\ pos[ref[u]] >= pos[freeTail]
    BY DEF TypeOK, ClientType, NodeOrNull, ChainInv, Touched
  <2>3. freeTail \in Nodes
    BY DEF ChainInv, Places
  <2>4. \A u \in Threads : ref[u] # NULL => pos'[ref[u]] = pos[ref[u]]
    BY <1>1, <1>3, <1>4, <2>2, <2>3
  <2> QED
    BY <1>1, <1>2, <1>3, <2>1, <2>4 DEF ChainInv, Guards, OthersSame
<1> QED
  BY <1>6, <1>7, <1>8, <1>9, <1>10, <1>11, <1>12 DEF ChainInv

-------------------------------------------------------------------------------
(* Steps on the tail *)

(* What the other threads owe does not change with a step of t. *)
LEMMA OthersKinds ==
    ASSUME NEW t \in Threads, OthersSame(t)
    PROVE  \A u \in Threads \ {t} :
               /\ Linking(u)' <=> Linking(u)
               /\ Dropping(u)' <=> Dropping(u)
               /\ Passing(u)' <=> Passing(u)
               /\ Reclaiming(u)' <=> Reclaiming(u)
               /\ (pc'[u] = "d_store") <=> (pc[u] = "d_store")
               /\ Owns(u)' <=> Owns(u)
               /\ Unqueued(u)' <=> Unqueued(u)
               /\ Taken(u)' = Taken(u)
               /\ \A n : Closes(u, n)' <=> Closes(u, n)
BY DEF OthersSame, Linking, Dropping, Passing, Reclaiming, Owns, Unqueued, Taken, Closes

(* The two kinds of thread that are not done with a node in use. *)
LEMMA ClosedInUse ==
    ASSUME ChainInv, NEW u \in Threads, NEW n, Closes(u, n)
    PROVE  n \in Nodes /\ pos[n] >= pos[freeTail]
BY DEF ChainInv, Closes, Links, Touched

(* A node that is counted down is at freeTail or behind it. *)
LEMMA DropsInUse ==
    ASSUME ChainInv, NEW n, NEW u \in Drops(n)
    PROVE  n \in Nodes /\ pos[n] >= pos[freeTail]
BY DEF ChainInv, Places, Drops, Touched

(* Taking a reference adds 2 to tail.seq and a user to the tail, whose     *)
(* count stays balanced.                                                   *)
LEMMA GetCasStep ==
    ASSUME TypeOK, TypeOK', ChainInv, NEW t \in Threads, GetCas(t), tail = old[t]
    PROVE  ChainInv'
<1> USE DEF nodeVars, heapVars, historyVars
<1>0. PICK m \in Nodes : m = tail.ptr
  BY DEF ChainInv, Places
<1>1. m \in Nodes /\ NULL \notin Nodes
  BY StpcAssumption
<1>2. /\ pc[t] = "g_cas" /\ ref[t] = NULL
      /\ tail' = [ptr |-> m, seq |-> tail.seq + 2] /\ tail.seq \in Int
      /\ ref'[t] = m /\ \A u \in Threads \ {t} : ref'[u] = ref[u]
      /\ pc'[t] = "idle" /\ arg'[t] = NULL /\ OthersSame(t)
      /\ UNCHANGED <<freeHead, freeTail, nodeVars, heapVars, historyVars>>
  BY <1>0, AfterReturn DEF GetCas, REFERENCE, ChainInv, Guards, TypeOK, ProxyType, ClientType,
                     Sequenced
<1>3. ~Held(t) /\ ~Held(t)' /\ ~Owns(t)'
  BY <1>2 DEF Held, Dropping, Passing, Reclaiming, Linking, Owns
<1>4. \A n \in Nodes : /\ n # m => Refs(n)' = Refs(n)
                       /\ Drops(n)' = Drops(n) /\ LinkTo(n)' = LinkTo(n)
  <2> SUFFICES ASSUME NEW n \in Nodes
               PROVE  /\ n # m => Refs(n)' = Refs(n)
                      /\ Drops(n)' = Drops(n) /\ LinkTo(n)' = LinkTo(n)
    OBVIOUS
  <2>1. n # m => Refs(n)' = Refs(n)
    BY <1>1, <1>2 DEF Refs
  <2>2. \A u \in Threads : u \in Drops(n)' <=> u \in Drops(n)
    BY <1>2, <1>3 DEF Drops, Held, Dropping, Passing, OthersSame
  <2>3. Drops(n)' = Drops(n)
    BY <2>2 DEF Drops
  <2>4. LinkTo(n)' = LinkTo(n)
    BY <1>2 DEF LinkTo
  <2> QED
    BY <2>1, <2>3, <2>4
<1>5. Cardinality(Refs(m)') = Cardinality(Refs(m)) + 1
  <2>1. Refs(m)' = Refs(m) \cup {t} /\ t \notin Refs(m)
    BY <1>1, <1>2 DEF Refs
  <2> QED
    BY <2>1, UsersNat, FS_AddElement
<1>6. /\ \A n \in Nodes : n # m => Users(n)' = Users(n)
      /\ Users(m)' = Users(m) + 1 /\ Users(m) \in Nat
  <2>1. \A n \in Nodes : n # m => Users(n)' = Users(n)
    BY <1>4 DEF Users
  <2>2. /\ Cardinality(Refs(m)) \in Nat /\ Cardinality(Drops(m)) \in Nat
        /\ LinkTo(m) \in {0, 1} /\ Users(m) \in Nat
    BY UsersNat
  <2>3. Users(m)' = Users(m) + 1
    BY <1>1, <1>4, <1>5, <2>2 DEF Users
  <2> QED
    BY <2>1, <2>2, <2>3
<1>7. \A u \in Threads, n \in Nodes :
          (Closes(u, n)' <=> Closes(u, n)) /\ (Closes(u, n) => Taken(u)' = Taken(u))
  BY <1>3, OthersKinds, <1>2 DEF Held, Closes
<1>8. Places'
  BY <1>0, <1>2 DEF ChainInv, Places
<1>9. Links'
  BY <1>0, <1>2, <1>3, OthersKinds DEF ChainInv, Links, Held, OthersSame
<1>10. Owners'
  BY <1>2 DEF ChainInv, Owners, Owns, OthersSame
<1>11. Touched'
  <2>1. pos[m] >= pos[freeTail]
    BY <1>0 DEF ChainInv, Places
  <2> QED
    BY <1>2, <1>3, <2>1, OthersKinds DEF ChainInv, Touched, Held, OthersSame
<1>12. Counts'
  <2>1. count[m] \in Int
    BY <1>1 DEF TypeOK, NodeType
  <2>2. /\ tail'.seq % 2 = 0
        /\ count[m] + tail'.seq = GUARD_BIT + REFERENCE + 2 * Users(m)'
    <3>1. tail.seq % 2 = 0 /\ count[m] + tail.seq = 1 + 2 + 2 * Users(m)
      BY <1>0 DEF ChainInv, Counts, GUARD_BIT, REFERENCE
    <3>2. tail'.seq = tail.seq + 2 /\ tail.seq \in Int
      BY <1>2
    <3> QED
      BY <1>6, <2>1, <3>1, <3>2 DEF GUARD_BIT, REFERENCE
  <2>3. \A u \in Threads, n \in Nodes :
            (Reclaiming(u) /\ node[u] = n)' <=> (Reclaiming(u) /\ node[u] = n)
    BY <1>2, <1>3, OthersKinds DEF Held, OthersSame
  <2> QED
    BY <1>0, <1>2, <1>6, <1>7, <2>2, <2>3 DEF ChainInv, Counts
<1>13. Reclaims'
  BY <1>0, <1>2, <1>3, <1>4, <1>7, OthersKinds DEF ChainInv, Places, Reclaims, Held, OthersSame
<1>14. Pops'
  BY <1>2 DEF ChainInv, Pops, OthersSame
<1>15. Queued'
  BY <1>2, NullNotLogged DEF ChainInv, Queued, Unqueued, Logged, OthersSame
<1>16. Guards'
  <2>1. \A d \in Data : guard[d] \subseteq Threads \ {t}
    BY <1>2 DEF ChainInv, Guards, TypeOK, HistoryType
  <2> QED
    BY <1>2, <2>1 DEF ChainInv, Guards, OthersSame
<1> QED
  BY <1>8, <1>9, <1>10, <1>11, <1>12, <1>13, <1>14, <1>15, <1>16 DEF ChainInv

(* Data is logged when its node becomes the tail. *)
LEMMA LoggedAppend ==
    ASSUME log \in Seq(Data), NEW d \in Data, log' = Append(log, d)
    PROVE  Logged' = Logged \cup {d}
<1>1. /\ Len(log) \in Nat /\ Len(log') = Len(log) + 1 /\ log'[Len(log) + 1] = d
      /\ \A i \in 1..Len(log) : log'[i] = log[i]
  OBVIOUS
<1>2. \A x : x \in Logged' <=> \E i \in 1..(Len(log) + 1) : x = log'[i]
  BY <1>1 DEF Logged
<1>3. \A x : x \in Logged' <=> x \in Logged \/ x = d
  BY <1>1, <1>2 DEF Logged
<1> QED
  BY <1>3

(* Data is done when it has been freed. *)
LEMMA DoneAppend ==
    ASSUME done \in Seq(Data), NEW d \in Data, done' = Append(done, d)
    PROVE  Done' = Done \cup {d}
<1>1. /\ Len(done) \in Nat /\ Len(done') = Len(done) + 1 /\ done'[Len(done) + 1] = d
      /\ \A i \in 1..Len(done) : done'[i] = done[i]
  OBVIOUS
<1>2. \A x : x \in Done' <=> \E i \in 1..(Len(done) + 1) : x = done'[i]
  BY <1>1 DEF Done
<1>3. \A x : x \in Done' <=> x \in Done \/ x = d
  BY <1>1, <1>2 DEF Done
<1> QED
  BY <1>3

(* Queueing a node: it has the tail's reference and that of the link to    *)
(* come, and its data is behind all references that are held.              *)
LEMMA QueueCasStep ==
    ASSUME TypeOK, TypeOK', ChainInv, NEW t \in Threads, QueueCas(t), tail = old[t]
    PROVE  ChainInv'
<1> USE DEF nodeVars, heapVars
<1>0. PICK m \in Nodes, n \in Nodes : m = tail.ptr /\ n = node[t]
  BY DEF QueueCas, ChainInv, Places, Owners, Owns
<1>1. /\ n \in heap /\ pos[n] = 0 /\ count[n] = 5 /\ data[n] = arg[t]
      /\ pos[m] > 0 /\ pos[m] >= pos[freeTail] /\ pos[freeTail] > 0 /\ freeTail \in Nodes
      /\ \A k \in Nodes : pos[k] \in Nat /\ pos[k] <= pos[m]
  <2>1. pos[m] > 0 /\ pos[m] >= pos[freeTail] /\ pos[freeTail] > 0 /\ freeTail \in Nodes
    BY <1>0 DEF ChainInv, Places
  <2>2. \A k \in Nodes : pos[k] \in Nat /\ pos[k] <= pos[m]
    BY <1>0 DEF ChainInv, Places
  <2> QED
    BY <1>0, <2>1, <2>2
       DEF QueueCas, ChainInv, Owners, Owns, InitialCount, GUARD_BIT, REFERENCE
<1>2. /\ pc[t] = "q_cas" /\ pc'[t] = "q_link" /\ OthersSame(t)
      /\ old'[t] = tail /\ node'[t] = n /\ arg' = arg
      /\ tail' = [ptr |-> n, seq |-> 0]
      /\ UNCHANGED <<freeHead, freeTail, nodeVars, heapVars, ref, done>>
  BY <1>0 DEF QueueCas, Goto, TypeOK, ClientType, LocalType, OthersSame, clientVars
<1>3. pos'[n] = pos[m] + 1 /\ \A k \in Nodes : k # n => pos'[k] = pos[k]
  BY <1>0 DEF QueueCas, Place, TypeOK, HistoryType
<1>4. /\ ~Held(t) /\ Linking(t)' /\ ~Owns(t)'
      /\ ~Dropping(t)' /\ ~Passing(t)' /\ ~Reclaiming(t)'
  BY <1>2 DEF Held, Dropping, Passing, Reclaiming, Linking, Owns
<1>5. \A u \in Threads \ {t} :
          /\ pc'[u] = pc[u]
          /\ Linking(u)' <=> Linking(u)
          /\ Dropping(u)' <=> Dropping(u)
          /\ Passing(u)' <=> Passing(u)
          /\ Reclaiming(u)' <=> Reclaiming(u)
          /\ Owns(u)' <=> Owns(u)
          /\ Taken(u)' = Taken(u)
          /\ old'[u] = old[u] /\ node'[u] = node[u]
          /\ nxt'[u] = nxt[u] /\ adv'[u] = adv[u] /\ rcount'[u] = rcount[u]
  BY <1>2, OthersKinds DEF OthersSame
<1>6. \A k \in Nodes : /\ Refs(k)' = Refs(k) /\ Drops(k)' = Drops(k)
                       /\ k # n => Users(k)' = Users(k)
  <2> SUFFICES ASSUME NEW k \in Nodes
               PROVE  /\ Refs(k)' = Refs(k) /\ Drops(k)' = Drops(k)
                      /\ k # n => Users(k)' = Users(k)
    OBVIOUS
  <2>1. Refs(k)' = Refs(k)
    BY <1>2 DEF Refs
  <2>2. \A u \in Threads : u \in Drops(k)' <=> u \in Drops(k)
    BY <1>2, <1>4 DEF Drops, Held, Dropping, Passing, OthersSame
  <2>3. Drops(k)' = Drops(k)
    BY <2>2 DEF Drops
  <2>4. k # n => LinkTo(k)' = LinkTo(k)
    BY <1>1, <1>2, <1>3 DEF LinkTo
  <2> QED
    BY <2>1, <2>3, <2>4 DEF Users
<1>7. Users(n)' = 1
  <2>1. Refs(n) = {}
    BY <1>1, StpcAssumption DEF Refs, ChainInv, Touched
  <2>2. Drops(n) = {}
    BY <1>1, DropsInUse
  <2>3. LinkTo(n)' = 1
    BY <1>1, <1>2, <1>3 DEF LinkTo
  <2> QED
    BY <1>6, <2>1, <2>2, <2>3, FS_EmptySet DEF Users
<1>8. /\ \A u \in Threads, k \in Nodes : u # t => (Closes(u, k)' <=> Closes(u, k))
      /\ \A k \in Nodes : Closes(t, k)' <=> k = m
      /\ \A k \in Nodes : ~Closes(t, k)
      /\ \A u \in Threads : ~Closes(u, n) /\ ~Closes(u, m)
      /\ Taken(t)' = tail.seq
  <2>1. \A u \in Threads, k \in Nodes : u # t => (Closes(u, k)' <=> Closes(u, k))
    BY <1>2, OthersKinds
  <2>2. \A k \in Nodes : (Closes(t, k)' <=> k = m) /\ ~Closes(t, k)
    BY <1>0, <1>2, <1>4 DEF Closes, Held
  <2>3. \A u \in Threads : ~Closes(u, n)
    BY <1>1, ClosedInUse
  <2>4. \A u \in Threads : ~Closes(u, m)
    BY <1>0 DEF ChainInv, Counts
  <2> QED
    BY <1>2, <1>4, <2>1, <2>2, <2>3, <2>4 DEF Taken
<1>9. Places'
  BY <1>0, <1>1, <1>2, <1>3 DEF ChainInv, Places
<1>10. Links'
  <2>1. \A u \in Threads : Linking(u) =>
            /\ old[u].ptr # n /\ old[u].ptr \in Nodes /\ node[u] # n /\ node[u] \in Nodes
    BY <1>1 DEF ChainInv, Links
  <2>2. \A k \in Nodes : pos[k] > 0 /\ k # m /\ next[k] \in Nodes => next[k] # n \/ pos[next[k]] = 0
    BY <1>1
  <2> QED
    BY <1>0, <1>1, <1>2, <1>3, <1>4, <1>5, <2>1, <2>2 DEF ChainInv, Links
<1>11. Owners'
  BY <1>0, <1>1, <1>2, <1>3, <1>4, <1>5 DEF ChainInv, Owners, Owns, OthersSame
<1>12. Touched'
  <2>1. pos'[freeTail] = pos[freeTail] /\ freeTail # n
    BY <1>1, <1>3
  <2>2. \A k \in Nodes : pos[k] >= pos[freeTail] => k # n /\ pos'[k] = pos[k]
    BY <1>1, <1>3
  <2>3. \A u \in Threads : ref[u] # NULL => ref[u] \in Nodes
    BY DEF TypeOK, ClientType, NodeOrNull
  <2> QED
    BY <1>2, <1>4, <1>5, <2>1, <2>2, <2>3 DEF ChainInv, Touched
<1>13. Counts'
  <2>1. \A k \in Nodes : pos'[k] >= pos[freeTail] /\ k # n => pos[k] >= pos[freeTail]
    BY <1>3
  <2>2. \A u \in Threads, k \in Nodes :
            (Reclaiming(u) /\ node[u] = k)' <=> (Reclaiming(u) /\ node[u] = k)
    BY <1>4, <1>5 DEF Held
  <2>3. tail'.seq % 2 = 0 /\ count[n] + tail'.seq = GUARD_BIT + REFERENCE + 2 * Users(n)'
    BY <1>1, <1>2, <1>7 DEF GUARD_BIT, REFERENCE
  <2>4. /\ \A u \in Threads : ~Closes(u, n)'
        /\ \A k \in Nodes : \A u \in Threads : Closes(u, k)' =>
              /\ Taken(u)' % 2 = 0
              /\ count[k] + Taken(u)' = GUARD_BIT + REFERENCE + 2 * Users(k)'
              /\ \A v \in Threads : Closes(v, k)' => v = u
    BY <1>0, <1>1, <1>5, <1>6, <1>8 DEF ChainInv, Counts
  <2>5. \A k \in Nodes :
          /\ pos'[k] >= pos[freeTail] /\ k # n
          /\ \A u \in Threads : ~Closes(u, k)' /\ ~(Reclaiming(u) /\ node[u] = k)'
          => count[k] = 2 * Users(k)' /\ count[k] > 0
    BY <1>0, <1>6, <1>8, <2>1, <2>2 DEF ChainInv, Counts
  <2> QED
    BY <1>0, <1>1, <1>2, <1>3, <2>3, <2>4, <2>5 DEF Counts
<1>14. Reclaims'
  BY <1>0, <1>1, <1>2, <1>4, <1>5, <1>6, <1>8 DEF ChainInv, Reclaims
<1>15. Pops'
  BY <1>2 DEF ChainInv, Pops, OthersSame
<1>16. Queued'
  <2>1. CASE arg[t] = NULL
    <3>1. log' = log
      BY <2>1 DEF QueueCas
    <3>2. Logged' = Logged
      BY <3>1 DEF Logged
    <3>3. /\ \A k \in Nodes : pos[k] > 0 /\ data[k] # NULL => data[k] \in Logged
          /\ \A u, v \in Threads : arg[u] # NULL /\ arg[u] = arg[v] => u = v
          /\ \A u \in Threads : Unqueued(u) => arg[u] \notin Logged
      BY DEF ChainInv, Queued
    <3>4. \A u \in Threads : u # t => (Unqueued(u)' <=> Unqueued(u)) /\ arg'[u] = arg[u]
      BY <1>2 DEF Unqueued, OthersSame
    <3> QED
      BY <1>0, <1>1, <1>2, <1>3, <2>1, <3>2, <3>3, <3>4 DEF Queued, Unqueued
  <2>2. CASE arg[t] # NULL
    <3>1. Logged' = Logged \cup {arg[t]}
      <4>1. log \in Seq(Data) /\ log' = Append(log, arg[t]) /\ arg[t] \in Data
        BY <2>2 DEF QueueCas, TypeOK, LocalType, HistoryType, DataOrNull
      <4> QED
        BY <4>1, LoggedAppend
    <3> QED
      BY <1>0, <1>1, <1>2, <1>3, <2>2, <3>1 DEF ChainInv, Queued, Unqueued, OthersSame
  <2> QED
    BY <2>1, <2>2
<1>17. Guards'
  <2>0. \A u \in Threads : ref[u] # NULL => ref[u] \in Nodes /\ ref[u] # n
    BY <1>1 DEF TypeOK, ClientType, NodeOrNull, ChainInv, Touched
  <2>1. \A d \in Data : guard[d] \subseteq Threads /\ Holding \subseteq Threads
    BY DEF TypeOK, HistoryType, Holding
  <2>2. CASE arg[t] = NULL
    <3>1. guard' = guard
      BY <2>2 DEF QueueCas
    <3>2. data[n] \notin Data
      BY <1>1, <2>2, StpcAssumption
    <3> QED
      BY <1>0, <1>1, <1>2, <1>3, <2>0, <2>1, <3>1, <3>2 DEF ChainInv, Guards, OthersSame
  <2>3. CASE arg[t] # NULL
    <3>1. /\ arg[t] \in Data /\ arg[t] \notin Logged
          /\ guard'[arg[t]] = Holding /\ \A d \in Data : d # arg[t] => guard'[d] = guard[d]
      BY <2>3 DEF QueueCas, TypeOK, LocalType, HistoryType, DataOrNull,
                  ChainInv, Queued, Unqueued
    <3>2. \A k \in Nodes : pos[k] > 0 => data[k] # arg[t]
      BY <2>3, <3>1 DEF ChainInv, Queued
    <3>3. \A u \in Holding : ref[u] # NULL
      BY DEF Holding
    <3> QED
      BY <1>0, <1>1, <1>2, <1>3, <2>0, <2>1, <3>1, <3>2, <3>3
         DEF ChainInv, Guards, OthersSame
  <2> QED
    BY <2>2, <2>3
<1> QED
  BY <1>9, <1>10, <1>11, <1>12, <1>13, <1>14, <1>15, <1>16, <1>17 DEF ChainInv

(* Linking hands the old tail over to the loop that drops it.              *)
LEMMA QueueLinkStep ==
    ASSUME TypeOK, TypeOK', ChainInv, NEW t \in Threads, QueueLink(t)
    PROVE  ChainInv'
<1> USE DEF proxyVars, heapVars, clientVars, historyVars
<1>0. PICK m \in Nodes, n \in Nodes : m = old[t].ptr /\ n = node[t]
  BY DEF QueueLink, ChainInv, Links, Linking
<1>1. /\ Linking(t) /\ Closes(t, m) /\ Taken(t) = old[t].seq
      /\ old[t].seq \in Int /\ old[t].seq % 2 = 0
      /\ pos[m] >= pos[freeTail] /\ pos[n] = pos[m] + 1 /\ pos[m] > 0 /\ m # tail.ptr
  <2>1. Linking(t) /\ Closes(t, m) /\ Taken(t) = old[t].seq
    BY <1>0 DEF QueueLink, Linking, Closes, Taken
  <2>2. old[t].seq \in Int
    BY DEF TypeOK, LocalType, Sequenced
  <2>3. old[t].seq % 2 = 0 /\ m # tail.ptr
    BY <1>0, <2>1 DEF ChainInv, Counts
  <2>4. pos[m] >= pos[freeTail] /\ pos[n] = pos[m] + 1
    BY <1>0, <2>1 DEF ChainInv, Links
  <2>5. pos[m] > 0
    BY <1>0, <2>4 DEF ChainInv, Places
  <2> QED
    BY <2>1, <2>2, <2>3, <2>4, <2>5
<1>2. /\ pc[t] = "q_link" /\ pc'[t] = "d_load" /\ OthersSame(t)
      /\ node'[t] = m /\ rcount'[t] = 3 - old[t].seq /\ arg' = arg /\ old' = old
      /\ UNCHANGED <<proxyVars, count, data, heapVars, clientVars, historyVars>>
  BY <1>0, <1>1 DEF QueueLink, Goto, Adjust, GUARD_BIT, REFERENCE,
               TypeOK, ClientType, LocalType, OthersSame
<1>3. next'[m] = n /\ \A k \in Nodes : k # m => next'[k] = next[k]
  BY <1>0 DEF QueueLink, TypeOK, NodeType
<1>4. /\ ~Dropping(t) /\ ~Passing(t) /\ ~Reclaiming(t) /\ ~Owns(t)
      /\ Dropping(t)' /\ ~Linking(t)' /\ ~Passing(t)' /\ ~Reclaiming(t)' /\ ~Owns(t)'
  BY <1>2 DEF Dropping, Passing, Reclaiming, Linking, Owns
<1>5. \A u \in Threads \ {t} :
          /\ pc'[u] = pc[u]
          /\ Linking(u)' <=> Linking(u)
          /\ Dropping(u)' <=> Dropping(u)
          /\ Passing(u)' <=> Passing(u)
          /\ Reclaiming(u)' <=> Reclaiming(u)
          /\ Owns(u)' <=> Owns(u)
          /\ Taken(u)' = Taken(u)
          /\ old'[u] = old[u] /\ node'[u] = node[u]
          /\ nxt'[u] = nxt[u] /\ adv'[u] = adv[u] /\ rcount'[u] = rcount[u]
  BY <1>2, OthersKinds DEF OthersSame
<1>6. rcount'[t] # REFERENCE /\ Taken(t)' = old[t].seq
  BY <1>1, <1>2, <1>4 DEF Taken, GUARD_BIT, REFERENCE
<1>7. \A u \in Threads, k \in Nodes : /\ Closes(u, k)' <=> Closes(u, k)
                                      /\ Closes(u, k) => Taken(u)' = Taken(u)
  <2>1. \A u \in Threads, k \in Nodes : u # t => (Closes(u, k)' <=> Closes(u, k))
    BY <1>2, OthersKinds
  <2>2. \A k \in Nodes : Closes(t, k)' <=> k = m
    BY <1>2, <1>4, <1>6 DEF Closes
  <2>3. \A k \in Nodes : Closes(t, k) <=> k = m
    BY <1>0, <1>1, <1>4 DEF Closes
  <2> QED
    BY <1>1, <1>5, <1>6, <2>1, <2>2, <2>3
<1>8. \A k \in Nodes : Refs(k)' = Refs(k) /\ Drops(k)' = Drops(k) /\ Users(k)' = Users(k)
  <2> SUFFICES ASSUME NEW k \in Nodes
               PROVE  Refs(k)' = Refs(k) /\ Drops(k)' = Drops(k) /\ Users(k)' = Users(k)
    OBVIOUS
  <2>1. Refs(k)' = Refs(k)
    BY <1>2 DEF Refs
  <2>2. \A u \in Threads : u \in Drops(k)' <=> u \in Drops(k)
    BY <1>2, <1>4, <1>6 DEF Drops, Dropping, Passing, OthersSame
  <2>3. Drops(k)' = Drops(k)
    BY <2>2 DEF Drops
  <2>4. LinkTo(k)' = LinkTo(k)
    BY <1>2 DEF LinkTo
  <2> QED
    BY <2>1, <2>3, <2>4 DEF Users
<1>9. Places'
  BY <1>2 DEF ChainInv, Places
<1>10. Links'
  <2>1. \A u \in Threads \ {t} : Linking(u) => old[u].ptr # m
    <3>1. \A u \in Threads \ {t} : ~Closes(u, m)
      BY <1>1 DEF ChainInv, Counts
    <3> QED
      BY <3>1 DEF Closes
  <2> QED
    BY <1>0, <1>1, <1>2, <1>3, <1>4, <1>5, <2>1 DEF ChainInv, Links
<1>11. Owners'
  BY <1>2, <1>4, <1>5 DEF ChainInv, Owners, OthersSame
<1>12. Touched'
  BY <1>1, <1>2, <1>4, <1>5 DEF ChainInv, Touched
<1>13. Counts'
  <2>1. \A u \in Threads, k \in Nodes :
            (Reclaiming(u) /\ node[u] = k)' <=> (Reclaiming(u) /\ node[u] = k)
    BY <1>4, <1>5
  <2>2. tail.ptr \in Nodes
    BY DEF ChainInv, Places
  <2> QED
    BY <1>2, <1>7, <1>8, <2>1, <2>2 DEF ChainInv, Counts
<1>14. Reclaims'
  <2>1. (\E u \in Threads : Reclaiming(u)) => freeTail # m
    BY <1>1 DEF ChainInv, Reclaims
  <2>2. freeTail \in Nodes
    BY DEF ChainInv, Places
  <2> QED
    BY <1>2, <1>3, <1>4, <1>5, <1>7, <1>8, <2>1, <2>2 DEF ChainInv, Reclaims
<1>15. Pops'
  <2>1. freeHead.ptr # freeTail => freeHead.ptr \in Nodes /\ freeHead.ptr # m
    BY <1>1 DEF ChainInv, Places
  <2> QED
    BY <1>2, <1>3, <2>1 DEF ChainInv, Pops, OthersSame
<1>16. Queued'
  <2>1. Logged' = Logged
    BY <1>2 DEF Logged
  <2>2. \A u \in Threads : Unqueued(u)' => Unqueued(u)
    BY <1>2, OthersKinds DEF Unqueued
  <2> QED
    BY <1>2, <2>1, <2>2 DEF ChainInv, Queued
<1>17. Guards'
  BY <1>2 DEF ChainInv, Guards, OthersSame
<1> QED
  BY <1>9, <1>10, <1>11, <1>12, <1>13, <1>14, <1>15, <1>16, <1>17 DEF ChainInv

-------------------------------------------------------------------------------
(* Dropping a reference *)

(* Dropping a reference makes its user one that counts the node down. *)
LEMMA DropCallStep ==
    ASSUME TypeOK, TypeOK', ChainInv, NEW t \in Threads, DropCall(t)
    PROVE  ChainInv'
<1> USE DEF proxyVars, nodeVars, heapVars
<1>0. PICK m \in Nodes : m = ref[t]
  BY DEF DropCall, TypeOK, ClientType, NodeOrNull
<1>1. NULL \notin Nodes /\ pos[m] >= pos[freeTail]
  BY <1>0, StpcAssumption DEF ChainInv, Touched
<1>2. /\ pc[t] = "idle" /\ pc'[t] = "d_load" /\ OthersSame(t)
      /\ ref'[t] = NULL /\ \A u \in Threads \ {t} : ref'[u] = ref[u]
      /\ node'[t] = m /\ rcount'[t] = REFERENCE /\ arg' = arg /\ old' = old
      /\ UNCHANGED <<proxyVars, nodeVars, heapVars, log, done, pos>>
      /\ \A d \in Data : guard'[d] = guard[d] \ {t}
  BY <1>0 DEF DropCall, Goto, TypeOK, ClientType, LocalType, HistoryType, OthersSame
<1>3. /\ ~Held(t) /\ Dropping(t)'
      /\ ~Linking(t)' /\ ~Passing(t)' /\ ~Reclaiming(t)' /\ ~Owns(t)'
  BY <1>2 DEF Held, Dropping, Passing, Reclaiming, Linking, Owns
<1>4. \A u \in Threads \ {t} :
          /\ pc'[u] = pc[u]
          /\ Linking(u)' <=> Linking(u)
          /\ Dropping(u)' <=> Dropping(u)
          /\ Passing(u)' <=> Passing(u)
          /\ Reclaiming(u)' <=> Reclaiming(u)
          /\ Owns(u)' <=> Owns(u)
          /\ Unqueued(u)' <=> Unqueued(u)
          /\ Taken(u)' = Taken(u)
          /\ old'[u] = old[u] /\ node'[u] = node[u]
          /\ nxt'[u] = nxt[u] /\ adv'[u] = adv[u] /\ rcount'[u] = rcount[u]
  BY <1>2, OthersKinds DEF OthersSame
<1>5. \A u \in Threads, k \in Nodes : /\ Closes(u, k)' <=> Closes(u, k)
                                      /\ Closes(u, k) => Taken(u)' = Taken(u)
  <2>1. \A k \in Nodes : ~Closes(t, k) /\ ~Closes(t, k)'
    BY <1>2, <1>3 DEF Closes, Held
  <2>2. \A u \in Threads \ {t}, k \in Nodes : Closes(u, k)' <=> Closes(u, k)
    BY <1>2, OthersKinds
  <2> QED
    BY <1>4, <2>1, <2>2
<1>6. \A k \in Nodes : k # m => Refs(k)' = Refs(k) /\ Drops(k)' = Drops(k)
  <2> SUFFICES ASSUME NEW k \in Nodes, k # m
               PROVE  Refs(k)' = Refs(k) /\ Drops(k)' = Drops(k)
    OBVIOUS
  <2>1. Refs(k)' = Refs(k)
    BY <1>0, <1>1, <1>2 DEF Refs
  <2>2. \A u \in Threads : u \in Drops(k)' <=> u \in Drops(k)
    BY <1>2, <1>3 DEF Drops, Held, Dropping, Passing, OthersSame
  <2> QED
    BY <2>1, <2>2 DEF Drops
<1>7. /\ Refs(m)' = Refs(m) \ {t} /\ t \in Refs(m)
      /\ Drops(m)' = Drops(m) \cup {t} /\ t \notin Drops(m)
  <2>1. Refs(m)' = Refs(m) \ {t} /\ t \in Refs(m)
    BY <1>0, <1>1, <1>2 DEF Refs
  <2>2. \A u \in Threads : u \in Drops(m)' <=> u \in Drops(m) \/ u = t
    BY <1>2, <1>3 DEF Drops, Held, Dropping, Passing, OthersSame
  <2>3. t \notin Drops(m)
    BY <1>3 DEF Drops, Held
  <2> QED
    BY <2>1, <2>2, <2>3 DEF Drops
<1>8. \A k \in Nodes : Users(k)' = Users(k)
  <2>1. \A k \in Nodes : LinkTo(k)' = LinkTo(k)
    BY <1>2 DEF LinkTo
  <2>2. \A k \in Nodes : k # m => Users(k)' = Users(k)
    BY <1>6, <2>1 DEF Users
  <2>3. /\ Cardinality(Refs(m)) \in Nat /\ Cardinality(Drops(m)) \in Nat
        /\ LinkTo(m) \in {0, 1}
    BY UsersNat
  <2>4. /\ Cardinality(Refs(m)') = Cardinality(Refs(m)) - 1
        /\ Cardinality(Drops(m)') = Cardinality(Drops(m)) + 1
    <3>1. IsFiniteSet(Refs(m)) /\ IsFiniteSet(Drops(m))
      BY UsersNat
    <3>2. Cardinality(Refs(m) \ {t}) = Cardinality(Refs(m)) - 1
      BY <1>7, <3>1, FS_RemoveElement
    <3>3. Cardinality(Drops(m) \cup {t}) = Cardinality(Drops(m)) + 1
      BY <1>7, <3>1, FS_AddElement
    <3> QED
      BY <1>7, <3>2, <3>3
  <2>5. Users(m)' = Users(m)
    BY <2>1, <2>3, <2>4 DEF Users
  <2> QED
    BY <2>2, <2>5
<1>9. Places'
  BY <1>2 DEF ChainInv, Places
<1>10. Links'
  BY <1>2, <1>3, <1>4 DEF ChainInv, Links, Held
<1>11. Owners'
  BY <1>2, <1>3, <1>4 DEF ChainInv, Owners
<1>12. Touched'
  BY <1>1, <1>2, <1>3, <1>4 DEF ChainInv, Touched
<1>13. Counts'
  <2>1. \A u \in Threads, k \in Nodes :
            (Reclaiming(u) /\ node[u] = k)' <=> (Reclaiming(u) /\ node[u] = k)
    BY <1>3, <1>4 DEF Held
  <2>2. tail.ptr \in Nodes
    BY DEF ChainInv, Places
  <2> QED
    BY <1>2, <1>5, <1>8, <2>1, <2>2 DEF ChainInv, Counts
<1>14. Reclaims'
  <2>1. (\E u \in Threads : Reclaiming(u)) => freeTail # m
    BY <1>7 DEF ChainInv, Reclaims
  <2>2. freeTail \in Nodes
    BY DEF ChainInv, Places
  <2> QED
    BY <1>2, <1>3, <1>4, <1>5, <1>6, <2>1, <2>2 DEF ChainInv, Reclaims
<1>15. Pops'
  BY <1>2 DEF ChainInv, Pops, OthersSame
<1>16. Queued'
  <2>1. Logged' = Logged
    BY <1>2 DEF Logged
  <2>2. \A u \in Threads : Unqueued(u)' => Unqueued(u)
    BY <1>2, <1>4 DEF Unqueued
  <2> QED
    BY <1>2, <2>1, <2>2 DEF ChainInv, Queued
<1>17. Guards'
  <2>1. \A d \in Data : guard[d] \subseteq Threads
    BY DEF TypeOK, HistoryType
  <2> QED
    BY <1>2, <1>4, <2>1 DEF ChainInv, Guards
<1> QED
  BY <1>9, <1>10, <1>11, <1>12, <1>13, <1>14, <1>15, <1>16, <1>17 DEF ChainInv

(* A thread that finds exactly what it is to subtract is alone with the    *)
(* node, and the node is the first in use.                                 *)
LEMMA LastIsAlone ==
    ASSUME TypeOK, ChainInv, NEW t \in Threads, Dropping(t), count[node[t]] = rcount[t]
    PROVE  LET n == node[t]
           IN  /\ n = freeTail /\ n # tail.ptr /\ n \in Nodes
               /\ Refs(n) = {} /\ Drops(n) \subseteq {t}
               /\ \A u \in Threads : Closes(u, n) => u = t
               /\ \A u \in Threads : ~Reclaiming(u)
<1>0. PICK n \in Nodes : n = node[t] /\ pos[n] >= pos[freeTail]
  BY DEF ChainInv, Touched
<1>1. /\ count[n] \in Int /\ rcount[t] \in Int /\ tail.seq \in Int
      /\ \A u \in Threads : old[u].seq \in Int /\ rcount[u] \in Int
  BY DEF TypeOK, NodeType, LocalType, ProxyType, Sequenced
<1>2. Users(n) \in Nat /\ LinkTo(n) = 0 => n = freeTail
  <2>1. freeTail \in Nodes /\ pos[freeTail] > 0 /\ pos[n] \in Nat /\ pos[freeTail] \in Nat
    BY DEF ChainInv, Places
  <2>2. LinkTo(n) = 0 => pos[n] = pos[freeTail]
    BY <1>0, <2>1 DEF LinkTo
  <2>3. pos[n] = pos[freeTail] => n = freeTail
    BY <2>1 DEF ChainInv, Places
  <2> QED
    BY <2>2, <2>3, UsersNat
<1>3. CASE rcount[t] # REFERENCE
  <2>1. Closes(t, n)
    BY <1>0, <1>3 DEF Closes
  <2>2. Taken(t) = 3 - rcount[t]
    BY <1>1 DEF Taken, Linking, Dropping, GUARD_BIT, REFERENCE
  <2>3. count[n] + Taken(t) = 3 + 2 * Users(n)
    BY <2>1 DEF ChainInv, Counts, GUARD_BIT, REFERENCE
  <2>4. Users(n) = 0
    BY <1>0, <1>1, <1>2, <2>2, <2>3, UsersNat
  <2>5. Refs(n) = {} /\ Drops(n) = {} /\ LinkTo(n) = 0
    BY <2>4, NoUsers
  <2>6. n # tail.ptr /\ \A u \in Threads : Closes(u, n) => u = t
    BY <2>1 DEF ChainInv, Counts
  <2>7. \A u \in Threads : ~Reclaiming(u)
    BY <1>2, <2>1, <2>5, UsersNat DEF ChainInv, Reclaims
  <2> QED
    BY <1>0, <1>2, <2>5, <2>6, <2>7, UsersNat
<1>4. CASE rcount[t] = REFERENCE
  <2>1. t \in Drops(n)
    BY <1>0, <1>4 DEF Drops
  <2>2. count[n] = 2
    BY <1>0, <1>4 DEF REFERENCE
  <2>3. n # tail.ptr
    <3>1. tail.seq % 2 = 0 /\ n = tail.ptr => 2 + tail.seq = 3 + 2 * Users(n)
      BY <2>2 DEF ChainInv, Counts, GUARD_BIT, REFERENCE
    <3>2. tail.seq % 2 = 0
      BY DEF ChainInv, Counts
    <3> QED
      BY <1>1, <1>2, <3>1, <3>2, UsersNat
  <2>4. \A u \in Threads : ~Closes(u, n)
    <3> SUFFICES ASSUME NEW u \in Threads, Closes(u, n) PROVE FALSE
      OBVIOUS
    <3>1. Taken(u) % 2 = 0 /\ 2 + Taken(u) = 3 + 2 * Users(n)
      BY <2>2 DEF ChainInv, Counts, GUARD_BIT, REFERENCE
    <3>2. Taken(u) \in Int /\ Users(n) \in Int
      BY <1>1, UsersNat DEF Taken, GUARD_BIT, REFERENCE
    <3> QED
      BY <3>1, <3>2
  <2>5. \A u \in Threads : ~(Reclaiming(u) /\ node[u] = n)
    BY <2>1 DEF ChainInv, Reclaims
  <2>6. count[n] = 2 * Users(n)
    BY <1>0, <2>3, <2>4, <2>5 DEF ChainInv, Counts
  <2>7. Users(n) = 1
    BY <2>2, <2>6, UsersNat
  <2>8. Refs(n) = {} /\ Drops(n) = {t} /\ LinkTo(n) = 0
    BY <2>1, <2>7, OneUser
  <2>9. n = freeTail
    BY <1>2, <2>8, UsersNat
  <2> QED
    BY <1>0, <2>3, <2>4, <2>5, <2>8, <2>9 DEF ChainInv, Reclaims
<1> QED
  BY <1>3, <1>4

(* Such a thread goes on to let the node go, whatever the count is set to. *)
LEMMA StartReclaim ==
    ASSUME TypeOK, TypeOK', ChainInv, NEW t \in Threads,
           Dropping(t), count[node[t]] = rcount[t],
           pc'[t] = "d_next", OthersSame(t), node' = node, old' = old, arg' = arg,
           UNCHANGED <<tail, freeHead, freeTail, next, data, heapVars, ref,
                       log, done, guard, pos>>,
           \A k \in Nodes : k # node[t] => count'[k] = count[k]
    PROVE  ChainInv'
<1> USE DEF heapVars
<1>0. /\ node[t] = freeTail /\ freeTail # tail.ptr /\ freeTail \in Nodes
      /\ Refs(freeTail) = {} /\ Drops(freeTail) \subseteq {t}
      /\ \A u \in Threads : Closes(u, freeTail) => u = t
      /\ \A u \in Threads : ~Reclaiming(u)
  BY LastIsAlone
<1>1. /\ ~Linking(t) /\ ~Passing(t) /\ ~Owns(t)
      /\ Reclaiming(t)' /\ ~Dropping(t)' /\ ~Linking(t)' /\ ~Passing(t)' /\ ~Owns(t)'
  BY DEF Dropping, Passing, Reclaiming, Linking, Owns
<1>2. \A u \in Threads \ {t} :
          /\ pc'[u] = pc[u]
          /\ Linking(u)' <=> Linking(u)
          /\ Dropping(u)' <=> Dropping(u)
          /\ Passing(u)' <=> Passing(u)
          /\ Reclaiming(u)' <=> Reclaiming(u)
          /\ Owns(u)' <=> Owns(u)
          /\ Unqueued(u)' <=> Unqueued(u)
          /\ Taken(u)' = Taken(u)
          /\ old'[u] = old[u] /\ node'[u] = node[u]
          /\ nxt'[u] = nxt[u] /\ adv'[u] = adv[u] /\ rcount'[u] = rcount[u]
  BY OthersKinds DEF OthersSame
<1>3. \A u \in Threads, k \in Nodes :
          Closes(u, k)' <=> Closes(u, k) /\ u # t
  <2>1. \A k \in Nodes : ~Closes(t, k)'
    BY <1>1 DEF Closes
  <2>2. \A u \in Threads \ {t}, k \in Nodes : Closes(u, k)' <=> Closes(u, k)
    BY OthersKinds
  <2> QED
    BY <2>1, <2>2
<1>4. \A k \in Nodes : k # freeTail => ~Closes(t, k)
  BY <1>0, <1>1 DEF Closes
<1>5. \A k \in Nodes : /\ Refs(k)' = Refs(k) /\ Drops(k)' = Drops(k) \ {t}
                       /\ k # freeTail => Drops(k)' = Drops(k) /\ Users(k)' = Users(k)
  <2> SUFFICES ASSUME NEW k \in Nodes
               PROVE  /\ Refs(k)' = Refs(k) /\ Drops(k)' = Drops(k) \ {t}
                      /\ k # freeTail => Drops(k)' = Drops(k) /\ Users(k)' = Users(k)
    OBVIOUS
  <2>1. Refs(k)' = Refs(k)
    BY DEF Refs
  <2>2. \A u \in Threads : u \in Drops(k)' <=> u \in Drops(k) /\ u # t
    BY <1>1 DEF Drops, Dropping, Passing, OthersSame
  <2>3. Drops(k)' = Drops(k) \ {t}
    BY <2>2 DEF Drops
  <2>4. k # freeTail => t \notin Drops(k)
    BY <1>0 DEF Drops
  <2>5. LinkTo(k)' = LinkTo(k)
    BY DEF LinkTo
  <2> QED
    BY <2>1, <2>3, <2>4, <2>5 DEF Users
<1>6. Places'
  BY DEF ChainInv, Places
<1>7. Links'
  BY <1>1, <1>2 DEF ChainInv, Links
<1>8. Owners'
  <2>1. \A u \in Threads : Owns(u) => node[u] # freeTail
    BY DEF ChainInv, Places, Owners
  <2> QED
    BY <1>0, <1>1, <1>2, <2>1 DEF ChainInv, Owners, Owns
<1>9. Touched'
  BY <1>1, <1>2 DEF ChainInv, Touched
<1>10. Counts'
  <2>1. \A u \in Threads, k \in Nodes :
            (Reclaiming(u) /\ node[u] = k)' <=> u = t /\ k = freeTail
    BY <1>0, <1>1, <1>2
  <2>2. tail.ptr \in Nodes
    BY DEF ChainInv, Places
  <2>3. /\ count'[tail.ptr] = count[tail.ptr]
        /\ Users(tail.ptr)' = Users(tail.ptr)
    BY <1>0, <1>5, <2>2
  <2>4. /\ tail.seq % 2 = 0
        /\ count'[tail.ptr] + tail.seq = GUARD_BIT + REFERENCE + 2 * Users(tail.ptr)'
        /\ \A u \in Threads : ~Closes(u, tail.ptr)'
    BY <1>3, <2>2, <2>3 DEF ChainInv, Counts
  <2>5. \A k \in Nodes : \A u \in Threads : Closes(u, k)' =>
          /\ Taken(u)' % 2 = 0
          /\ count'[k] + Taken(u)' = GUARD_BIT + REFERENCE + 2 * Users(k)'
          /\ \A v \in Threads : Closes(v, k)' => v = u
    BY <1>0, <1>2, <1>3, <1>5 DEF ChainInv, Counts
  <2>6. \A k \in Nodes :
          /\ pos[k] >= pos[freeTail] /\ k # tail.ptr
          /\ \A u \in Threads : ~Closes(u, k)' /\ ~(Reclaiming(u) /\ node[u] = k)'
          => count'[k] = 2 * Users(k)' /\ count'[k] > 0
    <3> SUFFICES ASSUME NEW k \in Nodes, pos[k] >= pos[freeTail], k # tail.ptr,
                        \A u \in Threads : ~Closes(u, k)' /\ ~(Reclaiming(u) /\ node[u] = k)'
                 PROVE  count'[k] = 2 * Users(k)' /\ count'[k] > 0
      OBVIOUS
    <3>1. k # freeTail
      BY <2>1
    <3>2. \A u \in Threads : ~Closes(u, k) /\ ~Reclaiming(u)
      BY <1>0, <1>3, <1>4, <3>1
    <3>3. count[k] = 2 * Users(k) /\ count[k] > 0
      BY <3>2 DEF ChainInv, Counts
    <3> QED
      BY <1>0, <1>5, <3>1, <3>3
  <2> QED
    BY <2>4, <2>5, <2>6 DEF Counts
<1>11. Reclaims'
  <2>1. Refs(freeTail)' = {} /\ Drops(freeTail)' = {}
    BY <1>0, <1>5
  <2> QED
    BY <1>0, <1>1, <1>2, <1>3, <2>1 DEF Reclaims
<1>12. Pops'
  BY <1>2 DEF ChainInv, Pops
<1>13. Queued'
  <2>1. Logged' = Logged
    BY DEF Logged
  <2>2. \A u \in Threads : Unqueued(u)' => Unqueued(u)
    BY <1>2 DEF Unqueued
  <2> QED
    BY <2>1, <2>2 DEF ChainInv, Queued
<1>14. Guards'
  BY <1>2 DEF ChainInv, Guards
<1> QED
  BY <1>6, <1>7, <1>8, <1>9, <1>10, <1>11, <1>12, <1>13, <1>14 DEF ChainInv

(* A thread that finds nothing but its own share in the count is the only  *)
(* user left, and lets the node go without a subtraction.                  *)
LEMMA DropLoadStep ==
    ASSUME TypeOK, TypeOK', ChainInv, NEW t \in Threads, DropLoad(t)
    PROVE  ChainInv'
<1> USE DEF proxyVars, nodeVars, heapVars, clientVars, localVars, historyVars
<1>1. /\ pc[t] = "d_load" /\ Dropping(t) /\ OthersSame(t)
      /\ UNCHANGED <<proxyVars, nodeVars, heapVars, clientVars, localVars, historyVars>>
      /\ pc'[t] = IF IsLast(t) THEN "d_next" ELSE "d_sub"
  BY DEF DropLoad, Goto, Dropping, TypeOK, ClientType, OthersSame
<1>2. CASE IsLast(t)
  BY <1>1, <1>2, StartReclaim DEF IsLast
<1>3. CASE ~IsLast(t)
  <2>1. \A u \in Threads : /\ Linking(u)' <=> Linking(u)
                           /\ Dropping(u)' <=> Dropping(u)
                           /\ Passing(u)' <=> Passing(u)
                           /\ Reclaiming(u)' <=> Reclaiming(u)
                           /\ (pc'[u] = "d_store") <=> (pc[u] = "d_store")
                           /\ Owns(u)' <=> Owns(u)
                           /\ Unqueued(u)' <=> Unqueued(u)
    BY <1>1, <1>3
       DEF Linking, Dropping, Passing, Reclaiming, Owns, Unqueued, OthersSame
  <2>2. \A u \in Threads : \A k : /\ Closes(u, k)' <=> Closes(u, k)
                                  /\ Taken(u)' = Taken(u)
    BY <1>1, <2>1 DEF Closes, Taken
  <2>3. \A k : Refs(k)' = Refs(k) /\ Drops(k)' = Drops(k) /\ Users(k)' = Users(k)
    <3> SUFFICES ASSUME NEW k
                 PROVE  Refs(k)' = Refs(k) /\ Drops(k)' = Drops(k) /\ Users(k)' = Users(k)
      OBVIOUS
    <3>1. Refs(k)' = Refs(k)
      BY <1>1 DEF Refs
    <3>2. Drops(k)' = Drops(k)
      BY <1>1, <2>1 DEF Drops
    <3>3. LinkTo(k)' = LinkTo(k)
      BY <1>1 DEF LinkTo
    <3> QED
      BY <3>1, <3>2, <3>3 DEF Users
  <2>4. Places' /\ Links' /\ Owners' /\ Touched'
    BY <1>1, <1>3, <2>1, OthersKinds
       DEF ChainInv, Places, Links, Owners, Touched, OthersSame
  <2>5. Counts'
    <3>1. UNCHANGED <<tail, freeTail, count, pos, node>>
      BY <1>1
    <3>2. /\ tail.seq % 2 = 0
          /\ count[tail.ptr] + tail.seq = GUARD_BIT + REFERENCE + 2 * Users(tail.ptr)'
          /\ \A u \in Threads : ~Closes(u, tail.ptr)'
      BY <3>1, <2>2, <2>3 DEF ChainInv, Counts
    <3>3. \A n \in Nodes : \A u \in Threads : Closes(u, n)' =>
            /\ Taken(u)' % 2 = 0
            /\ count[n] + Taken(u)' = GUARD_BIT + REFERENCE + 2 * Users(n)'
            /\ \A v \in Threads : Closes(v, n)' => v = u
      BY <2>2, <2>3 DEF ChainInv, Counts
    <3>4. \A n \in Nodes :
            /\ pos[n] >= pos[freeTail] /\ n # tail.ptr
            /\ \A u \in Threads : ~Closes(u, n)' /\ ~(Reclaiming(u)' /\ node[u] = n)
            => count[n] = 2 * Users(n)' /\ count[n] > 0
      <4> SUFFICES ASSUME NEW n \in Nodes, pos[n] >= pos[freeTail], n # tail.ptr,
                          \A u \in Threads :
                             ~Closes(u, n)' /\ ~(Reclaiming(u)' /\ node[u] = n)
                   PROVE  count[n] = 2 * Users(n)' /\ count[n] > 0
        OBVIOUS
      <4>1. \A u \in Threads : ~Closes(u, n) /\ ~(Reclaiming(u) /\ node[u] = n)
        BY <2>1, <2>2
      <4>2. count[n] = 2 * Users(n) /\ count[n] > 0
        BY <4>1 DEF ChainInv, Counts
      <4> QED
        BY <4>2, <2>3
    <3> QED
      BY <3>1, <3>2, <3>3, <3>4 DEF Counts
  <2>6. Reclaims'
    BY <1>1, <2>1, <2>2, <2>3 DEF ChainInv, Reclaims
  <2>7. Pops'
    BY <1>1, <1>3 DEF ChainInv, Pops, OthersSame
  <2>8. Queued'
    BY <1>1, <2>1 DEF ChainInv, Queued, Logged
  <2>9. Guards'
    BY <1>1, <1>3 DEF ChainInv, Guards, OthersSame
  <2> QED
    BY <2>4, <2>5, <2>6, <2>7, <2>8, <2>9 DEF ChainInv
<1> QED
  BY <1>2, <1>3

(* A reference is gone and others are left, or what was taken on the old   *)
(* tail is now in its count.                                               *)
LEMMA DropSubStep ==
    ASSUME TypeOK, TypeOK', ChainInv, NEW t \in Threads, DropSub(t)
    PROVE  ChainInv'
<1> USE DEF proxyVars, heapVars, historyVars
<1>0. PICK n \in Nodes : n = node[t] /\ pos[n] >= pos[freeTail]
  BY DEF DropSub, Dropping, ChainInv, Touched
<1>1. /\ pc[t] = "d_sub" /\ Dropping(t)
      /\ UNCHANGED <<proxyVars, next, data, heapVars, ref, historyVars>>
      /\ count'[n] = count[n] - rcount[t]
      /\ \A k \in Nodes : k # n => count'[k] = count[k]
      /\ count[n] \in Int /\ rcount[t] \in Int /\ tail.seq \in Int
  BY <1>0 DEF DropSub, Dropping, TypeOK, NodeType, LocalType, ProxyType, Sequenced, clientVars
<1>2. CASE TookLast(t)
  <2>1. pc'[t] = "d_next" /\ OthersSame(t) /\ UNCHANGED localVars
    BY <1>2 DEF DropSub, Goto, TypeOK, ClientType, OthersSame, localVars
  <2> QED
    BY <1>0, <1>1, <1>2, <2>1, StartReclaim DEF TookLast, localVars
<1>3. CASE ~TookLast(t)
  <2>1. pc'[t] = "idle" /\ arg'[t] = NULL /\ OthersSame(t)
    BY <1>3, AfterReturn DEF DropSub
  <2>2. /\ count[n] # rcount[t]
        /\ ~Linking(t) /\ ~Passing(t) /\ ~Reclaiming(t) /\ ~Owns(t)
        /\ ~Held(t)' /\ ~Owns(t)'
    BY <1>0, <1>1, <1>3, <2>1
       DEF TookLast, Held, Dropping, Passing, Reclaiming, Linking, Owns
  <2>3. \A u \in Threads \ {t} :
            /\ pc'[u] = pc[u]
            /\ Linking(u)' <=> Linking(u)
            /\ Dropping(u)' <=> Dropping(u)
            /\ Passing(u)' <=> Passing(u)
            /\ Reclaiming(u)' <=> Reclaiming(u)
            /\ Owns(u)' <=> Owns(u)
            /\ Unqueued(u)' <=> Unqueued(u)
            /\ Taken(u)' = Taken(u)
            /\ old'[u] = old[u] /\ node'[u] = node[u] /\ arg'[u] = arg[u]
            /\ nxt'[u] = nxt[u] /\ adv'[u] = adv[u] /\ rcount'[u] = rcount[u]
    BY <2>1, OthersKinds DEF OthersSame
  <2>4. \A u \in Threads, k \in Nodes : Closes(u, k)' <=> Closes(u, k) /\ u # t
    <3>1. \A k \in Nodes : ~Closes(t, k)'
      BY <2>2 DEF Closes, Held
    <3>2. \A u \in Threads \ {t}, k \in Nodes : Closes(u, k)' <=> Closes(u, k)
      BY <2>1, OthersKinds
    <3> QED
      BY <3>1, <3>2
  <2>5. \A k \in Nodes : k # n => ~Closes(t, k)
    BY <1>0, <2>2 DEF Closes
  <2>6. \A u \in Threads, k \in Nodes :
            (Reclaiming(u) /\ node[u] = k)' <=> (Reclaiming(u) /\ node[u] = k)
    BY <2>2, <2>3 DEF Held
  <2>7. \A k \in Nodes : /\ Refs(k)' = Refs(k) /\ Drops(k)' = Drops(k) \ {t}
                         /\ k # n => Users(k)' = Users(k)
    <3> SUFFICES ASSUME NEW k \in Nodes
                 PROVE  /\ Refs(k)' = Refs(k) /\ Drops(k)' = Drops(k) \ {t}
                        /\ k # n => Users(k)' = Users(k)
      OBVIOUS
    <3>1. Refs(k)' = Refs(k)
      BY <1>1 DEF Refs
    <3>2. \A u \in Threads : u \in Drops(k)' <=> u \in Drops(k) /\ u # t
      BY <2>1, <2>2 DEF Drops, Held, Dropping, Passing, OthersSame
    <3>3. Drops(k)' = Drops(k) \ {t}
      BY <3>2 DEF Drops
    <3>4. k # n => t \notin Drops(k)
      BY <1>0 DEF Drops
    <3>5. LinkTo(k)' = LinkTo(k)
      BY <1>1 DEF LinkTo
    <3> QED
      BY <3>1, <3>3, <3>4, <3>5 DEF Users
  <2>8. /\ Users(n) \in Nat
        /\ t \in Drops(n) => Users(n)' = Users(n) - 1
        /\ t \notin Drops(n) => Users(n)' = Users(n)
    <3>1. /\ IsFiniteSet(Drops(n)) /\ Cardinality(Drops(n)) \in Nat
          /\ Cardinality(Refs(n)) \in Nat /\ LinkTo(n) \in {0, 1} /\ Users(n) \in Nat
      BY UsersNat
    <3>2. LinkTo(n)' = LinkTo(n)
      BY <1>1 DEF LinkTo
    <3>3. Cardinality(Drops(n) \ {t}) =
              IF t \in Drops(n) THEN Cardinality(Drops(n)) - 1 ELSE Cardinality(Drops(n))
      BY <3>1, FS_RemoveElement
    <3>4. Users(n)' = Cardinality(Refs(n)) + Cardinality(Drops(n) \ {t}) + LinkTo(n)
      BY <2>7, <3>2 DEF Users
    <3> QED
      BY <3>1, <3>3, <3>4 DEF Users
  <2>9. ASSUME rcount[t] = REFERENCE PROVE Counts'
    <3>1. t \in Drops(n) /\ ~Closes(t, n) /\ count'[n] = count[n] - 2 /\ count[n] # 2
      BY <1>0, <1>1, <2>2, <2>9 DEF Drops, Closes, REFERENCE
    <3>2. Users(n)' = Users(n) - 1
      BY <2>8, <3>1
    <3>3. \A u \in Threads, k \in Nodes : Closes(u, k)' <=> Closes(u, k)
      BY <2>4, <2>5, <3>1
    <3>4. tail.ptr \in Nodes /\ n # tail.ptr => count'[tail.ptr] = count[tail.ptr]
      BY <1>1 DEF ChainInv, Places
    <3>5. count'[tail.ptr] + tail.seq = GUARD_BIT + REFERENCE + 2 * Users(tail.ptr)'
      <4>1. count[tail.ptr] + tail.seq = 3 + 2 * Users(tail.ptr) /\ tail.ptr \in Nodes
        BY DEF ChainInv, Counts, Places, GUARD_BIT, REFERENCE
      <4>2. CASE tail.ptr = n
        <5>1. Users(tail.ptr)' = Users(n)'
          BY <1>1, <4>2
        <5> QED
          BY <1>1, <2>8, <3>1, <3>2, <4>1, <4>2, <5>1 DEF GUARD_BIT, REFERENCE
      <4>3. CASE tail.ptr # n
        <5>1. Users(tail.ptr)' = Users(tail.ptr)
          BY <1>1, <2>7, <4>1, <4>3
        <5> QED
          BY <3>4, <4>1, <4>3, <5>1 DEF GUARD_BIT, REFERENCE
      <4> QED
        BY <4>2, <4>3
    <3>6. \A k \in Nodes : \A u \in Threads : Closes(u, k)' =>
              count'[k] + Taken(u)' = GUARD_BIT + REFERENCE + 2 * Users(k)'
      <4> SUFFICES ASSUME NEW k \in Nodes, NEW u \in Threads, Closes(u, k)'
                   PROVE  count'[k] + Taken(u)' = GUARD_BIT + REFERENCE + 2 * Users(k)'
        OBVIOUS
      <4>1. Closes(u, k) /\ u # t /\ Taken(u)' = Taken(u)
        BY <2>3, <2>4
      <4>2. count[k] + Taken(u) = 3 + 2 * Users(k)
        BY <4>1 DEF ChainInv, Counts, GUARD_BIT, REFERENCE
      <4>3. Taken(u) \in Int
        BY DEF Taken, TypeOK, LocalType, Sequenced, GUARD_BIT, REFERENCE
      <4> QED
        BY <1>1, <2>7, <2>8, <3>1, <3>2, <4>1, <4>2, <4>3 DEF GUARD_BIT, REFERENCE
    <3>7. \A k \in Nodes :
              /\ pos[k] >= pos[freeTail] /\ k # tail.ptr
              /\ \A u \in Threads : ~Closes(u, k) /\ ~(Reclaiming(u) /\ node[u] = k)
              => count'[k] = 2 * Users(k)' /\ count'[k] > 0
      <4> SUFFICES ASSUME NEW k \in Nodes, pos[k] >= pos[freeTail], k # tail.ptr,
                          \A u \in Threads : ~Closes(u, k) /\ ~(Reclaiming(u) /\ node[u] = k)
                   PROVE  count'[k] = 2 * Users(k)' /\ count'[k] > 0
        OBVIOUS
      <4>1. count[k] = 2 * Users(k) /\ count[k] > 0
        BY DEF ChainInv, Counts
      <4> QED
        BY <1>1, <2>7, <2>8, <3>1, <3>2, <4>1
    <3>8. Counts'
      <4>1. \A k \in Nodes : \A u \in Threads : Closes(u, k)' =>
              /\ Taken(u)' % 2 = 0
              /\ count'[k] + Taken(u)' = GUARD_BIT + REFERENCE + 2 * Users(k)'
              /\ \A v \in Threads : Closes(v, k)' => v = u
        BY <2>3, <2>4, <3>3, <3>6 DEF ChainInv, Counts
      <4>2. /\ tail.seq % 2 = 0
            /\ count'[tail.ptr] + tail.seq = GUARD_BIT + REFERENCE + 2 * Users(tail.ptr)'
            /\ \A u \in Threads : ~Closes(u, tail.ptr)'
        <5>1. tail.seq % 2 = 0 /\ \A u \in Threads : ~Closes(u, tail.ptr)
          BY DEF ChainInv, Counts
        <5>2. tail.ptr \in Nodes
          BY DEF ChainInv, Places
        <5>3. \A u \in Threads : ~Closes(u, tail.ptr)'
          BY <1>1, <3>3, <5>1, <5>2
        <5> QED
          BY <3>5, <5>1, <5>3
      <4>3. \A k \in Nodes :
              /\ pos[k] >= pos[freeTail] /\ k # tail.ptr
              /\ \A u \in Threads : ~Closes(u, k)' /\ ~(Reclaiming(u) /\ node[u] = k)'
              => count'[k] = 2 * Users(k)' /\ count'[k] > 0
        BY <2>6, <3>3, <3>7
      <4> QED
        BY <1>1, <4>1, <4>2, <4>3 DEF Counts
    <3> QED
      BY <3>8
  <2>10. ASSUME rcount[t] # REFERENCE PROVE Counts'
    <3>1. Closes(t, n) /\ t \notin Drops(n) /\ Taken(t) = 3 - rcount[t]
      BY <1>0, <1>1, <2>2, <2>10 DEF Closes, Drops, Taken, GUARD_BIT, REFERENCE
    <3>2. /\ count[n] + Taken(t) = 3 + 2 * Users(n) /\ n # tail.ptr
          /\ \A u \in Threads : Closes(u, n) => u = t
      BY <3>1 DEF ChainInv, Counts, GUARD_BIT, REFERENCE
    <3>3. Users(n)' = Users(n)
      BY <2>8, <3>1
    <3>4. count'[n] = 2 * Users(n)' /\ count'[n] > 0
      BY <1>1, <2>2, <2>8, <3>1, <3>2, <3>3
    <3>5. /\ \A k \in Nodes : Users(k)' = Users(k)
          /\ tail.ptr \in Nodes /\ count'[tail.ptr] = count[tail.ptr]
      BY <1>1, <2>7, <3>2, <3>3 DEF ChainInv, Places
    <3>6. Counts'
      <4>1. \A k \in Nodes : \A u \in Threads : Closes(u, k)' =>
              /\ Taken(u)' % 2 = 0
              /\ count'[k] + Taken(u)' = GUARD_BIT + REFERENCE + 2 * Users(k)'
              /\ \A v \in Threads : Closes(v, k)' => v = u
        BY <1>1, <2>3, <2>4, <3>2, <3>5 DEF ChainInv, Counts
      <4>2. /\ tail.seq % 2 = 0
            /\ count'[tail.ptr] + tail.seq = GUARD_BIT + REFERENCE + 2 * Users(tail.ptr)'
            /\ \A u \in Threads : ~Closes(u, tail.ptr)'
        BY <1>1, <2>4, <3>5 DEF ChainInv, Counts
      <4>3. \A k \in Nodes :
              /\ pos[k] >= pos[freeTail] /\ k # tail.ptr
              /\ \A u \in Threads : ~Closes(u, k)' /\ ~(Reclaiming(u) /\ node[u] = k)
              => count'[k] = 2 * Users(k)' /\ count'[k] > 0
        BY <1>1, <2>4, <2>5, <3>4, <3>5 DEF ChainInv, Counts
      <4> QED
        BY <1>1, <2>6, <4>1, <4>2, <4>3 DEF Counts
    <3> QED
      BY <3>6
  <2>11. Counts'
    BY <1>1, <2>9, <2>10
  <2>12. Places'
    BY <1>1 DEF ChainInv, Places
  <2>13. Links'
    BY <1>1, <2>2, <2>3 DEF ChainInv, Links, Held
  <2>14. Owners'
    <3>1. \A u \in Threads : Owns(u) => node[u] # n
      BY <1>0 DEF ChainInv, Places, Owners
    <3> QED
      BY <1>1, <2>2, <2>3, <3>1 DEF ChainInv, Owners, Owns
  <2>15. Touched'
    BY <1>1, <2>2, <2>3 DEF ChainInv, Touched, Held
  <2>16. Reclaims'
    <3>1. freeTail \in Nodes
      BY DEF ChainInv, Places
    <3> QED
      BY <1>1, <2>2, <2>3, <2>4, <2>7, <3>1 DEF ChainInv, Reclaims, Held
  <2>17. Pops'
    BY <1>1, <2>1, <2>3 DEF ChainInv, Pops
  <2>18. Queued'
    <3>1. Logged' = Logged
      BY <1>1 DEF Logged
    <3> QED
      BY <1>1, <2>1, <2>3, <3>1, NullNotLogged DEF ChainInv, Queued
  <2>19. Guards'
    BY <1>1, <2>1, <2>3 DEF ChainInv, Guards
  <2> QED
    BY <2>11, <2>12, <2>13, <2>14, <2>15, <2>16, <2>17, <2>18, <2>19 DEF ChainInv
<1> QED
  BY <1>2, <1>3

-------------------------------------------------------------------------------
(* Letting a node go *)

(* Whoever lets the node go reads its successor, which is there since the  *)
(* link was made before the guard bit was taken away.                      *)
LEMMA DropNextStep ==
    ASSUME TypeOK, TypeOK', ChainInv, NEW t \in Threads, DropNext(t)
    PROVE  ChainInv'
<1> USE DEF proxyVars, nodeVars, heapVars, clientVars, historyVars
<1>0. /\ node[t] = freeTail /\ freeTail \in heap
  BY DEF DropNext, Reclaiming, ChainInv, Reclaims, Places
<1>1. /\ pc[t] = "d_next" /\ pc'[t] = "d_store" /\ OthersSame(t)
      /\ nxt'[t] = next[freeTail] /\ adv'[t] = next[freeTail]
      /\ node' = node /\ old' = old /\ arg' = arg /\ rcount' = rcount
      /\ UNCHANGED <<proxyVars, nodeVars, heapVars, clientVars, historyVars>>
  BY <1>0 DEF DropNext, NextOf, Goto, TypeOK, ClientType, LocalType, OthersSame
<1>2. \A u \in Threads : /\ Linking(u)' <=> Linking(u)
                         /\ Dropping(u)' <=> Dropping(u)
                         /\ Passing(u)' <=> Passing(u)
                         /\ Reclaiming(u)' <=> Reclaiming(u)
                         /\ Owns(u)' <=> Owns(u)
                         /\ Unqueued(u)' <=> Unqueued(u)
                         /\ old'[u] = old[u]
  BY <1>1 DEF Linking, Dropping, Passing, Reclaiming, Owns, Unqueued, OthersSame
<1>3. \A u \in Threads : \A k : Closes(u, k)' <=> Closes(u, k)
  BY <1>1, <1>2 DEF Closes
<1>4. \A u \in Threads : Taken(u)' = Taken(u)
  BY <1>1, <1>2 DEF Taken
<1>5. \A k : Refs(k)' = Refs(k) /\ Drops(k)' = Drops(k) /\ Users(k)' = Users(k)
  <2> SUFFICES ASSUME NEW k
               PROVE  Refs(k)' = Refs(k) /\ Drops(k)' = Drops(k) /\ Users(k)' = Users(k)
    OBVIOUS
  <2>1. Refs(k)' = Refs(k)
    BY <1>1 DEF Refs
  <2>2. Drops(k)' = Drops(k)
    BY <1>1, <1>2 DEF Drops
  <2>3. LinkTo(k)' = LinkTo(k)
    BY <1>1 DEF LinkTo
  <2> QED
    BY <2>1, <2>2, <2>3 DEF Users
<1>6. Places' /\ Links'
  BY <1>1, <1>2 DEF ChainInv, Places, Links
<1>7. Owners' /\ Touched'
  BY <1>1, <1>2 DEF ChainInv, Owners, Touched, OthersSame
<1>8. Counts'
  BY <1>1, <1>2, <1>3, <1>4, <1>5 DEF ChainInv, Counts
<1>9. Reclaims'
  BY <1>1, <1>2, <1>3, <1>5 DEF ChainInv, Reclaims, Reclaiming, OthersSame
<1>10. Pops'
  BY <1>1 DEF ChainInv, Pops, OthersSame
<1>11. Queued'
  BY <1>1, <1>2 DEF ChainInv, Queued, Logged
<1>12. Guards'
  BY <1>1 DEF ChainInv, Guards, OthersSame
<1> QED
  BY <1>6, <1>7, <1>8, <1>9, <1>10, <1>11, <1>12 DEF ChainInv

(* Moving freeTail passes the link to the next node on to the thread.      *)
LEMMA DropStoreStep ==
    ASSUME TypeOK, TypeOK', ChainInv, NEW t \in Threads, DropStore(t)
    PROVE  ChainInv'
<1> USE DEF nodeVars, heapVars, clientVars, historyVars
<1>0. PICK f \in Nodes : f = freeTail
  BY DEF ChainInv, Places
<1>1. /\ Reclaiming(t) /\ pc[t] = "d_store"
      /\ node[t] = f /\ f # tail.ptr /\ Refs(f) = {} /\ Drops(f) = {}
      /\ \A u \in Threads : ~Closes(u, f) /\ (Reclaiming(u) => u = t)
      /\ nxt[t] = next[f] /\ adv[t] = next[f]
  BY <1>0 DEF DropStore, Reclaiming, ChainInv, Reclaims
<1>2. \A k \in Nodes : pos[k] \in Nat
  BY DEF ChainInv, Places
<1>3. PICK m \in Nodes : m = next[f] /\ pos[m] = pos[f] + 1
  <2>1. pos[f] > 0
    BY <1>0 DEF ChainInv, Places
  <2>2. ~\E u \in Threads : Linking(u) /\ old[u].ptr = f
    BY <1>1 DEF Closes
  <2> QED
    BY <1>0, <1>1, <2>1, <2>2 DEF ChainInv, Links
<1>4. /\ pc'[t] = "d_free" /\ OthersSame(t) /\ node'[t] = m /\ freeTail' = m
      /\ old' = old /\ arg' = arg /\ rcount' = rcount
      /\ UNCHANGED <<tail, freeHead, nodeVars, heapVars, clientVars, historyVars>>
  BY <1>1, <1>3 DEF DropStore, Goto, TypeOK, ClientType, LocalType, OthersSame
<1>5. /\ ~Dropping(t) /\ ~Passing(t) /\ ~Linking(t) /\ ~Owns(t)
      /\ Passing(t)' /\ ~Dropping(t)' /\ ~Linking(t)' /\ ~Reclaiming(t)' /\ ~Owns(t)'
  BY <1>1, <1>4 DEF Dropping, Passing, Reclaiming, Linking, Owns
<1>6. \A u \in Threads \ {t} :
          /\ pc'[u] = pc[u]
          /\ Linking(u)' <=> Linking(u)
          /\ Dropping(u)' <=> Dropping(u)
          /\ Passing(u)' <=> Passing(u)
          /\ Reclaiming(u)' <=> Reclaiming(u)
          /\ Owns(u)' <=> Owns(u)
          /\ Unqueued(u)' <=> Unqueued(u)
          /\ Taken(u)' = Taken(u)
          /\ old'[u] = old[u] /\ node'[u] = node[u]
          /\ nxt'[u] = nxt[u] /\ adv'[u] = adv[u] /\ rcount'[u] = rcount[u]
  BY <1>4, OthersKinds DEF OthersSame
<1>7. \A k \in Nodes : pos[k] >= pos[f] /\ k # f => pos[k] >= pos[m]
  BY <1>0, <1>2, <1>3 DEF ChainInv, Places
<1>8. /\ \A u \in Threads : ~Passing(u)
      /\ \A u \in Threads : Dropping(u) => node[u] # f
      /\ \A u \in Threads : ref[u] # f
      /\ \A u \in Threads : Linking(u) => old[u].ptr # f
  <2>1. \A u \in Threads : ref[u] # f
    BY <1>1 DEF Refs
  <2>2. \A u \in Threads : Dropping(u) => node[u] # f
    BY <1>1 DEF Drops, Closes
  <2>3. \A u \in Threads : Passing(u) => u \in Drops(f)
    BY <1>0 DEF ChainInv, Touched, Drops
  <2>4. \A u \in Threads : Linking(u) => old[u].ptr # f
    BY <1>1 DEF Closes
  <2> QED
    BY <1>1, <2>1, <2>2, <2>3, <2>4
<1>9. \A u \in Threads, k \in Nodes : /\ Closes(u, k)' <=> Closes(u, k)
                                      /\ Closes(u, k) => Taken(u)' = Taken(u)
  <2>1. \A k \in Nodes : ~Closes(t, k) /\ ~Closes(t, k)'
    BY <1>5 DEF Closes
  <2>2. \A u \in Threads \ {t}, k \in Nodes : Closes(u, k)' <=> Closes(u, k)
    BY <1>4, OthersKinds
  <2> QED
    BY <1>6, <2>1, <2>2
<1>10. \A k \in Nodes : /\ Refs(k)' = Refs(k)
                        /\ k # m => Drops(k)' = Drops(k)
                        /\ k # m /\ pos[k] >= pos[m] => Users(k)' = Users(k)
  <2> SUFFICES ASSUME NEW k \in Nodes
               PROVE  /\ Refs(k)' = Refs(k)
                      /\ k # m => Drops(k)' = Drops(k)
                      /\ k # m /\ pos[k] >= pos[m] => Users(k)' = Users(k)
    OBVIOUS
  <2>1. Refs(k)' = Refs(k)
    BY <1>4 DEF Refs
  <2>2. k # m => \A u \in Threads : u \in Drops(k)' <=> u \in Drops(k)
    BY <1>4, <1>5 DEF Drops, Dropping, Passing, OthersSame
  <2>3. k # m => Drops(k)' = Drops(k)
    BY <2>2 DEF Drops
  <2>4. k # m /\ pos[k] >= pos[m] => LinkTo(k)' = LinkTo(k)
    <3>1. k # m /\ pos[k] >= pos[m] => pos[k] > pos[m] /\ pos[k] > pos[f]
      BY <1>2, <1>3 DEF ChainInv, Places
    <3> QED
      BY <1>0, <1>4, <3>1 DEF LinkTo
  <2> QED
    BY <2>1, <2>3, <2>4 DEF Users
<1>11. Users(m)' = Users(m)
  <2>1. \A u \in Threads : u \in Drops(m)' <=> u \in Drops(m) \/ u = t
    BY <1>4, <1>5 DEF Drops, Dropping, Passing, OthersSame
  <2>2. Drops(m)' = Drops(m) \cup {t} /\ t \notin Drops(m)
    BY <1>5, <2>1 DEF Drops
  <2>3. IsFiniteSet(Drops(m)) /\ Cardinality(Drops(m)) \in Nat /\ Cardinality(Refs(m)) \in Nat
    BY UsersNat
  <2>4. Cardinality(Drops(m)') = Cardinality(Drops(m)) + 1
    BY <2>2, <2>3, FS_AddElement
  <2>5. LinkTo(m) = 1 /\ LinkTo(m)' = 0
    BY <1>0, <1>2, <1>3, <1>4 DEF LinkTo
  <2> QED
    BY <1>10, <2>3, <2>4, <2>5 DEF Users
<1>12. Places'
  <2>1. pos[f] < pos[tail.ptr]
    BY <1>0, <1>1 DEF ChainInv, Places
  <2> QED
    BY <1>0, <1>2, <1>3, <1>4, <2>1 DEF ChainInv, Places
<1>13. Links'
  BY <1>0, <1>4, <1>5, <1>6, <1>7, <1>8 DEF ChainInv, Links
<1>14. Owners'
  BY <1>4, <1>5, <1>6 DEF ChainInv, Owners
<1>15. Touched'
  <2>1. \A u \in Threads : ref[u] # NULL => ref[u] \in Nodes
    BY DEF TypeOK, ClientType, NodeOrNull
  <2> QED
    BY <1>0, <1>4, <1>5, <1>6, <1>7, <1>8, <2>1 DEF ChainInv, Touched
<1>16. Counts'
  <2>1. tail.ptr \in Nodes /\ pos[tail.ptr] >= pos[m]
    BY <1>0, <1>1, <1>7 DEF ChainInv, Places
  <2>2. \A u \in Threads, k \in Nodes : Closes(u, k) => pos[k] >= pos[m]
    BY <1>0, <1>1, <1>7, ClosedInUse
  <2>3. \A k \in Nodes : pos[k] >= pos[m] => Users(k)' = Users(k)
    BY <1>10, <1>11
  <2>4. \A u \in Threads : ~Reclaiming(u)'
    BY <1>1, <1>5, <1>6
  <2>5. \A k \in Nodes : pos[k] >= pos[m] =>
            pos[k] >= pos[f] /\ \A u \in Threads : ~(Reclaiming(u) /\ node[u] = k)
    BY <1>1, <1>2, <1>3
  <2>6. /\ tail.seq % 2 = 0
        /\ count[tail.ptr] + tail.seq = GUARD_BIT + REFERENCE + 2 * Users(tail.ptr)'
        /\ \A u \in Threads : ~Closes(u, tail.ptr)'
    <3>1. Users(tail.ptr)' = Users(tail.ptr)
      BY <1>4, <2>1, <2>3
    <3>2. \A u \in Threads : ~Closes(u, tail.ptr)'
      BY <1>4, <1>9, <2>1 DEF ChainInv, Counts
    <3> QED
      BY <3>1, <3>2 DEF ChainInv, Counts
  <2>7. \A k \in Nodes : \A u \in Threads : Closes(u, k)' =>
          /\ Taken(u)' % 2 = 0
          /\ count[k] + Taken(u)' = GUARD_BIT + REFERENCE + 2 * Users(k)'
          /\ \A v \in Threads : Closes(v, k)' => v = u
    BY <1>9, <2>2, <2>3 DEF ChainInv, Counts
  <2>8. \A k \in Nodes :
          /\ pos[k] >= pos[m] /\ k # tail.ptr
          /\ \A u \in Threads : ~Closes(u, k)'
          => count[k] = 2 * Users(k)' /\ count[k] > 0
    BY <1>0, <1>9, <2>3, <2>5 DEF ChainInv, Counts
  <2> QED
    BY <1>4, <2>6, <2>7, <2>8 DEF Counts
<1>17. Reclaims'
  BY <1>1, <1>5, <1>6 DEF Reclaims
<1>18. Pops'
  <2>1. freeHead.ptr # m
    BY <1>0, <1>2, <1>3 DEF ChainInv, Places
  <2> QED
    BY <1>0, <1>4, <2>1 DEF ChainInv, Pops, OthersSame
<1>19. Queued'
  <2>1. Logged' = Logged
    BY <1>4 DEF Logged
  <2>2. \A u \in Threads : Unqueued(u)' => Unqueued(u)
    BY <1>4, <1>6 DEF Unqueued
  <2> QED
    BY <1>4, <2>1, <2>2 DEF ChainInv, Queued
<1>20. Guards'
  BY <1>4 DEF ChainInv, Guards, OthersSame
<1> QED
  BY <1>12, <1>13, <1>14, <1>15, <1>16, <1>17, <1>18, <1>19, <1>20 DEF ChainInv

(* Freeing the data and clearing it leave the link with the thread.        *)
LEMMA PassingSteps ==
    ASSUME TypeOK, TypeOK', ChainInv, NEW t \in Threads, DropFree(t) \/ DropClear(t)
    PROVE  ChainInv'
<1> USE DEF proxyVars, heapVars, clientVars, historyVars
<1>0. /\ Passing(t) /\ node[t] = freeTail /\ freeTail \in Nodes
  BY DEF DropFree, DropClear, Passing, ChainInv, Touched, Places
<1>1. /\ pc[t] \in {"d_free", "d_clear"} /\ pc'[t] \in {"d_clear", "d_load"}
      /\ pc'[t] = "d_load" => rcount'[t] = REFERENCE
      /\ OthersSame(t) /\ node' = node /\ old' = old /\ arg' = arg
      /\ UNCHANGED <<proxyVars, next, count, heapVars, clientVars, log, guard, pos>>
      /\ \A k \in Nodes : data'[k] \in {data[k], NULL}
  <2>1. CASE DropFree(t)
    BY <2>1 DEF DropFree, Goto, TypeOK, ClientType, LocalType, OthersSame, nodeVars
  <2>2. CASE DropClear(t)
    BY <2>2 DEF DropClear, Goto, TypeOK, ClientType, LocalType, NodeType, OthersSame
  <2> QED
    BY <2>1, <2>2
<1>2. /\ ~Dropping(t) /\ ~Reclaiming(t) /\ ~Linking(t) /\ ~Owns(t) /\ t \in Drops(freeTail)
      /\ ~Linking(t)' /\ ~Reclaiming(t)' /\ ~Owns(t)' /\ ~Unqueued(t)'
      /\ Dropping(t)' => rcount'[t] = REFERENCE
      /\ Passing(t)' \/ Dropping(t)'
  BY <1>0, <1>1
     DEF Dropping, Passing, Reclaiming, Linking, Owns, Unqueued, Drops
<1>3. \A u \in Threads \ {t} :
          /\ pc'[u] = pc[u]
          /\ Linking(u)' <=> Linking(u)
          /\ Dropping(u)' <=> Dropping(u)
          /\ Passing(u)' <=> Passing(u)
          /\ Reclaiming(u)' <=> Reclaiming(u)
          /\ Owns(u)' <=> Owns(u)
          /\ Unqueued(u)' <=> Unqueued(u)
          /\ Taken(u)' = Taken(u)
          /\ nxt'[u] = nxt[u] /\ adv'[u] = adv[u] /\ rcount'[u] = rcount[u]
  BY <1>1, OthersKinds DEF OthersSame
<1>4. \A u \in Threads, k \in Nodes : /\ Closes(u, k)' <=> Closes(u, k)
                                      /\ Closes(u, k) => Taken(u)' = Taken(u)
  <2>1. \A k \in Nodes : ~Closes(t, k) /\ ~Closes(t, k)'
    BY <1>2 DEF Closes
  <2>2. \A u \in Threads \ {t}, k \in Nodes : Closes(u, k)' <=> Closes(u, k)
    BY <1>1, OthersKinds
  <2> QED
    BY <1>3, <2>1, <2>2
<1>5. \A k \in Nodes : Refs(k)' = Refs(k) /\ Drops(k)' = Drops(k) /\ Users(k)' = Users(k)
  <2> SUFFICES ASSUME NEW k \in Nodes
               PROVE  Refs(k)' = Refs(k) /\ Drops(k)' = Drops(k) /\ Users(k)' = Users(k)
    OBVIOUS
  <2>1. Refs(k)' = Refs(k)
    BY <1>1 DEF Refs
  <2>2. \A u \in Threads : u \in Drops(k)' <=> u \in Drops(k)
    BY <1>0, <1>1, <1>2, <1>3 DEF Drops
  <2>3. Drops(k)' = Drops(k)
    BY <2>2 DEF Drops
  <2>4. LinkTo(k)' = LinkTo(k)
    BY <1>1 DEF LinkTo
  <2> QED
    BY <2>1, <2>3, <2>4 DEF Users
<1>6. Places'
  BY <1>1 DEF ChainInv, Places
<1>7. Links'
  BY <1>1, <1>2, <1>3 DEF ChainInv, Links
<1>8. Owners'
  <2>1. \A u \in Threads : Owns(u) => node[u] \in Nodes /\ node[u] # freeTail
    BY <1>0 DEF ChainInv, Places, Owners
  <2>2. \A k \in Nodes : k # freeTail => data'[k] = data[k]
    BY <1>0 DEF DropFree, DropClear, TypeOK, NodeType, nodeVars
  <2> QED
    BY <1>1, <1>2, <1>3, <2>1, <2>2 DEF ChainInv, Owners, Owns
<1>9. Touched'
  <2>1. pos[freeTail] \in Nat
    BY <1>0 DEF ChainInv, Places
  <2> QED
    BY <1>0, <1>1, <1>2, <1>3, <2>1 DEF ChainInv, Touched
<1>10. Counts'
  <2>1. \A u \in Threads, k \in Nodes :
            (Reclaiming(u) /\ node[u] = k)' <=> (Reclaiming(u) /\ node[u] = k)
    BY <1>1, <1>2, <1>3
  <2>2. tail.ptr \in Nodes
    BY DEF ChainInv, Places
  <2> QED
    BY <1>1, <1>4, <1>5, <2>1, <2>2 DEF ChainInv, Counts
<1>11. Reclaims'
  BY <1>2, <1>3 DEF ChainInv, Reclaims
<1>12. Pops'
  BY <1>1 DEF ChainInv, Pops, OthersSame
<1>13. Queued'
  <2>1. Logged' = Logged
    BY <1>1 DEF Logged
  <2> QED
    BY <1>1, <1>2, <1>3, <2>1 DEF ChainInv, Queued
<1>14. Guards'
  <2>1. \A d \in Data, k \in Nodes : data'[k] = d => data[k] = d
    BY <1>1, StpcAssumption
  <2> QED
    BY <1>1, <2>1 DEF ChainInv, Guards, OthersSame
<1> QED
  BY <1>6, <1>7, <1>8, <1>9, <1>10, <1>11, <1>12, <1>13, <1>14 DEF ChainInv

-------------------------------------------------------------------------------
(* The invariant *)

(* Only the reader of guarded data's node frees it, when nobody holds a    *)
(* reference from before.                                                  *)
LEMMA FreedStep ==
    ASSUME TypeOK, TypeOK', alive => ChainInv, ~alive => Deleted, Freed, [Next]_vars
    PROVE  Freed'
<1>1. CASE UNCHANGED <<log, done>> /\ \A d \in Data : guard'[d] \subseteq guard[d]
  <2>1. Done' = Done /\ Logged' = Logged
    BY <1>1 DEF Done, Logged
  <2>2. Done \subseteq Data
    BY DEF Done, TypeOK, HistoryType
  <2> QED
    BY <1>1, <2>1, <2>2 DEF Freed, GuardedNotFreed
<1>2. ASSUME NEW t \in Threads, QueueCas(t) PROVE Freed'
  <2>1. ChainInv
    BY <1>2 DEF QueueCas, Deleted
  <2>2. CASE UNCHANGED <<log, guard>>
    BY <1>1, <1>2, <2>2 DEF QueueCas
  <2>3. CASE ~UNCHANGED <<log, guard>>
    <3>1. /\ arg[t] \in Data /\ arg[t] \notin Logged /\ done' = done
          /\ log' = Append(log, arg[t]) /\ log \in Seq(Data)
          /\ \A d \in Data : d # arg[t] => guard'[d] = guard[d]
      BY <1>2, <2>1, <2>3
         DEF QueueCas, TypeOK, LocalType, HistoryType, DataOrNull, ChainInv, Queued, Unqueued
    <3>2. Logged' = Logged \cup {arg[t]}
      BY <3>1, LoggedAppend
    <3>3. Done' = Done
      BY <3>1 DEF Done
    <3>4. Done \subseteq Data
      BY DEF Done, TypeOK, HistoryType
    <3> QED
      BY <3>1, <3>2, <3>3, <3>4 DEF Freed, GuardedNotFreed
  <2> QED
    BY <2>2, <2>3
<1>3. ASSUME NEW t \in Threads, DropFree(t) PROVE Freed'
  <2>1. ChainInv
    BY <1>3 DEF DropFree, Deleted
  <2>2. /\ node[t] = freeTail /\ freeTail \in Nodes /\ freeTail \in heap /\ pos[freeTail] > 0
    BY <1>3, <2>1 DEF DropFree, Passing, ChainInv, Touched, Places
  <2>3. UNCHANGED <<log, guard>>
    BY <1>3 DEF DropFree
  <2>4. CASE done' = done
    BY <1>1, <2>3, <2>4
  <2>5. CASE done' # done
    <3>1. PICK d \in Data : d = data[freeTail] /\ done' = Append(done, d)
      BY <1>3, <2>2, <2>5
         DEF DropFree, DataOf, HasData, TypeOK, NodeType, DataOrNull
    <3>2. d \in Logged
      BY <2>1, <2>2, <3>1, StpcAssumption DEF ChainInv, Queued
    <3>3. guard[d] = {}
      <4> SUFFICES ASSUME NEW u \in guard[d] PROVE FALSE
        OBVIOUS
      <4>1. u \in Threads
        BY DEF TypeOK, HistoryType
      <4>2. ref[u] # NULL /\ pos[ref[u]] < pos[freeTail]
        BY <2>1, <2>2, <3>1 DEF ChainInv, Guards
      <4>3. pos[ref[u]] >= pos[freeTail] /\ ref[u] \in Nodes
        BY <2>1, <4>1, <4>2 DEF ChainInv, Touched, TypeOK, ClientType, NodeOrNull
      <4> QED
        BY <2>1, <2>2, <4>2, <4>3 DEF ChainInv, Places
    <3>4. Done' = Done \cup {d}
      BY <3>1, DoneAppend DEF TypeOK, HistoryType
    <3>5. Logged' = Logged
      BY <2>3 DEF Logged
    <3> QED
      BY <2>3, <3>2, <3>3, <3>4, <3>5 DEF Freed, GuardedNotFreed
  <2> QED
    BY <2>4, <2>5
<1>4. ASSUME NEW t \in Threads, Enter(t) PROVE Freed'
  BY <1>1, <1>4 DEF Enter, GetCall, DropCall, DeferCall, TrimCall, historyVars,
                    TypeOK, HistoryType
<1>5. ASSUME NEW t \in Threads, Step(t), ~QueueCas(t), ~DropFree(t) PROVE Freed'
  <2>1. UNCHANGED <<log, done, guard>>
    BY <1>5 DEF Step, GetLoadSeq, GetCas, DropLoad, DropSub, DropNext, DropStore, DropClear,
        NewLoadPtr, NewLoadSeq, NewTest, NewRead, NewCas, NewLoadNum, NewIncNum,
        NewCheckMax, NewAlloc, NewInit, QueueLoadPtr, QueueLoadSeq, QueueLink,
        TrimFree, TrimDec, historyVars
  <2> QED
    BY <1>1, <2>1
<1>6. ASSUME NEW m \in Limits, SetMaxNodes(m) PROVE Freed'
  BY <1>1, <1>6 DEF SetMaxNodes, historyVars
<1>7. CASE DeleteProxy
  BY <1>1, <1>7 DEF DeleteProxy, historyVars
<1>8. CASE UNCHANGED vars
  BY <1>1, <1>8 DEF vars, historyVars
<1> QED
  BY <1>2, <1>3, <1>4, <1>5, <1>6, <1>7, <1>8, NextCases

(* The proxy begins with one node, which is both free tail and tail. *)
LEMMA InvInit == Init => IInv
<1> SUFFICES ASSUME Init PROVE IInv
  OBVIOUS
<1> USE StpcAssumption DEF Init
<1>1. /\ FirstNode \in Nodes /\ NULL \notin Nodes
      /\ \A t \in Threads : pc[t] = "idle" /\ ref[t] = NULL /\ arg[t] = NULL
      /\ pos[FirstNode] = 1 /\ \A n \in Nodes : n # FirstNode => pos[n] = 0
  OBVIOUS
<1>2. \A t \in Threads : ~Held(t) /\ ~Owns(t)
  BY <1>1 DEF Held, Dropping, Passing, Reclaiming, Linking, Owns
<1>3. Places
  BY <1>1 DEF Places
<1>4. Links /\ Owners /\ Touched
  BY <1>1, <1>2 DEF Links, Owners, Owns, Touched, Held
<1>5. Counts
  <2>1. \A t \in Threads : \A n : ~Closes(t, n)
    BY <1>2 DEF Closes, Held
  <2>2. Users(FirstNode) = 0
    <3>1. Refs(FirstNode) = {} /\ Drops(FirstNode) = {}
      BY <1>1, <1>2 DEF Refs, Drops, Held
    <3>2. LinkTo(FirstNode) = 0
      BY <1>1 DEF LinkTo
    <3> QED
      BY <3>1, <3>2, FS_EmptySet DEF Users
  <2> QED
    BY <1>1, <2>1, <2>2 DEF Counts, GUARD_BIT, REFERENCE
<1>6. Reclaims /\ Pops
  BY <1>1, <1>2 DEF Reclaims, Pops, Held
<1>7. Logged = {} /\ Done = {}
  BY DEF Logged, Done
<1>8. Queued /\ Guards
  BY <1>1, <1>7 DEF Queued, Guards
<1> QED
  BY <1>3, <1>4, <1>5, <1>6, <1>7, <1>8 DEF IInv, ChainInv, Freed, GuardedNotFreed

(* The invariant is inductive, relative to the types. *)
LEMMA InvStep == TypeOK /\ TypeOK' /\ IInv /\ [Next]_vars => IInv'
<1> SUFFICES ASSUME TypeOK, TypeOK', IInv, [Next]_vars PROVE IInv'
  OBVIOUS
<1>1. Freed'
  BY FreedStep DEF IInv
<1>2. ASSUME NEW t \in Threads, Enter(t) \/ Step(t)
      PROVE  (alive => ChainInv)' /\ (~alive => Deleted)'
  <2>1. alive /\ ChainInv
    <3>1. CASE Enter(t)
      BY <3>1 DEF Enter, GetCall, DropCall, DeferCall, TrimCall, Call, IInv
    <3>2. CASE Step(t)
      <4>1. pc[t] # "idle"
        BY <3>2 DEF Step, GetLoadSeq, GetCas, DropLoad, DropSub, DropNext, DropStore,
            DropFree, DropClear, NewLoadPtr, NewLoadSeq, NewTest, NewRead, NewCas,
            NewLoadNum, NewIncNum, NewCheckMax, NewAlloc, NewInit, QueueLoadPtr,
            QueueLoadSeq, QueueCas, QueueLink, TrimFree, TrimDec
      <4> QED
        BY <4>1 DEF IInv, Deleted
    <3> QED
      BY <1>2, <3>1, <3>2
  <2>2. alive' = alive
    BY <1>2 DEF Enter, GetCall, DropCall, DeferCall, TrimCall,
        Step, GetLoadSeq, GetCas, DropLoad, DropSub, DropNext, DropStore,
        DropFree, DropClear, NewLoadPtr, NewLoadSeq, NewTest, NewRead, NewCas,
        NewLoadNum, NewIncNum, NewCheckMax, NewAlloc, NewInit, QueueLoadPtr,
        QueueLoadSeq, QueueCas, QueueLink, TrimFree, TrimDec, heapVars
  <2>3. CASE Enter(t)
    BY <2>1, <2>2, <2>3, LocalActions, DropCallStep DEF Enter
  <2>4. CASE GetCas(t)
    BY <2>1, <2>2, <2>4, LocalActions, GetCasStep
  <2>5. CASE NewCas(t)
    BY <2>1, <2>2, <2>5, LocalActions, NewCasStep
  <2>6. CASE NewAlloc(t)
    BY <2>1, <2>2, <2>6, LocalActions, NewAllocStep
  <2>7. CASE QueueCas(t)
    BY <2>1, <2>2, <2>7, LocalActions, QueueCasStep
  <2>8. CASE \/ GetLoadSeq(t) \/ NewLoadPtr(t) \/ NewLoadSeq(t) \/ NewTest(t)
             \/ NewRead(t) \/ NewLoadNum(t) \/ NewIncNum(t) \/ NewCheckMax(t)
             \/ QueueLoadPtr(t) \/ QueueLoadSeq(t) \/ TrimDec(t)
    BY <2>1, <2>2, <2>8, LocalActions
  <2>9. CASE DropLoad(t) \/ DropSub(t) \/ DropNext(t) \/ DropStore(t)
             \/ DropFree(t) \/ DropClear(t)
    BY <2>1, <2>2, <2>9, DropLoadStep, DropSubStep, DropNextStep, DropStoreStep, PassingSteps
  <2>10. CASE NewInit(t) \/ QueueLink(t) \/ TrimFree(t)
    BY <2>1, <2>2, <2>10, NewInitStep, QueueLinkStep, TrimFreeStep
  <2> QED
    BY <1>2, <2>3, <2>4, <2>5, <2>6, <2>7, <2>8, <2>9, <2>10 DEF Step
<1>3. ASSUME UNCHANGED <<tail, freeHead, freeTail, nodeVars, heapVars, pc, clientVars,
                         localVars, historyVars>>
      PROVE  (alive => ChainInv)' /\ (~alive => Deleted)'
  <2> USE DEF nodeVars, heapVars, clientVars, localVars, historyVars
  <2>1. \A n : Refs(n)' = Refs(n) /\ Drops(n)' = Drops(n) /\ Users(n)' = Users(n)
    BY <1>3 DEF Refs, Drops, Users, LinkTo, Dropping, Passing
  <2>2. \A t, n : (Closes(t, n)' <=> Closes(t, n)) /\ Taken(t)' = Taken(t)
    BY <1>3 DEF Closes, Taken, Linking, Dropping
  <2>3. (Places /\ Links /\ Owners /\ Touched)' <=> (Places /\ Links /\ Owners /\ Touched)
    BY <1>3 DEF Places, Links, Owners, Touched, Owns, Linking, Dropping, Passing
  <2>4. (Counts /\ Reclaims)' <=> (Counts /\ Reclaims)
    BY <1>3, <2>1, <2>2 DEF Counts, Reclaims, Reclaiming
  <2>5. (Pops /\ Queued /\ Guards)' <=> (Pops /\ Queued /\ Guards)
    BY <1>3 DEF Pops, Queued, Guards, Unqueued, Logged
  <2> QED
    BY <1>3, <2>3, <2>4, <2>5 DEF IInv, ChainInv, Deleted
<1>4. ASSUME NEW m \in Limits, SetMaxNodes(m)
      PROVE  (alive => ChainInv)' /\ (~alive => Deleted)'
  BY <1>3, <1>4 DEF SetMaxNodes
<1>5. ASSUME DeleteProxy
      PROVE  (alive => ChainInv)' /\ (~alive => Deleted)'
  BY <1>5 DEF DeleteProxy, Deleted, clientVars
<1>6. ASSUME UNCHANGED vars
      PROVE  (alive => ChainInv)' /\ (~alive => Deleted)'
  BY <1>3, <1>6 DEF vars, proxyVars
<1> QED
  BY <1>1, <1>2, <1>4, <1>5, <1>6, NextCases DEF IInv

(* The invariant holds of every run. *)
THEOREM Invariance == Spec => []IInv
<1>1. Init => IInv
  BY InvInit
<1>2. TypeOK /\ TypeOK' /\ IInv /\ [Next]_vars => IInv'
  BY InvStep
<1> QED
  BY <1>1, <1>2, TypeCorrect, PTL DEF Spec

-------------------------------------------------------------------------------
(* What follows from the invariant *)

(* The safety properties are parts of the invariant or follow from it. *)
LEMMA InvImplies == TypeOK /\ IInv => SingleReclaimer /\ TouchedInUse /\ GuardedNotFreed
<1> SUFFICES ASSUME TypeOK, IInv PROVE SingleReclaimer /\ TouchedInUse /\ GuardedNotFreed
  OBVIOUS
<1>1. GuardedNotFreed
  BY DEF IInv, Freed
<1>2. CASE ~alive
  BY <1>1, <1>2 DEF IInv, Deleted, SingleReclaimer, TouchedInUse, Reclaiming
<1>3. CASE alive
  <2>1. ChainInv
    BY <1>3 DEF IInv
  <2>2. /\ freeTail \in Nodes /\ pos[freeTail] > 0 /\ pos[freeTail] \in Nat
        /\ \A n \in Nodes : pos[n] >= pos[freeTail] => InUse(n)
    BY <2>1 DEF ChainInv, Places, InUse
  <2>3. SingleReclaimer
    <3> SUFFICES ASSUME NEW t \in Threads, Reclaiming(t)
                 PROVE  /\ node[t] = freeTail /\ next[freeTail] # NULL
                        /\ \A u \in Threads : Reclaiming(u) => u = t
      BY DEF SingleReclaimer
    <3>1. /\ node[t] = freeTail /\ freeTail # tail.ptr
          /\ \A u \in Threads : ~Closes(u, freeTail) /\ (Reclaiming(u) => u = t)
      BY <2>1 DEF ChainInv, Reclaims
    <3>2. next[freeTail] \in Nodes
      BY <2>1, <2>2, <3>1 DEF ChainInv, Links, Closes
    <3> QED
      BY <3>1, <3>2, StpcAssumption
  <2>4. TouchedInUse
    <3> SUFFICES ASSUME NEW t \in Threads
                 PROVE  /\ ref[t] # NULL => InUse(ref[t])
                        /\ pc[t] \in {"d_load", "d_sub", "d_next", "d_store",
                                      "d_free", "d_clear"} => InUse(node[t])
                        /\ pc[t] = "q_link" => InUse(old[t].ptr)
      BY DEF TouchedInUse
    <3>1. ref[t] # NULL => InUse(ref[t])
      BY <2>1, <2>2 DEF ChainInv, Touched, TypeOK, ClientType, NodeOrNull
    <3>2. Dropping(t) => InUse(node[t])
      BY <2>1, <2>2 DEF ChainInv, Touched
    <3>3. Passing(t) \/ Reclaiming(t) => InUse(node[t])
      BY <2>1, <2>2 DEF ChainInv, Touched, Reclaims
    <3>4. Linking(t) => InUse(old[t].ptr)
      BY <2>1, <2>2 DEF ChainInv, Links
    <3> QED
      BY <3>1, <3>2, <3>3, <3>4 DEF Dropping, Passing, Reclaiming, Linking
  <2> QED
    BY <1>1, <2>3, <2>4
<1> QED
  BY <1>2, <1>3

(* Data is not freed while a reference from before it was queued is held,  *)
(* which is what stpcDeferredDelete is for.                                *)
THEOREM DeferredSafely == Spec => []GuardedNotFreed
BY InvImplies, Invariance, TypeCorrect, PTL

(* The update of freeTail in _dropProxyNodeReference needs no lock: one    *)
(* thread at a time makes it, when the next node has been linked.          *)
THEOREM ReclaimsAlone == Spec => []SingleReclaimer
BY InvImplies, Invariance, TypeCorrect, PTL

(* No thread counts down, reclaims or links from a node that another may   *)
(* pop or give back to the allocator.                                      *)
THEOREM TouchesNodesInUse == Spec => []TouchedInUse
BY InvImplies, Invariance, TypeCorrect, PTL

(* Only the compare-and-swap of _newNode moves the free head. *)
LEMMA PopStep ==
    TypeOK /\ IInv /\ [Next]_vars =>
        [freeHead' # freeHead =>
            /\ freeHead.ptr # freeTail
            /\ freeHead'.ptr = next[freeHead.ptr]]_vars
<1> SUFFICES ASSUME TypeOK, IInv, [Next]_vars, freeHead' # freeHead
             PROVE  freeHead.ptr # freeTail /\ freeHead'.ptr = next[freeHead.ptr]
  OBVIOUS
<1>1. PICK t \in Threads : NewCas(t)
  <2>1. PICK t \in Threads : Enter(t) \/ Step(t)
    BY NextCases DEF SetMaxNodes, DeleteProxy, vars, proxyVars
  <2>2. ~Enter(t)
    BY DEF Enter, GetCall, DropCall, DeferCall, TrimCall, proxyVars
  <2>3. ~(GetLoadSeq(t) \/ GetCas(t))
    BY DEF GetLoadSeq, GetCas, proxyVars
  <2>4. ~(DropLoad(t) \/ DropSub(t) \/ DropNext(t) \/ DropStore(t) \/ DropFree(t) \/ DropClear(t))
    BY DEF DropLoad, DropSub, DropNext, DropStore, DropFree, DropClear, proxyVars
  <2>5. ~(NewLoadPtr(t) \/ NewLoadSeq(t) \/ NewTest(t) \/ NewRead(t))
    BY DEF NewLoadPtr, NewLoadSeq, NewTest, NewRead, proxyVars
  <2>6. ~(NewLoadNum(t) \/ NewIncNum(t) \/ NewCheckMax(t) \/ NewAlloc(t) \/ NewInit(t))
    BY DEF NewLoadNum, NewIncNum, NewCheckMax, NewAlloc, NewInit, proxyVars
  <2>7. ~(QueueLoadPtr(t) \/ QueueLoadSeq(t) \/ QueueCas(t) \/ QueueLink(t))
    BY DEF QueueLoadPtr, QueueLoadSeq, QueueCas, QueueLink, proxyVars
  <2>8. ~(TrimFree(t) \/ TrimDec(t))
    BY DEF TrimFree, TrimDec, proxyVars
  <2> QED
    BY <2>1, <2>2, <2>3, <2>4, <2>5, <2>6, <2>7, <2>8 DEF Step
<1>2. pc[t] = "n_cas" /\ freeHead = old[t] /\ freeHead' = [ptr |-> nxt[t], seq |-> old[t].seq + 1]
  BY <1>1 DEF NewCas, FreeHeadMatches
<1>3. ChainInv
  BY <1>2 DEF IInv, Deleted
<1> QED
  BY <1>2, <1>3, PopFacts

(* A pop that succeeds installs the successor that the node has now,       *)
(* however stale the reads before it were: the sequence in freeHead rules  *)
(* out that the node was popped and came back.                             *)
THEOREM PopsAreFresh == Spec => PopInstallsNext
<1>1. TypeOK /\ IInv /\ [Next]_vars =>
        [freeHead' # freeHead =>
            /\ freeHead.ptr # freeTail
            /\ freeHead'.ptr = next[freeHead.ptr]]_vars
  BY PopStep
<1> QED
  BY <1>1, Invariance, TypeCorrect, PTL DEF Spec, PopInstallsNext

(* With nobody inside the library but at the start of _newNode and no      *)
(* reference held, only the tail is in use.                                *)
LEMMA WaitingReclaimed ==
    ASSUME TypeOK, ChainInv, Waiting
    PROVE  freeTail = tail.ptr
<1> SUFFICES ASSUME freeTail # tail.ptr PROVE FALSE
  OBVIOUS
<1>1. freeTail \in Nodes /\ pos[freeTail] \in Nat
  BY DEF ChainInv, Places
<1>2. \A t \in Threads : ~Held(t)
  BY DEF Waiting, Held, Dropping, Passing, Reclaiming, Linking
<1>3. count[freeTail] = 2 * Users(freeTail) /\ count[freeTail] > 0
  BY <1>1, <1>2 DEF ChainInv, Counts, Closes, Held
<1>4. Refs(freeTail) = {} /\ Drops(freeTail) = {}
  BY <1>1, <1>2, StpcAssumption DEF Waiting, Refs, Drops, Held
<1>5. LinkTo(freeTail) = 0
  BY <1>1 DEF LinkTo
<1> QED
  BY <1>3, <1>4, <1>5, FS_EmptySet DEF Users

(* With nobody inside the library and no reference held, only the tail is  *)
(* in use: no node is kept by a count that was left behind.                *)
Released == alive /\ Quiescent => freeTail = tail.ptr

(* As soon as nobody is inside and no reference is held, the reclamation   *)
(* has reached the tail.                                                   *)
THEOREM NothingLeftBehind == Spec => []Released
<1>1. TypeOK /\ IInv => Released
  <2> SUFFICES ASSUME TypeOK, IInv, alive, Quiescent PROVE freeTail = tail.ptr
    BY DEF Released
  <2>1. ChainInv /\ Waiting
    BY DEF IInv, Quiescent, Waiting
  <2> QED
    BY <2>1, WaitingReclaimed
<1> QED
  BY <1>1, Invariance, TypeCorrect, PTL

===============================================================================
