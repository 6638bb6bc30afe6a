----------------------------- MODULE StpcOrderProofs -----------------------------
(***************************************************************************)
(* Data is freed in the order of queueing and nothing is forgotten; Stpc   *)
(* implements ProxyCollector.  No node of the pool is lost: each is on the *)
(* chain or in the hands of a thread, numNodes counts them, and so a pool  *)
(* that is exhausted is kept by references.                                *)
(***************************************************************************)
EXTENDS StpcInvProofs, SequenceTheorems

-------------------------------------------------------------------------------
(* The order invariant, action by action *)

(* Most steps leave alone what the order of freeing depends on. *)
OrderSame ==
    /\ tail'.ptr = tail.ptr /\ UNCHANGED <<freeTail, log, done>>
    /\ \A n \in Nodes :
          \/ /\ pos[n] >= pos[freeTail] /\ pos'[n] = pos[n]
             /\ mark'[n] = mark[n] /\ data'[n] = data[n]
          \/ pos[n] < pos[freeTail] /\ pos'[n] < pos[freeTail]
    /\ \A u \in Threads : /\ Passing(u)' <=> Passing(u)
                          /\ (pc'[u] = "d_free") <=> (pc[u] = "d_free")

(* Such a step keeps the order. *)
LEMMA OrderSameStep ==
    ASSUME TypeOK, TypeOK', ChainInv, Marks, Passes, OrderSame
    PROVE  Marks' /\ Passes'
<1> USE DEF OrderSame
<1>1. /\ tail.ptr \in Nodes /\ freeTail \in Nodes /\ pos[tail.ptr] >= pos[freeTail]
      /\ \A n \in Nodes : pos[n] \in Int /\ pos'[n] \in Int
      /\ pos'[freeTail] = pos[freeTail]
  BY DEF ChainInv, Places, TypeOK, HistoryType
<1>2. \A n \in Nodes : pos'[n] >= pos[freeTail] =>
          /\ pos'[n] = pos[n] /\ mark'[n] = mark[n] /\ data'[n] = data[n]
  BY <1>1
<1>3. Marks'
  <2>1. mark'[tail.ptr] = mark[tail.ptr]
    BY <1>1
  <2> QED
    BY <1>1, <1>2, <2>1 DEF Marks, Carries
<1>4. Passes'
  <2>1. mark'[freeTail] = mark[freeTail] /\ data'[freeTail] = data[freeTail]
    BY <1>1
  <2>2. \A u \in Threads : Due(u)' <=> Due(u)
    BY <2>1 DEF Due
  <2> QED
    BY <2>1, <2>2 DEF Passes
<1> QED
  BY <1>3, <1>4

(* The steps that are of this kind. *)
LEMMA OrderSameActions ==
    ASSUME TypeOK, TypeOK', ChainInv, Marks, Passes, NEW t \in Threads,
           Enter(t) \/ Step(t),
           ~(QueueCas(t) /\ tail = old[t]),
           ~DropStore(t), ~DropFree(t), ~DropClear(t)
    PROVE  Marks' /\ Passes' /\ log' = log /\ done' = done
<1>1. \A n \in Nodes : pos[n] \in Int /\ pos'[n] \in Int
  BY DEF TypeOK, HistoryType
<1>2. \A u \in Threads : /\ Passing(u)' <=> Passing(u)
                         /\ (pc'[u] = "d_free") <=> (pc[u] = "d_free")
  <2>1. /\ pc[t] \notin {"d_free", "d_clear"} /\ pc'[t] \notin {"d_free", "d_clear"}
        /\ \A u \in Threads \ {t} : pc'[u] = pc[u]
    <3>1. CASE Enter(t)
      <4>1. CASE TrimCall(t)
        <5>1. PICK k \in 1..MaxTrim : TrimLoop(t, k, numNodes)
          BY <4>1 DEF TrimCall
        <5>2. k \in Int /\ numNodes \in Int
          BY StpcAssumption DEF TypeOK, ProxyType
        <5> QED
          BY <4>1, <5>1, <5>2, AfterTrimLoop DEF TrimCall, Call, OthersSame
      <4>2. CASE GetCall(t) \/ DropCall(t) \/ DeferCall(t)
        BY <4>2 DEF GetCall, DropCall, DeferCall, Call, Goto, TypeOK, ClientType
      <4> QED
        BY <3>1, <4>1, <4>2 DEF Enter
    <3>2. CASE GetCas(t) \/ DropSub(t) \/ NewCheckMax(t) \/ NewAlloc(t) \/ TrimDec(t)
      <4>1. CASE TrimDec(t)
        <5>1. left[t] - 1 \in Int /\ Decremented(t) \in Int
          BY DEF TypeOK, LocalType, ProxyType, Decremented
        <5> QED
          BY <4>1, <5>1, AfterTrimLoop DEF TrimDec, OthersSame
      <4>2. CASE GetCas(t)
        BY <4>2, AfterReturn DEF GetCas, OthersSame
      <4>3. CASE DropSub(t)
        <5>1. CASE Goto(t, "d_next")
          BY <4>3, <5>1 DEF DropSub, Goto, TypeOK, ClientType
        <5>2. CASE Return(t)
          BY <4>3, <5>2, AfterReturn DEF DropSub, OthersSame
        <5> QED
          BY <4>3, <5>1, <5>2 DEF DropSub
      <4>4. CASE NewCheckMax(t)
        <5>1. CASE Goto(t, "n_alloc")
          BY <4>4, <5>1 DEF NewCheckMax, Goto, TypeOK, ClientType
        <5>2. CASE Retry(t)
          BY <4>4, <5>2, AfterRetry DEF NewCheckMax, OthersSame
        <5> QED
          BY <4>4, <5>1, <5>2 DEF NewCheckMax
      <4>5. CASE NewAlloc(t)
        <5>1. CASE Goto(t, "n_init")
          BY <4>5, <5>1 DEF NewAlloc, Goto, TypeOK, ClientType
        <5>2. CASE Retry(t)
          BY <4>5, <5>2, AfterRetry DEF NewAlloc, OthersSame
        <5> QED
          BY <4>5, <5>1, <5>2 DEF NewAlloc
      <4> QED
        BY <3>2, <4>1, <4>2, <4>3, <4>4, <4>5
    <3>3. CASE \/ GetLoadSeq(t) \/ DropLoad(t) \/ DropNext(t) \/ NewLoadPtr(t)
               \/ NewLoadSeq(t) \/ NewTest(t) \/ NewRead(t) \/ NewCas(t)
               \/ NewLoadNum(t) \/ NewIncNum(t) \/ NewInit(t) \/ QueueLoadPtr(t)
               \/ QueueLoadSeq(t) \/ QueueCas(t) \/ QueueLink(t) \/ TrimFree(t)
      BY <3>3 DEF GetLoadSeq, DropLoad, DropNext, NewLoadPtr, NewLoadSeq, NewTest, NewRead,
          NewCas, NewLoadNum, NewIncNum, NewInit, QueueLoadPtr, QueueLoadSeq, QueueCas,
          QueueLink, TrimFree, Goto, TypeOK, ClientType
    <3> QED
      BY <3>1, <3>2, <3>3 DEF Step
  <2> QED
    BY <2>1 DEF Passing
<1>3. /\ tail'.ptr = tail.ptr /\ UNCHANGED <<freeTail, log, done>>
  <2>1. CASE GetCas(t)
    BY <2>1 DEF GetCas, historyVars, TypeOK, ProxyType, Sequenced
  <2>2. CASE ~GetCas(t)
    BY <2>2 DEF Enter, GetCall, DropCall, DeferCall, TrimCall, Step,
        GetLoadSeq, DropLoad, DropSub, DropNext,
        NewLoadPtr, NewLoadSeq, NewTest, NewRead, NewCas, NewLoadNum, NewIncNum,
        NewCheckMax, NewAlloc, NewInit, QueueLoadPtr, QueueLoadSeq, QueueCas, QueueLink,
        TrimFree, TrimDec, proxyVars, historyVars
  <2> QED
    BY <2>1, <2>2
<1>4. \A n \in Nodes :
          \/ /\ pos[n] >= pos[freeTail] /\ pos'[n] = pos[n]
             /\ mark'[n] = mark[n] /\ data'[n] = data[n]
          \/ pos[n] < pos[freeTail] /\ pos'[n] < pos[freeTail]
  <2>1. CASE UNCHANGED <<pos, mark, data>>
    BY <1>1, <2>1 DEF ChainInv, Places
  <2>2. CASE NewCas(t) /\ freeHead = old[t]
    <3>1. LET h == freeHead.ptr
          IN  h \in Nodes /\ pos[h] > 0 /\ pos[h] < pos[freeTail]
      BY <2>2, PopFacts DEF NewCas
    <3>2. /\ pos' = [pos EXCEPT ![freeHead.ptr] = 0]
          /\ mark' = [mark EXCEPT ![freeHead.ptr] = 0] /\ data' = data
      BY <2>2 DEF NewCas, FreeHeadMatches, nodeVars
    <3> QED
      BY <1>1, <3>1, <3>2 DEF TypeOK, HistoryType, ChainInv, Places
  <2>3. CASE NewInit(t)
    <3>1. node[t] \in Nodes /\ pos[node[t]] = 0 /\ pos[freeTail] > 0
      BY <2>3 DEF NewInit, ChainInv, Places, Owners, Owns
    <3>2. UNCHANGED <<pos, mark>> /\ \A n \in Nodes : n # node[t] => data'[n] = data[n]
      BY <2>3 DEF NewInit, historyVars, TypeOK, NodeType
    <3> QED
      BY <1>1, <3>1, <3>2 DEF ChainInv, Places
  <2>4. CASE ~NewInit(t) /\ ~(NewCas(t) /\ freeHead = old[t])
    <3>1. UNCHANGED <<pos, mark, data>>
      BY <2>4 DEF Enter, GetCall, DropCall, DeferCall, TrimCall, Step,
          GetLoadSeq, GetCas, DropLoad, DropSub, DropNext,
          NewLoadPtr, NewLoadSeq, NewTest, NewRead, NewCas, FreeHeadMatches, NewLoadNum,
          NewIncNum, NewCheckMax, NewAlloc, QueueLoadPtr, QueueLoadSeq, QueueCas,
          QueueLink, TrimFree, TrimDec, nodeVars, historyVars
    <3> QED
      BY <2>1, <3>1
  <2> QED
    BY <2>2, <2>3, <2>4
<1> QED
  BY <1>2, <1>3, <1>4, OrderSameStep DEF OrderSame

(* The next node's data is due when freeTail moves to it. *)
LEMMA OrderStoreStep ==
    ASSUME TypeOK, TypeOK', ChainInv, ChainInv', Marks, Passes,
           NEW t \in Threads, DropStore(t)
    PROVE  Marks' /\ Passes' /\ log' = log /\ done' = done
<1>0. PICK f \in Nodes : f = freeTail
  BY DEF ChainInv, Places
<1>1. /\ Reclaiming(t) /\ adv[t] = next[f]
      /\ f # tail.ptr /\ Drops(f) = {} /\ \A u \in Threads : ~Closes(u, f)
  BY <1>0 DEF DropStore, Reclaiming, ChainInv, Reclaims
<1>2. PICK m \in Nodes : m = next[f] /\ pos[m] = pos[f] + 1
  <2>1. pos[f] > 0
    BY <1>0 DEF ChainInv, Places
  <2>2. ~\E u \in Threads : Linking(u) /\ old[u].ptr = f
    BY <1>1 DEF Closes
  <2> QED
    BY <1>0, <1>1, <2>1, <2>2 DEF ChainInv, Links
<1>3. /\ freeTail' = m /\ pc'[t] = "d_free" /\ \A u \in Threads \ {t} : pc'[u] = pc[u]
      /\ UNCHANGED <<tail, data, pos, mark, log, done>>
  BY <1>1, <1>2 DEF DropStore, Goto, nodeVars, historyVars, TypeOK, ClientType
<1>4. \A u \in Threads : ~Passing(u)
  BY <1>0, <1>1 DEF ChainInv, Touched, Drops
<1>5. /\ Len(done) = mark[f]
      /\ mark[m] = mark[f] + Carries(m)
      /\ data[m] # NULL => log[mark[m]] = data[m]
      /\ \A n \in Nodes : pos[n] \in Int /\ mark[n] \in Nat
  <2>1. \A u \in Threads : ~Due(u)
    BY <1>4 DEF Due, Passing
  <2>2. \A n \in Nodes : pos[n] \in Int /\ mark[n] \in Nat
    BY DEF TypeOK, HistoryType
  <2> QED
    BY <1>0, <1>2, <2>1, <2>2 DEF Marks, Passes
<1>6. Marks'
  <2>1. \A n \in Nodes : /\ pos[n] >= pos[m] => pos[n] >= pos[f]
                         /\ pos[n] > pos[m] => pos[n] > pos[f]
    BY <1>2, <1>5
  <2> QED
    BY <1>0, <1>3, <2>1 DEF Marks, Carries
<1>7. Passes'
  <2>1. \A u \in Threads : Passing(u)' => u = t
    BY <1>3, <1>4 DEF Passing
  <2>2. \A u \in Threads : Due(u)' <=> u = t /\ data[m] # NULL
    BY <1>3, <1>4 DEF Due, Passing
  <2>3. Carries(m) = IF data[m] = NULL THEN 0 ELSE 1
    BY DEF Carries
  <2> QED
    BY <1>3, <1>5, <2>1, <2>2, <2>3 DEF Passes
<1> QED
  BY <1>3, <1>6, <1>7

(* A queued node's mark is the length of the log, its data the last entry. *)
LEMMA OrderQueueStep ==
    ASSUME TypeOK, TypeOK', ChainInv, Marks, Passes, Prefix,
           NEW t \in Threads, QueueCas(t), tail = old[t]
    PROVE  Marks' /\ Passes' /\ Prefix'
<1>0. PICK m \in Nodes, n \in Nodes : m = tail.ptr /\ n = node[t]
  BY DEF QueueCas, ChainInv, Places, Owners, Owns
<1>1. /\ pos[n] = 0 /\ data[n] = arg[t] /\ freeTail \in Nodes
      /\ pos[freeTail] > 0 /\ pos[m] >= pos[freeTail]
      /\ \A k \in Nodes : pos[k] \in Nat /\ pos[k] <= pos[m] /\ (pos[k] = pos[m] => k = m)
  <2>1. pos[n] = 0 /\ data[n] = arg[t]
    BY <1>0 DEF QueueCas, ChainInv, Owners, Owns
  <2>2. /\ freeTail \in Nodes /\ pos[freeTail] > 0 /\ pos[m] >= pos[freeTail] /\ pos[m] > 0
        /\ \A k \in Nodes : pos[k] \in Nat /\ pos[k] <= pos[m]
    BY <1>0 DEF ChainInv, Places
  <2> QED
    BY <2>1, <2>2 DEF ChainInv, Places
<1>2. /\ tail'.ptr = n /\ pos'[n] = pos[m] + 1 /\ mark'[n] = Len(log')
      /\ \A k \in Nodes : k # n => pos'[k] = pos[k] /\ mark'[k] = mark[k]
      /\ pc[t] = "q_cas" /\ pc'[t] = "q_link" /\ \A u \in Threads \ {t} : pc'[u] = pc[u]
      /\ UNCHANGED <<freeTail, data, done>>
  BY <1>0 DEF QueueCas, Place, Goto, nodeVars, TypeOK, HistoryType, ClientType
<1>3. /\ Len(log) \in Nat /\ Len(log') = Len(log) + Carries(n)
      /\ data[n] # NULL => log'[Len(log) + 1] = data[n]
      /\ \A i \in 1..Len(log) : log'[i] = log[i]
  <2>1. CASE arg[t] = NULL
    <3>1. log' = log
      BY <2>1 DEF QueueCas
    <3> QED
      BY <1>1, <2>1, <3>1 DEF Carries, TypeOK, HistoryType
  <2>2. CASE arg[t] # NULL
    <3>1. log' = Append(log, arg[t]) /\ log \in Seq(Data) /\ arg[t] \in Data
      BY <2>2 DEF QueueCas, TypeOK, HistoryType, LocalType, DataOrNull
    <3>2. /\ Len(log) \in Nat /\ Len(log') = Len(log) + 1 /\ log'[Len(log) + 1] = arg[t]
          /\ \A i \in 1..Len(log) : log'[i] = log[i]
      BY <3>1
    <3> QED
      BY <1>1, <2>2, <3>2 DEF Carries
  <2> QED
    BY <2>1, <2>2
<1>4. /\ \A k \in Nodes : mark[k] \in Nat
      /\ \A k \in Nodes : pos[k] >= pos[freeTail] => k # n /\ mark[k] <= Len(log)
      /\ mark[m] = Len(log) /\ Carries(n) \in {0, 1}
  <2>1. \A k \in Nodes : mark[k] \in Nat
    BY DEF TypeOK, HistoryType
  <2>2. \A k \in Nodes : pos[k] >= pos[freeTail] => k # n /\ mark[k] <= Len(log)
    BY <1>1 DEF Marks
  <2>3. mark[m] = Len(log) /\ Carries(n) \in {0, 1}
    BY <1>0 DEF Marks, Carries
  <2> QED
    BY <2>1, <2>2, <2>3
<1>5. Marks'
  <2>1. \A k \in Nodes : k # n /\ pos'[k] >= pos'[freeTail] =>
            pos[k] >= pos[freeTail] /\ mark[k] <= Len(log)
    BY <1>1, <1>2, <1>4
  <2>2. mark'[n] <= Len(log') /\ \A k \in Nodes : pos'[k] >= pos'[freeTail] => mark'[k] <= Len(log')
    BY <1>2, <1>3, <1>4, <2>1
  <2>3. \A j, k \in Nodes : pos'[j] >= pos'[freeTail] /\ pos'[k] = pos'[j] + 1 =>
            mark'[k] = mark'[j] + Carries(k)
    <3> SUFFICES ASSUME NEW j \in Nodes, NEW k \in Nodes,
                        pos'[j] >= pos'[freeTail], pos'[k] = pos'[j] + 1
                 PROVE  mark'[k] = mark'[j] + Carries(k)
      OBVIOUS
    <3>1. j # n
      BY <1>1, <1>2
    <3>2. CASE k = n
      <4>1. j = m
        BY <1>1, <1>2, <3>1, <3>2
      <4> QED
        BY <1>2, <1>3, <1>4, <3>1, <3>2, <4>1
    <3>3. CASE k # n
      BY <1>1, <1>2, <1>4, <2>1, <3>1, <3>3 DEF Marks
    <3> QED
      BY <3>2, <3>3
  <2>4. \A k \in Nodes : pos'[k] > pos'[freeTail] /\ data[k] # NULL =>
            mark'[k] > 0 /\ log'[mark'[k]] = data[k]
    <3> SUFFICES ASSUME NEW k \in Nodes, pos'[k] > pos'[freeTail], data[k] # NULL
                 PROVE  mark'[k] > 0 /\ log'[mark'[k]] = data[k]
      OBVIOUS
    <3>1. CASE k = n
      BY <1>2, <1>3, <3>1 DEF Carries
    <3>2. CASE k # n
      <4>1. pos[k] > pos[freeTail] /\ mark'[k] = mark[k] /\ mark[k] <= Len(log)
        BY <1>1, <1>2, <1>4, <3>2
      <4>2. mark[k] > 0 /\ log[mark[k]] = data[k]
        BY <4>1 DEF Marks
      <4> QED
        BY <1>3, <1>4, <4>1, <4>2
    <3> QED
      BY <3>1, <3>2
  <2> QED
    BY <1>2, <2>2, <2>3, <2>4 DEF Marks, Carries
<1>6. Passes'
  <2>1. mark'[freeTail] = mark[freeTail] /\ mark[freeTail] <= Len(log) /\ Len(done) \in Nat
    BY <1>1, <1>2, <1>4 DEF TypeOK, HistoryType
  <2>2. \A u \in Threads : /\ Passing(u)' <=> Passing(u)
                           /\ Due(u)' <=> Due(u)
    BY <1>2 DEF Passing, Due
  <2>3. \A u \in Threads : Due(u) => log'[mark[freeTail]] = data[freeTail]
    BY <1>1, <1>3, <1>4, <2>1 DEF Passes
  <2> QED
    BY <1>2, <2>1, <2>2, <2>3 DEF Passes
<1>7. Prefix'
  BY <1>2, <1>3, <1>4 DEF Prefix, TypeOK, HistoryType
<1> QED
  BY <1>5, <1>6, <1>7

(* Freeing the data of freeTail's node appends the next of the log to      *)
(* done.                                                                   *)
LEMMA OrderFreeStep ==
    ASSUME TypeOK, TypeOK', ChainInv, Marks, Passes, Prefix,
           NEW t \in Threads, DropFree(t)
    PROVE  Marks' /\ Passes' /\ Prefix'
<1>1. /\ pc[t] = "d_free" /\ Passing(t) /\ node[t] = freeTail /\ freeTail \in Nodes
      /\ pos[freeTail] \in Int /\ freeTail \in heap
  BY DEF DropFree, Passing, ChainInv, Touched, Places
<1>2. /\ UNCHANGED <<tail, freeTail, data, pos, mark, log>>
      /\ pc'[t] \in {"d_clear", "d_load"} /\ \A u \in Threads \ {t} : pc'[u] = pc[u]
      /\ \/ data[freeTail] # NULL /\ done' = Append(done, data[freeTail])
         \/ data[freeTail] = NULL /\ done' = done
  BY <1>1 DEF DropFree, DataOf, HasData, Goto, proxyVars, nodeVars, TypeOK, ClientType
<1>3. \A u \in Threads \ {t} : ~Passing(u)
  BY <1>1 DEF Passes
<1>4. Marks'
  BY <1>2 DEF Marks, Carries
<1>5. \A u \in Threads : ~Due(u)'
  BY <1>2, <1>3 DEF Due, Passing
<1>6. \A u, v \in Threads : Passing(u)' /\ Passing(v)' => u = v
  BY <1>2, <1>3 DEF Passing
<1>7. CASE data[freeTail] = NULL
  <2>1. Len(done) = mark[freeTail]
    BY <1>7 DEF Passes, Due
  <2> QED
    BY <1>2, <1>4, <1>5, <1>6, <1>7, <2>1 DEF Passes, Prefix
<1>8. CASE data[freeTail] # NULL
  <2>1. Len(done) + 1 = mark[freeTail] /\ log[mark[freeTail]] = data[freeTail]
    BY <1>1, <1>8 DEF Passes, Due
  <2>2. data[freeTail] \in Data /\ done \in Seq(Data) /\ done' = Append(done, data[freeTail])
    BY <1>1, <1>2, <1>8 DEF TypeOK, NodeType, HistoryType, DataOrNull
  <2>3. /\ Len(done) \in Nat /\ Len(done') = Len(done) + 1
        /\ done'[Len(done) + 1] = data[freeTail]
        /\ \A i \in 1..Len(done) : done'[i] = done[i]
    BY <2>2
  <2>4. mark[freeTail] <= Len(log)
    BY <1>1 DEF Marks
  <2>5. Passes'
    BY <1>2, <1>5, <1>6, <2>1, <2>3 DEF Passes
  <2>6. Prefix'
    BY <1>2, <2>1, <2>3, <2>4 DEF Prefix
  <2> QED
    BY <1>4, <2>5, <2>6
<1> QED
  BY <1>7, <1>8

(* Clearing the data of freeTail's node makes no more data due, for it was *)
(* freed before.                                                           *)
LEMMA OrderClearStep ==
    ASSUME TypeOK, TypeOK', ChainInv, Marks, Passes,
           NEW t \in Threads, DropClear(t)
    PROVE  Marks' /\ Passes' /\ log' = log /\ done' = done
<1>1. /\ pc[t] = "d_clear" /\ Passing(t) /\ node[t] = freeTail /\ freeTail \in Nodes
      /\ \A n \in Nodes : pos[n] \in Nat
  BY DEF DropClear, Passing, ChainInv, Touched, Places
<1>2. /\ UNCHANGED <<tail, freeTail, pos, mark, log, done>>
      /\ pc'[t] = "d_load" /\ \A u \in Threads \ {t} : pc'[u] = pc[u]
      /\ \A n \in Nodes : n # freeTail => data'[n] = data[n]
  BY <1>1 DEF DropClear, Goto, proxyVars, historyVars, TypeOK, ClientType, NodeType
<1>3. \A u \in Threads \ {t} : ~Passing(u)
  BY <1>1 DEF Passes
<1>4. \A u \in Threads : ~Due(u) /\ ~Due(u)'
  BY <1>1, <1>2, <1>3 DEF Due, Passing
<1>5. \A u, v \in Threads : Passing(u)' /\ Passing(v)' => u = v
  BY <1>2, <1>3 DEF Passing
<1>6. Passes'
  BY <1>2, <1>4, <1>5 DEF Passes
<1>7. Marks'
  <2>1. \A n \in Nodes : pos[n] > pos[freeTail] => n # freeTail
    BY <1>1
  <2>2. \A m, n \in Nodes : pos[m] >= pos[freeTail] /\ pos[n] = pos[m] + 1 => n # freeTail
    BY <1>1
  <2> QED
    BY <1>2, <2>1, <2>2 DEF Marks, Carries
<1> QED
  BY <1>2, <1>6, <1>7

-------------------------------------------------------------------------------
(* The order invariant *)

(* Nothing is deferred and nothing freed to begin with. *)
LEMMA OrderInit == Init => OrderInv
<1> SUFFICES ASSUME Init PROVE OrderInv
  OBVIOUS
<1>1. Len(log) = 0 /\ Len(done) = 0
  BY DEF Init
<1>2. \A t \in Threads : ~Passing(t) /\ ~Due(t)
  BY DEF Init, Passing, Due
<1>3. Marks
  BY <1>1, StpcAssumption DEF Init, Marks, Carries
<1>4. Passes
  BY <1>1, <1>2, StpcAssumption DEF Init, Passes
<1>5. Prefix
  BY <1>1 DEF Prefix
<1> QED
  BY <1>3, <1>4, <1>5 DEF OrderInv, Init

(* The order is kept by every step, given the inductive invariant. *)
LEMMA OrderStep ==
    ASSUME TypeOK, TypeOK', IInv, IInv', Released, OrderInv, [Next]_vars
    PROVE  OrderInv'
<1>1. ASSUME NEW t \in Threads, Enter(t) \/ Step(t) PROVE OrderInv'
  <2>1. alive /\ ChainInv /\ alive' = alive
    <3>1. CASE Enter(t)
      BY <3>1 DEF Enter, GetCall, DropCall, DeferCall, TrimCall, Call, IInv, heapVars
    <3>2. CASE Step(t)
      <4>1. pc[t] # "idle" /\ alive' = alive
        BY <3>2 DEF Step, GetLoadSeq, GetCas, DropLoad, DropSub, DropNext, DropStore,
            DropFree, DropClear, NewLoadPtr, NewLoadSeq, NewTest, NewRead, NewCas,
            NewLoadNum, NewIncNum, NewCheckMax, NewAlloc, NewInit, QueueLoadPtr,
            QueueLoadSeq, QueueCas, QueueLink, TrimFree, TrimDec, heapVars
      <4> QED
        BY <4>1 DEF IInv, Deleted
    <3> QED
      BY <1>1, <3>1, <3>2
  <2>2. Marks /\ Passes /\ Prefix /\ ChainInv'
    BY <2>1 DEF OrderInv, IInv
  <2>3. ASSUME Marks' /\ Passes' /\ log' = log /\ done' = done PROVE OrderInv'
    BY <2>1, <2>2, <2>3 DEF OrderInv, Prefix
  <2>4. CASE QueueCas(t) /\ tail = old[t]
    BY <2>1, <2>2, <2>4, OrderQueueStep DEF OrderInv
  <2>5. CASE DropStore(t)
    BY <2>1, <2>2, <2>3, <2>5, OrderStoreStep
  <2>6. CASE DropFree(t)
    BY <2>1, <2>2, <2>6, OrderFreeStep DEF OrderInv
  <2>7. CASE DropClear(t)
    BY <2>1, <2>2, <2>3, <2>7, OrderClearStep
  <2> QED
    BY <1>1, <2>1, <2>2, <2>3, <2>4, <2>5, <2>6, <2>7, OrderSameActions
<1>2. ASSUME NEW m \in Limits, SetMaxNodes(m) PROVE OrderInv'
  BY <1>2 DEF SetMaxNodes, OrderInv, Marks, Passes, Prefix, Carries, Due, Passing,
              nodeVars, heapVars, historyVars
<1>3. ASSUME DeleteProxy PROVE OrderInv'
  <2>1. /\ alive /\ ~alive' /\ UNCHANGED <<freeTail, tail, log, done>>
        /\ Quiescent
    BY <1>3 DEF DeleteProxy, Quiescent, proxyVars, historyVars
  <2>2. freeTail = tail.ptr /\ Marks /\ Passes /\ Prefix
    BY <2>1 DEF Released, OrderInv
  <2>3. Len(done) = Len(log)
    BY <2>1, <2>2 DEF Quiescent, Marks, Passes, Due
  <2> QED
    BY <2>1, <2>2, <2>3 DEF OrderInv, Prefix
<1>4. CASE UNCHANGED vars
  BY <1>4 DEF vars, proxyVars, OrderInv, Marks, Passes, Prefix, Carries, Due, Passing,
              nodeVars, heapVars, historyVars
<1> QED
  BY <1>1, <1>2, <1>3, <1>4, NextCases

(* What has been freed is the part of the log up to the first node in use. *)
THEOREM OrderInvariance == Spec => []OrderInv
<1>1. Init => OrderInv
  BY OrderInit
<1>2. TypeOK /\ TypeOK' /\ IInv /\ IInv' /\ Released /\ OrderInv /\ [Next]_vars => OrderInv'
  BY OrderStep
<1> QED
  BY <1>1, <1>2, TypeCorrect, Invariance, NothingLeftBehind, PTL DEF Spec

(* Prefix, stated with an index, is FreedInOrder, stated with SubSeq. *)
LEMMA PrefixIsSubSeq ==
    ASSUME TypeOK, Prefix
    PROVE  done = SubSeq(log, 1, Len(done))
<1>1. log \in Seq(Data) /\ done \in Seq(Data) /\ Len(done) \in Nat /\ Len(log) \in Nat
  BY DEF TypeOK, HistoryType
<1>2. \A i \in 1..Len(done) : log[i] \in Data
  BY <1>1, ElementOfSeq DEF Prefix
<1>3. /\ SubSeq(log, 1, Len(done)) \in Seq(Data)
      /\ Len(SubSeq(log, 1, Len(done))) = Len(done)
      /\ \A i \in 1..Len(done) : SubSeq(log, 1, Len(done))[i] = log[i]
  BY <1>1, <1>2, SubSeqProperties
<1> QED
  BY <1>1, <1>3, SeqEqual DEF Prefix

(* Data is freed at most once and in the order of queueing. *)
THEOREM FreesInOrder == Spec => []FreedInOrder
<1>1. TypeOK /\ OrderInv => FreedInOrder
  BY PrefixIsSubSeq DEF OrderInv, Prefix, FreedInOrder
<1> QED
  BY <1>1, TypeCorrect, OrderInvariance, PTL

(* When nobody is inside the library and nobody holds a reference, all     *)
(* that was queued has been freed and only the tail is in use.             *)
THEOREM QuiescentIsClean == Spec => []QuiescentReclaimed
<1>1. TypeOK /\ Released /\ OrderInv => QuiescentReclaimed
  <2> SUFFICES ASSUME TypeOK, Released, OrderInv, Quiescent
               PROVE  freeTail = tail.ptr /\ done = log
    BY DEF QuiescentReclaimed
  <2>1. freeTail = tail.ptr /\ Len(done) = Len(log)
    BY DEF Released, OrderInv, Quiescent, Marks, Passes, Due
  <2>2. done \in Seq(Data) /\ log \in Seq(Data)
    BY DEF TypeOK, HistoryType
  <2> QED
    BY <2>1, <2>2, SeqEqual DEF OrderInv, Prefix
<1> QED
  BY <1>1, TypeCorrect, OrderInvariance, NothingLeftBehind, PTL

-------------------------------------------------------------------------------
(* Stpc implements ProxyCollector *)

Pending == SubSeq(log, Len(done) + 1, Len(log))

(* What the abstract collector has pending is the rest of the log. *)
LEMMA PendingProperties ==
    ASSUME TypeOK, Prefix
    PROVE  /\ Pending \in Seq(Data) /\ Len(Pending) = Len(log) - Len(done)
           /\ \A i \in 1..Len(Pending) : Pending[i] = log[Len(done) + i]
           /\ Len(log) \in Nat /\ Len(done) \in Nat /\ Len(done) <= Len(log)
           /\ log \in Seq(Data)
<1>1. /\ log \in Seq(Data) /\ Len(done) \in Nat /\ Len(log) \in Nat /\ Len(done) <= Len(log)
  BY DEF TypeOK, HistoryType, Prefix
<1>2. \A i \in (Len(done) + 1)..Len(log) : log[i] \in Data
  BY <1>1, ElementOfSeq
<1>3. /\ Pending \in Seq(Data)
      /\ Len(Pending) = IF Len(done) + 1 <= Len(log)
                        THEN Len(log) - (Len(done) + 1) + 1 ELSE 0
      /\ \A i \in 1..(Len(log) - (Len(done) + 1) + 1) :
             Pending[i] = log[(Len(done) + 1) + i - 1]
  BY <1>1, <1>2, SubSeqProperties DEF Pending
<1> QED
  BY <1>1, <1>3

(* Queueing adds at the end of what is pending. *)
LEMMA PendingAppend ==
    ASSUME TypeOK, TypeOK', Prefix, Prefix', NEW d \in Data,
           log' = Append(log, d), done' = done
    PROVE  Pending' = Append(Pending, d)
<1>1. /\ Pending \in Seq(Data) /\ Len(Pending) = Len(log) - Len(done)
      /\ \A i \in 1..Len(Pending) : Pending[i] = log[Len(done) + i]
      /\ Len(log) \in Nat /\ Len(done) \in Nat /\ Len(done) <= Len(log)
      /\ log \in Seq(Data)
  BY PendingProperties
<1>2. /\ log' \in Seq(Data) /\ Len(log') = Len(log) + 1
      /\ log'[Len(log) + 1] = d /\ \A i \in 1..Len(log) : log'[i] = log[i]
  BY <1>1, AppendProperties
<1>3. \A i \in (Len(done) + 1)..Len(log') : log'[i] \in Data
  BY <1>1, <1>2, ElementOfSeq
<1>4. /\ Pending' \in Seq(Data) /\ Len(Pending') = Len(log') - Len(done)
      /\ \A i \in 1..(Len(log') - Len(done)) : Pending'[i] = log'[Len(done) + i]
  <2>1. /\ SubSeq(log', Len(done) + 1, Len(log')) \in Seq(Data)
        /\ Len(SubSeq(log', Len(done) + 1, Len(log'))) = Len(log') - Len(done)
        /\ \A i \in 1..(Len(log') - Len(done)) :
               SubSeq(log', Len(done) + 1, Len(log'))[i] = log'[Len(done) + i]
    <3>1. Len(log') \in Int /\ Len(done) + 1 \in Int /\ Len(done) + 1 <= Len(log')
      BY <1>1, <1>2
    <3>2. /\ SubSeq(log', Len(done) + 1, Len(log')) \in Seq(Data)
          /\ Len(SubSeq(log', Len(done) + 1, Len(log'))) = Len(log') - (Len(done) + 1) + 1
          /\ \A i \in 1..(Len(log') - (Len(done) + 1) + 1) :
               SubSeq(log', Len(done) + 1, Len(log'))[i] = log'[(Len(done) + 1) + i - 1]
      BY <1>3, <3>1, SubSeqProperties
    <3> QED
      BY <1>1, <1>2, <3>2
  <2> QED
    BY <2>1 DEF Pending
<1>5. /\ Append(Pending, d) \in Seq(Data) /\ Len(Append(Pending, d)) = Len(Pending) + 1
      /\ \A i \in 1..Len(Pending) : Append(Pending, d)[i] = Pending[i]
      /\ Append(Pending, d)[Len(Pending) + 1] = d
  BY <1>1, AppendProperties
<1>6. Len(Pending') = Len(Append(Pending, d))
  BY <1>1, <1>2, <1>4, <1>5
<1>7. \A i \in 1..Len(Pending') : Pending'[i] = Append(Pending, d)[i]
  <2> SUFFICES ASSUME NEW i \in 1..Len(Pending') PROVE Pending'[i] = Append(Pending, d)[i]
    OBVIOUS
  <2>1. i \in Int /\ Pending'[i] = log'[Len(done) + i]
    BY <1>1, <1>2, <1>4
  <2>2. CASE i <= Len(Pending)
    BY <1>1, <1>2, <1>4, <1>5, <2>1, <2>2
  <2>3. CASE i = Len(Pending) + 1
    BY <1>1, <1>2, <1>5, <2>1, <2>3
  <2> QED
    BY <1>1, <1>5, <1>6, <2>1, <2>2, <2>3
<1> QED
  BY <1>4, <1>5, <1>6, <1>7, SeqEqual

(* Freeing takes from the front. *)
LEMMA PendingTail ==
    ASSUME TypeOK, TypeOK', Prefix, Prefix', NEW d \in Data,
           done' = Append(done, d), log' = log
    PROVE  Pending # <<>> /\ Head(Pending) = d /\ Pending' = Tail(Pending)
<1>1. /\ Pending \in Seq(Data) /\ Len(Pending) = Len(log) - Len(done)
      /\ Len(log) \in Nat /\ Len(done) \in Nat /\ log \in Seq(Data)
  BY PendingProperties
<1>2. /\ Len(done') = Len(done) + 1 /\ done'[Len(done) + 1] = d
  BY AppendProperties DEF TypeOK, HistoryType
<1>3. Len(done) + 1 <= Len(log) /\ d = log[Len(done) + 1]
  BY <1>1, <1>2 DEF Prefix
<1>4. /\ Head(Pending) = log[Len(done) + 1]
      /\ Tail(Pending) = SubSeq(log, (Len(done) + 1) + 1, Len(log))
  <2>1. Len(done) + 1 \in 1..Len(log) /\ Len(log) \in (Len(done) + 1)..Len(log)
    BY <1>1, <1>3
  <2> QED
    BY <1>1, <2>1, HeadTailOfSubSeq DEF Pending
<1>5. Pending # <<>>
  BY <1>1, <1>3, EmptySeq
<1>6. Pending' = SubSeq(log, (Len(done) + 1) + 1, Len(log))
  BY <1>2 DEF Pending
<1> QED
  BY <1>3, <1>4, <1>5, <1>6

(* Initial states map to initial states. *)
LEMMA CollectorInit == Init => Collector!Init
<1> SUFFICES ASSUME Init PROVE Collector!Init
  OBVIOUS
<1>1. Holding = {} /\ guard = [d \in Data |-> {}] /\ Done = {}
  BY DEF Init, Holding, Done
<1>2. SubSeq(log, Len(done) + 1, Len(log)) = <<>>
  <2>1. log = <<>> /\ Len(log) = 0 /\ Len(done) = 0
    BY DEF Init
  <2> QED
    BY <2>1, SubSeqEmpty
<1> QED
  BY <1>1, <1>2 DEF Collector!Init

(* Every step maps to a step of the abstract collector or to a stutter. *)
LEMMA CollectorStep ==
    ASSUME TypeOK, TypeOK', IInv, OrderInv, OrderInv', [Next]_vars
    PROVE  [Collector!Next]_(Collector!vars)
<1> DEFINE Same == UNCHANGED <<ref, guard, log, done>>
<1>1. ASSUME Same PROVE UNCHANGED Collector!vars
  BY <1>1 DEF Collector!vars, Holding, Done
<1>2. Prefix /\ Prefix'
  BY DEF OrderInv
<1>3. ASSUME NEW t \in Threads, GetCas(t) PROVE Collector!Next \/ UNCHANGED Collector!vars
  <2>1. CASE tail # old[t]
    BY <1>1, <1>3, <2>1 DEF GetCas, historyVars
  <2>2. CASE tail = old[t]
    <3>1. ChainInv /\ tail.ptr # NULL /\ ref[t] = NULL
      BY <1>3, StpcAssumption DEF GetCas, IInv, Deleted, ChainInv, Places, Guards
    <3>2. ref' = [ref EXCEPT ![t] = tail.ptr] /\ UNCHANGED <<guard, log, done>>
      BY <1>3, <2>2 DEF GetCas, historyVars
    <3>3. Holding' = Holding \union {t} /\ t \notin Holding
      BY <3>1, <3>2 DEF Holding, TypeOK, ClientType
    <3>4. Done' = Done
      BY <3>2 DEF Done
    <3>5. Collector!Acquire(t)
      BY <3>2, <3>3, <3>4 DEF Collector!Acquire
    <3> QED
      BY <3>5 DEF Collector!Next
  <2> QED
    BY <2>1, <2>2
<1>4. ASSUME NEW t \in Threads, DropCall(t) PROVE Collector!Next
  <2>1. /\ ref[t] # NULL /\ ref' = [ref EXCEPT ![t] = NULL]
        /\ guard' = [d \in Data |-> guard[d] \ {t}] /\ UNCHANGED <<log, done>>
    BY <1>4 DEF DropCall
  <2>2. Holding' = Holding \ {t} /\ t \in Holding
    BY <2>1 DEF Holding, TypeOK, ClientType
  <2>3. Done' = Done
    BY <2>1 DEF Done
  <2>4. Collector!Release(t)
    BY <2>1, <2>2, <2>3 DEF Collector!Release
  <2> QED
    BY <2>4 DEF Collector!Next
<1>5. ASSUME NEW t \in Threads, QueueCas(t) PROVE Collector!Next \/ UNCHANGED Collector!vars
  <2>0. ref' = ref /\ done' = done
    BY <1>5 DEF QueueCas, clientVars
  <2>1. CASE UNCHANGED <<log, guard>>
    BY <1>1, <2>0, <2>1
  <2>2. CASE ~UNCHANGED <<log, guard>>
    <3>1. /\ arg[t] \in Data /\ log' = Append(log, arg[t])
          /\ guard' = [guard EXCEPT ![arg[t]] = Holding]
      BY <1>5, <2>2 DEF QueueCas, TypeOK, LocalType, DataOrNull
    <3>2. arg[t] \notin Logged /\ Done \subseteq Logged
      BY <1>5 DEF QueueCas, IInv, Deleted, ChainInv, Queued, Unqueued, Freed
    <3>3. Pending' = Append(Pending, arg[t])
      BY <1>2, <2>0, <3>1, PendingAppend
    <3>4. \A i \in 1..Len(Pending) : Pending[i] \in Logged
      <4>1. /\ Len(Pending) = Len(log) - Len(done)
            /\ \A i \in 1..Len(Pending) : Pending[i] = log[Len(done) + i]
            /\ Len(log) \in Nat /\ Len(done) \in Nat
        BY <1>2, PendingProperties
      <4> QED
        BY <4>1 DEF Logged
    <3>5. Holding' = Holding /\ Done' = Done
      BY <2>0 DEF Holding, Done
    <3>6. Collector!Defer(arg[t])
      BY <3>1, <3>2, <3>3, <3>4, <3>5 DEF Collector!Defer, Collector!Queued, Pending
    <3> QED
      BY <3>1, <3>6 DEF Collector!Next
  <2> QED
    BY <2>1, <2>2
<1>6. ASSUME NEW t \in Threads, DropFree(t) PROVE Collector!Next \/ UNCHANGED Collector!vars
  <2>0. UNCHANGED <<ref, guard, log>>
    BY <1>6 DEF DropFree, clientVars
  <2>1. CASE done' = done
    BY <1>1, <2>0, <2>1
  <2>2. CASE done' # done
    <3>1. ChainInv /\ node[t] = freeTail /\ freeTail \in heap /\ freeTail \in Nodes
      BY <1>6 DEF DropFree, IInv, Deleted, Passing, ChainInv, Touched, Places
    <3>2. PICK d \in Data : d = data[freeTail] /\ done' = Append(done, d)
      BY <1>6, <2>2, <3>1 DEF DropFree, DataOf, HasData, TypeOK, NodeType, DataOrNull
    <3>3. Pending # <<>> /\ Head(Pending) = d /\ Pending' = Tail(Pending)
      BY <1>2, <2>0, <3>2, PendingTail
    <3>4. Done' = Done \cup {d}
      BY <3>2, DoneAppend DEF TypeOK, HistoryType
    <3>5. guard[d] = {}
      <4>1. Freed'
        BY FreedStep DEF IInv
      <4>2. d \in Done'
        BY <3>4
      <4> QED
        BY <2>0, <4>1, <4>2 DEF Freed, GuardedNotFreed
    <3>6. Holding' = Holding
      BY <2>0 DEF Holding
    <3>7. Collector!Free
      BY <2>0, <3>3, <3>4, <3>5, <3>6 DEF Collector!Free, Pending
    <3> QED
      BY <3>7 DEF Collector!Next
  <2> QED
    BY <2>1, <2>2
<1>7. ASSUME NEW t \in Threads, Enter(t) \/ Step(t),
             ~GetCas(t), ~DropCall(t), ~QueueCas(t), ~DropFree(t)
      PROVE  UNCHANGED Collector!vars
  <2>1. Same
    BY <1>7 DEF Enter, GetCall, DeferCall, TrimCall, Step, GetLoadSeq,
        DropLoad, DropSub, DropNext, DropStore, DropClear,
        NewLoadPtr, NewLoadSeq, NewTest, NewRead, NewCas, NewLoadNum, NewIncNum,
        NewCheckMax, NewAlloc, NewInit, QueueLoadPtr, QueueLoadSeq, QueueLink,
        TrimFree, TrimDec, clientVars, historyVars
  <2> QED
    BY <1>1, <2>1
<1>8. ASSUME NEW m \in Limits, SetMaxNodes(m) PROVE UNCHANGED Collector!vars
  BY <1>1, <1>8 DEF SetMaxNodes, clientVars, historyVars
<1>9. CASE DeleteProxy
  BY <1>1, <1>9 DEF DeleteProxy, clientVars, historyVars
<1>10. CASE UNCHANGED vars
  BY <1>1, <1>10 DEF vars, clientVars, historyVars
<1> QED
  BY <1>3, <1>4, <1>5, <1>6, <1>7, <1>8, <1>9, <1>10, NextCases

(* What stpc promises its callers: the algorithm is a proxy collector. *)
THEOREM Implements == Spec => ImplementsCollector
<1>1. Init => Collector!Init
  BY CollectorInit
<1>2. TypeOK /\ TypeOK' /\ IInv /\ OrderInv /\ OrderInv' /\ [Next]_vars
          => [Collector!Next]_(Collector!vars)
  BY CollectorStep
<1> QED
  BY <1>1, <1>2, TypeCorrect, Invariance, OrderInvariance, PTL
     DEF Spec, ImplementsCollector, Collector!Spec

-------------------------------------------------------------------------------
(* The other threads' part, and theirs in the count of nodes. *)
Others(t) ==
    \A u \in Threads \ {t} : pc'[u] = pc[u] /\ node'[u] = node[u] /\ num'[u] = num[u]

(* A thread that is about to allocate or to count off. *)
Counting(t) == pc[t] \in {"n_check", "n_alloc", "t_dec"}

LEMMA ThreadsFinite ==
    /\ IsFiniteSet(Allocating) /\ IsFiniteSet(GivenBack)
    /\ Cardinality(Allocating) \in Nat /\ Cardinality(GivenBack) \in Nat
<1>1. Allocating \subseteq Threads /\ GivenBack \subseteq Threads
  BY DEF Allocating, GivenBack
<1> QED
  BY <1>1, StpcAssumption, FS_Subset, FS_CardinalityType

LEMMA HeapFinite ==
    ASSUME TypeOK
    PROVE  IsFiniteSet(heap) /\ Cardinality(heap) \in Nat
BY StpcAssumption, FS_Subset, FS_CardinalityType DEF TypeOK, HeapType

(* Every step of a thread leaves the other threads alone. *)
LEMMA StepOthers ==
    ASSUME TypeOK, NEW t \in Threads, Enter(t) \/ Step(t)
    PROVE  Others(t)
<1> USE DEF TypeOK, ClientType, LocalType, Others, Goto, Return, Retry,
            localVars, clientVars
<1>1. CASE Enter(t)
  BY <1>1 DEF Enter, GetCall, DropCall, DeferCall, TrimCall, Call, TrimLoop
<1>2. CASE GetLoadSeq(t) \/ GetCas(t)
  BY <1>2 DEF GetLoadSeq, GetCas
<1>3. CASE DropLoad(t) \/ DropSub(t) \/ DropNext(t)
  BY <1>3 DEF DropLoad, DropSub, DropNext
<1>4. CASE DropStore(t) \/ DropFree(t) \/ DropClear(t)
  BY <1>4 DEF DropStore, DropFree, DropClear
<1>5. CASE NewLoadPtr(t) \/ NewLoadSeq(t) \/ NewTest(t) \/ NewRead(t) \/ NewCas(t)
  BY <1>5 DEF NewLoadPtr, NewLoadSeq, NewTest, NewRead, NewCas
<1>6. CASE NewLoadNum(t) \/ NewIncNum(t) \/ NewCheckMax(t)
  BY <1>6 DEF NewLoadNum, NewIncNum, NewCheckMax
<1>7. CASE NewAlloc(t) \/ NewInit(t)
  BY <1>7 DEF NewAlloc, NewInit
<1>8. CASE QueueLoadPtr(t) \/ QueueLoadSeq(t) \/ QueueCas(t) \/ QueueLink(t)
  BY <1>8 DEF QueueLoadPtr, QueueLoadSeq, QueueCas, QueueLink
<1>9. CASE TrimFree(t) \/ TrimDec(t)
  BY <1>9 DEF TrimFree, TrimDec, TrimLoop
<1> QED
  BY <1>1, <1>2, <1>3, <1>4, <1>5, <1>6, <1>7, <1>8, <1>9 DEF Step

-------------------------------------------------------------------------------
(* The count of nodes *)

(* A step that neither allocates nor gives back keeps the count. *)
LEMMA QuietStep ==
    ASSUME TypeOK, TypeOK', NodesCounted, NEW t \in Threads, Others(t),
           UNCHANGED <<heap, alive, numNodes, maxNodes>>,
           (t \in Allocating)' <=> t \in Allocating,
           (t \in GivenBack)' <=> t \in GivenBack
    PROVE  NodesCounted'
<1>1. Allocating' = Allocating /\ GivenBack' = GivenBack
  BY DEF Allocating, GivenBack, Others
<1> QED
  BY <1>1 DEF NodesCounted, Accounts

(* numNodes is raised for a node that is to be allocated. *)
LEMMA CountedIncNum ==
    ASSUME TypeOK, TypeOK', NodesCounted, NEW t \in Threads, NewIncNum(t)
    PROVE  NodesCounted'
<1>1. Others(t)
  BY StepOthers DEF Step
<1>2. CASE numNodes' = numNodes
  <2>1. (t \in Allocating)' <=> t \in Allocating
    BY <1>2 DEF NewIncNum, Allocating, Goto, TypeOK, ClientType, LocalType, ProxyType
  <2>2. (t \in GivenBack)' <=> t \in GivenBack
    BY DEF NewIncNum, GivenBack, Goto, TypeOK, ClientType
  <2>3. UNCHANGED <<heap, alive, numNodes, maxNodes>>
    BY <1>2 DEF NewIncNum, heapVars
  <2> QED
    BY <1>1, <2>1, <2>2, <2>3, QuietStep
<1>3. CASE numNodes' # numNodes
  <2>1. /\ pc[t] = "n_inc" /\ pc' = [pc EXCEPT ![t] = "n_check"]
        /\ num' = num /\ num[t] < maxNodes /\ numNodes = num[t]
        /\ numNodes' = numNodes + 1
        /\ UNCHANGED <<heap, alive, maxNodes>>
    BY <1>3 DEF NewIncNum, NumMatches, Goto, heapVars
  <2>2. Allocating' = Allocating \union {t} /\ t \notin Allocating
    BY <2>1 DEF Allocating, TypeOK, ClientType
  <2>3. GivenBack' = GivenBack
    BY <2>1 DEF GivenBack, TypeOK, ClientType
  <2>4. Cardinality(Allocating') = Cardinality(Allocating) + 1
    BY <2>2, ThreadsFinite, FS_AddElement
  <2> QED
    BY <2>1, <2>3, <2>4, ThreadsFinite, HeapFinite
    DEF NodesCounted, Accounts, TypeOK, ProxyType
<1> QED
  BY <1>2, <1>3

(* A node is allocated for a thread that has counted it; or none is got,   *)
(* and it stays counted.                                                   *)
LEMMA CountedAlloc ==
    ASSUME TypeOK, TypeOK', NodesCounted, alive, NEW t \in Threads, NewAlloc(t)
    PROVE  NodesCounted'
<1>1. pc[t] = "n_alloc" /\ pc'[t] \in {"n_init", "n_ptr"}
  BY DEF NewAlloc, Retry, Goto, TypeOK, ClientType
<1>2. Others(t)
  BY StepOthers DEF Step
<1>3. UNCHANGED <<alive, numNodes, maxNodes>>
  BY DEF NewAlloc, proxyVars
<1>4. Allocating' = Allocating \ {t} /\ t \in Allocating
  BY <1>1, <1>2, <1>3 DEF Allocating, Others
<1>5. GivenBack' = GivenBack
  BY <1>1, <1>2 DEF GivenBack, Others
<1>6. /\ Cardinality(Allocating') = Cardinality(Allocating) - 1
      /\ Cardinality(Allocating') \in Nat
  BY <1>4, ThreadsFinite, FS_RemoveElement, FS_CardinalityType
<1>7. CASE heap' = heap
  <2>1. AllocMayFail
    BY <1>7 DEF NewAlloc
  <2> QED
    BY <1>3, <1>5, <1>6, <1>7, <2>1, ThreadsFinite, HeapFinite
    DEF NodesCounted, Accounts, TypeOK, ProxyType
<1>8. CASE heap' # heap
  <2>1. PICK n \in Nodes \ heap : heap' = heap \union {n}
    BY <1>8 DEF NewAlloc
  <2>2. Cardinality(heap') = Cardinality(heap) + 1
    BY <2>1, HeapFinite, FS_AddElement
  <2> QED
    BY <1>3, <1>5, <1>6, <2>2, ThreadsFinite, HeapFinite
    DEF NodesCounted, Accounts, TypeOK, ProxyType
<1> QED
  BY <1>7, <1>8

(* A node that was popped is given back, before numNodes tells. *)
LEMMA CountedTrimFree ==
    ASSUME TypeOK, TypeOK', ChainInv, NodesCounted, alive, NEW t \in Threads, TrimFree(t)
    PROVE  NodesCounted'
<1>1. pc[t] = "t_free" /\ pc'[t] = "t_dec" /\ heap' = heap \ {node[t]}
  BY DEF TrimFree, Goto, TypeOK, ClientType
<1>2. Others(t)
  BY StepOthers DEF Step
<1>3. UNCHANGED <<alive, numNodes, maxNodes, num>>
  BY DEF TrimFree, proxyVars, localVars
<1>4. node[t] \in heap
  BY <1>1 DEF ChainInv, Owners, Owns
<1>5. Cardinality(heap') = Cardinality(heap) - 1
  BY <1>1, <1>4, HeapFinite, FS_RemoveElement
<1>6. Allocating' = Allocating
  BY <1>1, <1>2, <1>3 DEF Allocating, Others
<1>7. GivenBack' = GivenBack \union {t} /\ t \notin GivenBack
  BY <1>1, <1>2 DEF GivenBack, Others
<1>8. Cardinality(GivenBack') = Cardinality(GivenBack) + 1
  BY <1>7, ThreadsFinite, FS_AddElement
<1> QED
  BY <1>3, <1>5, <1>6, <1>8, ThreadsFinite, HeapFinite
  DEF NodesCounted, Accounts, TypeOK, ProxyType

(* Then it is counted off. *)
LEMMA CountedTrimDec ==
    ASSUME TypeOK, TypeOK', NodesCounted, alive, NEW t \in Threads, TrimDec(t)
    PROVE  NodesCounted'
<1>1. pc[t] = "t_dec" /\ pc'[t] \in {"n_ptr", "idle"} /\ numNodes' = numNodes - 1
  BY DEF TrimDec, Decremented, TrimLoop, Return, Goto, TypeOK, ClientType
<1>2. Others(t)
  BY StepOthers DEF Step
<1>3. UNCHANGED <<heap, alive, maxNodes>>
  BY DEF TrimDec, heapVars
<1>4. Allocating' = Allocating
  BY <1>1, <1>2, <1>3 DEF Allocating, Others
<1>5. GivenBack' = GivenBack \ {t} /\ t \in GivenBack
  BY <1>1, <1>2 DEF GivenBack, Others
<1>6. /\ Cardinality(GivenBack') = Cardinality(GivenBack) - 1
      /\ Cardinality(GivenBack') \in Nat
  BY <1>5, ThreadsFinite, FS_RemoveElement, FS_CardinalityType
<1> QED
  BY <1>1, <1>3, <1>4, <1>6, ThreadsFinite, HeapFinite, StpcAssumption
  DEF NodesCounted, Accounts, TypeOK, ProxyType

(* The other actions leave nodes and counts alone. *)
LEMMA CountedOthers ==
    ASSUME TypeOK, TypeOK', NodesCounted, NEW t \in Threads, Enter(t) \/ Step(t),
           ~NewIncNum(t), ~NewAlloc(t), ~TrimFree(t), ~TrimDec(t)
    PROVE  NodesCounted'
<1> DEFINE Q == /\ UNCHANGED <<heap, alive, numNodes, maxNodes>>
                /\ (t \in Allocating)' <=> t \in Allocating
                /\ (t \in GivenBack)' <=> t \in GivenBack
<1> SUFFICES Q
  BY StepOthers, QuietStep
<1> USE DEF TypeOK, ClientType, LocalType, Goto, Return, Retry, Allocating, GivenBack,
            localVars, clientVars, heapVars, proxyVars
<1>1. CASE Enter(t)
  BY <1>1 DEF Enter, GetCall, DropCall, DeferCall, TrimCall, Call, TrimLoop
<1>2. CASE GetLoadSeq(t) \/ GetCas(t)
  BY <1>2 DEF GetLoadSeq, GetCas
<1>3. CASE DropLoad(t) \/ DropSub(t) \/ DropNext(t)
  BY <1>3 DEF DropLoad, DropSub, DropNext
<1>4. CASE DropStore(t) \/ DropFree(t) \/ DropClear(t)
  BY <1>4 DEF DropStore, DropFree, DropClear
<1>5. CASE NewLoadPtr(t) \/ NewLoadSeq(t) \/ NewTest(t) \/ NewRead(t) \/ NewCas(t)
  BY <1>5 DEF NewLoadPtr, NewLoadSeq, NewTest, NewRead, NewCas
<1>6. CASE NewLoadNum(t) \/ NewInit(t)
  BY <1>6 DEF NewLoadNum, NewInit
<1>7. CASE NewCheckMax(t)
  BY <1>7 DEF NewCheckMax, ProxyType
<1>8. CASE QueueLoadPtr(t) \/ QueueLoadSeq(t) \/ QueueCas(t) \/ QueueLink(t)
  BY <1>8 DEF QueueLoadPtr, QueueLoadSeq, QueueCas, QueueLink
<1> QED
  BY <1>1, <1>2, <1>3, <1>4, <1>5, <1>6, <1>7, <1>8 DEF Step

-------------------------------------------------------------------------------
(* Where the nodes are *)

(* A thread that owns a node keeps it until it is queued or given back. *)
LEMMA AccountedSame ==
    ASSUME Accounted, NEW t \in Threads, Others(t), UNCHANGED <<heap, alive, pos>>,
           Owns(t) => Owns(t)' /\ node'[t] = node[t]
    PROVE  Accounted'
BY DEF Accounted, Others, Owns

(* The actions that move no node. *)
LEMMA AccountedOthers ==
    ASSUME TypeOK, TypeOK', Accounted, NEW t \in Threads, Enter(t) \/ Step(t),
           ~NewCas(t), ~NewAlloc(t), ~QueueCas(t), ~TrimFree(t)
    PROVE  Accounted'
<1> DEFINE Q == /\ UNCHANGED <<heap, alive, pos>>
                /\ Owns(t) => Owns(t)' /\ node'[t] = node[t]
<1> SUFFICES Q
  BY StepOthers, AccountedSame
<1> USE DEF TypeOK, ClientType, LocalType, Goto, Return, Retry, Owns,
            localVars, clientVars, heapVars, historyVars
<1>1. CASE Enter(t)
  BY <1>1 DEF Enter, GetCall, DropCall, DeferCall, TrimCall, Call, TrimLoop
<1>2. CASE GetLoadSeq(t) \/ GetCas(t)
  BY <1>2 DEF GetLoadSeq, GetCas
<1>3. CASE DropLoad(t) \/ DropSub(t) \/ DropNext(t)
  BY <1>3 DEF DropLoad, DropSub, DropNext
<1>4. CASE DropStore(t) \/ DropFree(t) \/ DropClear(t)
  BY <1>4 DEF DropStore, DropFree, DropClear
<1>5. CASE NewLoadPtr(t) \/ NewLoadSeq(t) \/ NewTest(t) \/ NewRead(t)
  BY <1>5 DEF NewLoadPtr, NewLoadSeq, NewTest, NewRead
<1>6. CASE NewLoadNum(t) \/ NewIncNum(t) \/ NewCheckMax(t) \/ NewInit(t)
  BY <1>6 DEF NewLoadNum, NewIncNum, NewCheckMax, NewInit
<1>7. CASE QueueLoadPtr(t) \/ QueueLoadSeq(t) \/ QueueLink(t)
  BY <1>7 DEF QueueLoadPtr, QueueLoadSeq, QueueLink
<1>8. CASE TrimDec(t)
  BY <1>8 DEF TrimDec, TrimLoop
<1> QED
  BY <1>1, <1>2, <1>3, <1>4, <1>5, <1>6, <1>7, <1>8 DEF Step

(* A node that is popped is its thread's. *)
LEMMA AccountedPop ==
    ASSUME TypeOK, TypeOK', ChainInv, Accounted, alive, NEW t \in Threads, NewCas(t)
    PROVE  Accounted'
<1>1. Others(t)
  BY StepOthers DEF Step
<1>2. pc[t] = "n_cas" /\ ~Owns(t) /\ UNCHANGED <<heap, alive>>
  BY DEF NewCas, Owns, heapVars
<1>3. CASE FreeHeadMatches(t)
  <2>1. old[t].ptr \in Nodes
    BY <1>3 DEF FreeHeadMatches, ChainInv, Places
  <2>2. /\ Owns(t)' /\ node'[t] = old[t].ptr
        /\ pos' = [pos EXCEPT ![old[t].ptr] = 0]
    BY <1>3, <1>2 DEF NewCas, Owns, Goto, TypeOK, ClientType, LocalType
  <2>3. SUFFICES ASSUME NEW n \in heap
                 PROVE  pos'[n] > 0 \/ \E u \in Threads : Owns(u)' /\ node'[u] = n
    BY <1>2 DEF Accounted
  <2>4. CASE n = old[t].ptr
    BY <2>2, <2>4
  <2>5. CASE n # old[t].ptr
    <3>1. pos'[n] = pos[n]
      BY <2>2, <2>5 DEF TypeOK, HistoryType, HeapType
    <3>2. \A u \in Threads : Owns(u) => u # t /\ Owns(u)' /\ node'[u] = node[u]
      BY <1>1, <1>2 DEF Others, Owns
    <3> QED
      BY <3>1, <3>2 DEF Accounted
  <2> QED
    BY <2>4, <2>5
<1>4. CASE ~FreeHeadMatches(t)
  BY <1>1, <1>2, <1>4, AccountedSame DEF NewCas
<1> QED
  BY <1>3, <1>4

(* So is one that is allocated. *)
LEMMA AccountedAlloc ==
    ASSUME TypeOK, TypeOK', Accounted, alive, NEW t \in Threads, NewAlloc(t)
    PROVE  Accounted'
<1>1. Others(t)
  BY StepOthers DEF Step
<1>2. pc[t] = "n_alloc" /\ ~Owns(t) /\ UNCHANGED <<alive, pos>>
  BY DEF NewAlloc, Owns, historyVars
<1>3. CASE heap' = heap
  BY <1>1, <1>2, <1>3, AccountedSame
<1>4. CASE heap' # heap
  <2>1. PICK m \in Nodes \ heap :
            heap' = heap \union {m} /\ Owns(t)' /\ node'[t] = m
    BY <1>4 DEF NewAlloc, Owns, Goto, TypeOK, ClientType, LocalType
  <2>2. \A u \in Threads : Owns(u) => u # t /\ Owns(u)' /\ node'[u] = node[u]
    BY <1>1, <1>2 DEF Others, Owns
  <2> QED
    BY <1>2, <2>1, <2>2 DEF Accounted
<1> QED
  BY <1>3, <1>4

(* A node that is queued is on the chain. *)
LEMMA AccountedQueue ==
    ASSUME TypeOK, TypeOK', ChainInv, Accounted, alive, NEW t \in Threads, QueueCas(t)
    PROVE  Accounted'
<1>1. Others(t)
  BY StepOthers DEF Step
<1>2. pc[t] = "q_cas" /\ UNCHANGED <<heap, alive, node>>
  BY DEF QueueCas, heapVars
<1>3. CASE tail = old[t]
  <2>1. pos' = [pos EXCEPT ![node[t]] = pos[tail.ptr] + 1]
    BY <1>3 DEF QueueCas, Place, ChainInv, Places
  <2>2. node[t] \in Nodes /\ pos[tail.ptr] \in Nat /\ pos'[node[t]] > 0
    <3>1. node[t] \in Nodes
      BY <1>2 DEF ChainInv, Owners, Owns
    <3>2. pos[tail.ptr] \in Nat
      BY DEF ChainInv, Places
    <3> QED
      BY <2>1, <3>1, <3>2 DEF TypeOK, HistoryType
  <2>3. SUFFICES ASSUME NEW n \in heap, n # node[t]
                 PROVE  pos'[n] > 0 \/ \E u \in Threads : Owns(u)' /\ node'[u] = n
    BY <1>2, <2>2 DEF Accounted
  <2>4. pos'[n] = pos[n]
    BY <2>1, <2>3 DEF TypeOK, HistoryType, HeapType
  <2>5. \A u \in Threads \ {t} : Owns(u) => Owns(u)' /\ node'[u] = node[u]
    BY <1>1 DEF Others, Owns
  <2> QED
    BY <2>3, <2>4, <2>5 DEF Accounted
<1>4. CASE tail # old[t]
  <2>1. Owns(t)' /\ node'[t] = node[t] /\ pos' = pos
    BY <1>2, <1>4 DEF QueueCas, Owns
  <2> QED
    BY <1>1, <1>2, <2>1, AccountedSame
<1> QED
  BY <1>3, <1>4

(* A node that is given back is not allocated any more. *)
LEMMA AccountedFree ==
    ASSUME TypeOK, TypeOK', Accounted, alive, NEW t \in Threads, TrimFree(t)
    PROVE  Accounted'
<1>1. Others(t)
  BY StepOthers DEF Step
<1>2. heap' = heap \ {node[t]} /\ UNCHANGED <<alive, pos, node>>
  BY DEF TrimFree, localVars, historyVars
<1>3. \A u \in Threads \ {t} : Owns(u) => Owns(u)' /\ node'[u] = node[u]
  BY <1>1 DEF Others, Owns
<1> QED
  BY <1>2, <1>3 DEF Accounted

-------------------------------------------------------------------------------
(* Every run *)

LEMMA PoolInit == Init => PoolInv
<1> SUFFICES ASSUME Init PROVE PoolInv
  OBVIOUS
<1>1. heap = {FirstNode} /\ pos[FirstNode] > 0 /\ numNodes = 1 /\ maxNodes = MaxNodes
  BY StpcAssumption DEF Init
<1>2. Accounted
  BY <1>1 DEF Accounted
<1>3. Allocating = {} /\ GivenBack = {}
  BY DEF Init, Allocating, GivenBack
<1>4. Accounts = 1 /\ Cardinality(heap) = 1
  BY <1>1, <1>3, FS_EmptySet, FS_Singleton DEF Accounts
<1> QED
  BY <1>1, <1>2, <1>4, StpcAssumption DEF PoolInv, NodesCounted

(* The invariant of the pool is inductive, relative to that of the chain. *)
LEMMA PoolStep == TypeOK /\ TypeOK' /\ IInv /\ PoolInv /\ [Next]_vars => PoolInv'
<1> SUFFICES ASSUME TypeOK, TypeOK', IInv, PoolInv, [Next]_vars PROVE PoolInv'
  OBVIOUS
<1> USE DEF PoolInv
<1>1. ASSUME NEW t \in Threads, Enter(t) PROVE PoolInv'
  <2>1. pc[t] = "idle"
    BY <1>1 DEF Enter, GetCall, DropCall, DeferCall, TrimCall, Call
  <2>2. ~(NewIncNum(t) \/ NewAlloc(t) \/ TrimFree(t) \/ TrimDec(t) \/ NewCas(t) \/ QueueCas(t))
    BY <2>1 DEF NewIncNum, NewAlloc, TrimFree, TrimDec, NewCas, QueueCas
  <2> QED
    BY <1>1, <2>2, CountedOthers, AccountedOthers
<1>2. ASSUME NEW t \in Threads, Step(t) PROVE PoolInv'
  <2>1. alive /\ ChainInv
    <3>1. pc[t] # "idle"
      BY <1>2 DEF Step, GetLoadSeq, GetCas, DropLoad, DropSub, DropNext, DropStore,
          DropFree, DropClear, NewLoadPtr, NewLoadSeq, NewTest, NewRead, NewCas,
          NewLoadNum, NewIncNum, NewCheckMax, NewAlloc, NewInit, QueueLoadPtr,
          QueueLoadSeq, QueueCas, QueueLink, TrimFree, TrimDec
    <3> QED
      BY <3>1 DEF IInv, Deleted
  <2>2. NodesCounted'
    BY <1>2, <2>1, CountedIncNum, CountedAlloc, CountedTrimFree, CountedTrimDec, CountedOthers
  <2>3. Accounted'
    BY <1>2, <2>1, AccountedPop, AccountedAlloc, AccountedQueue, AccountedFree, AccountedOthers
  <2> QED
    BY <2>2, <2>3
<1>3. ASSUME NEW m \in Limits, SetMaxNodes(m) PROVE PoolInv'
  <2>1. /\ UNCHANGED <<heap, alive, numNodes, pos, pc, node, num>>
        /\ \A t \in Threads : pc[t] = "idle"
        /\ m > 1 /\ maxNodes' = m
    BY <1>3 DEF SetMaxNodes, ValidMax, heapVars, localVars, historyVars
  <2>2. Accounted'
    BY <2>1 DEF Accounted, Owns
  <2>3. Allocating' = Allocating /\ GivenBack' = GivenBack
    BY <2>1 DEF Allocating, GivenBack
  <2> QED
    BY <2>1, <2>2, <2>3 DEF NodesCounted, Accounts
<1>4. ASSUME DeleteProxy PROVE PoolInv'
  <2>1. heap' \subseteq heap /\ ~alive' /\ UNCHANGED <<numNodes, maxNodes>>
    BY <1>4 DEF DeleteProxy, proxyVars
  <2>2. Cardinality(heap') \in Nat /\ Cardinality(heap') <= Cardinality(heap)
    BY <2>1, HeapFinite, FS_Subset, FS_CardinalityType
  <2>3. Cardinality(heap') <= numNodes'
    BY <2>1, <2>2, HeapFinite DEF NodesCounted, TypeOK, ProxyType
  <2> QED
    BY <2>1, <2>3 DEF Accounted, NodesCounted
<1>5. ASSUME UNCHANGED vars PROVE PoolInv'
  <2>1. UNCHANGED <<heap, alive, numNodes, maxNodes, pos, pc, node, num>>
    BY <1>5 DEF vars, proxyVars, heapVars, localVars, historyVars
  <2>2. Accounted'
    BY <2>1 DEF Accounted, Owns
  <2>3. Allocating' = Allocating /\ GivenBack' = GivenBack
    BY <2>1 DEF Allocating, GivenBack
  <2> QED
    BY <2>1, <2>2, <2>3 DEF NodesCounted, Accounts
<1> QED
  BY <1>1, <1>2, <1>3, <1>4, <1>5, NextCases

(* No node is lost or counted twice, in every run. *)
THEOREM PoolInvariance == Spec => []PoolInv
<1>1. Init => PoolInv
  BY PoolInit
<1>2. TypeOK /\ TypeOK' /\ IInv /\ PoolInv /\ [Next]_vars => PoolInv'
  BY PoolStep
<1> QED
  BY <1>1, <1>2, TypeCorrect, Invariance, PTL DEF Spec

-------------------------------------------------------------------------------
(* What follows from the invariant *)

(* If allocMem always finds memory, numNodes counts the nodes exactly: it  *)
(* is raised before a node is allocated and lowered after one was freed.   *)
THEOREM NodesAccounted ==
    ASSUME ~AllocMayFail
    PROVE  Spec => []NodeAccounting
<1>1. PoolInv => NodeAccounting
  <2>1. Allocating = {t \in Threads : \/ pc[t] = "n_alloc"
                                      \/ pc[t] = "n_check" /\ num[t] < maxNodes}
    BY DEF Allocating
  <2> QED
    BY <2>1 DEF PoolInv, NodesCounted, NodeAccounting, Accounts, GivenBack
<1> QED
  BY <1>1, PoolInvariance, PTL

(* The maximum given before the threads start bounds the pool, however     *)
(* many threads find the free list empty at the same time.                 *)
THEOREM PoolBounded ==
    ASSUME Limits = {}
    PROVE  Spec => []PoolBound
<1>1. TypeOK /\ PoolInv => PoolBound
  BY HeapFinite DEF PoolInv, NodesCounted, PoolBound, TypeOK, ProxyType
<1> QED
  BY <1>1, TypeCorrect, PoolInvariance, PTL

(* So an exhausted pool has one node. *)
LEMMA ExhaustedIsSingle ==
    ASSUME TypeOK, ChainInv, Accounted, alive, Waiting, freeHead.ptr = freeTail
    PROVE  Cardinality(heap) <= 1
<1>1. freeTail = tail.ptr
  BY WaitingReclaimed
<1>2. ASSUME NEW n \in heap PROVE n = tail.ptr
  <2>1. n \in Nodes /\ tail.ptr \in Nodes /\ pos[n] \in Nat /\ pos[tail.ptr] \in Nat
    BY DEF TypeOK, HeapType, ChainInv, Places
  <2>2. \A t \in Threads : ~Owns(t)
    BY DEF Waiting, Owns
  <2>3. pos[n] > 0
    BY <2>2 DEF Accounted
  <2>4. pos[freeHead.ptr] <= pos[n] /\ pos[n] <= pos[tail.ptr]
    BY <2>1, <2>3 DEF ChainInv, Places
  <2>5. pos[n] = pos[tail.ptr]
    BY <1>1, <2>1, <2>4
  <2> QED
    BY <2>1, <2>3, <2>5 DEF ChainInv, Places
<1>3. heap \in SUBSET {tail.ptr}
  BY <1>2
<1>4. IsFiniteSet({tail.ptr}) /\ Cardinality({tail.ptr}) = 1
  BY FS_Singleton
<1>5. Cardinality(heap) <= Cardinality({tail.ptr})
  BY <1>3, <1>4, FS_Subset
<1> QED
  BY <1>4, <1>5

(* Who waits for a node in stpcDeferredDelete waits for references: while  *)
(* none is held there is a node to be had, unless allocations failed.      *)
THEOREM WaitsForReferences == Spec => []ExhaustedOnlyByReferences
<1>1. TypeOK /\ IInv /\ PoolInv => ExhaustedOnlyByReferences
  <2> SUFFICES ASSUME TypeOK, IInv, PoolInv, alive, Waiting,
                      AllocMayFail => Cardinality(heap) > 1, freeHead.ptr = freeTail
               PROVE  numNodes < maxNodes
    BY DEF ExhaustedOnlyByReferences
  <2>1. Cardinality(heap) <= 1 /\ Cardinality(heap) \in Nat
    BY ExhaustedIsSingle, HeapFinite DEF IInv, PoolInv
  <2>2. ~AllocMayFail
    BY <2>1
  <2>3. Allocating = {} /\ GivenBack = {}
    BY DEF Waiting, Allocating, GivenBack
  <2>4. numNodes = Cardinality(heap)
    BY <2>1, <2>2, <2>3, FS_EmptySet DEF PoolInv, NodesCounted, Accounts
  <2> QED
    BY <2>1, <2>4 DEF PoolInv, NodesCounted, TypeOK, ProxyType
<1> QED
  BY <1>1, TypeCorrect, Invariance, PoolInvariance, PTL

===============================================================================
