---------------------------- MODULE RcpcOrderProofs ----------------------------
(***************************************************************************)
(* What is deferred is freed once, in the order of its deferral, and not   *)
(* before the references are dropped that guard it; Rcpc implements        *)
(* ProxyCollector.                                                         *)
(***************************************************************************)
EXTENDS RcpcInvProofs, SequenceTheorems

(* The log and what of it is freed are sequences of data.                  *)
LEMMA LogFacts ==
    ASSUME TypeOK
    PROVE  /\ log \in Seq(Data) /\ done \in Seq(Data)
           /\ Len(log) \in Nat /\ Len(done) \in Nat
           /\ \A i \in 1..Len(log) : log[i] \in Data
           /\ \A n \in Nodes : pos[n] \in Nat /\ data[n] \in DataOrNull
           /\ \A t \in Threads : arg[t] \in DataOrNull
           /\ \A d \in Data : guard[d] \subseteq Threads
<1>1. log \in Seq(Data) /\ done \in Seq(Data)
  BY DEF TypeOK, HistoryType
<1>2. Len(log) \in Nat /\ Len(done) \in Nat
  BY <1>1
<1>3. \A i \in 1..Len(log) : log[i] \in Data
  BY <1>1, ElementOfSeq
<1>4. /\ \A n \in Nodes : pos[n] \in Nat /\ data[n] \in DataOrNull
      /\ \A t \in Threads : arg[t] \in DataOrNull
      /\ \A d \in Data : guard[d] \subseteq Threads
  BY DEF TypeOK, HistoryType, NodeType, LocalType
<1> QED
  BY <1>1, <1>2, <1>3, <1>4

(* Data on the chain is carried by a node in use.                          *)
LEMMA CarriedInUse ==
    ASSUME TypeOK, IInv, OrderInv, NEW n \in Nodes, Carries(n)
    PROVE  Used(n) /\ Real(n) /\ data[n] \in Data /\ pos[n] <= End
<1>1. Places /\ Links /\ \A t \in Threads : Reclaim(t)
  BY DEF IInv
<1>2. pos[n] > FirstInUse \/ \E t \in Threads : pc[t] = "d_free" /\ drop[t] = n
  BY DEF OrderInv, Carried, Due
<1>3. FirstInUse \in Nat /\ pos[n] \in Nat
  BY <1>1, ChainFacts, TypesGive
<1>4. Used(n)
  BY <1>1, <1>2, <1>3 DEF Used, Reclaim, Frees
<1> QED
  BY <1>1, <1>3, <1>4, ChainFacts, LogFacts, Types DEF Carries

-------------------------------------------------------------------------------
(* Steps that leave alone a part of what the order depends on              *)

(* What is on its way to be freed, and what has been freed. *)
SameOrder ==
    /\ FirstInUse' = FirstInUse /\ UNCHANGED <<log, done>>
    /\ \A n \in Nodes : Carries(n)' <=> Carries(n)
    /\ \A n \in Nodes : Carries(n) => pos'[n] = pos[n] /\ data'[n] = data[n]
    /\ \A u \in Threads : pc[u] = "d_free" => pc'[u] = "d_free" /\ drop'[u] = drop[u]

LEMMA SameOrderStep ==
    ASSUME Carried, Prefix, SameOrder
    PROVE  Carried' /\ Prefix'
<1> USE DEF SameOrder
<1>1. Unfreed' = Unfreed
  BY DEF Unfreed
<1>2. \A n \in Nodes : Due(n) => Due(n)'
  BY DEF Due
<1>3. Prefix'
  BY DEF Prefix
<1>4. \A n \in Nodes : Carries(n)' =>
          /\ (pos[n] > FirstInUse \/ Due(n))'
          /\ (\E i \in Unfreed : log[i] = data[n])'
  BY <1>1, <1>2 DEF Carried
<1>5. \A i \in Unfreed : \E n \in Nodes : Carries(n)' /\ log[i] = data'[n]
  BY DEF Carried
<1>6. \A m, n \in Nodes : \A i, j \in Unfreed :
          /\ Carries(m)' /\ log[i] = data'[m]
          /\ Carries(n)' /\ log[j] = data'[n]
          /\ pos'[m] < pos'[n]
          => i < j
  BY DEF Carried
<1> QED
  BY <1>1, <1>3, <1>4, <1>5, <1>6 DEF Carried

(* What has been deferred, and what is about to be. *)
SameDeferred ==
    /\ log' = log
    /\ \A u \in Threads : arg'[u] = arg[u] /\ (At(u) = "a_end" => At(u)' = "a_end")

LEMMA SameDeferredStep ==
    ASSUME Deferred, SameDeferred
    PROVE  Deferred'
BY DEF Deferred, SameDeferred, Logged

(* The nodes that carry data, if none is added.                            *)
FewerCarry ==
    \A n \in Nodes : Carries(n)' => Carries(n) /\ pos'[n] = pos[n] /\ data'[n] = data[n]

(* The references that guard data, and the places of the nodes they are to. *)
Guarding(u) == \E d \in Data : u \in guard[d]
SameThreads ==
    /\ \A d \in Data : guard'[d] \subseteq guard[d]
    /\ \A u \in Threads : Guarding(u)' =>
          /\ u \in Holding' /\ ref'[u] = ref[u]
          /\ ref[u] = NULL => seq'[u] = seq[u]
    /\ \A n \in Nodes : Used(n) => pos'[n] = pos[n]

(* No number that was left before a node is left to it.                    *)
FromGrows == \A n \in Nodes : Carries(n) => From(n) <= From(n)'

LEMMA SameGuardsStep ==
    ASSUME TypeOK, TypeOK', IInv, OrderInv, FewerCarry, SameThreads, FromGrows
    PROVE  Guards'
<1> USE TypesGive, LogFacts
<1>1. \A d \in Data : guard'[d] \subseteq Holding'
  <2> SUFFICES ASSUME NEW d \in Data, NEW u \in guard'[d] PROVE u \in Holding'
    OBVIOUS
  <2>1. u \in Threads /\ u \in guard[d]
    BY DEF SameThreads
  <2>2. Guarding(u)'
    BY DEF Guarding
  <2> QED
    BY <2>1, <2>2 DEF SameThreads
<1>2. ASSUME NEW n \in Nodes, Carries(n)', NEW u \in guard'[data'[n]]
      PROVE  Precedes(u, n)'
  <2>1. Carries(n) /\ pos'[n] = pos[n] /\ data'[n] = data[n] /\ From(n) <= From(n)'
    BY <1>2 DEF FewerCarry, FromGrows
  <2>2. data[n] \in Data
    BY <2>1, CarriedInUse
  <2>3. u \in guard[data[n]] /\ u \in Threads /\ Guarding(u)'
    BY <2>1, <2>2, <1>2 DEF SameThreads, Guarding
  <2>4. Precedes(u, n)
    BY <2>1, <2>3 DEF OrderInv, Guards
  <2>5. ref'[u] = ref[u] /\ (ref[u] = NULL => seq'[u] = seq[u])
    BY <2>3 DEF SameThreads
  <2>6. CASE ref[u] # NULL
    <3>1. ref[u] \in Nodes /\ Used(ref[u])
      BY <2>3, <2>6, Types DEF IInv, Touch
    <3>2. pos'[ref[u]] = pos[ref[u]]
      BY <3>1 DEF SameThreads
    <3> QED
      BY <2>1, <2>4, <2>5, <2>6, <3>2 DEF Precedes
  <2>7. CASE ref[u] = NULL
    <3>1. seq[u] \in Nat /\ From(n) \in Nat /\ From(n)' \in Nat
      <4>1. Places /\ Links /\ Sequences
        BY DEF IInv
      <4>2. From(n) \in Nat
        BY <4>1, SequenceFacts
      <4>3. From(n)' \in Nat
        BY DEF TypeOK, ProxyType, NodeType, From, Upper
      <4> QED
        BY <2>3, <4>2, <4>3
    <3> QED
      BY <2>1, <2>4, <2>5, <2>7, <3>1 DEF Precedes
  <2> QED
    BY <2>6, <2>7
<1> QED
  BY <1>1, <1>2 DEF Guards

(* Who is about to write a sequence. *)
SameSetters ==
    \A u \in Threads :
        pc'[u] = "s_set" /\ Unset(u)' =>
            /\ pc[u] = "s_set" /\ Unset(u)
            /\ old'[u] = old[u] /\ next'[cur'[u]] = next[cur[u]]

LEMMA SameSettersStep ==
    ASSUME TypeOK, TypeOK', IInv, OrderInv, FewerCarry, SameThreads, SameSetters
    PROVE  \A u \in Threads : Leaves(u)'
<1> USE TypesGive, LogFacts
<1> SUFFICES ASSUME NEW u \in Threads, pc'[u] = "s_set", Unset(u)', Carries(next[cur[u]])',
                    NEW v \in guard'[data'[next'[cur'[u]]]], ref'[v] = NULL
             PROVE  seq'[v] <= old'[u]
  BY DEF Leaves
<1>1. /\ pc[u] = "s_set" /\ Unset(u) /\ old'[u] = old[u]
      /\ next'[cur'[u]] = next[cur[u]]
  BY DEF SameSetters
<1>2. PICK n \in Nodes : n = next[cur[u]]
  <2>1. Role(u) /\ Stage(u) /\ Setting(u)
    BY <1>1 DEF IInv, Setting
  <2>2. cur[u] \in Nodes /\ next[cur[u]] # NULL
    BY <2>1, Controls DEF Stage
  <2> QED
    BY <2>2, Types
<1>3. Carries(n) /\ data'[n] = data[n]
  <2>1. Carries(n)'
    BY <1>1, <1>2 DEF Carries
  <2> QED
    BY <2>1 DEF FewerCarry
<1>4. data[n] \in Data
  BY <1>3, CarriedInUse
<1>5. v \in Threads /\ v \in guard[data[n]] /\ Guarding(v)'
  BY <1>1, <1>2, <1>3, <1>4 DEF SameThreads, Guarding
<1>6. ref[v] = NULL /\ seq'[v] = seq[v]
  BY <1>5 DEF SameThreads
<1>7. seq[v] <= old[u]
  BY <1>1, <1>2, <1>3, <1>5, <1>6 DEF OrderInv, Leaves
<1> QED
  BY <1>1, <1>6, <1>7

-------------------------------------------------------------------------------
(* Which steps these are                                                   *)

(* A node is linked to the chain. *)
Linking(t) == AddTry(t) /\ Near(lat[t]) /\ next[cur[t]] = NULL

(* The other steps that write data or take a node off the chain do this to *)
(* a node that carries nothing.                                            *)
LEMMA SameOrderActions ==
    ASSUME TypeOK, TypeOK', IInv, OrderInv, NEW t \in Threads, Others(t),
           Enter(t) \/ Step(t),
           ~Linking(t), ~DropStore(t), ~DropFree(t)
    PROVE  SameOrder
<1> USE TypesGive, LogFacts
<1>0. /\ Places /\ Links /\ Role(t) /\ Caller(t) /\ Owner(t)
      /\ Stage(t) /\ Walk(t) /\ Touch(t) /\ Reclaim(t) /\ Pop(t)
      /\ pos \in [Nodes -> Nat] /\ data \in [Nodes -> DataOrNull]
  BY DEF IInv, Owners, TypeOK, HistoryType, NodeType
<1>1. ASSUME pc[t] # "d_free", UNCHANGED <<freeTail, log, done>>,
             \A n \in Nodes : Carries(n) \/ n = freeTail => pos'[n] = pos[n],
             \A n \in Nodes : Carries(n) => data'[n] = data[n],
             \A n \in Nodes : Carries(n)' => Carries(n)
      PROVE  SameOrder
  <2>1. FirstInUse' = FirstInUse
    BY <1>1 DEF FirstInUse
  <2>2. \A n \in Nodes : Carries(n)' <=> Carries(n)
    BY <1>1 DEF Carries
  <2>3. \A u \in Threads : pc[u] = "d_free" => pc'[u] = "d_free" /\ drop'[u] = drop[u]
    BY <1>1 DEF Others
  <2> QED
    BY <1>1, <2>1, <2>2, <2>3 DEF SameOrder
<1>2. ASSUME pc[t] # "d_free", UNCHANGED <<freeTail, log, done, pos, data>>
      PROVE  SameOrder
  BY <1>1, <1>2 DEF Carries
<1>3. CASE Enter(t)
  BY <1>2, <1>3 DEF Enter, GetCall, DropCall, DeferCall, TrimCall, Call,
      proxyVars, nodeVars, historyVars
<1>4. CASE Get(t)
  BY <1>2, <1>4 DEF Get, GetLoadSeq, GetLoadTail, GetCas, GetTest, GetCompare,
      proxyVars, nodeVars, historyVars
<1>5. CASE Set(t)
  BY <1>2, <1>5 DEF Set, SetLoad, SetCas, SetPrev, SetCount, SetTail,
      proxyVars, nodeVars, historyVars
<1>6. CASE Drop(t)
  BY <1>2, <1>6 DEF Drop, DropSub, DropNext, proxyVars, nodeVars, historyVars
<1>7. CASE New(t)
  <2>1. CASE NewCas(t)
    <3>1. CASE pos' = pos
      BY <1>2, <2>1, <3>1 DEF NewCas, nodeVars
    <3>2. CASE freeHead = free[t] /\ pos' = [pos EXCEPT ![free[t]] = 0]
      <4>1. pos[freeHead] < pos[freeTail]
        <5>1. pc[t] = "n_cas"
          BY <2>1 DEF NewCas
        <5> QED
          BY <1>0, <3>2, <5>1, ThreadFacts
      <4>2. ~Carries(freeHead)
        <5>1. pos[freeHead] < FirstInUse
          BY <4>1, Consts DEF FirstInUse
        <5> QED
          BY <5>1, <1>0, CarriedInUse, ChainFacts DEF Used
      <4>3. \A n \in Nodes : n # freeHead => pos'[n] = pos[n]
        BY <1>0, <3>2
      <4>4. pos'[freeHead] = 0
        BY <1>0, <3>2
      <4>5. /\ pc[t] # "d_free" /\ UNCHANGED <<freeTail, log, done, data>>
        BY <2>1 DEF NewCas, nodeVars
      <4>6. freeTail # freeHead
        BY <4>1
      <4>7. \A n \in Nodes : Carries(n)' => Carries(n)
        <5> SUFFICES ASSUME NEW n \in Nodes, Carries(n)' PROVE Carries(n)
          OBVIOUS
        <5>1. n # freeHead
          BY <4>4 DEF Carries
        <5> QED
          BY <4>3, <4>5, <5>1 DEF Carries
      <4> QED
        BY <1>1, <4>2, <4>3, <4>5, <4>6, <4>7
    <3> QED
      BY <2>1, <3>1, <3>2 DEF NewCas
  <2>2. CASE NewInit(t)
    <3>1. pc[t] = "n_init" /\ data' = [data EXCEPT ![node[t]] = arg[t]]
          /\ UNCHANGED <<freeTail, log, done, pos>>
      BY <2>2 DEF NewInit, proxyVars, historyVars
    <3>2. node[t] # NULL /\ pos[node[t]] = 0
      BY <1>0, <3>1 DEF Caller, Owner, Owns, At, Setting, Dropping, Adds
    <3>3. \A n \in Nodes : pos[n] > 0 => data'[n] = data[n]
      BY <1>0, <3>1, <3>2
    <3> QED
      BY <1>1, <3>1, <3>3 DEF Carries
  <2>3. CASE NewLoad(t) \/ NewTest(t) \/ NewRead(t) \/ NewCount(t) \/ NewAlloc(t)
    BY <1>2, <2>3 DEF NewLoad, NewTest, NewRead, NewCount, NewAlloc,
        proxyVars, nodeVars, historyVars
  <2> QED
    BY <1>7, <2>1, <2>2, <2>3 DEF New
<1>8. CASE Add(t)
  BY <1>2, <1>8 DEF Add, AddTry, AddMore, AddEnd, Linking, proxyVars, nodeVars, historyVars
<1>9. CASE Trim(t) \/ Backoff(t)
  BY <1>2, <1>9 DEF Trim, TrimFree, TrimDec, Backoff, proxyVars, nodeVars, historyVars
<1> QED
  BY <1>3, <1>4, <1>5, <1>6, <1>7, <1>8, <1>9 DEF Step

(* A thread that has linked its node stays at that until it ends its call. *)
LEMMA SameDeferredActions ==
    ASSUME TypeOK, TypeOK', IInv, NEW t \in Threads, Others(t),
           Enter(t) \/ Step(t),
           ~Linking(t), ~AddEnd(t), ~DeferCall(t)
    PROVE  SameDeferred
<1>0. /\ Role(t) /\ Stage(t) /\ ClientType /\ LocalType
  BY DEF IInv, TypeOK
<1>1. log' = log /\ arg'[t] = arg[t]
  <2>1. CASE Enter(t)
    BY <2>1 DEF Enter, GetCall, DropCall, TrimCall, historyVars, newVars
  <2>2. CASE Get(t)
    BY <2>2 DEF Get, GetLoadSeq, GetLoadTail, GetCas, GetTest, GetCompare, historyVars, newVars
  <2>3. CASE Set(t)
    BY <2>3 DEF Set, SetLoad, SetCas, SetPrev, SetCount, SetTail, historyVars, localVars, newVars
  <2>4. CASE Drop(t)
    BY <2>4 DEF Drop, DropSub, DropNext, DropStore, DropFree, historyVars, localVars, newVars
  <2>5. CASE New(t)
    BY <2>5 DEF New, NewLoad, NewTest, NewRead, NewCas, NewCount, NewAlloc, NewInit,
        historyVars, newVars
  <2>6. CASE Add(t)
    BY <2>6 DEF Add, AddTry, AddMore, Linking, historyVars, newVars
  <2>7. CASE Trim(t) \/ Backoff(t)
    BY <2>7 DEF Trim, TrimFree, TrimDec, Backoff, historyVars, localVars, newVars
  <2> QED
    BY <2>1, <2>2, <2>3, <2>4, <2>5, <2>6, <2>7 DEF Step
<1>2. ASSUME At(t) = "a_end" PROVE At(t)' = "a_end"
  <2>1. \/ pc[t] = "a_end"
        \/ (Setting(t) \/ Dropping(t)) /\ ret[t] = "a_end"
    BY <1>2 DEF At
  <2>2. CASE pc[t] = "a_end"
    <3>1. AddEnd(t)
      BY <2>2 DEF Enter, GetCall, DropCall, DeferCall, TrimCall, Call,
          Step, Get, GetLoadSeq, GetLoadTail, GetCas, GetTest, GetCompare,
          Set, SetLoad, SetCas, SetPrev, SetCount, SetTail,
          Drop, DropSub, DropNext, DropStore, DropFree,
          New, NewLoad, NewTest, NewRead, NewCas, NewCount, NewAlloc, NewInit,
          Add, AddTry, AddMore, Trim, TrimFree, TrimDec, Backoff
    <3> QED
      BY <3>1
  <2>3. CASE Setting(t) /\ ret[t] = "a_end"
    <3>1. Set(t)
      BY <2>3 DEF Setting, Enter, GetCall, DropCall, DeferCall, TrimCall, Call,
          Step, Get, GetLoadSeq, GetLoadTail, GetCas, GetTest, GetCompare,
          Drop, DropSub, DropNext, DropStore, DropFree,
          New, NewLoad, NewTest, NewRead, NewCas, NewCount, NewAlloc, NewInit,
          Add, AddTry, AddMore, AddEnd, Trim, TrimFree, TrimDec, Backoff
    <3> QED
      BY <1>0, <2>3, <3>1 DEF Set, SetLoad, SetCas, SetPrev, SetCount, SetTail, Goto, At, Setting,
          Dropping, localVars, getVars, ClientType
  <2>4. CASE Dropping(t) /\ ret[t] = "a_end"
    <3>1. Drop(t)
      BY <2>4 DEF Dropping, Enter, GetCall, DropCall, DeferCall, TrimCall, Call,
          Step, Get, GetLoadSeq, GetLoadTail, GetCas, GetTest, GetCompare,
          Set, SetLoad, SetCas, SetPrev, SetCount, SetTail,
          New, NewLoad, NewTest, NewRead, NewCas, NewCount, NewAlloc, NewInit,
          Add, AddTry, AddMore, AddEnd, Trim, TrimFree, TrimDec, Backoff
    <3> QED
      BY <1>0, <2>4, <3>1 DEF Drop, DropSub, DropNext, DropStore, DropFree, Goto, At, Setting,
          Dropping, localVars, ClientType
  <2> QED
    BY <2>1, <2>2, <2>3, <2>4
<1>3. \A u \in Threads \ {t} : arg'[u] = arg[u] /\ At(u)' = At(u)
  BY DEF Others, At, Setting, Dropping
<1> QED
  BY <1>1, <1>2, <1>3 DEF SameDeferred

(* A client's reference is found. *)
Finding(t) ==
    /\ use[t] = "hold"
    /\ \/ GetTest(t) /\ next[cur[t]] = NULL
       \/ GetCompare(t) /\ Belongs(t)

(* What a client holds changes when it has found a reference and when it   *)
(* gives it back; then it is taken out of what it guards.                  *)
LEMMA SameThreadsActions ==
    ASSUME TypeOK, TypeOK', IInv, OrderInv, NEW t \in Threads, Others(t),
           Enter(t) \/ Step(t), ~Linking(t), ~Finding(t)
    PROVE  SameThreads
<1> USE TypesGive, LogFacts
<1>0. /\ Places /\ Links /\ Role(t) /\ Caller(t)
      /\ Stage(t) /\ Walk(t) /\ Touch(t) /\ Reclaim(t) /\ Pop(t)
      /\ pos \in [Nodes -> Nat] /\ ClientType /\ LocalType
      /\ guard \in [Data -> SUBSET Threads]
  BY DEF IInv, TypeOK, HistoryType
<1>1. \A u \in Threads : Guarding(u) => u \in Holding
  BY DEF Guarding, OrderInv, Guards
<1>2. ASSUME \A d \in Data : guard'[d] \subseteq guard[d],
             Guarding(t)' => t \in Holding',
             Guarding(t)' => ref'[t] = ref[t] /\ (ref[t] = NULL => seq'[t] = seq[t]),
             \A n \in Nodes : Used(n) => pos'[n] = pos[n]
      PROVE  SameThreads
  <2>1. \A u \in Threads \ {t} : Guarding(u)' =>
            u \in Holding' /\ ref'[u] = ref[u] /\ seq'[u] = seq[u]
    <3> SUFFICES ASSUME NEW u \in Threads \ {t}, Guarding(u)'
                 PROVE  u \in Holding' /\ ref'[u] = ref[u] /\ seq'[u] = seq[u]
      OBVIOUS
    <3>1. Guarding(u)
      BY <1>2 DEF Guarding
    <3>2. u \in Holding
      BY <1>1, <3>1
    <3>3. ref'[u] = ref[u] /\ seq'[u] = seq[u] /\ use'[u] = use[u]
      BY DEF Others
    <3> QED
      BY <3>2, <3>3 DEF Holding
  <2> QED
    BY <1>2, <2>1 DEF SameThreads
<1>3. ASSUME guard' = guard, pos' = pos, ref'[t] = ref[t], use'[t] = use[t], seq'[t] = seq[t]
      PROVE  SameThreads
  <2>1. Guarding(t)' => t \in Holding
    BY <1>1, <1>3 DEF Guarding
  <2>2. Guarding(t)' => t \in Holding'
    BY <1>3, <2>1 DEF Holding
  <2> QED
    BY <1>2, <1>3, <2>2
<1>4. CASE Enter(t)
  <2>1. pc[t] = "idle" /\ seq[t] = 0 /\ pos' = pos
    <3>1. pc[t] = "idle" /\ pos' = pos
      BY <1>4 DEF Enter, GetCall, DropCall, DeferCall, TrimCall, Call, historyVars
    <3> QED
      BY <1>0, <3>1, Controls
  <2>2. Guarding(t) => ref[t] # NULL
    BY <1>1, <2>1 DEF Holding
  <2>3. CASE DropCall(t)
    <3>1. guard' = [d \in Data |-> guard[d] \ {t}]
      BY <2>3 DEF DropCall
    <3>2. ~Guarding(t)' /\ \A d \in Data : guard'[d] \subseteq guard[d]
      BY <3>1 DEF Guarding
    <3> QED
      BY <1>2, <2>1, <3>2
  <2>4. CASE GetCall(t) \/ DeferCall(t) \/ TrimCall(t)
    <3>1. guard' = guard /\ ref' = ref
      BY <2>4 DEF GetCall, DeferCall, TrimCall, historyVars
    <3>2. Guarding(t)' => ref[t] # NULL
      BY <2>2, <3>1 DEF Guarding
    <3>3. Guarding(t)' => t \in Holding'
      BY <3>1, <3>2 DEF Holding
    <3> QED
      BY <1>2, <2>1, <3>1, <3>2, <3>3
  <2> QED
    BY <1>4, <2>3, <2>4 DEF Enter
<1>5. CASE Get(t)
  <2>1. guard' = guard /\ pos' = pos /\ use' = use
    BY <1>5 DEF Get, GetLoadSeq, GetLoadTail, GetCas, GetTest, GetCompare, historyVars
  <2>2. CASE GetCas(t)
    <3>1. pc[t] = "g_cas" /\ ref' = ref
      BY <2>2 DEF GetCas, clientVars
    <3>2. seq[t] = 0
      BY <1>0, <3>1, Controls
    <3>3. Guarding(t)' => ref[t] # NULL
      BY <1>1, <2>1, <3>2 DEF Guarding, Holding
    <3>4. Guarding(t)' => t \in Holding'
      BY <3>1, <3>3 DEF Holding
    <3> QED
      BY <1>2, <2>1, <3>1, <3>3, <3>4
  <2>3. CASE (GetTest(t) /\ next[cur[t]] = NULL) \/ (GetCompare(t) /\ Belongs(t))
    <3>1. use[t] # "hold"
      BY <2>3 DEF Finding
    <3>2. ref' = ref
      BY <2>3, <3>1 DEF GetTest, GetCompare, GetReturn
    <3>3. Guarding(t)' => ref[t] # NULL
      BY <1>1, <2>1, <3>1 DEF Guarding, Holding
    <3>4. Guarding(t)' => t \in Holding'
      BY <3>2, <3>3 DEF Holding
    <3> QED
      BY <1>2, <2>1, <3>2, <3>3, <3>4
  <2>4. CASE GetLoadSeq(t) \/ GetLoadTail(t) \/ (GetTest(t) /\ next[cur[t]] # NULL)
                \/ (GetCompare(t) /\ ~Belongs(t))
    <3>1. ref' = ref /\ seq' = seq
      BY <2>4 DEF GetLoadSeq, GetLoadTail, GetTest, GetCompare, clientVars
    <3> QED
      BY <1>3, <2>1, <3>1
  <2> QED
    BY <1>5, <2>2, <2>3, <2>4 DEF Get
<1>6. CASE Set(t)
  BY <1>3, <1>6 DEF Set, SetLoad, SetCas, SetPrev, SetCount, SetTail,
      historyVars, clientVars, localVars, getVars
<1>7. CASE Drop(t)
  BY <1>3, <1>7 DEF Drop, DropSub, DropNext, DropStore, DropFree,
      historyVars, clientVars, localVars, getVars
<1>8. CASE New(t)
  <2>1. guard' = guard /\ ref'[t] = ref[t] /\ use'[t] = use[t] /\ seq'[t] = seq[t]
    BY <1>8 DEF New, NewLoad, NewTest, NewRead, NewCas, NewCount, NewAlloc, NewInit,
        historyVars, clientVars, getVars
  <2>2. CASE pos' = pos
    BY <1>3, <2>1, <2>2
  <2>3. CASE pos' # pos
    <3>1. NewCas(t)
      BY <1>8, <2>3 DEF New, NewLoad, NewTest, NewRead, NewCount, NewAlloc, NewInit, historyVars
    <3>2. freeHead = free[t] /\ pc[t] = "n_cas" /\ pos' = [pos EXCEPT ![free[t]] = 0]
      BY <2>3, <3>1 DEF NewCas
    <3>3. pos[freeHead] < FirstInUse
      <4>1. pos[freeHead] < pos[freeTail]
        BY <1>0, <3>2, ThreadFacts
      <4> QED
        BY <4>1, Consts DEF FirstInUse
    <3>4. \A n \in Nodes : Used(n) => pos'[n] = pos[n]
      <4>1. FirstInUse \in Nat
        BY <1>0, ChainFacts
      <4>2. \A n \in Nodes : Used(n) => n # freeHead
        BY <3>3, <4>1 DEF Used
      <4> QED
        BY <1>0, <3>2, <4>2
    <3>5. Guarding(t)' => t \in Holding
      BY <1>1, <2>1 DEF Guarding
    <3>6. Guarding(t)' => t \in Holding'
      BY <2>1, <3>5 DEF Holding
    <3> QED
      BY <1>2, <2>1, <3>4, <3>6
  <2> QED
    BY <2>2, <2>3
<1>9. CASE Add(t)
  BY <1>3, <1>9 DEF Add, AddTry, AddMore, AddEnd, Linking, DropOwn,
      historyVars, clientVars, getVars
<1>10. CASE Trim(t) \/ Backoff(t)
  BY <1>3, <1>10 DEF Trim, TrimFree, TrimDec, Backoff,
      historyVars, clientVars, localVars, getVars
<1> QED
  BY <1>4, <1>5, <1>6, <1>7, <1>8, <1>9, <1>10 DEF Step

(* A sequence is written. *)
Writing(t) == SetCas(t) /\ Unset(t)

(* Only a sequence that is written may leave numbers to a node that were   *)
(* left before it; a previous sequence is copied from where it was read.   *)
LEMMA FromGrowsActions ==
    ASSUME TypeOK, TypeOK', IInv, OrderInv, NEW t \in Threads,
           Enter(t) \/ Step(t), ~Writing(t)
    PROVE  FromGrows
<1> USE TypesGive, LogFacts
<1>0. /\ Places /\ Links /\ Sequences /\ Role(t) /\ Caller(t) /\ Owner(t)
      /\ Stage(t) /\ Walk(t)
      /\ nodeSeq \in [Nodes -> Nat] /\ prevSeq \in [Nodes -> Nat]
  BY DEF IInv, Owners, TypeOK, NodeType
<1>c. /\ tail \in Nodes /\ pos[tail] \in Nat /\ pos[tail] > 0
      /\ \A n \in Nodes : pos[n] \in Nat
      /\ \A n \in Nodes : pos[n] = pos[tail] => n = tail
      /\ \A n \in Nodes : pos[n] > pos[tail] => n = next[tail]
  <2>1. FirstInUse \in Nat /\ 0 < pos[freeTail] /\ FirstInUse <= pos[tail]
    BY <1>0, ChainFacts
  <2>2. pos[tail] > 0
    BY <1>0, <2>1, Consts DEF FirstInUse
  <2> QED
    BY <1>0, <2>2, ChainFacts
<1>1. \A n \in Nodes : From(n) \in Nat
  BY <1>0, SequenceFacts
<1>2. ASSUME UNCHANGED <<sequence, tail, nodeSeq, prevSeq>>
      PROVE  FromGrows
  <2>1. \A n \in Nodes : From(n)' = From(n)
    BY <1>2 DEF From, Upper
  <2> QED
    BY <1>1, <2>1 DEF FromGrows
<1>3. CASE Enter(t)
  BY <1>2, <1>3 DEF Enter, GetCall, DropCall, DeferCall, TrimCall, proxyVars, nodeVars
<1>4. CASE GetCas(t)
  <2>1. UNCHANGED <<tail, nodeSeq, prevSeq>> /\ sequence <= sequence'
    BY <1>4 DEF GetCas, nodeVars, REFERENCE
  <2>2. sequence' \in Nat
    BY DEF TypeOK, ProxyType
  <2>3. \A n \in Nodes : From(n) <= From(n)'
    BY <1>1, <2>1, <2>2 DEF From, Upper
  <2> QED
    BY <2>3 DEF FromGrows
<1>5. CASE GetLoadSeq(t) \/ GetLoadTail(t) \/ GetTest(t) \/ GetCompare(t)
  BY <1>2, <1>5 DEF GetLoadSeq, GetLoadTail, GetTest, GetCompare, proxyVars, nodeVars
<1>6. CASE SetPrev(t)
  <2>1. /\ pc[t] = "s_prev" /\ UNCHANGED <<sequence, tail, nodeSeq>>
        /\ prevSeq' = [prevSeq EXCEPT ![next[cur[t]]] = nodeSeq[cur[t]]]
    BY <1>6 DEF SetPrev, proxyVars
  <2>2. PICK c, m \in Nodes : /\ c = cur[t] /\ m = next[c] /\ nodeSeq[c] # 0
                              /\ Real(c) /\ pos[c] <= pos[tail]
    <3>1. Setting(t)
      BY <2>1 DEF Setting
    <3>2. cur[t] \in Nodes /\ Looking(t) /\ next[cur[t]] # NULL /\ nodeSeq[cur[t]] # 0
      BY <1>0, <2>1, <3>1, Consts, Controls DEF Stage
    <3> QED
      BY <1>0, <3>2, Types DEF Walk
  <2>3. From(m) = nodeSeq[c]
    <3>1. CASE c = tail
      BY <1>0, <2>2, <3>1, Types DEF Sequences, From, Upper
    <3>2. CASE c # tail
      <4>1. pos[c] < pos[tail]
        BY <1>c, <2>2, <3>2
      <4>2. prevSeq[m] = nodeSeq[c]
        BY <1>0, <2>2, <4>1 DEF Sequences, Settled, Passed
      <4> QED
        BY <2>2, <4>2 DEF From
    <3> QED
      BY <3>1, <3>2
  <2>4. From(m)' = nodeSeq[c]
    BY <1>0, <2>1, <2>2 DEF From
  <2>5. \A n \in Nodes : n # m => From(n)' = From(n)
    BY <1>0, <2>1, <2>2 DEF From, Upper
  <2>6. \A n \in Nodes : From(n) <= From(n)'
    <3> SUFFICES ASSUME NEW n \in Nodes PROVE From(n) <= From(n)'
      OBVIOUS
    <3>1. From(n)' = From(n)
      <4>1. CASE n = m
        BY <2>3, <2>4, <4>1
      <4>2. CASE n # m
        BY <2>5, <4>2
      <4> QED
        BY <4>1, <4>2
    <3>2. From(n) \in Nat
      BY <1>1
    <3> QED
      BY <3>1, <3>2
  <2> QED
    BY <2>6 DEF FromGrows
<1>7. CASE SetTail(t)
  <2>1. UNCHANGED <<sequence, nodeSeq, prevSeq>> /\ pc[t] = "s_tail"
    BY <1>7 DEF SetTail, nodeVars
  <2>2. CASE tail' = tail
    BY <1>2, <2>1, <2>2
  <2>3. CASE tail' # tail
    <3>1. tail = cur[t] /\ next[tail] # NULL /\ prevSeq[next[tail]] # 0
      BY <1>0, <1>7, <2>1, <2>3 DEF SetTail, Swings, Stage, Passed, Setting
    <3>2. \A n \in Nodes : Carries(n) => prevSeq[n] # 0
      <4> SUFFICES ASSUME NEW n \in Nodes, Carries(n) PROVE prevSeq[n] # 0
        OBVIOUS
      <4>1. Real(n)
        BY CarriedInUse
      <4>2. pos[n] <= pos[tail] \/ n = next[tail]
        BY <1>c
      <4> QED
        BY <1>0, <3>1, <4>1, <4>2 DEF Sequences
    <3>3. \A n \in Nodes : Carries(n) => From(n)' = From(n)
      BY <2>1, <3>2 DEF From
    <3> QED
      BY <1>1, <3>3 DEF FromGrows
  <2> QED
    BY <2>2, <2>3
<1>8. CASE SetLoad(t) \/ SetCount(t) \/ (SetCas(t) /\ ~Unset(t))
  BY <1>2, <1>8 DEF SetLoad, SetCount, SetCas, proxyVars, nodeVars
<1>9. CASE Drop(t)
  BY <1>2, <1>9 DEF Drop, DropSub, DropNext, DropStore, DropFree, proxyVars, nodeVars
<1>10. CASE NewInit(t)
  <2>1. /\ pc[t] = "n_init" /\ UNCHANGED <<sequence, tail>>
        /\ nodeSeq' = [nodeSeq EXCEPT ![node[t]] = 0]
        /\ prevSeq' = [prevSeq EXCEPT ![node[t]] = 0]
    BY <1>10 DEF NewInit, proxyVars
  <2>2. node[t] # NULL /\ pos[node[t]] = 0
    BY <1>0, <2>1 DEF Caller, Owner, Owns, At, Setting, Dropping, Adds
  <2>3. \A n \in Nodes : pos[n] > 0 => nodeSeq'[n] = nodeSeq[n] /\ prevSeq'[n] = prevSeq[n]
    BY <1>0, <2>1, <2>2
  <2>4. pos[tail] > 0
    BY <1>c
  <2>5. \A n \in Nodes : Carries(n) => From(n)' = From(n)
    BY <2>1, <2>3, <2>4 DEF Carries, From, Upper
  <2> QED
    BY <1>1, <2>5 DEF FromGrows
<1>11. CASE New(t) /\ ~NewInit(t)
  BY <1>2, <1>11 DEF New, NewLoad, NewTest, NewRead, NewCas, NewCount, NewAlloc,
      proxyVars, nodeVars
<1>12. CASE Add(t)
  BY <1>2, <1>12 DEF Add, AddTry, AddMore, AddEnd, proxyVars, nodeVars
<1>13. CASE Trim(t) \/ Backoff(t)
  BY <1>2, <1>13 DEF Trim, TrimFree, TrimDec, Backoff, proxyVars, nodeVars
<1> QED
  BY <1>3, <1>4, <1>5, <1>6, <1>7, <1>8, <1>9, <1>10, <1>11, <1>12, <1>13
     DEF Step, Get, Set, Writing

(* Nobody comes to the point of writing a sequence but by loading it.      *)
LEMMA SameSettersActions ==
    ASSUME TypeOK, TypeOK', IInv, NEW t \in Threads, Others(t),
           Enter(t) \/ Step(t), ~Linking(t), ~SetLoad(t)
    PROVE  SameSetters
<1> USE TypesGive
<1>0. /\ Places /\ Links /\ Role(t) /\ Caller(t) /\ Owner(t) /\ ClientType
      /\ nodeSeq \in [Nodes -> Nat] /\ next \in [Nodes -> NodeOrNull]
      /\ pc \in [Threads -> PCs] /\ Stage(t)
  BY DEF IInv, Owners, TypeOK, NodeType, ClientType
<1>1. pc'[t] # "s_set"
  <2>1. CASE Enter(t)
    BY <1>0, <2>1 DEF Enter, GetCall, DropCall, DeferCall, TrimCall, TrimLoop, Goto
  <2>2. CASE Get(t)
    BY <1>0, <2>2 DEF Get, GetLoadSeq, GetLoadTail, GetCas, GetTest, GetCompare, GetReturn, Goto
  <2>3. CASE Set(t)
    BY <1>0, <2>3 DEF Set, SetCas, SetPrev, SetCount, SetTail, Goto, Role, Setting, ClientType
  <2>4. CASE Drop(t)
    BY <1>0, <2>4 DEF Drop, DropSub, DropNext, DropStore, DropFree, Goto, ClientType
  <2>5. CASE New(t)
    BY <1>0, <2>5 DEF New, NewLoad, NewTest, NewRead, NewCas, NewCount, NewAlloc, NewInit,
        DropOwn, Goto
  <2>6. CASE Add(t)
    BY <1>0, <2>6 DEF Add, AddTry, AddMore, AddEnd, Linking, DropOwn, Goto
  <2>7. CASE Trim(t) \/ Backoff(t)
    BY <1>0, <2>7 DEF Trim, TrimFree, TrimDec, TrimLoop, Backoff, Goto
  <2> QED
    BY <2>1, <2>2, <2>3, <2>4, <2>5, <2>6, <2>7 DEF Step
<1>2. \A n \in Nodes : pos[n] > 0 => next'[n] = next[n] /\ (nodeSeq'[n] = 0 => nodeSeq[n] = 0)
  <2>1. CASE NewInit(t)
    <3>1. /\ pc[t] = "n_init" /\ next' = [next EXCEPT ![node[t]] = NULL]
          /\ nodeSeq' = [nodeSeq EXCEPT ![node[t]] = 0]
      BY <2>1 DEF NewInit
    <3>2. node[t] # NULL /\ pos[node[t]] = 0
      BY <1>0, <3>1 DEF Caller, Owner, Owns, At, Setting, Dropping, Adds
    <3> QED
      BY <1>0, <3>1, <3>2
  <2>2. CASE SetCas(t)
    <3>1. next' = next
      BY <2>2 DEF SetCas
    <3>2. nodeSeq' = nodeSeq
          \/ (nodeSeq[cur[t]] = 0 /\ nodeSeq' = [nodeSeq EXCEPT ![cur[t]] = old[t]])
      BY <2>2 DEF SetCas, Unset
    <3> QED
      BY <1>0, <3>1, <3>2
  <2>3. CASE ~NewInit(t) /\ ~SetCas(t)
    <3>1. UNCHANGED <<next, nodeSeq>>
      <4>1. CASE Enter(t)
        BY <4>1 DEF Enter, GetCall, DropCall, DeferCall, TrimCall, nodeVars
      <4>2. CASE Get(t)
        BY <4>2 DEF Get, GetLoadSeq, GetLoadTail, GetCas, GetTest, GetCompare, nodeVars
      <4>3. CASE Set(t)
        BY <2>3, <4>3 DEF Set, SetPrev, SetCount, SetTail, nodeVars
      <4>4. CASE Drop(t)
        BY <4>4 DEF Drop, DropSub, DropNext, DropStore, DropFree, nodeVars
      <4>5. CASE New(t)
        BY <2>3, <4>5 DEF New, NewLoad, NewTest, NewRead, NewCas, NewCount, NewAlloc, nodeVars
      <4>6. CASE Add(t)
        BY <4>6 DEF Add, AddTry, AddMore, AddEnd, Linking, nodeVars
      <4>7. CASE Trim(t) \/ Backoff(t)
        BY <4>7 DEF Trim, TrimFree, TrimDec, Backoff, nodeVars
      <4> QED
        BY <4>1, <4>2, <4>3, <4>4, <4>5, <4>6, <4>7 DEF Step
    <3> QED
      BY <3>1
  <2> QED
    BY <2>1, <2>2, <2>3
<1>3. ASSUME NEW u \in Threads, pc'[u] = "s_set", Unset(u)'
      PROVE  /\ pc[u] = "s_set" /\ Unset(u)
             /\ old'[u] = old[u] /\ next'[cur'[u]] = next[cur[u]]
  <2>1. u # t
    BY <1>1, <1>3
  <2>2. pc[u] = "s_set" /\ old'[u] = old[u] /\ cur'[u] = cur[u]
    BY <1>3, <2>1 DEF Others
  <2>3. cur[u] \in Nodes /\ pos[cur[u]] > 0
    <3>1. Role(u) /\ Walk(u)
      BY DEF IInv
    <3>2. cur[u] \in Nodes /\ Looking(u)
      BY <2>2, <3>1, Types, Controls DEF Setting, Looking
    <3> QED
      BY <3>1, <3>2, Consts DEF Walk, Real
  <2> QED
    BY <1>2, <1>3, <2>2, <2>3 DEF Unset
<1> QED
  BY <1>3 DEF SameSetters

-------------------------------------------------------------------------------
(* The other steps, one by one                                             *)

(* A client that has found its node is before what its number was before.  *)
LEMMA FindingKept ==
    ASSUME TypeOK, TypeOK', IInv, OrderInv, NEW t \in Threads, Others(t), Finding(t),
           FewerCarry, SameSetters
    PROVE  Guards' /\ \A u \in Threads : Leaves(u)'
<1> USE TypesGive, LogFacts
<1>0. /\ Places /\ Links /\ Sequences /\ Role(t) /\ Caller(t) /\ Stage(t) /\ Walk(t)
      /\ pos \in [Nodes -> Nat] /\ ClientType /\ LocalType
  BY DEF IInv, TypeOK, HistoryType
<1>1. /\ pc[t] \in {"g_test", "g_cmp"} /\ use[t] = "hold"
      /\ ref'[t] = cur[t] /\ UNCHANGED <<guard, pos, sequence, tail, nodeSeq, prevSeq>>
  BY <1>0 DEF Finding, GetTest, GetCompare, GetReturn, ClientType, historyVars, proxyVars, nodeVars
<1>2. cur[t] \in Nodes /\ seq[t] # 0 /\ Looking(t)
  BY <1>0, <1>1, Controls DEF Seeks
<1>3. ref[t] = NULL
  <2>1. At(t) # "idle"
    BY <1>1 DEF At, Setting, Dropping
  <2> QED
    BY <1>0, <1>1, <2>1 DEF Caller
<1>4. Used(cur[t]) /\ Has(t, cur[t])
  <2>1. next[cur[t]] = NULL \/ (pc[t] = "g_cmp" /\ Belongs(t))
    BY DEF Finding, GetCompare
  <2> QED
    BY <1>0, <1>2, <2>1, Arrived
<1>5. ASSUME NEW n \in Nodes, Carries(n), seq[t] <= From(n)
      PROVE  pos[cur[t]] < pos[n]
  <2>1. Real(n) /\ Used(n)
    BY <1>5, CarriedInUse
  <2>2. From(n) \in Nat /\ Upper(n) \in Nat /\ From(n) <= Upper(n) /\ From(cur[t]) \in Nat
    BY <1>0, <1>2, <2>1, SequenceFacts
  <2>3. From(cur[t]) < seq[t]
    BY <1>4 DEF Has
  <2>4. n # cur[t]
    BY <1>2, <1>5, <2>2, <2>3
  <2>5. ~(pos[n] < pos[cur[t]])
    <3>1. pos[n] < pos[cur[t]] => Upper(n) <= From(cur[t])
      BY <1>0, <1>2, <2>1 DEF Sequences
    <3> QED
      BY <1>2, <1>5, <2>2, <2>3, <3>1
  <2>6. pos[n] # pos[cur[t]]
    BY <1>0, <1>2, <1>5, <2>4 DEF Places, Carries
  <2> QED
    BY <1>2, <2>5, <2>6
<1>6. \A d \in Data : guard'[d] \subseteq Holding'
  <2> SUFFICES ASSUME NEW d \in Data, NEW u \in guard[d] PROVE u \in Holding'
    BY <1>1
  <2>1. u \in Threads /\ u \in Holding
    BY DEF OrderInv, Guards
  <2>2. CASE u = t
    BY <1>1, <1>2, <2>2, Types DEF Holding
  <2>3. CASE u # t
    BY <2>1, <2>3 DEF Holding, Others
  <2> QED
    BY <2>2, <2>3
<1>7. ASSUME NEW n \in Nodes, Carries(n)', NEW u \in guard'[data'[n]]
      PROVE  Precedes(u, n)'
  <2>1. Carries(n) /\ data'[n] = data[n] /\ data[n] \in Data
    BY <1>7, CarriedInUse DEF FewerCarry
  <2>2. u \in guard[data[n]] /\ u \in Threads
    BY <1>1, <1>7, <2>1
  <2>3. Precedes(u, n)
    BY <2>1, <2>2 DEF OrderInv, Guards
  <2>4. From(n)' = From(n)
    BY <1>1 DEF From, Upper
  <2>5. CASE u = t
    BY <1>1, <1>2, <1>3, <1>5, <2>1, <2>3, <2>5, Types DEF Precedes
  <2>6. CASE u # t
    BY <1>1, <2>2, <2>3, <2>4, <2>6 DEF Precedes, Others
  <2> QED
    BY <2>5, <2>6
<1>8. ASSUME NEW u \in Threads, pc'[u] = "s_set", Unset(u)', Carries(next[cur[u]])',
             NEW v \in guard'[data'[next'[cur'[u]]]], ref'[v] = NULL
      PROVE  seq'[v] <= old'[u]
  <2>1. /\ pc[u] = "s_set" /\ Unset(u) /\ old'[u] = old[u]
        /\ next'[cur'[u]] = next[cur[u]]
    BY <1>8 DEF SameSetters
  <2>2. PICK n \in Nodes : n = next[cur[u]]
    <3>1. Role(u) /\ Stage(u) /\ Setting(u)
      BY <2>1 DEF IInv, Setting
    <3>2. cur[u] \in Nodes /\ next[cur[u]] # NULL
      BY <3>1, Controls DEF Stage
    <3> QED
      BY <3>2, Types
  <2>3. Carries(n)'
    BY <1>8, <2>1, <2>2 DEF Carries
  <2>4. Carries(n) /\ data'[n] = data[n] /\ data[n] \in Data
    BY <2>3, CarriedInUse DEF FewerCarry
  <2>5. v \in guard[data[n]] /\ v \in Threads
    BY <1>1, <1>8, <2>1, <2>2, <2>4
  <2>6. v # t
    BY <1>1, <1>2, <1>8, Types
  <2>7. ref[v] = NULL /\ seq'[v] = seq[v]
    BY <1>8, <2>5, <2>6 DEF Others
  <2>8. seq[v] <= old[u]
    BY <2>1, <2>2, <2>4, <2>5, <2>7 DEF OrderInv, Leaves
  <2> QED
    BY <2>1, <2>7, <2>8
<1> QED
  BY <1>6, <1>7, <1>8 DEF Guards, Leaves

(* A thread that has read the sequence has read one not below any number.  *)
LEMMA LoadingKept ==
    ASSUME TypeOK, TypeOK', IInv, OrderInv, NEW t \in Threads, Others(t), SetLoad(t)
    PROVE  \A u \in Threads : Leaves(u)'
<1> USE TypesGive, LogFacts
<1>0. ClientType /\ LocalType
  BY DEF TypeOK
<1>1. UNCHANGED <<sequence, next, nodeSeq, pos, data, guard, ref, seq, cur>>
  BY DEF SetLoad, proxyVars, nodeVars, historyVars, clientVars
<1>2. \A n : Carries(n)' <=> Carries(n)
  BY <1>1 DEF Carries
<1>3. ASSUME NEW u \in Threads, u # t PROVE Leaves(u)'
  <2>1. pc'[u] = pc[u] /\ old'[u] = old[u]
    BY <1>3 DEF Others
  <2>2. Leaves(u)
    BY DEF OrderInv
  <2> QED
    BY <1>1, <1>2, <2>1, <2>2 DEF Leaves, Unset, Carries
<1>4. Leaves(t)'
  <2> SUFFICES ASSUME pc'[t] = "s_set", Carries(next[cur[t]]),
                      NEW v \in guard[data[next[cur[t]]]], ref[v] = NULL
               PROVE  seq[v] <= old'[t]
    BY <1>1, <1>2 DEF Leaves, Carries
  <2>1. old'[t] = sequence
    BY <1>0 DEF SetLoad, Goto, ClientType, LocalType
  <2>2. next[cur[t]] \in Nodes
    <3>1. Role(t) /\ Stage(t) /\ Setting(t)
      BY DEF IInv, Setting, SetLoad
    <3> QED
      BY <3>1, Controls, Types DEF Stage
  <2>3. data[next[cur[t]]] \in Data
    BY <2>2, CarriedInUse
  <2>4. v \in Threads
    BY <2>3
  <2>5. seq[v] = 0 \/ seq[v] <= sequence
    BY <2>4 DEF IInv, Walk
  <2> QED
    BY <2>1, <2>4, <2>5
<1> QED
  BY <1>3, <1>4

(* The sequence that is written leaves no number to the next node that was *)
(* left before it.                                                         *)
LEMMA WritingKept ==
    ASSUME TypeOK, TypeOK', IInv, OrderInv, NEW t \in Threads, Others(t), Writing(t)
    PROVE  Guards'
<1> USE TypesGive, LogFacts
<1>0. /\ Places /\ Links /\ Sequences /\ Role(t) /\ Stage(t) /\ Walk(t)
      /\ nodeSeq \in [Nodes -> Nat] /\ prevSeq \in [Nodes -> Nat]
  BY DEF IInv, TypeOK, NodeType
<1>1. /\ UNCHANGED <<sequence, tail, prevSeq, pos, data, guard, ref, seq, use>>
      /\ nodeSeq' = [nodeSeq EXCEPT ![cur[t]] = old[t]]
      /\ pc[t] = "s_set" /\ Unset(t)
  BY DEF Writing, SetCas, Unset, proxyVars, historyVars, clientVars
<1>2. cur[t] = tail /\ next[tail] # NULL
  BY <1>0, <1>1, Unsettled DEF Settled, Passed, Unset, Setting
<1>3. Holding' = Holding
  BY <1>1 DEF Holding
<1>4. ASSUME NEW n \in Nodes, Carries(n), NEW u \in guard[data[n]]
      PROVE  Precedes(u, n)'
  <2>1. Real(n) /\ data[n] \in Data /\ u \in Threads
    BY <1>4, CarriedInUse
  <2>2. Precedes(u, n)
    BY <1>4 DEF OrderInv, Guards
  <2>3. CASE ref[u] # NULL
    BY <1>1, <2>2, <2>3 DEF Precedes
  <2>4. CASE ref[u] = NULL /\ prevSeq[n] # 0
    <3>1. From(n)' = From(n)
      BY <1>1, <2>4 DEF From
    <3> QED
      BY <1>1, <2>2, <2>4, <3>1 DEF Precedes
  <2>5. CASE ref[u] = NULL /\ prevSeq[n] = 0
    <3>1. n = next[cur[t]]
      <4>1. ~(pos[n] <= pos[tail])
        BY <1>0, <2>1, <2>5 DEF Sequences
      <4>2. pos[n] > pos[tail]
        BY <4>1
      <4>3. n = next[tail]
        BY <1>0, <4>2, ChainFacts
      <4> QED
        BY <1>2, <4>3
    <3>2. seq[u] <= old[t]
      BY <1>1, <1>4, <2>5, <3>1 DEF OrderInv, Leaves
    <3>3. old[t] # 0
      <4>1. prevSeq[tail] <= old[t] /\ prevSeq[tail] # 0
        BY <1>0, <1>1, SequenceFacts DEF Stage
      <4> QED
        BY <4>1
    <3>4. From(n)' = old[t]
      BY <1>0, <1>1, <1>2, <2>5, <3>3 DEF From, Upper
    <3> QED
      BY <1>1, <2>5, <3>2, <3>4 DEF Precedes
  <2> QED
    BY <2>3, <2>4, <2>5
<1>5. \A n : Carries(n)' <=> Carries(n)
  BY <1>1 DEF Carries
<1> QED
  BY <1>1, <1>3, <1>4, <1>5 DEF OrderInv, Guards

(* The first node in use is let go: what the next one carries is due.      *)
LEMMA DropStoreOrder ==
    ASSUME TypeOK, TypeOK', IInv, OrderInv, NEW t \in Threads, DropStore(t)
    PROVE  Carried' /\ Prefix' /\ FewerCarry
<1> USE TypesGive, LogFacts
<1>0. /\ Places /\ Links /\ Role(t) /\ Stage(t) /\ Walk(t) /\ Touch(t) /\ Pop(t)
      /\ \A u \in Threads : Reclaim(u)
      /\ ClientType /\ LocalType
  BY DEF IInv, TypeOK
<1>1. /\ UNCHANGED <<log, done, pos, data>>
      /\ pc[t] = "d_store" /\ pc'[t] = "d_free"
      /\ freeTail' = nxt[t] /\ drop'[t] = next[drop[t]]
  BY <1>0 DEF DropStore, Goto, nodeVars, historyVars, ClientType, LocalType
<1>2. /\ next[freeTail] \in Nodes /\ pos[next[freeTail]] = pos[freeTail] + 1
      /\ next[drop[t]] \in Nodes /\ pos[next[drop[t]]] = FirstInUse + 1
      /\ nxt[t] = next[freeTail]
  BY <1>0, <1>1, ThreadFacts
<1>3. FirstInUse' = FirstInUse + 1 /\ FirstInUse \in Nat
  <2>1. FirstInUse' = pos[nxt[t]] + MaxLatency
    BY <1>1 DEF FirstInUse
  <2>2. FirstInUse = pos[freeTail] + MaxLatency /\ FirstInUse \in Nat
    BY <1>0, ChainFacts DEF FirstInUse
  <2> QED
    BY <1>2, <2>1, <2>2, Consts
<1>4. \A n \in Nodes : ~Due(n)
  BY <1>0, <1>1 DEF Due, Reclaim, Frees, Reclaiming
<1>5. /\ \A n \in Nodes : Carries(n)' <=> Carries(n)
      /\ Unfreed' = Unfreed
  BY <1>1 DEF Carries, Unfreed
<1>6. ASSUME NEW n \in Nodes, Carries(n)
      PROVE  pos[n] > FirstInUse + 1 \/ Due(n)'
  <2>1. pos[n] > FirstInUse
    BY <1>4, <1>6 DEF OrderInv, Carried
  <2>2. CASE pos[n] = FirstInUse + 1
    <3>1. n = drop'[t]
      BY <1>0, <1>1, <1>2, <1>6, <2>2 DEF Places, Carries
    <3> QED
      BY <1>1, <3>1 DEF Due
  <2> QED
    BY <1>3, <2>1, <2>2
<1>7. Carried'
  BY <1>1, <1>3, <1>5, <1>6 DEF OrderInv, Carried
<1>8. Prefix' /\ FewerCarry
  BY <1>1, <1>5 DEF OrderInv, Prefix, FewerCarry
<1> QED
  BY <1>7, <1>8

(* What is freed is the oldest data on the chain, which no reference       *)
(* guards any more.                                                        *)
LEMMA DueIsOldest ==
    ASSUME TypeOK, IInv, OrderInv, NEW n \in Nodes, Carries(n), Due(n)
    PROVE  /\ Len(done) + 1 \in Unfreed /\ log[Len(done) + 1] = data[n]
           /\ pos[n] = FirstInUse
           /\ \A m \in Nodes : Carries(m) /\ m # n => pos[m] > FirstInUse
           /\ guard[data[n]] = {}
<1> USE TypesGive, LogFacts
<1> DEFINE k == Len(done) + 1
<1>0. /\ Places /\ Links /\ Sequences
      /\ \A u \in Threads : Reclaim(u) /\ Walk(u) /\ Touch(u)
      /\ FirstInUse \in Nat /\ data[n] \in Data /\ Real(n)
  BY CarriedInUse, ChainFacts DEF IInv
<1>1. pos[n] = FirstInUse
  BY <1>0 DEF Due, Reclaim, Frees
<1>2. \A m \in Nodes : Carries(m) /\ m # n => pos[m] > FirstInUse
  <2> SUFFICES ASSUME NEW m \in Nodes, Carries(m), m # n PROVE pos[m] > FirstInUse
    OBVIOUS
  <2>1. ~Due(m)
    BY <1>0 DEF Due, Reclaim, Frees
  <2> QED
    BY <2>1 DEF OrderInv, Carried
<1>3. PICK i \in Unfreed : log[i] = data[n]
  BY DEF OrderInv, Carried
<1>4. k \in Unfreed
  BY DEF Unfreed
<1>5. log[k] = data[n]
  <2>1. PICK m \in Nodes : Carries(m) /\ log[k] = data[m]
    BY <1>4 DEF OrderInv, Carried
  <2>2. CASE m = n
    BY <2>1, <2>2
  <2>3. CASE m # n
    <3>1. pos[n] < pos[m]
      BY <1>1, <1>2, <2>1, <2>3
    <3>2. i < k
      BY <1>3, <1>4, <2>1, <3>1 DEF OrderInv, Carried
    <3> QED
      BY <3>2 DEF Unfreed
  <2> QED
    BY <2>2, <2>3
<1>6. guard[data[n]] = {}
  <2> SUFFICES ASSUME NEW u \in guard[data[n]] PROVE FALSE
    OBVIOUS
  <2>1. u \in Threads /\ u \in Holding /\ Precedes(u, n)
    BY <1>0 DEF OrderInv, Guards
  <2>2. CASE ref[u] # NULL
    <3>1. ref[u] \in Nodes /\ pos[ref[u]] >= FirstInUse
      BY <1>0, <2>1, <2>2, Types DEF Touch, Used
    <3> QED
      BY <1>1, <2>1, <2>2, <3>1 DEF Precedes
  <2>3. CASE ref[u] = NULL
    <3>1. seq[u] # 0 /\ seq[u] <= From(n)
      BY <2>1, <2>3 DEF Holding, Precedes
    <3>2. PICK h \in Nodes : Used(h) /\ Has(u, h)
      BY <1>0, <2>1, <3>1 DEF Walk
    <3>3. From(h) < seq[u] /\ From(h) \in Nat /\ From(n) \in Nat /\ Upper(n) \in Nat
          /\ From(n) <= Upper(n)
      BY <1>0, <3>2, SequenceFacts DEF Has
    <3>4. h # n
      BY <2>1, <3>1, <3>3
    <3>5. pos[n] < pos[h]
      <4>1. pos[h] >= FirstInUse /\ pos[h] # pos[n]
        BY <1>0, <1>1, <3>2, <3>4 DEF Used, Places, Carries
      <4> QED
        BY <1>0, <1>1, <4>1
    <3>6. Upper(n) <= From(h)
      BY <1>0, <3>5 DEF Sequences
    <3> QED
      BY <2>1, <3>1, <3>3, <3>6
  <2> QED
    BY <2>2, <2>3
<1> QED
  BY <1>1, <1>2, <1>4, <1>5, <1>6

LEMMA DropFreeOrder ==
    ASSUME TypeOK, TypeOK', IInv, OrderInv, NEW t \in Threads, Others(t), DropFree(t)
    PROVE  Carried' /\ Prefix' /\ FewerCarry
<1> USE TypesGive, LogFacts
<1>0. /\ Places /\ Links /\ Role(t) /\ Touch(t)
      /\ \A u \in Threads : Reclaim(u)
      /\ data \in [Nodes -> DataOrNull] /\ FirstInUse \in Nat
  BY ChainFacts DEF IInv, TypeOK, NodeType
<1>1. /\ UNCHANGED <<log, pos, freeTail>> /\ pc[t] = "d_free"
      /\ FirstInUse' = FirstInUse
  BY DEF DropFree, proxyVars, FirstInUse
<1>2. PICK n \in Nodes : n = drop[t] /\ Due(n) /\ pos[n] > 0
  <2>1. drop[t] \in Nodes /\ Used(drop[t])
    BY <1>0, <1>1, Controls, Types DEF Dropping, Touch
  <2> QED
    BY <1>0, <1>1, <2>1, ChainFacts, Consts DEF Due, Real
<1>3. \A m \in Nodes : m # n => ~Due(m)
  BY <1>0, <1>2 DEF Due, Reclaim, Frees
<1>4. CASE data[n] = NULL
  <2>1. UNCHANGED <<done, data>>
    BY <1>2, <1>4 DEF DropFree
  <2>2. /\ \A m \in Nodes : Carries(m)' <=> Carries(m)
        /\ Unfreed' = Unfreed
    BY <1>1, <2>1 DEF Carries, Unfreed
  <2>3. \A m \in Nodes : Carries(m) => pos[m] > FirstInUse
    BY <1>3, <1>4 DEF OrderInv, Carried, Carries
  <2>4. Carried'
    BY <1>1, <2>1, <2>2, <2>3 DEF OrderInv, Carried
  <2> QED
    BY <1>1, <2>1, <2>2, <2>4 DEF OrderInv, Prefix, FewerCarry
<1>5. CASE data[n] # NULL
  <2> DEFINE k == Len(done) + 1
  <2>1. done' = Append(done, data[n]) /\ data' = [data EXCEPT ![n] = NULL]
    BY <1>2, <1>5 DEF DropFree
  <2>2. Carries(n) /\ data[n] \in Data
    BY <1>2, <1>5, Types DEF Carries
  <2>3. /\ k \in Unfreed /\ log[k] = data[n] /\ pos[n] = FirstInUse
        /\ \A m \in Nodes : Carries(m) /\ m # n => pos[m] > FirstInUse
    BY <1>2, <2>2, DueIsOldest
  <2>4. /\ Len(done') = k /\ done'[k] = data[n]
        /\ \A i \in 1..Len(done) : done'[i] = done[i]
    BY <2>1, <2>2, AppendProperties
  <2>5. Unfreed' = Unfreed \ {k}
    BY <1>1, <2>4 DEF Unfreed
  <2>6. \A m \in Nodes : /\ Carries(m)' <=> Carries(m) /\ m # n
                         /\ m # n => data'[m] = data[m]
    BY <1>0, <1>1, <2>1 DEF Carries
  <2>7. \A m \in Nodes : \A i \in Unfreed :
            Carries(m) /\ m # n /\ log[i] = data[m] => i # k
    <3> SUFFICES ASSUME NEW m \in Nodes, Carries(m), m # n, log[k] = data[m]
                 PROVE  FALSE
      BY <2>3
    <3>1. pos[n] < pos[m]
      BY <2>3
    <3>2. \A i, j \in Unfreed : log[i] = data[n] /\ log[j] = data[m] => i < j
      BY <2>2, <3>1 DEF OrderInv, Carried
    <3>3. ~(k < k)
      OBVIOUS
    <3> QED
      BY <2>3, <3>2, <3>3
  <2>8. Prefix'
    <3>1. Len(done') <= Len(log)
      BY <2>3, <2>4 DEF Unfreed
    <3>2. \A i \in 1..Len(done') : i = k \/ i \in 1..Len(done)
      BY <2>4
    <3>3. \A i \in 1..Len(done') : done'[i] = log[i]
      BY <2>3, <2>4, <3>2 DEF OrderInv, Prefix
    <3> QED
      BY <1>1, <3>1, <3>3 DEF Prefix
  <2>9. \A m \in Nodes : Carries(m)' =>
            pos[m] > FirstInUse /\ \E i \in Unfreed' : log[i] = data'[m]
    <3> SUFFICES ASSUME NEW m \in Nodes, Carries(m), m # n
                 PROVE  pos[m] > FirstInUse /\ \E i \in Unfreed' : log[i] = data'[m]
      BY <2>6
    <3>1. PICK i \in Unfreed : log[i] = data[m]
      BY DEF OrderInv, Carried
    <3> QED
      BY <2>3, <2>5, <2>6, <2>7, <3>1
  <2>10. \A i \in Unfreed' : \E m \in Nodes : Carries(m)' /\ log[i] = data'[m]
    <3> SUFFICES ASSUME NEW i \in Unfreed, i # k
                 PROVE  \E m \in Nodes : Carries(m)' /\ log[i] = data'[m]
      BY <2>5
    <3>1. PICK m \in Nodes : Carries(m) /\ log[i] = data[m]
      BY DEF OrderInv, Carried
    <3>2. m # n
      <4>1. i \in 1..Len(log) /\ k \in 1..Len(log)
        BY <2>3 DEF Unfreed
      <4> QED
        BY <2>3, <3>1, <4>1 DEF OrderInv, Deferred
    <3> QED
      BY <2>6, <3>1, <3>2
  <2>11. \A l, m \in Nodes : \A i, j \in Unfreed' :
            /\ Carries(l)' /\ log[i] = data'[l]
            /\ Carries(m)' /\ log[j] = data'[m]
            /\ pos[l] < pos[m]
            => i < j
    BY <2>5, <2>6 DEF OrderInv, Carried
  <2>12. Carried'
    BY <1>1, <2>9, <2>10, <2>11 DEF Carried
  <2>13. FewerCarry
    BY <1>1, <2>6 DEF FewerCarry
  <2> QED
    BY <2>8, <2>12, <2>13
<1> QED
  BY <1>4, <1>5

(* A node that is linked carries what is deferred last, behind all others, *)
(* and every reference held then is to a node before it or will be.        *)
LEMMA LinkingFacts ==
    ASSUME TypeOK, IInv, NEW t \in Threads, Linking(t)
    PROVE  /\ cur[t] = tail /\ next[tail] = NULL /\ End = pos[tail]
           /\ node[t] \in Nodes /\ pos[node[t]] = 0 /\ data[node[t]] = arg[t]
           /\ prevSeq[node[t]] = 0 /\ node[t] # tail
           /\ At(t) # "a_end" /\ pc[t] = "a_try"
           /\ pos' = [pos EXCEPT ![node[t]] = End + 1]
<1> USE TypesGive
<1>0. /\ Places /\ Links /\ Sequences /\ Role(t) /\ Caller(t) /\ Walk(t) /\ Owner(t)
  BY DEF IInv, Owners
<1>1. pc[t] = "a_try" /\ next[cur[t]] = NULL /\ At(t) = "a_try"
  BY DEF Linking, AddTry, At, Setting, Dropping
<1>2. cur[t] \in Nodes /\ own[t] \in Nodes
  BY <1>0, <1>1, Controls DEF Adds
<1>3. Looking(t)
  BY <1>1, <1>2, Consts DEF Looking
<1>4. Real(cur[t]) /\ pos[cur[t]] <= pos[tail]
  BY <1>0, <1>3 DEF Walk
<1>5. pos[cur[t]] > 0 /\ pos[tail] <= End /\ End \in Nat
  BY <1>0, <1>2, <1>4, Consts, ChainFacts DEF Real
<1>6. cur[t] = Newest /\ pos[Newest] = End
  BY <1>0, <1>1, <1>2, <1>5, ChainFacts
<1>7. cur[t] = tail
  <2>1. pos[cur[t]] = pos[tail]
    BY <1>2, <1>4, <1>5, <1>6
  <2> QED
    BY <1>0, <1>2, <2>1, ChainFacts
<1>8. Owns(t) /\ Ready(t)
  BY <1>0, <1>1 DEF Caller, Adds, Owns, Ready
<1>9. node[t] \in Nodes /\ pos[node[t]] = 0 /\ data[node[t]] = arg[t] /\ prevSeq[node[t]] = 0
  BY <1>0, <1>8, Types DEF Owner, Owns
<1>10. pos' = [pos EXCEPT ![node[t]] = pos[cur[t]] + 1]
  BY <1>1, Consts DEF Linking, AddTry
<1>11. End = pos[tail] /\ next[tail] = NULL /\ pos[tail] > 0
  BY <1>1, <1>5, <1>6, <1>7
<1>12. pos' = [pos EXCEPT ![node[t]] = End + 1]
  BY <1>7, <1>10, <1>11
<1>13. node[t] # tail /\ At(t) # "a_end"
  BY <1>1, <1>9, <1>11
<1> QED
  BY <1>1, <1>7, <1>9, <1>11, <1>12, <1>13

LEMMA LinkingKept ==
    ASSUME TypeOK, TypeOK', IInv, OrderInv, NEW t \in Threads, Others(t), Linking(t)
    PROVE  Carried' /\ Prefix' /\ Deferred' /\ Guards' /\ \A u \in Threads : Leaves(u)'
<1> USE TypesGive, LogFacts
<1>0. /\ Places /\ Links /\ Sequences /\ Swinging
      /\ pos \in [Nodes -> Nat] /\ FirstInUse \in Nat /\ End \in Nat
      /\ ClientType /\ LocalType /\ guard \in [Data -> SUBSET Threads]
      /\ FirstInUse <= pos[tail] /\ sequence \in Nat
  BY ChainFacts DEF IInv, TypeOK, HistoryType
<1>e. \A n \in Nodes : pos[n] <= End
  BY <1>0 DEF Places
<1>1. PICK b \in Nodes : /\ b = node[t] /\ pos[b] = 0 /\ data[b] = arg[t]
                         /\ prevSeq[b] = 0 /\ b # tail
                         /\ pos' = [pos EXCEPT ![b] = End + 1]
  BY LinkingFacts
<1>2. /\ cur[t] = tail /\ next[tail] = NULL /\ End = pos[tail]
      /\ At(t) # "a_end" /\ pc[t] = "a_try"
  BY LinkingFacts
<1>3. /\ UNCHANGED <<done, data, sequence, tail, freeTail, nodeSeq, prevSeq, ref, seq, use, arg, old>>
      /\ pc'[t] = "s_load" /\ ret'[t] = "a_end" /\ drop'[t] = drop[t]
  BY <1>0, <1>2, Consts DEF Linking, AddTry, Goto, proxyVars, clientVars, newVars, ClientType, LocalType
<1>4. /\ pos'[b] = End + 1 /\ \A n \in Nodes : n # b => pos'[n] = pos[n]
      /\ freeTail # b /\ FirstInUse' = FirstInUse
  <2>1. freeTail # b
    BY <1>0, <1>1 DEF Places
  <2> QED
    BY <1>0, <1>1, <1>3, <2>1 DEF FirstInUse
<1>5. /\ ~Carries(b) /\ (Carries(b)' <=> arg[t] # NULL)
      /\ \A n \in Nodes : n # b => (Carries(n)' <=> Carries(n))
  BY <1>0, <1>1, <1>3, <1>4 DEF Carries
<1>6. \A n \in Nodes : Due(n) => Due(n)'
  <2>1. \A u \in Threads : pc[u] = "d_free" => pc'[u] = "d_free" /\ drop'[u] = drop[u]
    BY <1>2 DEF Others
  <2> QED
    BY <2>1 DEF Due
<1>7. At(t)' = "a_end" /\ \A u \in Threads \ {t} : At(u)' = At(u)
  BY <1>3 DEF At, Setting, Dropping, Others
<1>8. Holding' = Holding
  BY <1>3 DEF Holding
<1>9. \A u \in Threads : pc'[u] = "s_set" => ~Unset(u)'
  <2> SUFFICES ASSUME NEW u \in Threads, pc'[u] = "s_set" PROVE ~Unset(u)'
    OBVIOUS
  <2>1. u # t /\ pc[u] = "s_set" /\ cur'[u] = cur[u]
    BY <1>3 DEF Others
  <2>2. Role(u) /\ Walk(u) /\ Stage(u) /\ Setting(u)
    BY <2>1 DEF IInv, Setting
  <2>3. Settled(cur[u])
    BY <1>0, <1>2, <2>2, Unsettled
  <2> QED
    BY <1>3, <2>1, <2>3 DEF Settled, Passed, Unset
<1>10. \A n \in Nodes : Carries(n) => n # b /\ From(n)' = From(n)
  BY <1>3, <1>5 DEF From, Upper
<1>11. \A u \in Threads : ref[u] # NULL => ref[u] \in Nodes /\ ref[u] # b /\ pos[ref[u]] <= End
  <2> SUFFICES ASSUME NEW u \in Threads, ref[u] # NULL
               PROVE  ref[u] \in Nodes /\ ref[u] # b /\ pos[ref[u]] <= End
    OBVIOUS
  <2>1. ref[u] \in Nodes /\ Used(ref[u])
    BY Types DEF IInv, Touch
  <2>2. pos[ref[u]] > 0
    BY <1>0, <2>1, ChainFacts, Consts DEF Used, Real
  <2> QED
    BY <1>e, <1>1, <2>1, <2>2
<1>12. CASE arg[t] = NULL
  <2>1. UNCHANGED <<log, guard>>
    BY <1>2, <1>12, Consts DEF Linking, AddTry
  <2>2. /\ Unfreed' = Unfreed
        /\ \A n \in Nodes : Carries(n)' <=> Carries(n)
        /\ \A n \in Nodes : Carries(n) => pos'[n] = pos[n]
    BY <1>3, <1>4, <1>5, <1>12, <2>1 DEF Unfreed
  <2>3. Carried' /\ Prefix'
    <3>1. SameOrder
      BY <1>2, <1>3, <1>4, <2>1, <2>2 DEF SameOrder, Others
    <3> QED
      BY <3>1, SameOrderStep DEF OrderInv
  <2>4. Deferred'
    <3>1. SameDeferred
      BY <1>2, <1>3, <1>7, <2>1 DEF SameDeferred
    <3> QED
      BY <3>1, SameDeferredStep DEF OrderInv
  <2>5. Guards'
    <3>1. \A d \in Data : guard'[d] \subseteq Holding'
      BY <1>8, <2>1 DEF OrderInv, Guards
    <3>2. ASSUME NEW n \in Nodes, Carries(n), NEW u \in guard[data[n]]
          PROVE  Precedes(u, n)'
      <4>1. data[n] \in Data
        BY <3>2, CarriedInUse
      <4>2. u \in Threads /\ Precedes(u, n)
        BY <3>2, <4>1 DEF OrderInv, Guards
      <4> QED
        BY <1>3, <1>4, <1>10, <1>11, <3>2, <4>2 DEF Precedes
    <3> QED
      BY <1>3, <2>1, <2>2, <3>1, <3>2 DEF Guards
  <2> QED
    BY <1>9, <2>3, <2>4, <2>5 DEF Leaves
<1>13. CASE arg[t] # NULL
  <2> DEFINE k == Len(log) + 1
  <2>1. log' = Append(log, arg[t]) /\ guard' = [guard EXCEPT ![arg[t]] = Holding]
        /\ arg[t] \in Data
    BY <1>2, <1>13, Consts, Types DEF Linking, AddTry
  <2>2. /\ Len(log') = k /\ log'[k] = arg[t]
        /\ \A i \in 1..Len(log) : log'[i] = log[i]
    BY <2>1, AppendProperties
  <2>a. \A i \in 1..Len(log') : i = k \/ i \in 1..Len(log)
    BY <2>2
  <2>3. \A i \in 1..Len(log) : log[i] # arg[t]
    BY <1>2 DEF OrderInv, Deferred, Logged
  <2>4. Unfreed' = Unfreed \union {k} /\ k \notin Unfreed
        /\ \A i \in Unfreed : i \in 1..Len(log) /\ i < k /\ log'[i] = log[i]
    BY <1>3, <2>2 DEF Unfreed, OrderInv, Prefix
  <2>5. \A n \in Nodes : Carries(n) => data[n] # arg[t]
    BY <2>3, <2>4 DEF OrderInv, Carried
  <2>6. Prefix'
    BY <1>3, <2>2 DEF OrderInv, Prefix
  <2>7. \A n \in Nodes : Carries(n)' =>
            /\ pos'[n] > FirstInUse \/ Due(n)'
            /\ \E i \in Unfreed' : log'[i] = data[n]
    <3>1. ASSUME NEW n \in Nodes, Carries(n)', n # b
          PROVE  /\ pos'[n] > FirstInUse \/ Due(n)'
                 /\ \E i \in Unfreed' : log'[i] = data[n]
      <4>1. Carries(n) /\ pos'[n] = pos[n]
        BY <1>4, <1>5, <3>1
      <4>2. pos[n] > FirstInUse \/ Due(n)
        BY <4>1 DEF OrderInv, Carried
      <4>3. PICK i \in Unfreed : log[i] = data[n]
        BY <4>1 DEF OrderInv, Carried
      <4> QED
        BY <1>6, <2>4, <4>1, <4>2, <4>3
    <3>3. pos'[b] > FirstInUse
      BY <1>0, <1>2, <1>4
    <3>4. k \in Unfreed' /\ log'[k] = data[b]
      BY <1>1, <2>2, <2>4
    <3> QED
      BY <3>1, <3>3, <3>4
  <2>8. \A i \in Unfreed' : \E n \in Nodes : Carries(n)' /\ log'[i] = data[n]
    <3>1. Carries(b)' /\ log'[k] = data[b]
      BY <1>1, <1>5, <1>13, <2>2
    <3>2. ASSUME NEW i \in Unfreed PROVE \E n \in Nodes : Carries(n)' /\ log'[i] = data[n]
      <4>1. PICK n \in Nodes : Carries(n) /\ log[i] = data[n]
        BY DEF OrderInv, Carried
      <4> QED
        BY <1>5, <2>4, <4>1
    <3> QED
      BY <2>4, <3>1, <3>2
  <2>9. ASSUME NEW m \in Nodes, NEW n \in Nodes, NEW i \in Unfreed', NEW j \in Unfreed',
               Carries(m)', log'[i] = data[m], Carries(n)', log'[j] = data[n], pos'[m] < pos'[n]
        PROVE  i < j
    <3>1. m # b
      <4>1. ~(End + 1 < pos'[n])
        <5>1. pos'[n] = End + 1 \/ (pos'[n] = pos[n] /\ pos[n] <= End)
          BY <1>4, <1>e
        <5> QED
          BY <1>0, <5>1
      <4> QED
        BY <1>4, <2>9, <4>1
    <3>2. Carries(m) /\ pos'[m] = pos[m]
      BY <1>4, <1>5, <2>9, <3>1
    <3>3. i \in Unfreed /\ log[i] = data[m]
      BY <2>2, <2>4, <2>5, <2>9, <3>2
    <3>4. CASE j = k
      BY <2>4, <3>3, <3>4
    <3>5. CASE j # k
      <4>1. j \in Unfreed /\ log[j] = data[n] /\ j \in 1..Len(log)
        BY <2>4, <2>9, <3>5
      <4>2. n # b
        BY <1>1, <2>3, <4>1
      <4>3. Carries(n) /\ pos'[n] = pos[n]
        BY <1>4, <1>5, <2>9, <4>2
      <4> QED
        BY <2>9, <3>2, <3>3, <4>1, <4>3 DEF OrderInv, Carried
    <3> QED
      BY <3>4, <3>5
  <2>10. Carried'
    BY <1>3, <1>4, <2>7, <2>8, <2>9 DEF Carried
  <2>11. Deferred'
    <3>1. \A i, j \in 1..Len(log') : log'[i] = log'[j] => i = j
      BY <2>2, <2>3, <2>a DEF OrderInv, Deferred
    <3>2. \A u, v \in Threads : arg[u] # NULL /\ arg[u] = arg[v] => u = v
      BY DEF OrderInv, Deferred
    <3>3. ASSUME NEW u \in Threads, At(u)' # "a_end", NEW i \in 1..Len(log')
          PROVE  log'[i] # arg[u]
      <4>1. u # t /\ At(u) # "a_end"
        BY <1>7, <3>3
      <4>2. CASE i = k
        BY <1>13, <2>2, <3>2, <4>1, <4>2
      <4>3. CASE i # k
        <5>1. i \in 1..Len(log)
          BY <2>a, <3>3, <4>3
        <5>2. log[i] \in Logged
          BY <5>1 DEF Logged
        <5>3. arg[u] \notin Logged
          BY <4>1 DEF OrderInv, Deferred
        <5> QED
          BY <2>2, <5>1, <5>2, <5>3
      <4> QED
        BY <4>2, <4>3
    <3>4. \A u \in Threads : At(u)' # "a_end" => arg[u] \notin Logged'
      BY <3>3 DEF Logged
    <3> QED
      BY <1>3, <3>1, <3>2, <3>4 DEF Deferred
  <2>12. Guards'
    <3>1. \A d \in Data : guard'[d] \subseteq Holding'
      BY <1>0, <1>8, <2>1 DEF OrderInv, Guards
    <3>2. ASSUME NEW n \in Nodes, Carries(n), NEW u \in guard'[data[n]]
          PROVE  Precedes(u, n)'
      <4>1. data[n] \in Data /\ data[n] # arg[t]
        BY <2>5, <3>2, CarriedInUse
      <4>2. u \in guard[data[n]]
        BY <1>0, <2>1, <3>2, <4>1
      <4>3. u \in Threads /\ Precedes(u, n)
        BY <3>2, <4>1, <4>2 DEF OrderInv, Guards
      <4> QED
        BY <1>3, <1>4, <1>10, <1>11, <3>2, <4>3 DEF Precedes
    <3>3. ASSUME NEW u \in guard'[data[b]] PROVE Precedes(u, b)'
      <4>1. u \in Holding /\ u \in Threads
        BY <1>0, <1>1, <2>1, <3>3 DEF Holding
      <4>2. CASE ref[u] # NULL
        BY <1>0, <1>3, <1>4, <1>11, <4>1, <4>2 DEF Precedes
      <4>3. CASE ref[u] = NULL
        <5>1. seq[u] <= sequence
          BY <4>1, <4>3 DEF Holding, IInv, Walk
        <5>2. From(b)' = sequence
          <6>1. nodeSeq[tail] = 0
            BY <1>0, <1>2 DEF Sequences, Newest
          <6> QED
            BY <1>1, <1>3, <6>1 DEF From, Upper
        <5> QED
          BY <1>3, <4>3, <5>1, <5>2 DEF Precedes
      <4> QED
        BY <4>2, <4>3
    <3>4. \A n \in Nodes : Carries(n)' => n = b \/ Carries(n)
      BY <1>5
    <3> QED
      BY <1>3, <3>1, <3>2, <3>3, <3>4 DEF Guards
  <2> QED
    BY <1>9, <2>6, <2>10, <2>11, <2>12 DEF Leaves
<1> QED
  BY <1>12, <1>13

(* A client defers what nobody has deferred, and forgets it when that is   *)
(* done.                                                                   *)
LEMMA DeferringKept ==
    ASSUME TypeOK, TypeOK', OrderInv, NEW t \in Threads, Others(t), DeferCall(t)
    PROVE  Deferred'
<1> USE LogFacts
<1>1. log' = log /\ pc'[t] = "g_seq"
  BY DEF DeferCall, historyVars, Goto, TypeOK, ClientType
<1>2. PICK d \in {NULL} \union {d \in Data : /\ \A i \in 1..Len(log) : log[i] # d
                                           /\ \A u \in Threads : arg[u] # d} :
          arg' = [arg EXCEPT ![t] = d]
  BY DEF DeferCall
<1>3. arg'[t] = d /\ \A u \in Threads \ {t} : arg'[u] = arg[u]
  BY <1>2 DEF TypeOK, LocalType
<1>4. \A u \in Threads \ {t} : At(u)' = At(u)
  BY DEF Others, At, Setting, Dropping
<1>5. /\ \A i \in 1..Len(log) : log[i] # d
      /\ d # NULL => \A u \in Threads : arg[u] # d
  BY <1>2, Types
<1> QED
  BY <1>1, <1>3, <1>4, <1>5 DEF OrderInv, Deferred, Logged

LEMMA AddEndKept ==
    ASSUME TypeOK, TypeOK', OrderInv, NEW t \in Threads, Others(t), AddEnd(t)
    PROVE  Deferred'
<1> USE LogFacts
<1>1. log' = log /\ arg' = [arg EXCEPT ![t] = NULL]
  BY DEF AddEnd, historyVars
<1>2. arg'[t] = NULL /\ \A u \in Threads \ {t} : arg'[u] = arg[u]
  BY <1>1 DEF TypeOK, LocalType
<1>3. \A u \in Threads \ {t} : At(u)' = At(u)
  BY DEF Others, At, Setting, Dropping
<1>4. \A i \in 1..Len(log) : log[i] # NULL
  BY Types
<1> QED
  BY <1>1, <1>2, <1>3, <1>4 DEF OrderInv, Deferred, Logged

-------------------------------------------------------------------------------
(* With nobody inside and no reference held, the tail is the only node in  *)
(* use, by the balance of the counts: a node before it would have a user.  *)
LEMMA QuietChain ==
    ASSUME TypeOK, IInv, Quiescent
    PROVE  next[tail] = NULL /\ pos[tail] = FirstInUse /\ End = pos[tail]
<1> USE TypesGive, Consts
<1>0. /\ Places /\ Links /\ Sequences /\ Counts /\ Swinging
      /\ \A t \in Threads : Role(t)
      /\ FirstInUse \in Nat /\ FirstInUse <= pos[tail]
  BY ChainFacts DEF IInv
<1>1. \A t \in Threads : pc[t] \in {"idle", "backoff"} /\ ref[t] = NULL
  BY DEF Quiescent
<1>2. next[tail] = NULL
  BY <1>0, <1>1 DEF Swinging, Setting
<1>3. \A t \in Threads : own[t] = NULL /\ seq[t] = 0 /\ drop[t] = NULL
  BY <1>0, <1>1, Controls DEF Dropping
<1>4. ASSUME FirstInUse < pos[tail] PROVE FALSE
  <2>1. PICK h \in Nodes : pos[h] = FirstInUse
    <3>1. FirstInUse \in pos[freeHead]..End
      BY <1>0, <1>4, ChainFacts DEF Places
    <3> QED
      BY <1>0, <3>1 DEF Places
  <2>2. Used(h) /\ From(h) \in Nat
    BY <1>0, <2>1, SequenceFacts DEF Used
  <2>3. Refs(h) = {} /\ Owned(h) = {} /\ Numbers(h) = {} /\ Drops(h) = {}
    <3>1. \A t \in Threads : ~Has(t, h)
      BY <1>3, <2>2 DEF Has
    <3> QED
      BY <1>1, <1>3, <3>1 DEF Refs, Owned, Numbers, Drops
  <2>4. TailShare(h) = 0 /\ LinkShare(h) = 0
    BY <1>0, <1>4, <2>1 DEF TailShare, LinkShare
  <2>5. Shares(h) = 0
    BY <2>3, <2>4, FS_EmptySet DEF Shares
  <2>6. \E t \in Threads : Reclaiming(t)
    BY <1>0, <2>2, <2>5 DEF Counts
  <2> QED
    BY <1>1, <2>6 DEF Reclaiming
<1> QED
  BY <1>0, <1>2, <1>4 DEF End

(* Then all that was deferred has been freed.                              *)
LEMMA QuietFreed ==
    ASSUME TypeOK, IInv, OrderInv, Quiescent
    PROVE  QuiescentReclaimed
<1> USE TypesGive, LogFacts
<1>1. next[tail] = NULL /\ pos[tail] = FirstInUse /\ End = pos[tail]
  BY QuietChain
<1>2. \A n \in Nodes : ~Carries(n)
  <2> SUFFICES ASSUME NEW n \in Nodes, Carries(n) PROVE FALSE
    OBVIOUS
  <2>1. ~Due(n)
    BY DEF Due, Quiescent
  <2>2. pos[n] > FirstInUse /\ pos[n] <= End
    BY <2>1, CarriedInUse DEF OrderInv, Carried
  <2> QED
    BY <1>1, <2>2
<1>3. Len(done) = Len(log)
  <2>1. Unfreed = {}
    BY <1>2 DEF OrderInv, Carried
  <2>2. ~(Len(done) + 1 <= Len(log))
    BY <2>1 DEF Unfreed
  <2> QED
    BY <2>2 DEF OrderInv, Prefix
<1>4. done = log
  BY <1>3, SeqEqual DEF OrderInv, Prefix
<1> QED
  BY <1>1, <1>4 DEF QuiescentReclaimed

(* And all nodes that are not latent are free or were given back: if none  *)
(* is free, those counted by numNodes are the allocations that failed.     *)
LEMMA QuietPool ==
    ASSUME TypeOK, IInv, alive, Quiescent, failed < MaxNodes, freeHead = freeTail
    PROVE  numNodes < MaxNodes
<1> USE TypesGive, Consts
<1>0. /\ Places /\ Links /\ Accounted
      /\ \A t \in Threads : Caller(t)
      /\ FirstInUse \in Nat /\ FirstInUse = pos[freeTail] + MaxLatency /\ 0 < pos[freeTail]
  BY ChainFacts DEF IInv, FirstInUse
<1> DEFINE P == pos[freeTail]..FirstInUse
           f == [n \in heap |-> pos[n]]
<1>1. End = FirstInUse
  BY QuietChain
<1>2. \A t \in Threads : ~Owns(t)
  BY <1>0 DEF Quiescent, Owns, Caller, At, Setting, Dropping, Seeks, Adds
<1>3. \A n \in heap : n \in Nodes /\ pos[n] > 0 /\ pos[n] \in P
  <2>1. \A n \in heap : n \in Nodes /\ pos[n] > 0
    BY <1>0, <1>2 DEF Accounted, TypeOK, HeapType
  <2>2. \A n \in heap : pos[freeHead] <= pos[n] /\ pos[n] <= End
    BY <1>0, <2>1 DEF Places
  <2> QED
    BY <1>0, <1>1, <2>1, <2>2
<1>4. f \in Injection(heap, P)
  <2>1. f \in [heap -> P]
    BY <1>3
  <2>2. \A a, b \in heap : f[a] = f[b] => a = b
    BY <1>0, <1>3 DEF Places
  <2> QED
    BY <2>1, <2>2, Zenon DEF Injection, IsInjective
<1>5. IsFiniteSet(P) /\ Cardinality(P) = MaxLatency + 1
  <2>1. /\ pos[freeTail] \in Int /\ FirstInUse \in Int
        /\ pos[freeTail] <= FirstInUse /\ FirstInUse - pos[freeTail] + 1 = MaxLatency + 1
    BY <1>0
  <2>2. \A a, b \in Int : IsFiniteSet(a..b)
    BY FS_Interval
  <2>3. \A a, b \in Int : a <= b => Cardinality(a..b) = b - a + 1
    BY FS_Interval
  <2> QED
    BY <2>1, <2>2, <2>3
<1>6. IsFiniteSet(heap) /\ Cardinality(heap) <= MaxLatency + 1 /\ Cardinality(heap) \in Nat
  <2> HIDE DEF P, f
  <2>1. IsFiniteSet(heap)
    BY FS_Subset DEF TypeOK, HeapType
  <2>2. Cardinality(heap) <= Cardinality(P)
    BY <1>4, <1>5, FS_Injection
  <2> QED
    BY <1>5, <2>1, <2>2, FS_CardinalityType
<1>7. Cardinality(heap) + failed = numNodes + MaxLatency + 1
  <2> DEFINE B == {t \in Threads : pc[t] \in {"n_alloc", "t_dec"}}
  <2>1. B = {}
    BY DEF Quiescent
  <2>2. Cardinality(B) = 0
    BY <2>1, FS_EmptySet
  <2>3. Cardinality(heap) + failed = numNodes + MaxLatency + 1 - Cardinality(B)
    BY <1>0 DEF Accounted, NodeAccounting
  <2>4. numNodes \in Int /\ MaxLatency \in Int /\ failed \in Int
    BY Bounds DEF TypeOK, HistoryType, ProxyType
  <2> HIDE DEF B
  <2> QED
    BY <1>6, <2>2, <2>3, <2>4
<1> QED
  BY <1>6, <1>7, Bounds DEF TypeOK, HistoryType

-------------------------------------------------------------------------------
(* The order invariant                                                     *)

(* Nothing is deferred and nothing freed to begin with. *)
LEMMA OrderInit == Init => OrderInv
<1> SUFFICES ASSUME Init PROVE OrderInv
  OBVIOUS
<1>1. Len(log) = 0 /\ Len(done) = 0 /\ alive
  BY DEF Init
<1>2. \A n \in Nodes : ~Carries(n)
  BY DEF Init, Carries
<1>3. \A t \in Threads : pc[t] = "idle" /\ arg[t] = NULL
  BY InitIdle
<1>4. Carried /\ Prefix
  BY <1>1, <1>2 DEF Carried, Prefix, Unfreed
<1>5. Deferred
  BY <1>1, <1>3 DEF Deferred, Logged
<1>6. Guards
  <2>1. \A d \in Data : guard[d] = {}
    BY DEF Init
  <2> QED
    BY <1>2, <2>1 DEF Guards
<1>7. \A t \in Threads : Leaves(t)
  BY <1>3 DEF Leaves
<1> QED
  BY <1>1, <1>4, <1>5, <1>6, <1>7 DEF OrderInv

(* It is not about what DeleteProxy changes. *)
LEMMA OrderSameStep ==
    ASSUME TypeOK, TypeOK', IInv, OrderInv,
           UNCHANGED <<proxyVars, nodeVars, pc, clientVars, localVars, historyVars>>
    PROVE  /\ Carried' /\ Prefix' /\ Deferred' /\ Guards'
           /\ \A t \in Threads : Leaves(t)'
<1> USE TypesGive
<1>1. /\ sequence' = sequence /\ tail' = tail /\ freeTail' = freeTail
      /\ next' = next /\ nodeSeq' = nodeSeq /\ prevSeq' = prevSeq /\ data' = data
      /\ log' = log /\ done' = done /\ guard' = guard /\ pos' = pos
  BY DEF proxyVars, nodeVars, historyVars
<1>2. /\ pc' = pc /\ ret' = ret /\ ref' = ref /\ use' = use /\ old' = old
      /\ seq' = seq /\ cur' = cur /\ drop' = drop /\ arg' = arg
  BY DEF clientVars, localVars, getVars, newVars
<1>3. SameOrder
  BY <1>1, <1>2 DEF SameOrder, FirstInUse, Carries
<1>4. SameDeferred
  BY <1>1, <1>2 DEF SameDeferred, At, Setting, Dropping
<1>5. SameThreads
  <2>1. \A u \in Threads : Guarding(u) => u \in Holding
    BY DEF OrderInv, Guards, Guarding
  <2>2. Holding' = Holding /\ \A u : Guarding(u)' <=> Guarding(u)
    BY <1>1, <1>2 DEF Holding, Guarding
  <2> QED
    BY <1>1, <1>2, <2>1, <2>2 DEF SameThreads
<1>6. FromGrows
  <2>1. Places /\ Links
    BY DEF IInv
  <2>2. \A n \in Nodes : From(n)' = From(n) /\ From(n) \in Nat
    BY <1>1, <2>1, SequenceFacts DEF From, Upper
  <2> QED
    BY <2>2 DEF FromGrows
<1>7. SameSetters
  BY <1>1, <1>2 DEF SameSetters, Unset
<1>8. FewerCarry
  BY <1>3 DEF FewerCarry, SameOrder
<1> QED
  BY <1>3, <1>4, <1>5, <1>6, <1>7, <1>8, SameOrderStep, SameDeferredStep, SameGuardsStep,
     SameSettersStep DEF OrderInv

(* The steps of a thread, by what they change. *)
LEMMA OrderThreadStep ==
    ASSUME TypeOK, TypeOK', IInv, OrderInv, NEW t \in Threads, Others(t), Enter(t) \/ Step(t)
    PROVE  /\ Carried' /\ Prefix' /\ Deferred' /\ Guards'
           /\ \A u \in Threads : Leaves(u)'
<1>1. CASE Linking(t)
  BY <1>1, LinkingKept
<1>2. ASSUME ~Linking(t)
      PROVE  Carried' /\ Prefix' /\ FewerCarry
  <2>1. CASE DropStore(t)
    BY <2>1, DropStoreOrder
  <2>2. CASE DropFree(t)
    BY <2>2, DropFreeOrder
  <2>3. CASE ~DropStore(t) /\ ~DropFree(t)
    <3>1. SameOrder
      BY <1>2, <2>3, SameOrderActions
    <3> QED
      BY <3>1, SameOrderStep DEF OrderInv, FewerCarry, SameOrder
  <2> QED
    BY <2>1, <2>2, <2>3
<1>3. ASSUME ~Linking(t)
      PROVE  Deferred'
  BY <1>3, DeferringKept, AddEndKept, SameDeferredActions, SameDeferredStep DEF OrderInv
<1>4. ASSUME ~Linking(t)
      PROVE  Guards' /\ \A u \in Threads : Leaves(u)'
  <2>1. CASE Finding(t)
    <3>1. ~SetLoad(t)
      BY <2>1 DEF Finding, GetTest, GetCompare, SetLoad
    <3>2. SameSetters
      BY <1>4, <3>1, SameSettersActions
    <3> QED
      BY <1>2, <1>4, <2>1, <3>2, FindingKept
  <2>2. CASE ~Finding(t)
    <3>1. SameThreads
      BY <1>4, <2>2, SameThreadsActions
    <3>2. Guards'
      <4>1. CASE Writing(t)
        BY <4>1, WritingKept
      <4>2. CASE ~Writing(t)
        BY <1>2, <1>4, <3>1, <4>2, FromGrowsActions, SameGuardsStep
      <4> QED
        BY <4>1, <4>2
    <3>3. \A u \in Threads : Leaves(u)'
      <4>1. CASE SetLoad(t)
        BY <4>1, LoadingKept
      <4>2. CASE ~SetLoad(t)
        BY <1>2, <1>4, <3>1, <4>2, SameSettersActions, SameSettersStep
      <4> QED
        BY <4>1, <4>2
    <3> QED
      BY <3>2, <3>3
  <2> QED
    BY <2>1, <2>2
<1> QED
  BY <1>1, <1>2, <1>3, <1>4

(* The proxy is there when a thread steps, and stays. *)
LEMMA StaysAlive ==
    ASSUME IInv, NEW t \in Threads, Enter(t) \/ Step(t)
    PROVE  alive'
<1>1. CASE Enter(t)
  BY <1>1 DEF Enter, GetCall, DropCall, DeferCall, TrimCall, Call, heapVars
<1>2. CASE Step(t)
  <2>1. pc[t] # "idle" /\ alive' = alive
    <3>1. CASE Get(t)
      BY <3>1 DEF Get, GetLoadSeq, GetLoadTail, GetCas, GetTest, GetCompare, heapVars
    <3>2. CASE Set(t)
      BY <3>2 DEF Set, SetLoad, SetCas, SetPrev, SetCount, SetTail, heapVars
    <3>3. CASE Drop(t)
      BY <3>3 DEF Drop, DropSub, DropNext, DropStore, DropFree, heapVars
    <3>4. CASE New(t)
      BY <3>4 DEF New, NewLoad, NewTest, NewRead, NewCas, NewCount, NewAlloc, NewInit, heapVars
    <3>5. CASE Add(t)
      BY <3>5 DEF Add, AddTry, AddMore, AddEnd, heapVars
    <3>6. CASE Trim(t) \/ Backoff(t)
      BY <3>6 DEF Trim, TrimFree, TrimDec, Backoff, heapVars
    <3> QED
      BY <1>2, <3>1, <3>2, <3>3, <3>4, <3>5, <3>6 DEF Step
  <2>2. alive
    BY <2>1 DEF IInv, Allocated
  <2> QED
    BY <2>1, <2>2
<1> QED
  BY <1>1, <1>2

(* Whoever waits while no reference is held waits for a failed allocation. *)
LEMMA QuietWaits ==
    ASSUME TypeOK, IInv, OrderInv
    PROVE  ExhaustedOnlyByReferences
BY QuietPool DEF OrderInv, ExhaustedOnlyByReferences

(* The order is kept by every step, given the inductive invariant. *)
LEMMA OrderStep ==
    ASSUME TypeOK, TypeOK', IInv, OrderInv, [Next]_vars
    PROVE  OrderInv'
<1>1. ASSUME NEW t \in Threads, Enter(t) \/ Step(t) PROVE OrderInv'
  <2>1. Others(t)
    BY <1>1, EnterOwn, StepOwn DEF TypeOK
  <2>2. alive'
    BY <1>1, StaysAlive
  <2> QED
    BY <1>1, <2>1, <2>2, OrderThreadStep DEF OrderInv
<1>2. CASE DeleteProxy
  <2>1. UNCHANGED <<proxyVars, nodeVars, pc, clientVars, localVars, historyVars>>
    BY <1>2 DEF DeleteProxy
  <2>2. ExhaustedOnlyByReferences'
    <3>1. /\ pc' = pc /\ ref' = ref /\ failed' = failed /\ freeHead' = freeHead
          /\ freeTail' = freeTail /\ numNodes' = numNodes
      BY <2>1 DEF proxyVars, clientVars, historyVars
    <3> QED
      BY <3>1, QuietWaits DEF ExhaustedOnlyByReferences, Quiescent
  <2> QED
    BY <2>1, <2>2, OrderSameStep DEF OrderInv
<1>3. CASE UNCHANGED vars
  <2>1. /\ UNCHANGED <<proxyVars, nodeVars, pc, clientVars, localVars, historyVars>>
        /\ alive' = alive
    BY <1>3 DEF vars, heapVars
  <2>2. /\ pc' = pc /\ ref' = ref /\ failed' = failed /\ freeHead' = freeHead
        /\ freeTail' = freeTail /\ numNodes' = numNodes
    BY <2>1 DEF proxyVars, clientVars, historyVars
  <2>3. alive' \/ ExhaustedOnlyByReferences'
    BY <2>1, <2>2 DEF OrderInv, ExhaustedOnlyByReferences, Quiescent
  <2> QED
    BY <2>1, <2>3, OrderSameStep DEF OrderInv
<1> QED
  BY <1>1, <1>2, <1>3, NextCases

(* What is deferred and not freed is carried by the nodes in use, in the   *)
(* order in which it was deferred, behind the references that guard it.    *)
THEOREM OrderInvariance == Spec => []OrderInv
<1>1. Init => OrderInv
  BY OrderInit
<1>2. TypeOK /\ TypeOK' /\ IInv /\ OrderInv /\ [Next]_vars => OrderInv'
  BY OrderStep
<1> QED
  BY <1>1, <1>2, Invariance, PTL DEF Spec

(* When nobody is inside the library, or only waiting for a node, and no   *)
(* reference is held, all that was deferred has been freed and only the    *)
(* tail is in use.                                                         *)
THEOREM QuiescentIsClean == Spec => []QuiescentReclaimed
<1>1. TypeOK /\ IInv /\ OrderInv => QuiescentReclaimed
  BY QuietFreed DEF QuiescentReclaimed
<1> QED
  BY <1>1, Invariance, OrderInvariance, PTL

(* And then there is a node to be had, unless as many allocations failed   *)
(* as there may be nodes.                                                  *)
THEOREM WaitsForReferences == Spec => []ExhaustedOnlyByReferences
<1>1. TypeOK /\ IInv /\ OrderInv => ExhaustedOnlyByReferences
  BY QuietWaits
<1> QED
  BY <1>1, Invariance, OrderInvariance, PTL

-------------------------------------------------------------------------------
(* Rcpc implements ProxyCollector                                          *)

Pending == SubSeq(log, Len(done) + 1, Len(log))

(* The part of a sequence of data after the first m elements. *)
LEMMA Rest ==
    ASSUME NEW s, NEW m \in Nat, NEW n \in Nat, m <= n, \A i \in (m + 1)..n : s[i] \in Data
    PROVE  /\ SubSeq(s, m + 1, n) \in Seq(Data) /\ Len(SubSeq(s, m + 1, n)) = n - m
           /\ \A i \in 1..(n - m) : SubSeq(s, m + 1, n)[i] = s[m + i]
<1> DEFINE r == SubSeq(s, m + 1, n)
<1>1. /\ r \in Seq(Data)
      /\ Len(r) = IF m + 1 <= n THEN n - (m + 1) + 1 ELSE 0
      /\ \A i \in 1..(n - (m + 1) + 1) : r[i] = s[(m + 1) + i - 1]
  <2>1. m + 1 \in Int /\ n \in Int
    OBVIOUS
  <2> QED
    BY <2>1, SubSeqProperties
<1> HIDE DEF r
<1>2. Len(r) = n - m
  BY <1>1
<1>3. \A i \in 1..(n - m) : (m + 1) + i - 1 = m + i
  OBVIOUS
<1>4. \A i \in 1..(n - m) : r[i] = s[m + i]
  <2>1. n - (m + 1) + 1 = n - m
    OBVIOUS
  <2> QED
    BY <1>1, <1>3, <2>1
<1> QED
  BY <1>1, <1>2, <1>4 DEF r

(* What is pending for the abstract collector is the rest of the log. *)
LEMMA PendingIsRest ==
    ASSUME TypeOK, Prefix
    PROVE  /\ Pending \in Seq(Data) /\ Len(Pending) = Len(log) - Len(done)
           /\ \A i \in 1..Len(Pending) : Pending[i] = log[Len(done) + i]
<1>1. /\ Len(done) <= Len(log) /\ Len(done) \in Nat /\ Len(log) \in Nat
      /\ \A i \in (Len(done) + 1)..Len(log) : log[i] \in Data
  BY LogFacts DEF Prefix
<1> QED
  BY <1>1, Rest DEF Pending

(* It grows at its end with the sequence. *)
LEMMA RestAppend ==
    ASSUME NEW s \in Seq(Data), NEW d \in Data, NEW m \in Nat, m <= Len(s)
    PROVE  SubSeq(Append(s, d), m + 1, Len(s) + 1) = Append(SubSeq(s, m + 1, Len(s)), d)
<1> DEFINE k == Len(s)
           z == Append(s, d)
           p == SubSeq(s, m + 1, k)
           q == Append(p, d)
<1>1. k \in Nat /\ m <= k /\ \A i \in 1..k : s[i] \in Data
  BY ElementOfSeq
<1>2. z[k + 1] = d /\ \A i \in 1..k : z[i] = s[i]
  BY AppendProperties
<1>3. p \in Seq(Data) /\ Len(p) = k - m /\ \A i \in 1..(k - m) : p[i] = s[m + i]
  BY <1>1, Rest
<1>4. /\ q \in Seq(Data) /\ Len(q) = Len(p) + 1
      /\ q[Len(p) + 1] = d /\ \A i \in 1..Len(p) : q[i] = p[i]
  <2> HIDE DEF p
  <2> QED
    BY <1>3, AppendProperties
<1> HIDE DEF k, z, p, q
<1>n. PICK n \in Nat : n = k + 1
  BY <1>1
<1> DEFINE r == SubSeq(z, m + 1, n)
<1>5. r \in Seq(Data) /\ Len(r) = n - m /\ \A i \in 1..(n - m) : r[i] = z[m + i]
  <2>1. m <= n /\ n \in Nat /\ \A i \in (m + 1)..n : z[i] \in Data
    BY <1>1, <1>2, <1>n
  <2> QED
    BY <2>1, Rest
<1> HIDE DEF r
<1>6. Len(r) = Len(q)
  BY <1>1, <1>3, <1>4, <1>5, <1>n
<1>7. ASSUME NEW i \in 1..Len(r) PROVE r[i] = q[i]
  <2>1. i \in 1..(k + 1 - m) /\ r[i] = z[m + i]
    BY <1>1, <1>5, <1>n
  <2>2. CASE i <= k - m
    <3>1. m + i \in 1..k /\ i \in 1..(k - m)
      BY <1>1, <2>1, <2>2
    <3> QED
      BY <1>2, <1>3, <1>4, <2>1, <3>1
  <2>3. CASE i = k - m + 1
    <3>1. m + i = k + 1
      BY <1>1, <2>3
    <3> QED
      BY <1>2, <1>3, <1>4, <2>1, <2>3, <3>1
  <2> QED
    BY <1>1, <2>1, <2>2, <2>3
<1>8. r = q
  BY <1>4, <1>5, <1>6, <1>7, SeqEqual
<1> QED
  BY <1>8, <1>n DEF k, z, p, q, r

(* What is deferred comes at the end of what is pending. *)
LEMMA DeferredIsLast ==
    ASSUME TypeOK, Prefix, NEW d \in Data, log' = Append(log, d), done' = done
    PROVE  Pending' = Append(Pending, d)
<1>1. log \in Seq(Data) /\ Len(done) \in Nat /\ Len(done) <= Len(log)
  BY LogFacts DEF Prefix
<1>2. Len(log') = Len(log) + 1
  BY <1>1, AppendProperties
<1>3. Pending' = SubSeq(Append(log, d), Len(done) + 1, Len(log) + 1)
  BY <1>2 DEF Pending
<1> QED
  BY <1>1, <1>3, RestAppend DEF Pending

(* What is freed is taken from its front. *)
LEMMA FreedIsFirst ==
    ASSUME TypeOK, Prefix, NEW d \in Data, Len(done) + 1 <= Len(log),
           log[Len(done) + 1] = d, done' = Append(done, d), log' = log
    PROVE  Pending # <<>> /\ Head(Pending) = d /\ Pending' = Tail(Pending)
<1> USE LogFacts
<1>1. Pending \in Seq(Data) /\ Len(Pending) = Len(log) - Len(done)
  BY PendingIsRest
<1>2. Len(done') = Len(done) + 1
  BY AppendProperties
<1>3. Head(Pending) = d /\ Tail(Pending) = SubSeq(log, (Len(done) + 1) + 1, Len(log))
  <2>1. Len(done) + 1 \in 1..Len(log) /\ Len(log) \in (Len(done) + 1)..Len(log)
    OBVIOUS
  <2> QED
    BY <2>1, HeadTailOfSubSeq DEF Pending
<1>4. Pending # <<>>
  BY <1>1, EmptySeq
<1>5. Pending' = SubSeq(log, (Len(done) + 1) + 1, Len(log))
  BY <1>2 DEF Pending
<1> QED
  BY <1>3, <1>4, <1>5

LEMMA FreedIsDone ==
    ASSUME TypeOK, NEW d \in Data, done' = Append(done, d)
    PROVE  Done' = Done \union {d}
<1>1. /\ Len(done) \in Nat /\ Len(done') = Len(done) + 1 /\ done'[Len(done) + 1] = d
      /\ \A i \in 1..Len(done) : done'[i] = done[i]
  BY LogFacts, AppendProperties
<1>2. \A x : x \in Done' <=> \E i \in 1..(Len(done) + 1) : x = done'[i]
  BY <1>1 DEF Done
<1>3. \A x : x \in Done' <=> x \in Done \/ x = d
  BY <1>1, <1>2 DEF Done
<1> QED
  BY <1>3

(* Initial states map to initial states. *)
LEMMA CollectorInit == Init => Collector!Init
<1> SUFFICES ASSUME Init PROVE Collector!Init
  OBVIOUS
<1>1. guard = [d \in Data |-> {}] /\ Len(log) = 0 /\ Len(done) = 0
  BY DEF Init
<1>2. Holding = {}
  BY InitIdle DEF Holding
<1>3. Done = {}
  BY <1>1 DEF Done
<1>4. SubSeq(log, Len(done) + 1, Len(log)) = <<>>
  BY <1>1, SubSeqEmpty
<1> QED
  BY <1>1, <1>2, <1>3, <1>4 DEF Collector!Init

(* A client acquires its reference with the number. *)
Acquiring(t) == GetCas(t) /\ SequenceMatches(t) /\ use[t] = "hold"

LEMMA AcquiringStep ==
    ASSUME TypeOK, IInv, NEW t \in Threads, Others(t), Acquiring(t)
    PROVE  Collector!Acquire(t)
<1>1. Role(t) /\ Caller(t) /\ pc[t] = "g_cas" /\ At(t) = "g_cas"
  BY DEF IInv, Acquiring, GetCas, At, Setting, Dropping
<1>2. ref[t] = NULL /\ seq[t] = 0
  BY <1>1 DEF Role, Caller, Seeks, Acquiring
<1>3. /\ ref' = ref /\ use' = use /\ seq'[t] = sequence + REFERENCE
      /\ UNCHANGED <<guard, log, done>>
  BY DEF Acquiring, GetCas, SequenceMatches, clientVars, historyVars, TypeOK, LocalType
<1>4. seq'[t] # 0
  BY <1>3, TypesGive DEF REFERENCE
<1>5. Holding' = Holding \union {t} /\ t \notin Holding
  <2>1. t \in Holding' /\ t \notin Holding
    BY <1>2, <1>3, <1>4 DEF Holding, Acquiring
  <2>2. \A u \in Threads \ {t} : u \in Holding' <=> u \in Holding
    BY DEF Holding, Others
  <2> QED
    BY <2>1, <2>2 DEF Holding
<1> QED
  BY <1>3, <1>5 DEF Collector!Acquire, Done

LEMMA ReleasingStep ==
    ASSUME TypeOK, IInv, NEW t \in Threads, Others(t), DropCall(t)
    PROVE  Collector!Release(t)
<1>1. Role(t) /\ pc[t] = "idle" /\ At(t) = "idle"
  BY DEF IInv, DropCall, At, Setting, Dropping
<1>2. ref[t] # NULL /\ seq[t] = 0
  BY <1>1 DEF Role, Seeks, DropCall
<1>3. /\ ref'[t] = NULL /\ seq' = seq
      /\ guard' = [d \in Data |-> guard[d] \ {t}] /\ UNCHANGED <<log, done>>
  BY DEF DropCall, getVars, TypeOK, ClientType
<1>4. Holding' = Holding \ {t} /\ t \in Holding
  <2>1. t \notin Holding' /\ t \in Holding
    BY <1>2, <1>3 DEF Holding
  <2>2. \A u \in Threads \ {t} : u \in Holding' <=> u \in Holding
    BY DEF Holding, Others
  <2> QED
    BY <2>1, <2>2 DEF Holding
<1> QED
  BY <1>3, <1>4 DEF Collector!Release, Done

(* Data is deferred with the link. *)
LEMMA LinkingStep ==
    ASSUME TypeOK, IInv, OrderInv, NEW t \in Threads, Linking(t), arg[t] # NULL
    PROVE  arg[t] \in Data /\ Collector!Defer(arg[t])
<1> USE LogFacts
<1>1. /\ log' = Append(log, arg[t]) /\ guard' = [guard EXCEPT ![arg[t]] = Holding]
      /\ done' = done /\ Holding' = Holding /\ arg[t] \in Data
  BY DEF Linking, AddTry, clientVars, Holding, DataOrNull
<1>2. Prefix /\ arg[t] \notin Logged
  BY LinkingFacts DEF OrderInv, Deferred
<1>3. Pending' = Append(Pending, arg[t])
  BY <1>1, <1>2, DeferredIsLast
<1>4. arg[t] \notin Done
  BY <1>2 DEF Prefix, Done, Logged
<1>5. arg[t] \notin {Pending[i] : i \in 1..Len(Pending)}
  <2> SUFFICES ASSUME NEW i \in 1..Len(Pending) PROVE Pending[i] \in Logged
    BY <1>2
  <2>1. Len(Pending) = Len(log) - Len(done) /\ Pending[i] = log[Len(done) + i]
    BY <1>2, PendingIsRest
  <2>2. Len(done) + i \in 1..Len(log)
    BY <2>1
  <2> QED
    BY <2>1, <2>2 DEF Logged
<1> QED
  BY <1>1, <1>3, <1>4, <1>5 DEF Collector!Defer, Collector!Queued, Pending, Done

(* What is freed is the oldest, and nobody guards it any more. *)
LEMMA FreeingStep ==
    ASSUME TypeOK, IInv, OrderInv, NEW t \in Threads, DropFree(t), data[drop[t]] # NULL
    PROVE  Collector!Free
<1> USE LogFacts
<1>1. drop[t] \in Nodes /\ Carries(drop[t]) /\ Due(drop[t])
  <2>1. pc[t] = "d_free" /\ Role(t) /\ Touch(t) /\ Places /\ Links
    BY DEF IInv, DropFree
  <2>2. drop[t] \in Nodes /\ Used(drop[t])
    BY <2>1, Controls, Types DEF Touch, Dropping
  <2>3. pos[drop[t]] > 0
    BY <2>1, <2>2, ChainFacts, TypesGive, Consts
  <2> QED
    BY <2>1, <2>2, <2>3 DEF Carries, Due
<1> DEFINE d == data[drop[t]]
<1>2. /\ Len(done) + 1 \in Unfreed /\ log[Len(done) + 1] = d
      /\ guard[d] = {}
  BY <1>1, DueIsOldest
<1>3. d \in Data
  BY <1>1, CarriedInUse
<1>4. /\ done' = Append(done, d) /\ log' = log /\ guard' = guard /\ Holding' = Holding
  BY DEF DropFree, clientVars, localVars, getVars, Holding
<1> HIDE DEF d
<1>5. Pending # <<>> /\ Head(Pending) = d /\ Pending' = Tail(Pending)
  <2>1. Len(done) + 1 <= Len(log) /\ Prefix
    BY <1>2 DEF Unfreed, OrderInv
  <2> QED
    BY <1>2, <1>3, <1>4, <2>1, FreedIsFirst
<1>6. Done' = Done \union {d}
  BY <1>3, <1>4, FreedIsDone
<1> QED
  BY <1>2, <1>4, <1>5, <1>6 DEF Collector!Free, Pending

(* No other step changes who holds a reference: finding the node does not. *)
LEMMA HoldingStays ==
    ASSUME TypeOK, IInv, NEW t \in Threads, Others(t), Enter(t) \/ Step(t),
           ~Acquiring(t), ~DropCall(t)
    PROVE  Holding' = Holding
<1>0. Role(t) /\ Caller(t) /\ ClientType /\ LocalType
  BY DEF IInv, TypeOK
<1>1. ASSUME ref' = ref, use' = use, seq' = seq PROVE Holding' = Holding
  BY <1>1 DEF Holding
<1>2. ASSUME t \in Holding' <=> t \in Holding PROVE Holding' = Holding
  <2>1. \A u \in Threads \ {t} : u \in Holding' <=> u \in Holding
    BY DEF Holding, Others
  <2> QED
    BY <1>2, <2>1 DEF Holding
<1>3. CASE Enter(t)
  <2>1. pc[t] = "idle" /\ seq[t] = 0
    <3>1. pc[t] = "idle"
      BY <1>3 DEF Enter, GetCall, DropCall, DeferCall, TrimCall, Call
    <3> QED
      BY <1>0, <3>1 DEF Role, At, Setting, Dropping, Seeks
  <2>2. ref' = ref /\ seq' = seq
    BY <1>3 DEF Enter, GetCall, DeferCall, TrimCall, Call
  <2> QED
    BY <1>2, <2>1, <2>2 DEF Holding
<1>4. CASE GetCas(t)
  <2>1. CASE SequenceMatches(t)
    <3>1. use[t] # "hold" /\ use' = use /\ ref' = ref
      BY <1>4, <2>1 DEF Acquiring, GetCas, clientVars
    <3> QED
      BY <1>2, <3>1 DEF Holding
  <2>2. CASE ~SequenceMatches(t)
    BY <1>1, <1>4, <2>2 DEF GetCas, clientVars
  <2> QED
    BY <2>1, <2>2
<1>5. ASSUME GetReturn(t), use' = use, pc[t] \in {"g_test", "g_cmp"}
      PROVE  Holding' = Holding
  <2>1. seq[t] # 0 /\ cur[t] # NULL /\ seq'[t] = 0
    BY <1>0, <1>5 DEF Role, At, Setting, Dropping, Seeks, GetReturn, LocalType
  <2>2. CASE use[t] = "hold"
    <3>1. ref'[t] = cur[t]
      BY <1>0, <1>5, <2>2 DEF GetReturn, ClientType
    <3> QED
      BY <1>2, <1>5, <2>1, <2>2, <3>1 DEF Holding
  <2>3. CASE use[t] # "hold"
    <3>1. ref' = ref
      BY <1>5, <2>3 DEF GetReturn
    <3> QED
      BY <1>2, <1>5, <2>3, <3>1 DEF Holding
  <2> QED
    BY <2>2, <2>3
<1>6. CASE GetTest(t)
  BY <1>1, <1>5, <1>6 DEF GetTest
<1>7. CASE GetCompare(t)
  BY <1>1, <1>5, <1>7 DEF GetCompare
<1>8. CASE GetLoadSeq(t) \/ GetLoadTail(t)
  BY <1>1, <1>8 DEF GetLoadSeq, GetLoadTail, clientVars
<1>9. CASE Set(t)
  BY <1>1, <1>9 DEF Set, SetLoad, SetCas, SetPrev, SetCount, SetTail, clientVars,
                    localVars, getVars
<1>10. CASE Drop(t)
  BY <1>1, <1>10 DEF Drop, DropSub, DropNext, DropStore, DropFree, clientVars, localVars, getVars
<1>11. CASE New(t)
  BY <1>1, <1>11 DEF New, NewLoad, NewTest, NewRead, NewCas, NewCount, NewAlloc, NewInit,
                     clientVars, getVars
<1>12. CASE Add(t)
  BY <1>1, <1>12 DEF Add, AddTry, AddMore, AddEnd, clientVars
<1>13. CASE Trim(t) \/ Backoff(t)
  BY <1>1, <1>13 DEF Trim, TrimFree, TrimDec, Backoff, clientVars, localVars, getVars
<1> QED
  BY <1>3, <1>4, <1>6, <1>7, <1>8, <1>9, <1>10, <1>11, <1>12, <1>13 DEF Step, Get

(* Nor does one change what is deferred, freed and guarded. *)
LEMMA QueueStays ==
    ASSUME NEW t \in Threads, Enter(t) \/ Step(t), ~DropCall(t),
           ~(Linking(t) /\ arg[t] # NULL), ~(DropFree(t) /\ data[drop[t]] # NULL)
    PROVE  UNCHANGED <<guard, log, done>>
<1>1. CASE Enter(t)
  BY <1>1 DEF Enter, GetCall, DeferCall, TrimCall, historyVars
<1>2. CASE Get(t)
  BY <1>2 DEF Get, GetLoadSeq, GetLoadTail, GetCas, GetTest, GetCompare, historyVars
<1>3. CASE Set(t)
  BY <1>3 DEF Set, SetLoad, SetCas, SetPrev, SetCount, SetTail, historyVars
<1>4. CASE Drop(t)
  BY <1>4 DEF Drop, DropSub, DropNext, DropStore, DropFree, historyVars
<1>5. CASE New(t)
  BY <1>5 DEF New, NewLoad, NewTest, NewRead, NewCas, NewCount, NewAlloc, NewInit, historyVars
<1>6. CASE Add(t)
  BY <1>6 DEF Add, Linking, AddTry, AddMore, AddEnd, historyVars
<1>7. CASE Trim(t) \/ Backoff(t)
  BY <1>7 DEF Trim, TrimFree, TrimDec, Backoff, historyVars
<1> QED
  BY <1>1, <1>2, <1>3, <1>4, <1>5, <1>6, <1>7 DEF Step

(* Every step maps to a step of the abstract collector or to a stutter. *)
LEMMA CollectorStep ==
    ASSUME TypeOK, IInv, OrderInv, [Next]_vars
    PROVE  [Collector!Next]_(Collector!vars)
<1>1. ASSUME Holding' = Holding, UNCHANGED <<guard, log, done>>
      PROVE  UNCHANGED Collector!vars
  BY <1>1 DEF Collector!vars, Done
<1>2. ASSUME NEW t \in Threads, Enter(t) \/ Step(t)
      PROVE  Collector!Next \/ UNCHANGED Collector!vars
  <2>1. Others(t)
    BY <1>2, EnterOwn, StepOwn DEF TypeOK
  <2>2. CASE Acquiring(t)
    BY <2>1, <2>2, AcquiringStep DEF Collector!Next
  <2>3. CASE DropCall(t)
    BY <2>1, <2>3, ReleasingStep DEF Collector!Next
  <2>4. CASE Linking(t) /\ arg[t] # NULL
    BY <2>4, LinkingStep DEF Collector!Next
  <2>5. CASE DropFree(t) /\ data[drop[t]] # NULL
    BY <2>5, FreeingStep DEF Collector!Next
  <2>6. CASE /\ ~Acquiring(t) /\ ~DropCall(t)
             /\ ~(Linking(t) /\ arg[t] # NULL) /\ ~(DropFree(t) /\ data[drop[t]] # NULL)
    BY <1>1, <1>2, <2>1, <2>6, HoldingStays, QueueStays
  <2> QED
    BY <2>2, <2>3, <2>4, <2>5, <2>6
<1>3. CASE DeleteProxy
  BY <1>1, <1>3 DEF DeleteProxy, Holding, clientVars, localVars, getVars, historyVars
<1>4. CASE UNCHANGED vars
  BY <1>1, <1>4 DEF vars, Holding, clientVars, localVars, getVars, historyVars
<1> QED
  BY <1>2, <1>3, <1>4, NextCases

(* What rcpc promises its callers: the algorithm is a proxy collector. *)
THEOREM Implements == Spec => ImplementsCollector
<1>1. Init => Collector!Init
  BY CollectorInit
<1>2. TypeOK /\ IInv /\ OrderInv /\ [Next]_vars => [Collector!Next]_(Collector!vars)
  BY CollectorStep
<1> QED
  BY <1>1, <1>2, Invariance, OrderInvariance, PTL
     DEF Spec, ImplementsCollector, Collector!Spec
===============================================================================
