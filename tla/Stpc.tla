--------------------------------- MODULE Stpc ---------------------------------
(***************************************************************************)
(* The lock-free proxy collector of stpc/stpc.c, at the grain of its       *)
(* atomic accesses.                                                        *)
(*                                                                         *)
(* The proxy keeps one chain of nodes linked by next:                      *)
(*                                                                         *)
(*    freeHead -> ... -> freeTail -> ... -> tail                           *)
(*    [free, reusable )[ in use                ]                           *)
(*                                                                         *)
(* A reference is taken by adding REFERENCE to the sequence stored next to *)
(* the tail pointer, so that taking it touches no node.  Queueing a node   *)
(* swings the tail, which fixes how many references the old tail gave out; *)
(* that number is then folded into the old tail's own count, from which    *)
(* droppers have been subtracting all along.  GUARD_BIT keeps the count    *)
(* odd, hence different from what a dropper subtracts, until that is done. *)
(* Whoever takes a count to zero owns the front of the in-use part: it     *)
(* moves freeTail, frees the data of the next node and drops the link to   *)
(* that node, which may carry the reclamation on.                          *)
(*                                                                         *)
(* Memory is sequentially consistent; one action makes at most one access  *)
(* to a shared word that another thread may be writing.                    *)
(***************************************************************************)
EXTENDS Integers, Sequences, FiniteSets

CONSTANTS
    Readers,        \* threads that take and drop proxy references
    Writers,        \* threads that call stpcDeferredDelete
    Trimmers,       \* threads that call stpcTryDeleteProxyNodes
    Nodes,          \* addresses the allocator hands out for nodes
    FirstNode,      \* the node that stpcNewProxyM allocates
    Data,           \* objects handed to stpcDeferredDelete
    NULL,
    MaxNodes,       \* maximum set before the threads start
    Limits,         \* maxima that stpcSetMaxNodes may be called with later
    AllocMayFail,   \* whether allocMem may return NULL
    MaxCalls,       \* bound: MaxCalls[t] Get, DeferredDelete and TryDelete calls of t
    MaxTrim         \* bound: largest count given to stpcTryDeleteProxyNodes

Threads == Readers \union Writers \union Trimmers

ASSUME StpcAssumption ==
    /\ FirstNode \in Nodes
    /\ NULL \notin Nodes \union Data
    /\ IsFiniteSet(Nodes) /\ IsFiniteSet(Threads)
    /\ MaxNodes \in Nat /\ MaxNodes > 1     \* stpcSetMaxNodes ignores less
    /\ Limits \subseteq Nat
    /\ AllocMayFail \in BOOLEAN
    /\ MaxCalls \in [Threads -> Nat] /\ MaxTrim \in Nat

REFERENCE == 2
NoGuardBit == 0     \* fault: the count of a tail may meet a dropper's 2
GUARD_BIT == 1

(* Small operators named for a fault are variants of the definition that   *)
(* follows them; a property is shown to notice the exchange.               *)

VARIABLES
    (* stpcProxy *)
    tail,       \* [ptr, seq]: newest node, references taken on it times REFERENCE
    freeHead,   \* [ptr, seq]: first free node, number of pops so far
    freeTail,   \* first node that is still in use
    numNodes,   \* allocated nodes, as counted by the proxy
    maxNodes,
    (* stpcNode, by address *)
    next, count, data,
    (* the allocator *)
    heap,       \* nodes that are allocated
    alive       \* the proxy has not been deleted
proxyVars == <<tail, freeHead, freeTail, numNodes, maxNodes>>
nodeVars  == <<next, count, data>>
heapVars  == <<heap, alive>>

VARIABLES
    pc,         \* where each thread is; "idle" outside the library
    ref,        \* the node a thread holds a reference to, or NULL
    calls,      \* calls a thread may still make
    old,        \* oldTail, oldFree
    nxt,        \* newFree.ptr in _newNode, next in _dropProxyNodeReference
    adv,        \* proxy->freeTail->next in _dropProxyNodeReference
    node,       \* node, newNode
    rcount,     \* rcount in _dropProxyNodeReference
    arg,        \* data in stpcDeferredDelete
    num,        \* oldNum in _newNode, current in stpcTryDeleteProxyNodes
    left        \* count - n in stpcTryDeleteProxyNodes; 0 in other calls
clientVars == <<ref, calls>>
localVars  == <<old, nxt, adv, node, rcount, arg, num, left>>

VARIABLES       \* history, never read by the program
    log,        \* data in the order its node was put at the tail
    done,       \* data in the order its free function was called
    guard,      \* guard[d]: holders of a reference taken before d's node
    pos,        \* pos[n]: n's place in the order of queueing, 0 off the chain
    mark        \* mark[n]: length of log when n was put at the tail
historyVars == <<log, done, guard, pos, mark>>

vars == <<proxyVars, nodeVars, heapVars, pc, clientVars, localVars, historyVars>>

-------------------------------------------------------------------------------
NodeOrNull == Nodes \union {NULL}
DataOrNull == Data \union {NULL}
Sequenced == [ptr : NodeOrNull, seq : Int]

Nowhere == [ptr |-> NULL, seq |-> 0]

Holding == {t \in Threads : ref[t] # NULL}

Place(n) == IF n \in Nodes THEN pos[n] ELSE 0

PCs == {"idle", "g_seq", "g_cas",
        "d_load", "d_sub", "d_next", "d_store", "d_free", "d_clear",
        "n_ptr", "n_seq", "n_test", "n_read", "n_cas",
        "n_num", "n_inc", "n_check", "n_alloc", "n_init",
        "q_ptr", "q_seq", "q_cas", "q_link", "t_free", "t_dec", "fault"}

(* The types the C declarations give; a pointer may be NULL. *)
ProxyType ==
    /\ tail \in Sequenced /\ freeHead \in Sequenced
    /\ freeTail \in NodeOrNull
    /\ numNodes \in Int /\ maxNodes \in Nat
NodeType ==
    /\ next \in [Nodes -> NodeOrNull]
    /\ count \in [Nodes -> Int]
    /\ data \in [Nodes -> DataOrNull]
HeapType == heap \subseteq Nodes /\ alive \in BOOLEAN
ClientType ==
    /\ pc \in [Threads -> PCs]
    /\ ref \in [Threads -> NodeOrNull]
    /\ calls \in [Threads -> Nat]
LocalType ==
    /\ old \in [Threads -> Sequenced]
    /\ nxt \in [Threads -> NodeOrNull] /\ adv \in [Threads -> NodeOrNull]
    /\ node \in [Threads -> NodeOrNull]
    /\ rcount \in [Threads -> Int]
    /\ arg \in [Threads -> DataOrNull]
    /\ num \in [Threads -> Int] /\ left \in [Threads -> Int]
HistoryType ==
    /\ log \in Seq(Data) /\ done \in Seq(Data)
    /\ guard \in [Data -> SUBSET Threads]
    /\ pos \in [Nodes -> Int] /\ mark \in [Nodes -> Nat]

TypeOK ==
    ProxyType /\ NodeType /\ HeapType /\ ClientType /\ LocalType /\ HistoryType

(* stpcNewProxyM: one node, which is the tail, holds the tail's own        *)
(* reference and is the whole in-use part; then stpcSetMaxNodes(MaxNodes). *)
Init ==
    /\ tail = [ptr |-> FirstNode, seq |-> 0]
    /\ freeHead = [ptr |-> FirstNode, seq |-> 0]
    /\ freeTail = FirstNode
    /\ numNodes = 1 /\ maxNodes = MaxNodes
    /\ next = [n \in Nodes |-> NULL]
    /\ count = [n \in Nodes |-> IF n = FirstNode THEN GUARD_BIT + REFERENCE ELSE 0]
    /\ data = [n \in Nodes |-> NULL]
    /\ heap = {FirstNode} /\ alive = TRUE
    /\ pc = [t \in Threads |-> "idle"]
    /\ ref = [t \in Threads |-> NULL]
    /\ calls = MaxCalls
    /\ old = [t \in Threads |-> Nowhere]
    /\ nxt = [t \in Threads |-> NULL] /\ adv = [t \in Threads |-> NULL]
    /\ node = [t \in Threads |-> NULL]
    /\ rcount = [t \in Threads |-> 0]
    /\ arg = [t \in Threads |-> NULL]
    /\ num = [t \in Threads |-> 0] /\ left = [t \in Threads |-> 0]
    /\ log = <<>> /\ done = <<>>
    /\ guard = [d \in Data |-> {}]
    /\ pos = [n \in Nodes |-> IF n = FirstNode THEN 1 ELSE 0]
    /\ mark = [n \in Nodes |-> 0]

-------------------------------------------------------------------------------
(* Steps of a thread *)

Goto(t, label) == pc' = [pc EXCEPT ![t] = label]

(* Leaving the library: the locals go out of scope. *)
Return(t) ==
    /\ Goto(t, "idle")
    /\ old' = [old EXCEPT ![t] = Nowhere]
    /\ nxt' = [nxt EXCEPT ![t] = NULL] /\ adv' = [adv EXCEPT ![t] = NULL]
    /\ node' = [node EXCEPT ![t] = NULL]
    /\ rcount' = [rcount EXCEPT ![t] = 0]
    /\ arg' = [arg EXCEPT ![t] = NULL]
    /\ num' = [num EXCEPT ![t] = 0] /\ left' = [left EXCEPT ![t] = 0]

(* A thread enters the library, which spends one of its calls. *)
Call(t) ==
    /\ alive /\ pc[t] = "idle" /\ calls[t] > 0
    /\ calls' = [calls EXCEPT ![t] = @ - 1]

(* A 16-byte load is a plain one (stdatomic/atomix.c:4-6): it reads the    *)
(* pointer and then the sequence, and the pair may never have existed.     *)
LoadPtr(t, w) == old' = [old EXCEPT ![t].ptr = w.ptr]
LoadSeq(t, w) == old' = [old EXCEPT ![t].seq = w.seq]

(* Reading a field of a node whose memory was given back, or through NULL, *)
(* has no defined value: it may be anything of the field's type.           *)
NextOf(n) == IF n \in heap THEN {next[n]} ELSE NodeOrNull
DataOf(n) == IF n \in heap THEN {data[n]} ELSE DataOrNull

-------------------------------------------------------------------------------
(* stpcGetProxyNodeReference *)

GetCall(t) ==
    /\ t \in Readers /\ ref[t] = NULL
    /\ Call(t)
    /\ LoadPtr(t, tail)
    /\ Goto(t, "g_seq")
    /\ UNCHANGED <<proxyVars, nodeVars, heapVars, historyVars,
                   ref, nxt, adv, node, rcount, arg, num, left>>

GetLoadSeq(t) ==
    /\ pc[t] = "g_seq"
    /\ LoadSeq(t, tail)
    /\ Goto(t, "g_cas")
    /\ UNCHANGED <<proxyVars, nodeVars, heapVars, historyVars, clientVars,
                   nxt, adv, node, rcount, arg, num, left>>

GetCas(t) ==
    /\ pc[t] = "g_cas"
    /\ \/ /\ tail = old[t]
          /\ tail' = [tail EXCEPT !.seq = old[t].seq + REFERENCE]
          /\ ref' = [ref EXCEPT ![t] = old[t].ptr]
          /\ Return(t)
       \/ /\ tail # old[t]
          /\ old' = [old EXCEPT ![t] = tail]
          /\ UNCHANGED <<tail, ref, pc, nxt, adv, node, rcount, arg, num, left>>
    /\ UNCHANGED <<freeHead, freeTail, numNodes, maxNodes, nodeVars, heapVars,
                   calls, historyVars>>

-------------------------------------------------------------------------------
(* _dropProxyNodeReference *)

(* stpcDropProxyNodeReference: from here on t no longer uses what the      *)
(* reference protected.                                                    *)
DropCall(t) ==
    /\ alive /\ pc[t] = "idle" /\ ref[t] # NULL
    /\ ref' = [ref EXCEPT ![t] = NULL]
    /\ guard' = [d \in Data |-> guard[d] \ {t}]
    /\ node' = [node EXCEPT ![t] = ref[t]]
    /\ rcount' = [rcount EXCEPT ![t] = REFERENCE]
    /\ Goto(t, "d_load")
    /\ UNCHANGED <<proxyVars, nodeVars, heapVars, log, done, pos, mark,
                   calls, old, nxt, adv, arg, num, left>>

(* The last holder skips the subtraction. *)
IsLast(t) == count[node[t]] = rcount[t]

DropLoad(t) ==
    /\ pc[t] = "d_load"
    /\ Goto(t, IF IsLast(t) THEN "d_next" ELSE "d_sub")
    /\ UNCHANGED <<proxyVars, nodeVars, heapVars, clientVars, localVars, historyVars>>

(* fetch_sub returns the count before the subtraction. *)
TookLastOfNewValue(t) == count[node[t]] - rcount[t] = rcount[t]     \* fault
TookLast(t) == count[node[t]] = rcount[t]

DropSub(t) ==
    /\ pc[t] = "d_sub"
    /\ count' = [count EXCEPT ![node[t]] = @ - rcount[t]]
    /\ IF TookLast(t)
       THEN Goto(t, "d_next") /\ UNCHANGED localVars
       ELSE Return(t)
    /\ UNCHANGED <<proxyVars, next, data, heapVars, clientVars, historyVars>>

(* Only one thread at a time gets here (SingleReclaimer), so that the two  *)
(* reads may be one action.                                                *)
DropNext(t) ==
    /\ pc[t] = "d_next"
    /\ \E n \in NextOf(node[t]) : nxt' = [nxt EXCEPT ![t] = n]
    /\ \E n \in NextOf(freeTail) : adv' = [adv EXCEPT ![t] = n]
    /\ Goto(t, "d_store")
    /\ UNCHANGED <<proxyVars, nodeVars, heapVars, clientVars, historyVars,
                   old, node, rcount, arg, num, left>>

DropStore(t) ==
    /\ pc[t] = "d_store"
    /\ freeTail' = adv[t]
    /\ node' = [node EXCEPT ![t] = nxt[t]]
    /\ Goto(t, "d_free")
    /\ UNCHANGED <<tail, freeHead, numNodes, maxNodes, nodeVars, heapVars,
                   clientVars, historyVars, old, nxt, adv, rcount, arg, num, left>>

HasDataAlways(d) == TRUE                    \* fault: the test for NULL is missing
HasData(d) == d # NULL

(* Without data the loop goes on with the link from the node that was let  *)
(* go.                                                                     *)
DropFree(t) ==
    /\ pc[t] = "d_free"
    /\ \E d \in DataOf(node[t]) :
          \/ /\ HasData(d)
             /\ done' = Append(done, d)
             /\ Goto(t, "d_clear")
             /\ UNCHANGED rcount
          \/ /\ ~HasData(d)
             /\ rcount' = [rcount EXCEPT ![t] = REFERENCE]
             /\ Goto(t, "d_load")
             /\ UNCHANGED done
    /\ UNCHANGED <<proxyVars, nodeVars, heapVars, clientVars, log, guard, pos, mark,
                   old, nxt, adv, node, arg, num, left>>

DropClear(t) ==
    /\ pc[t] = "d_clear"
    /\ data' = [data EXCEPT ![node[t]] = NULL]
    /\ rcount' = [rcount EXCEPT ![t] = REFERENCE]
    /\ Goto(t, "d_load")
    /\ UNCHANGED <<proxyVars, next, count, heapVars, clientVars, historyVars,
                   old, nxt, adv, node, arg, num, left>>

-------------------------------------------------------------------------------
(* stpcDeferredDelete and stpcTryDeleteProxyNodes: entering and looping *)

(* A client may pass a NULL pointer, which is then not freed. *)
DeferCall(t) ==
    /\ t \in Writers
    /\ Call(t)
    /\ \E d \in {NULL} \union {d \in Data : /\ \A i \in 1..Len(log) : log[i] # d
                                            /\ \A u \in Threads : arg[u] # d} :
          arg' = [arg EXCEPT ![t] = d]
    /\ Goto(t, "n_ptr")
    /\ UNCHANGED <<proxyVars, nodeVars, heapVars, historyVars, ref,
                   old, nxt, adv, node, rcount, num, left>>

(* The loop test of stpcTryDeleteProxyNodes: k nodes to go, cur allocated. *)
TrimLoop(t, k, cur) ==
    IF k > 0 /\ cur > 1
    THEN /\ Goto(t, "n_ptr")
         /\ left' = [left EXCEPT ![t] = k]
         /\ num' = [num EXCEPT ![t] = cur]
         /\ UNCHANGED <<old, nxt, adv, node, rcount, arg>>
    ELSE Return(t)

TrimCall(t) ==
    /\ t \in Trimmers
    /\ Call(t)
    /\ \E k \in 1..MaxTrim : TrimLoop(t, k, numNodes)
    /\ UNCHANGED <<proxyVars, nodeVars, heapVars, historyVars, ref>>

TrimFree(t) ==
    /\ pc[t] = "t_free"
    /\ heap' = heap \ {node[t]}
    /\ Goto(t, "t_dec")
    /\ UNCHANGED <<proxyVars, nodeVars, alive, clientVars, localVars, historyVars>>

DecrementedStale(t) == num[t] - 1           \* fault: not a fetch_sub
Decremented(t) == numNodes - 1

TrimDec(t) ==
    /\ pc[t] = "t_dec"
    /\ numNodes' = Decremented(t)
    /\ TrimLoop(t, left[t] - 1, Decremented(t))
    /\ UNCHANGED <<tail, freeHead, freeTail, maxNodes, nodeVars, heapVars,
                   clientVars, historyVars>>

-------------------------------------------------------------------------------
(* _newNode; its parameter alloc is FALSE in stpcTryDeleteProxyNodes *)

Alloc(t) == left[t] = 0

NewLoadPtr(t) ==
    /\ pc[t] = "n_ptr"
    /\ LoadPtr(t, freeHead)
    /\ Goto(t, "n_seq")
    /\ UNCHANGED <<proxyVars, nodeVars, heapVars, clientVars, historyVars,
                   nxt, adv, node, rcount, arg, num, left>>

NewLoadSeq(t) ==
    /\ pc[t] = "n_seq"
    /\ LoadSeq(t, freeHead)
    /\ Goto(t, "n_test")
    /\ UNCHANGED <<proxyVars, nodeVars, heapVars, clientVars, historyVars,
                   nxt, adv, node, rcount, arg, num, left>>

FreeListEndsAtTail(t) == old[t].ptr = tail.ptr      \* fault: in-use nodes look free
FreeListEmpty(t) == old[t].ptr = freeTail

(* With no free node and alloc FALSE the function does not return NULL:    *)
(* it goes on to memset(NULL, 0, ...), which kills the process.            *)
NewTest(t) ==
    /\ pc[t] = "n_test"
    /\ \/ ~FreeListEmpty(t) /\ Goto(t, "n_read")
       \/ FreeListEmpty(t) /\ Alloc(t) /\ Goto(t, "n_num")
       \/ FreeListEmpty(t) /\ ~Alloc(t) /\ Goto(t, "fault")
    /\ UNCHANGED <<proxyVars, nodeVars, heapVars, clientVars, localVars, historyVars>>

(* The node may have been popped, reused or given back since it was loaded. *)
NewRead(t) ==
    /\ pc[t] = "n_read"
    /\ \E n \in NextOf(old[t].ptr) : nxt' = [nxt EXCEPT ![t] = n]
    /\ Goto(t, "n_cas")
    /\ UNCHANGED <<proxyVars, nodeVars, heapVars, clientVars, historyVars,
                   old, adv, node, rcount, arg, num, left>>

(* The comparison of the double-width compare-and-swap on freeHead. *)
FreeHeadPtrMatches(t) == freeHead.ptr = old[t].ptr  \* fault: the sequence is ignored
FreeHeadMatches(t) == freeHead = old[t]

NewCas(t) ==
    /\ pc[t] = "n_cas"
    /\ \/ /\ FreeHeadMatches(t)
          /\ freeHead' = [ptr |-> nxt[t], seq |-> old[t].seq + 1]
          /\ node' = [node EXCEPT ![t] = old[t].ptr]
          /\ pos' = [pos EXCEPT ![old[t].ptr] = 0]
          /\ mark' = [mark EXCEPT ![old[t].ptr] = 0]
          /\ Goto(t, "n_init")
          /\ UNCHANGED old
       \/ /\ ~FreeHeadMatches(t)
          /\ old' = [old EXCEPT ![t] = freeHead]
          /\ Goto(t, "n_test")
          /\ UNCHANGED <<freeHead, node, pos, mark>>
    /\ UNCHANGED <<tail, freeTail, numNodes, maxNodes, nodeVars, heapVars,
                   clientVars, nxt, adv, rcount, arg, num, left, log, done, guard>>

NewLoadNum(t) ==
    /\ pc[t] = "n_num"
    /\ num' = [num EXCEPT ![t] = numNodes]
    /\ Goto(t, "n_inc")
    /\ UNCHANGED <<proxyVars, nodeVars, heapVars, clientVars, historyVars,
                   old, nxt, adv, node, rcount, arg, left>>

(* numNodes is raised by compare-and-swap while it is below the maximum. *)
NumNotCompared(t) == TRUE                   \* fault: a fetch_add
NumMatches(t) == numNodes = num[t]

NewIncNum(t) ==
    /\ pc[t] = "n_inc"
    /\ \/ /\ num[t] < maxNodes /\ NumMatches(t)
          /\ numNodes' = numNodes + 1
          /\ Goto(t, "n_check")
          /\ UNCHANGED num
       \/ /\ num[t] < maxNodes /\ ~NumMatches(t)
          /\ num' = [num EXCEPT ![t] = numNodes]
          /\ UNCHANGED <<numNodes, pc>>
       \/ /\ num[t] >= maxNodes
          /\ Goto(t, "n_check")
          /\ UNCHANGED <<numNodes, num>>
    /\ UNCHANGED <<tail, freeHead, freeTail, maxNodes, nodeVars, heapVars,
                   clientVars, historyVars, old, nxt, adv, node, rcount, arg, left>>

(* stpcDeferredDelete tries again as long as _newNode returns NULL. *)
Retry(t) ==
    /\ Goto(t, "n_ptr")
    /\ old' = [old EXCEPT ![t] = Nowhere]
    /\ nxt' = [nxt EXCEPT ![t] = NULL]
    /\ num' = [num EXCEPT ![t] = 0]
    /\ UNCHANGED <<adv, node, rcount, arg, left>>

(* The maximum is read a second time, to tell which way the loop ended. *)
NewCheckMax(t) ==
    /\ pc[t] = "n_check"
    /\ \/ num[t] >= maxNodes /\ Retry(t)
       \/ num[t] < maxNodes /\ Goto(t, "n_alloc") /\ UNCHANGED localVars
    /\ UNCHANGED <<proxyVars, nodeVars, heapVars, clientVars, historyVars>>

(* allocMem hands out any address not in use, one freed before included. *)
NewAlloc(t) ==
    /\ pc[t] = "n_alloc"
    /\ \/ \E n \in Nodes \ heap :
             /\ heap' = heap \union {n}
             /\ node' = [node EXCEPT ![t] = n]
             /\ Goto(t, "n_init")
             /\ UNCHANGED <<old, nxt, adv, rcount, arg, num, left>>
       \/ /\ AllocMayFail
          /\ Retry(t)
          /\ UNCHANGED heap
    /\ UNCHANGED <<proxyVars, nodeVars, alive, clientVars, historyVars>>

(* One reference for the tail, one for the link from the node before. *)
InitialCountNoLink == GUARD_BIT + REFERENCE         \* fault
InitialCountOneMore == GUARD_BIT + 3 * REFERENCE    \* fault
InitialCount == GUARD_BIT + 2 * REFERENCE

(* memset, then what the caller does with the node before publishing it.   *)
(* Only next can be seen by others, through a stale freeHead.              *)
NewInit(t) ==
    /\ pc[t] = "n_init"
    /\ next' = [next EXCEPT ![node[t]] = NULL]
    /\ data' = [data EXCEPT ![node[t]] = arg[t]]
    /\ count' = [count EXCEPT ![node[t]] = IF Alloc(t) THEN InitialCount ELSE 0]
    /\ Goto(t, IF Alloc(t) THEN "q_ptr" ELSE "t_free")
    /\ UNCHANGED <<proxyVars, heapVars, clientVars, localVars, historyVars>>

-------------------------------------------------------------------------------
(* _queueNode *)

QueueLoadPtr(t) ==
    /\ pc[t] = "q_ptr"
    /\ LoadPtr(t, tail)
    /\ Goto(t, "q_seq")
    /\ UNCHANGED <<proxyVars, nodeVars, heapVars, clientVars, historyVars,
                   nxt, adv, node, rcount, arg, num, left>>

QueueLoadSeq(t) ==
    /\ pc[t] = "q_seq"
    /\ LoadSeq(t, tail)
    /\ Goto(t, "q_cas")
    /\ UNCHANGED <<proxyVars, nodeVars, heapVars, clientVars, historyVars,
                   nxt, adv, node, rcount, arg, num, left>>

(* The new node becomes the tail and its data is behind every reference    *)
(* that is held at this moment.                                            *)
QueueCas(t) ==
    /\ pc[t] = "q_cas"
    /\ \/ /\ tail = old[t]
          /\ tail' = [ptr |-> node[t], seq |-> 0]
          /\ pos' = [pos EXCEPT ![node[t]] = Place(old[t].ptr) + 1]
          /\ IF arg[t] = NULL
             THEN UNCHANGED <<log, guard>>
             ELSE /\ log' = Append(log, arg[t])
                  /\ guard' = [guard EXCEPT ![arg[t]] = Holding]
          /\ mark' = [mark EXCEPT ![node[t]] = Len(log')]
          /\ Goto(t, "q_link")
          /\ UNCHANGED old
       \/ /\ tail # old[t]
          /\ old' = [old EXCEPT ![t] = tail]
          /\ UNCHANGED <<tail, pc, log, guard, pos, mark>>
    /\ UNCHANGED <<freeHead, freeTail, numNodes, maxNodes, nodeVars, heapVars,
                   clientVars, nxt, adv, node, rcount, arg, num, left, done>>

(* What the old tail's count is adjusted by when it gave out references    *)
(* worth seq: they are added, the guard bit and the tail's own reference   *)
(* taken off.                                                              *)
AdjustNoRefs(seq) == 0 - GUARD_BIT          \* fault: references are not added
Adjust(seq) == seq - GUARD_BIT

QueueLink(t) ==
    /\ pc[t] = "q_link"
    /\ next' = [next EXCEPT ![old[t].ptr] = node[t]]
    /\ node' = [node EXCEPT ![t] = old[t].ptr]
    /\ rcount' = [rcount EXCEPT ![t] = REFERENCE - Adjust(old[t].seq)]
    /\ Goto(t, "d_load")
    /\ UNCHANGED <<proxyVars, count, data, heapVars, clientVars, historyVars,
                   old, nxt, adv, arg, num, left>>

-------------------------------------------------------------------------------
(* The proxy as a whole *)

(* A maximum below 2 is ignored. *)
ValidMaxFrom1(m) == m > 0                   \* fault
ValidMax(m) == m > 1

(* The header asks for it to be called before the proxy is in use; the     *)
(* test program calls it between phases too, when no thread is inside.     *)
SetMaxNodes(m) ==
    /\ alive /\ \A t \in Threads : pc[t] = "idle"
    /\ ValidMax(m) /\ m # maxNodes
    /\ maxNodes' = m
    /\ UNCHANGED <<tail, freeHead, freeTail, numNodes, nodeVars, heapVars, pc,
                   clientVars, localVars, historyVars>>

ChainStartInUse == freeTail                 \* fault: free nodes are left behind
ChainStart == freeHead.ptr

(* The nodes from freeHead on along next. *)
Chain ==
    LET walk[k \in Nat] ==
            IF k = 0 THEN ChainStart
            ELSE LET n == walk[k - 1] IN IF n \in Nodes THEN next[n] ELSE NULL
    IN  {walk[k] : k \in 0..Cardinality(Nodes)} \ {NULL}

(* stpcDeleteProxy; the threads are through with the proxy by then. *)
DeleteProxy ==
    /\ alive /\ \A t \in Threads : pc[t] = "idle" /\ ref[t] = NULL
    /\ heap' = heap \ Chain
    /\ alive' = FALSE
    /\ UNCHANGED <<proxyVars, nodeVars, pc, clientVars, localVars, historyVars>>

(* The process is over: the proxy is deleted or a thread has faulted. *)
Stopped ==
    /\ ~alive \/ \E t \in Threads : pc[t] = "fault"
    /\ UNCHANGED vars

Step(t) ==
    \/ GetLoadSeq(t) \/ GetCas(t)
    \/ DropLoad(t) \/ DropSub(t) \/ DropNext(t) \/ DropStore(t)
    \/ DropFree(t) \/ DropClear(t)
    \/ NewLoadPtr(t) \/ NewLoadSeq(t) \/ NewTest(t) \/ NewRead(t) \/ NewCas(t)
    \/ NewLoadNum(t) \/ NewIncNum(t) \/ NewCheckMax(t) \/ NewAlloc(t) \/ NewInit(t)
    \/ QueueLoadPtr(t) \/ QueueLoadSeq(t) \/ QueueCas(t) \/ QueueLink(t)
    \/ TrimFree(t) \/ TrimDec(t)

Enter(t) == GetCall(t) \/ DropCall(t) \/ DeferCall(t) \/ TrimCall(t)

(* A fault of one thread ends the process. *)
Running == \A t \in Threads : pc[t] # "fault"

Next ==
    \/ /\ Running
       /\ \/ \E t \in Threads : Enter(t) \/ Step(t)
          \/ \E m \in Limits : SetMaxNodes(m)
          \/ DeleteProxy
    \/ Stopped

Spec == Init /\ [][Next]_vars

(* A thread inside the library is scheduled, and a reference is dropped    *)
(* at last; nobody has to call anything else.                              *)
FairSpec ==
    /\ Spec
    /\ \A t \in Threads : WF_vars(Running /\ Step(t)) /\ WF_vars(Running /\ DropCall(t))

-------------------------------------------------------------------------------
(* Safety *)

Logged == {log[i] : i \in 1..Len(log)}
Done == {done[i] : i \in 1..Len(done)}

(* A node that is in the chain at freeTail or behind it: it is neither on  *)
(* the free list nor popped, nor given back to the allocator.              *)
InUse(n) == n \in heap /\ pos[n] > 0 /\ pos[n] >= pos[freeTail]

(* Data is not freed while a thread still holds a reference that it took   *)
(* before the data's node was queued: what stpcDeferredDelete is for.      *)
GuardedNotFreed == \A d \in Done : guard[d] = {}

(* Data is freed at most once and in the order of queueing, although the   *)
(* nodes are let go by whichever thread drops the last count.              *)
FreedInOrder == Len(done) <= Len(log) /\ done = SubSeq(log, 1, Len(done))

(* The unlocked update of freeTail, freeTail = freeTail->next, is made by  *)
(* one thread at a time, on the node that is at freeTail, and only once    *)
(* the successor has been linked.                                          *)
Reclaiming(t) == pc[t] \in {"d_next", "d_store"}
SingleReclaimer ==
    \A t \in Threads : Reclaiming(t) =>
        /\ node[t] = freeTail
        /\ next[freeTail] # NULL
        /\ \A u \in Threads : Reclaiming(u) => u = t

(* Every node that a thread holds a reference to, counts down, reclaims or *)
(* is about to link from is in use: no thread writes to a node that has    *)
(* been recycled or given back to the allocator.                           *)
TouchedInUse ==
    \A t \in Threads :
        /\ ref[t] # NULL => InUse(ref[t])
        /\ pc[t] \in {"d_load", "d_sub", "d_next", "d_store", "d_free", "d_clear"}
              => InUse(node[t])
        /\ pc[t] = "q_link" => InUse(old[t].ptr)

(* A pop takes a free node and leaves its present successor as the head:   *)
(* the next read before the compare-and-swap is not stale when it          *)
(* succeeds, though the node may have been reused since it was loaded.     *)
PopInstallsNext ==
    [][freeHead' # freeHead =>
          /\ freeHead.ptr # freeTail
          /\ freeHead'.ptr = next[freeHead.ptr]]_vars

(* With nobody inside the library and no reference held, everything queued *)
(* has been freed and all nodes but the tail are on the free list: no      *)
(* count is left behind on any node.                                       *)
Quiescent == \A t \in Threads : pc[t] = "idle" /\ ref[t] = NULL
QuiescentReclaimed == Quiescent => freeTail = tail.ptr /\ done = log

(* Who waits for a node waits for a reference to be dropped: when none is  *)
(* held and nobody is further inside the library than at the start of      *)
(* _newNode, there is a node on the free list or one may be allocated,     *)
(* unless allocations that failed left the proxy with one node.            *)
Waiting == \A t \in Threads : pc[t] \in {"idle", "n_ptr"} /\ ref[t] = NULL
ExhaustedOnlyByReferences ==
    alive /\ Waiting /\ (AllocMayFail => Cardinality(heap) > 1) =>
        freeHead.ptr # freeTail \/ numNodes < maxNodes

(* numNodes counts the allocated nodes, the ones about to be allocated and *)
(* the ones given back and not yet counted off.                            *)
NodeAccounting ==
    alive => numNodes =
        Cardinality(heap)
        + Cardinality({t \in Threads : \/ pc[t] = "n_alloc"
                                       \/ pc[t] = "n_check" /\ num[t] < maxNodes})
        + Cardinality({t \in Threads : pc[t] = "t_dec"})

(* The pool never grows beyond the maximum (when that is not lowered),     *)
(* however many threads find the free list empty at the same time.         *)
PoolBound == numNodes <= maxNodes /\ Cardinality(heap) <= maxNodes

(* stpcDeleteProxy gives every node back to the allocator and returns as   *)
(* many as stpcGetNodeCount reported.                                      *)
DeleteFreesAll ==
    [][alive /\ ~alive' => heap' = {} /\ Cardinality(Chain) = numNodes]_vars

(* stpcTryDeleteProxyNodes stops when there is no free node to delete      *)
(* (stpc.c:252-253).                                                       *)
NoFault == Running

-------------------------------------------------------------------------------
(* Liveness *)

(* What was queued is freed at last, when references are dropped. *)
EveryDeferFreed == \A d \in Data : d \in Logged ~> d \in Done

(* Every call returns, stpcDeferredDelete on an exhausted pool included.   *)
CallsReturn == \A t \in Threads : pc[t] # "idle" ~> pc[t] = "idle"

-------------------------------------------------------------------------------
(* Stpc implements ProxyCollector: data is pending from the swing of the   *)
(* tail to the call of its free function.                                  *)
Collector == INSTANCE ProxyCollector WITH
    holding <- Holding,
    pending <- SubSeq(log, Len(done) + 1, Len(log)),
    freed <- Done

ImplementsCollector == Collector!Spec

===============================================================================
