--------------------------------- MODULE Rcpc ---------------------------------
(***************************************************************************)
(* The proxy collector of rcpc/rcpc.c, which needs compare-and-swap of one *)
(* word only.                                                              *)
(*                                                                         *)
(*    freeHead -> ... -> freeTail -> ... -> first in use -> ... -> tail    *)
(*    [free, reusable )[ MaxLatency latent )[ in use                  ]    *)
(*                                                                         *)
(* A reference is taken by adding REFERENCE to the proxy's sequence; the   *)
(* number it gets belongs to the first node with a sequence not below it,  *)
(* which the thread finds by walking on from a tail it read before.  A     *)
(* node's sequence is set when it has a successor, by whoever comes by     *)
(* first, and all who come by help: they pass it on to the successor,      *)
(* fold the references between the two sequences into the node's count,    *)
(* and swing the tail.  The walk may cross nodes that have been let go.    *)
(* MaxLatency of those are withheld from the free list, and nodes are      *)
(* added at most that far, less two, from the tail that was read.          *)
(*                                                                         *)
(* Memory is sequentially consistent; one action makes at most one access  *)
(* to a shared word that another thread may be changing.  next, once it is *)
(* not NULL, and a node's sequence, once it is not zero, keep their values *)
(* while a thread may look at the node (WalkedNotReused), so that reading  *)
(* them again is no such access.                                           *)
(***************************************************************************)
EXTENDS Integers, Sequences, FiniteSets

CONSTANTS
    Readers,        \* threads that take and drop proxy references
    Writers,        \* threads that call rcpcDeferredDelete
    Trimmers,       \* threads that call rcpcTryDeleteProxyNodes
    Nodes,          \* addresses the allocators hand out for nodes
    FirstNodes,     \* the nodes that rcpcInitProxy allocates, in order of the chain
    Data,           \* objects handed to rcpcDeferredDelete
    NULL,
    Latency,        \* set by rcpcSetLatency
    MaxNodes,       \* set by rcpcSetMaxNodes
    MaxFail,        \* bound: times that allocMem returns NULL
    Plans,          \* bound: numbers of calls that take references of each thread
    MaxTrim,        \* bound: largest count given to rcpcTryDeleteProxyNodes
    MaxSpin         \* bound: sequence from which on a retry waits for a node

Threads == Readers \union Writers \union Trimmers

(* maxLatency of the proxy: the number of latent nodes *)
FewLatent == Latency                \* fault: the allowance of two is missing
MaxLatency == Latency + 2

ASSUME RcpcAssumption ==
    /\ NULL \notin Nodes \union Data
    /\ IsFiniteSet(Nodes) /\ IsFiniteSet(Threads)
    /\ Latency \in Nat
    /\ FirstNodes \in Seq(Nodes) /\ Len(FirstNodes) = Latency + 3
    /\ \A i, j \in 1..Len(FirstNodes) : FirstNodes[i] = FirstNodes[j] => i = j
    /\ MaxNodes \in Nat /\ MaxNodes > 1     \* rcpcSetMaxNodes ignores less
    /\ MaxFail \in Nat
    /\ Plans \subseteq [Threads -> Nat] /\ MaxTrim \in Nat
    /\ MaxSpin \in Nat

REFERENCE == 2
GUARD_BIT == 1
INITIAL_SEQUENCE == 1

VARIABLES
    (* rcpcProxy *)
    sequence, tail, freeHead, freeTail, numNodes,
    (* rcpcNode, by address; nodeSeq is its sequence *)
    next, nodeSeq, prevSeq, count, data,
    (* the allocator *)
    heap,       \* nodes that are allocated
    alive       \* the proxy has not been deleted
proxyVars == <<sequence, tail, freeHead, freeTail, numNodes>>
nodeVars  == <<next, nodeSeq, prevSeq, count, data>>
heapVars  == <<heap, alive>>

VARIABLES
    pc,         \* where each thread is; "idle" outside the library
    ret,        \* where it goes on after setNodeSequence or a drop
    ref,        \* the node a thread holds a reference to, or NULL
    calls,      \* calls a thread may still make
    use,        \* the caller of rcpcGetProxyNodeReference
    old,        \* oldSequence, and sequence in setNodeSequence
    seq,        \* newSequence, while the node it belongs to is looked for
    cur,        \* node in rcpcGetProxyNodeReference, tailNode in _addNode
    lat,        \* n there, latency in _addNode
    own,        \* refNode, the library's own reference
    drop,       \* node in rcpcDropProxyNodeReference
    nxt,        \* freeNode->next in _newNode, freeTail->next in a drop
    free,       \* freeNode in _newNode
    node,       \* the node obtained from _newNode
    arg,        \* data in rcpcDeferredDelete
    left        \* count - n in rcpcTryDeleteProxyNodes
clientVars == <<ref, calls>>
getVars    == <<use, old, seq, cur, lat>>
newVars    == <<free, node, arg, left>>
localVars  == <<ret, getVars, own, drop, nxt, newVars>>

VARIABLES       \* history, never read by the program
    log,        \* data in the order its node was linked
    done,       \* data in the order its free function was called
    guard,      \* guard[d]: holders of a reference taken before d's node
    failed,     \* allocations that failed
    pos         \* pos[n]: n's place in the order of linking, 0 off the chain
historyVars == <<log, done, guard, failed, pos>>

vars == <<proxyVars, nodeVars, heapVars, pc, clientVars, localVars, historyVars>>

-------------------------------------------------------------------------------
NodeOrNull == Nodes \union {NULL}
DataOrNull == Data \union {NULL}

PCs == {"idle", "g_seq", "g_tail", "g_cas", "g_test", "g_cmp",
        "s_load", "s_set", "s_prev", "s_count", "s_tail",
        "d_sub", "d_next", "d_store", "d_free",
        "n_head", "n_tail", "n_read", "n_cas", "n_num", "n_alloc", "n_init",
        "a_try", "a_more", "a_end", "t_free", "t_dec", "backoff", "fault"}

ProxyType ==
    /\ sequence \in Nat /\ numNodes \in Nat
    /\ tail \in Nodes /\ freeHead \in Nodes /\ freeTail \in Nodes

NodeType ==
    /\ next \in [Nodes -> NodeOrNull]
    /\ nodeSeq \in [Nodes -> Nat] /\ prevSeq \in [Nodes -> Nat]
    /\ count \in [Nodes -> Int] /\ data \in [Nodes -> DataOrNull]

HeapType == heap \subseteq Nodes /\ alive \in BOOLEAN

ClientType ==
    /\ pc \in [Threads -> PCs]
    /\ ret \in [Threads -> {"idle", "g_seq", "g_cmp", "a_more", "a_end", "t_free",
                            "backoff"}]
    /\ ref \in [Threads -> NodeOrNull] /\ calls \in [Threads -> Nat]

LocalType ==
    /\ use \in [Threads -> {"hold", "defer", "trim"}]
    /\ old \in [Threads -> Nat] /\ seq \in [Threads -> Nat]
    /\ cur \in [Threads -> NodeOrNull] /\ lat \in [Threads -> Nat]
    /\ own \in [Threads -> NodeOrNull] /\ drop \in [Threads -> NodeOrNull]
    /\ nxt \in [Threads -> NodeOrNull] /\ free \in [Threads -> NodeOrNull]
    /\ node \in [Threads -> NodeOrNull] /\ arg \in [Threads -> DataOrNull]
    /\ left \in [Threads -> 0..MaxTrim]

HistoryType ==
    /\ log \in Seq(Data) /\ done \in Seq(Data)
    /\ guard \in [Data -> SUBSET Threads] /\ failed \in 0..MaxFail
    /\ pos \in [Nodes -> Nat]

TypeOK ==
    ProxyType /\ NodeType /\ HeapType /\ ClientType /\ LocalType /\ HistoryType

(* rcpcNewProxyM, rcpcSetLatency, rcpcSetMaxNodes, rcpcInitProxy: latent    *)
(* nodes and behind them one node, which is the tail and in use.           *)
InitialChain == SubSeq(FirstNodes, 1, MaxLatency + 1)

Init ==
    LET chain == InitialChain
        first == Len(chain)
        place == [n \in Nodes |->
                    IF \E i \in 1..first : chain[i] = n
                    THEN CHOOSE i \in 1..first : chain[i] = n ELSE 0]
    IN  /\ sequence = INITIAL_SEQUENCE
        /\ tail = chain[first] /\ freeHead = chain[1] /\ freeTail = chain[1]
        /\ numNodes = 0
        /\ next = [n \in Nodes |-> IF place[n] \in 1..(first - 1)
                                   THEN chain[place[n] + 1] ELSE NULL]
        /\ nodeSeq = [n \in Nodes |-> 0]
        /\ prevSeq = [n \in Nodes |-> IF place[n] = first THEN INITIAL_SEQUENCE ELSE 0]
        /\ count = [n \in Nodes |-> IF place[n] = first THEN GUARD_BIT + REFERENCE ELSE 0]
        /\ data = [n \in Nodes |-> NULL]
        /\ heap = {chain[i] : i \in 1..first} /\ alive = TRUE
        /\ pos = place
    /\ pc = [t \in Threads |-> "idle"] /\ ret = [t \in Threads |-> "idle"]
    /\ ref = [t \in Threads |-> NULL] /\ calls \in Plans
    /\ use = [t \in Threads |-> "hold"]
    /\ old = [t \in Threads |-> 0] /\ seq = [t \in Threads |-> 0]
    /\ cur = [t \in Threads |-> NULL] /\ lat = [t \in Threads |-> 0]
    /\ own = [t \in Threads |-> NULL] /\ drop = [t \in Threads |-> NULL]
    /\ nxt = [t \in Threads |-> NULL] /\ free = [t \in Threads |-> NULL]
    /\ node = [t \in Threads |-> NULL] /\ arg = [t \in Threads |-> NULL]
    /\ left = [t \in Threads |-> 0]
    /\ log = <<>> /\ done = <<>> /\ guard = [d \in Data |-> {}]
    /\ failed = 0

-------------------------------------------------------------------------------
(* Steps of a thread *)

Goto(t, label) == pc' = [pc EXCEPT ![t] = label]

(* A thread enters the library, which spends one of its calls. *)
Call(t) ==
    /\ alive /\ pc[t] = "idle" /\ calls[t] > 0
    /\ calls' = [calls EXCEPT ![t] = @ - 1]

(* What is read through a pointer to memory that was given back has no     *)
(* defined value.                                                          *)
NextOf(n) == IF n \in heap THEN {next[n]} ELSE NodeOrNull

(* The library gives back its own reference, and then goes on at label.    *)
DropOwn(t, label) ==
    /\ drop' = [drop EXCEPT ![t] = own[t]]
    /\ own' = [own EXCEPT ![t] = NULL]
    /\ ret' = [ret EXCEPT ![t] = label]
    /\ cur' = [cur EXCEPT ![t] = NULL] /\ lat' = [lat EXCEPT ![t] = 0]
    /\ Goto(t, "d_sub")

-------------------------------------------------------------------------------
(* rcpcGetProxyNodeReference *)

(* The call of a client, and the load that it begins with. *)
GetCall(t) ==
    /\ t \in Readers /\ ref[t] = NULL
    /\ Call(t)
    /\ use' = [use EXCEPT ![t] = "hold"]
    /\ old' = [old EXCEPT ![t] = sequence]
    /\ Goto(t, "g_tail")
    /\ UNCHANGED <<proxyVars, nodeVars, heapVars, historyVars,
                   ref, ret, seq, cur, lat, own, drop, nxt, newVars>>

(* The same of the library. *)
GetLoadSeq(t) ==
    /\ pc[t] = "g_seq"
    /\ old' = [old EXCEPT ![t] = sequence]
    /\ Goto(t, "g_tail")
    /\ UNCHANGED <<proxyVars, nodeVars, heapVars, clientVars, historyVars,
                   ret, use, seq, cur, lat, own, drop, nxt, newVars>>

GetLoadTail(t) ==
    /\ pc[t] = "g_tail"
    /\ cur' = [cur EXCEPT ![t] = tail]
    /\ Goto(t, "g_cas")
    /\ UNCHANGED <<proxyVars, nodeVars, heapVars, clientVars, historyVars,
                   ret, use, old, seq, lat, own, drop, nxt, newVars>>

SequenceMatches(t) == sequence = old[t]

GetCas(t) ==
    /\ pc[t] = "g_cas"
    /\ \/ /\ SequenceMatches(t)
          /\ sequence' = sequence + REFERENCE
          /\ seq' = [seq EXCEPT ![t] = sequence + REFERENCE]
          /\ old' = [old EXCEPT ![t] = 0]
          /\ Goto(t, "g_test")
          /\ UNCHANGED cur
       \/ /\ ~SequenceMatches(t)
          /\ old' = [old EXCEPT ![t] = sequence]
          /\ cur' = [cur EXCEPT ![t] = NULL]
          /\ Goto(t, "g_tail")
          /\ UNCHANGED <<sequence, seq>>
    /\ UNCHANGED <<tail, freeHead, freeTail, numNodes, nodeVars, heapVars,
                   clientVars, historyVars, ret, use, lat, own, drop, nxt, newVars>>

(* The node is found: the client's, or the library's own reference.        *)
GetReturn(t) ==
    /\ seq' = [seq EXCEPT ![t] = 0]
    /\ \/ /\ use[t] = "hold"
          /\ ref' = [ref EXCEPT ![t] = cur[t]]
          /\ cur' = [cur EXCEPT ![t] = NULL] /\ lat' = [lat EXCEPT ![t] = 0]
          /\ Goto(t, "idle")
          /\ UNCHANGED own
       \/ /\ use[t] # "hold"
          /\ own' = [own EXCEPT ![t] = cur[t]]
          /\ Goto(t, IF node[t] = NULL THEN "n_head" ELSE "a_try")
          /\ UNCHANGED <<ref, cur, lat>>

(* A node without a successor is the one; its sequence will not be set     *)
(* below newSequence any more.                                             *)
GetTest(t) ==
    /\ pc[t] = "g_test"
    /\ \/ /\ next[cur[t]] = NULL
          /\ GetReturn(t)
          /\ UNCHANGED ret
       \/ /\ next[cur[t]] # NULL
          /\ ret' = [ret EXCEPT ![t] = "g_cmp"]
          /\ Goto(t, "s_load")
          /\ UNCHANGED <<seq, ref, cur, lat, own>>
    /\ UNCHANGED <<proxyVars, nodeVars, heapVars, calls, historyVars,
                   use, old, drop, nxt, newVars>>

(* References up to and including a node's sequence are the node's. *)
BelongsBelow(t) == seq[t] < nodeSeq[cur[t]]         \* fault
Belongs(t) == seq[t] <= nodeSeq[cur[t]]

GetCompare(t) ==
    /\ pc[t] = "g_cmp"
    /\ \/ /\ Belongs(t)
          /\ GetReturn(t)
       \/ /\ ~Belongs(t)
          /\ cur' = [cur EXCEPT ![t] = next[cur[t]]]
          /\ lat' = [lat EXCEPT ![t] = @ + 1]
          /\ Goto(t, "g_test")
          /\ UNCHANGED <<seq, ref, own>>
    /\ UNCHANGED <<proxyVars, nodeVars, heapVars, calls, historyVars,
                   ret, use, old, drop, nxt, newVars>>

-------------------------------------------------------------------------------
(* setNodeSequence, of a node that has a successor *)

Unset(t) == nodeSeq[cur[t]] = 0

(* A sequence that is set between the test and the load fails the          *)
(* compare-and-swap, which is no different from being set before the test. *)
SetLoad(t) ==
    /\ pc[t] = "s_load"
    /\ \/ /\ Unset(t)
          /\ old' = [old EXCEPT ![t] = sequence]
          /\ Goto(t, "s_set")
       \/ /\ ~Unset(t)
          /\ Goto(t, "s_prev")
          /\ UNCHANGED old
    /\ UNCHANGED <<proxyVars, nodeVars, heapVars, clientVars, historyVars,
                   ret, use, seq, cur, lat, own, drop, nxt, newVars>>

SetCas(t) ==
    /\ pc[t] = "s_set"
    /\ \/ /\ Unset(t)
          /\ nodeSeq' = [nodeSeq EXCEPT ![cur[t]] = old[t]]
       \/ /\ ~Unset(t)
          /\ UNCHANGED nodeSeq
    /\ old' = [old EXCEPT ![t] = 0]
    /\ Goto(t, "s_prev")
    /\ UNCHANGED <<proxyVars, next, prevSeq, count, data, heapVars, clientVars,
                   historyVars, ret, use, seq, cur, lat, own, drop, nxt, newVars>>

SetPrev(t) ==
    /\ pc[t] = "s_prev"
    /\ prevSeq' = [prevSeq EXCEPT ![next[cur[t]]] = nodeSeq[cur[t]]]
    /\ Goto(t, "s_count")
    /\ UNCHANGED <<proxyVars, next, nodeSeq, count, data, heapVars, clientVars,
                   historyVars, localVars>>

(* The loop on the count adds, or finds the guard bit gone. *)
Odd(k) == k % 2 # 0
AdjustAlways(n) == TRUE                     \* fault: the guard bit is not tested
Unadjusted(n) == Odd(count[n])
Adjustment(n) == nodeSeq[n] - prevSeq[n] - GUARD_BIT

SetCount(t) ==
    /\ pc[t] = "s_count"
    /\ \/ /\ Unadjusted(cur[t])
          /\ count' = [count EXCEPT ![cur[t]] = @ + Adjustment(cur[t])]
       \/ /\ ~Unadjusted(cur[t])
          /\ UNCHANGED count
    /\ Goto(t, "s_tail")
    /\ UNCHANGED <<proxyVars, next, nodeSeq, prevSeq, data, heapVars, clientVars,
                   historyVars, localVars>>

(* Whoever swings the tail drops the tail's reference. *)
Swings(t) == tail = cur[t]

SetTail(t) ==
    /\ pc[t] = "s_tail"
    /\ \/ /\ Swings(t)
          /\ tail' = next[cur[t]]
          /\ drop' = [drop EXCEPT ![t] = cur[t]]
          /\ Goto(t, "d_sub")
          /\ UNCHANGED ret
       \/ /\ ~Swings(t)
          /\ Goto(t, ret[t])
          /\ ret' = [ret EXCEPT ![t] = "idle"]
          /\ UNCHANGED <<tail, drop>>
    /\ UNCHANGED <<sequence, freeHead, freeTail, numNodes, nodeVars, heapVars,
                   clientVars, historyVars, getVars, own, nxt, newVars>>

-------------------------------------------------------------------------------
(* rcpcDropProxyNodeReference *)

(* From here on t no longer uses what the reference protected. *)
DropCall(t) ==
    /\ alive /\ pc[t] = "idle" /\ ref[t] # NULL
    /\ drop' = [drop EXCEPT ![t] = ref[t]]
    /\ ref' = [ref EXCEPT ![t] = NULL]
    /\ guard' = [d \in Data |-> guard[d] \ {t}]
    /\ ret' = [ret EXCEPT ![t] = "idle"]
    /\ Goto(t, "d_sub")
    /\ UNCHANGED <<proxyVars, nodeVars, heapVars, calls, log, done, failed, pos,
                   getVars, own, nxt, newVars>>

(* fetch_sub returns the count before the subtraction. *)
TookLast(t) == count[drop[t]] = REFERENCE

DropSub(t) ==
    /\ pc[t] = "d_sub"
    /\ count' = [count EXCEPT ![drop[t]] = @ - REFERENCE]
    /\ \/ /\ TookLast(t)
          /\ Goto(t, "d_next")
          /\ UNCHANGED <<ret, drop>>
       \/ /\ ~TookLast(t)
          /\ Goto(t, ret[t])
          /\ drop' = [drop EXCEPT ![t] = NULL]
          /\ ret' = [ret EXCEPT ![t] = "idle"]
    /\ UNCHANGED <<proxyVars, next, nodeSeq, prevSeq, data, heapVars, clientVars,
                   historyVars, getVars, own, nxt, newVars>>

DropNext(t) ==
    /\ pc[t] = "d_next"
    /\ nxt' = [nxt EXCEPT ![t] = next[freeTail]]
    /\ Goto(t, "d_store")
    /\ UNCHANGED <<proxyVars, nodeVars, heapVars, clientVars, historyVars,
                   ret, getVars, own, drop, newVars>>

DropStore(t) ==
    /\ pc[t] = "d_store"
    /\ freeTail' = nxt[t]
    /\ drop' = [drop EXCEPT ![t] = next[drop[t]]]
    /\ nxt' = [nxt EXCEPT ![t] = NULL]
    /\ Goto(t, "d_free")
    /\ UNCHANGED <<sequence, tail, freeHead, numNodes, nodeVars, heapVars,
                   clientVars, historyVars, ret, getVars, own, newVars>>

(* The data of the next node is freed and its pointer cleared, and the     *)
(* loop goes on with the link from the node that was let go.               *)
DropFree(t) ==
    /\ pc[t] = "d_free"
    /\ \/ /\ data[drop[t]] # NULL
          /\ done' = Append(done, data[drop[t]])
          /\ data' = [data EXCEPT ![drop[t]] = NULL]
       \/ /\ data[drop[t]] = NULL
          /\ UNCHANGED <<done, data>>
    /\ Goto(t, "d_sub")
    /\ UNCHANGED <<proxyVars, next, nodeSeq, prevSeq, count, heapVars, clientVars,
                   localVars, log, guard, failed, pos>>

-------------------------------------------------------------------------------
(* rcpcDeferredDelete and rcpcTryDeleteProxyNodes: entering and looping; a *)
(* client may pass a NULL pointer, which is then not freed.                *)
DeferCall(t) ==
    /\ t \in Writers
    /\ Call(t)
    /\ \E d \in {NULL} \union {d \in Data : /\ \A i \in 1..Len(log) : log[i] # d
                                            /\ \A u \in Threads : arg[u] # d} :
          arg' = [arg EXCEPT ![t] = d]
    /\ use' = [use EXCEPT ![t] = "defer"]
    /\ Goto(t, "g_seq")
    /\ UNCHANGED <<proxyVars, nodeVars, heapVars, historyVars, ref,
                   ret, old, seq, cur, lat, own, drop, nxt, free, node, left>>

(* Between two attempts to get a node the client's backoff is called,      *)
(* which may take its time.                                                *)
Backoff(t) ==
    /\ pc[t] = "backoff"
    /\ sequence < MaxSpin \/ freeHead # freeTail \/ numNodes < MaxNodes
    /\ Goto(t, "g_seq")
    /\ UNCHANGED <<proxyVars, nodeVars, heapVars, clientVars, localVars, historyVars>>

Waiting(t) ==
    /\ pc[t] = "backoff"
    /\ UNCHANGED vars

(* k nodes to go, n allocated: rcpcNewNode begins with a reference. *)

TrimLoop(t, k, n) ==
    LET more == k > 0 /\ n > 1
    IN  /\ left' = [left EXCEPT ![t] = IF more THEN k ELSE 0]
        /\ Goto(t, IF more THEN "g_seq" ELSE "idle")

TrimCall(t) ==
    /\ t \in Trimmers
    /\ Call(t)
    /\ use' = [use EXCEPT ![t] = "trim"]
    /\ \E k \in 1..MaxTrim : TrimLoop(t, k, numNodes)
    /\ UNCHANGED <<proxyVars, nodeVars, heapVars, historyVars, ref,
                   ret, old, seq, cur, lat, own, drop, nxt, free, node, arg>>

TrimFree(t) ==
    /\ pc[t] = "t_free"
    /\ heap' = heap \ {node[t]}
    /\ node' = [node EXCEPT ![t] = NULL]
    /\ Goto(t, "t_dec")
    /\ UNCHANGED <<proxyVars, nodeVars, alive, clientVars, historyVars,
                   ret, getVars, own, drop, nxt, free, arg, left>>

DecrementTwice == 2                         \* fault: of the value and of the variable
Decrement == 1

TrimDec(t) ==
    /\ pc[t] = "t_dec"
    /\ numNodes' = numNodes - Decrement
    /\ TrimLoop(t, left[t] - 1, numNodes - Decrement)
    /\ UNCHANGED <<sequence, tail, freeHead, freeTail, nodeVars, heapVars,
                   clientVars, historyVars, ret, getVars, own, drop, nxt, free, node, arg>>

-------------------------------------------------------------------------------
(* _newNode; its parameter alloc is FALSE in rcpcTryDeleteProxyNodes *)

Alloc(t) == use[t] # "trim"

NewLoad(t) ==
    /\ pc[t] = "n_head"
    /\ free' = [free EXCEPT ![t] = freeHead]
    /\ Goto(t, "n_tail")
    /\ UNCHANGED <<proxyVars, nodeVars, heapVars, clientVars, historyVars,
                   ret, getVars, own, drop, nxt, node, arg, left>>

FreeListEndsAtTail(t) == free[t] = tail             \* fault: latent nodes look free
FreeListEmpty(t) == free[t] = freeTail

(* With no free node and alloc FALSE the function goes on to memset of a   *)
(* NULL pointer, which kills the process.                                  *)
NewTest(t) ==
    /\ pc[t] = "n_tail"
    /\ \/ ~FreeListEmpty(t) /\ Goto(t, "n_read") /\ UNCHANGED free
       \/ /\ FreeListEmpty(t)
          /\ free' = [free EXCEPT ![t] = NULL]
          /\ Goto(t, IF Alloc(t) THEN "n_num" ELSE "fault")
    /\ UNCHANGED <<proxyVars, nodeVars, heapVars, clientVars, historyVars,
                   ret, getVars, own, drop, nxt, node, arg, left>>

(* The node may have been popped, or given back, since it was loaded. *)
NewRead(t) ==
    /\ pc[t] = "n_read"
    /\ \E n \in NextOf(free[t]) : nxt' = [nxt EXCEPT ![t] = n]
    /\ Goto(t, "n_cas")
    /\ UNCHANGED <<proxyVars, nodeVars, heapVars, clientVars, historyVars,
                   ret, getVars, own, drop, newVars>>

NewCas(t) ==
    /\ pc[t] = "n_cas"
    /\ \/ /\ freeHead = free[t]
          /\ freeHead' = nxt[t]
          /\ node' = [node EXCEPT ![t] = free[t]]
          /\ pos' = [pos EXCEPT ![free[t]] = 0]
          /\ free' = [free EXCEPT ![t] = NULL]
          /\ Goto(t, "n_init")
       \/ /\ freeHead # free[t]
          /\ free' = [free EXCEPT ![t] = freeHead]
          /\ Goto(t, "n_tail")
          /\ UNCHANGED <<freeHead, node, pos>>
    /\ nxt' = [nxt EXCEPT ![t] = NULL]
    /\ UNCHANGED <<sequence, tail, freeTail, numNodes, nodeVars, heapVars, clientVars,
                   log, done, guard, failed, ret, getVars, own, drop, arg, left>>

(* The loop on numNodes raises it, or finds it at the maximum. *)
Room(t) == numNodes < MaxNodes

NewCount(t) ==
    /\ pc[t] = "n_num"
    /\ \/ /\ Room(t)
          /\ numNodes' = numNodes + 1
          /\ Goto(t, "n_alloc")
          /\ UNCHANGED <<drop, own, ret, cur, lat>>
       \/ /\ ~Room(t)
          /\ DropOwn(t, "backoff")
          /\ UNCHANGED numNodes
    /\ UNCHANGED <<sequence, tail, freeHead, freeTail, nodeVars, heapVars, clientVars,
                   historyVars, use, old, seq, nxt, newVars>>

(* allocMem hands out any address not in use, one freed before included.   *)
(* If it fails, the node stays counted.                                    *)
NewAlloc(t) ==
    /\ pc[t] = "n_alloc"
    /\ \/ \E n \in Nodes \ heap :
             /\ heap' = heap \union {n}
             /\ node' = [node EXCEPT ![t] = n]
             /\ Goto(t, "n_init")
             /\ UNCHANGED <<drop, own, ret, cur, lat, failed>>
       \/ /\ failed < MaxFail
          /\ failed' = failed + 1
          /\ DropOwn(t, "backoff")
          /\ UNCHANGED <<heap, node>>
    /\ UNCHANGED <<proxyVars, nodeVars, alive, clientVars, log, done, guard, pos,
                   use, old, seq, nxt, free, arg, left>>

(* One reference for the tail, one for the link from the node before. *)
InitialCountNoLink == GUARD_BIT + REFERENCE         \* fault
InitialCountOneMore == GUARD_BIT + 3 * REFERENCE    \* fault
InitialCount == GUARD_BIT + 2 * REFERENCE

(* memset, then what the caller does with the node before publishing it.   *)
NewInit(t) ==
    /\ pc[t] = "n_init"
    /\ next' = [next EXCEPT ![node[t]] = NULL]
    /\ nodeSeq' = [nodeSeq EXCEPT ![node[t]] = 0]
    /\ prevSeq' = [prevSeq EXCEPT ![node[t]] = 0]
    /\ data' = [data EXCEPT ![node[t]] = arg[t]]
    /\ count' = [count EXCEPT ![node[t]] = IF Alloc(t) THEN InitialCount ELSE 0]
    /\ IF Alloc(t)
       THEN Goto(t, "a_try") /\ UNCHANGED <<drop, own, ret, cur, lat>>
       ELSE DropOwn(t, "t_free")
    /\ UNCHANGED <<proxyVars, heapVars, clientVars, historyVars,
                   use, old, seq, nxt, newVars>>

-------------------------------------------------------------------------------
(* _addNode *)

Holding == {t \in Threads : ref[t] # NULL \/ (use[t] = "hold" /\ seq[t] # 0)}

NearAlways(k) == TRUE               \* fault: added however far from the tail
Near(k) == k <= Latency

(* The node becomes the last of the chain, and its data is behind every    *)
(* reference taken up to now.  Who fails helps, and goes on to the next    *)
(* node, unless that is too far; then a new reference is taken.            *)
AddTry(t) ==
    /\ pc[t] = "a_try"
    /\ \/ /\ Near(lat[t]) /\ next[cur[t]] = NULL
          /\ next' = [next EXCEPT ![cur[t]] = node[t]]
          /\ pos' = [pos EXCEPT ![node[t]] = pos[cur[t]] + 1]
          /\ IF arg[t] = NULL
             THEN UNCHANGED <<log, guard>>
             ELSE /\ log' = Append(log, arg[t])
                  /\ guard' = [guard EXCEPT ![arg[t]] = Holding]
          /\ ret' = [ret EXCEPT ![t] = "a_end"]
          /\ Goto(t, "s_load")
          /\ UNCHANGED <<drop, own, cur, lat>>
       \/ /\ Near(lat[t]) /\ next[cur[t]] # NULL
          /\ ret' = [ret EXCEPT ![t] = "a_more"]
          /\ Goto(t, "s_load")
          /\ UNCHANGED <<next, pos, log, guard, drop, own, cur, lat>>
       \/ /\ ~Near(lat[t])
          /\ DropOwn(t, "g_seq")
          /\ UNCHANGED <<next, pos, log, guard>>
    /\ UNCHANGED <<proxyVars, nodeSeq, prevSeq, count, data, heapVars, clientVars, done, failed,
                   use, old, seq, nxt, newVars>>

AddMore(t) ==
    /\ pc[t] = "a_more"
    /\ cur' = [cur EXCEPT ![t] = next[cur[t]]]
    /\ lat' = [lat EXCEPT ![t] = @ + 1]
    /\ Goto(t, "a_try")
    /\ UNCHANGED <<proxyVars, nodeVars, heapVars, clientVars, historyVars,
                   ret, use, old, seq, own, drop, nxt, newVars>>

AddEnd(t) ==
    /\ pc[t] = "a_end"
    /\ node' = [node EXCEPT ![t] = NULL]
    /\ arg' = [arg EXCEPT ![t] = NULL]
    /\ DropOwn(t, "idle")
    /\ UNCHANGED <<proxyVars, nodeVars, heapVars, clientVars, historyVars,
                   use, old, seq, nxt, free, left>>

-------------------------------------------------------------------------------
(* rcpcDeleteProxy, when the threads are through with the proxy *)

ChainStartInUse == freeTail                 \* fault: free nodes are left behind
ChainStart == freeHead

Chain ==
    LET walk[k \in Nat] ==
            IF k = 0 THEN ChainStart
            ELSE LET n == walk[k - 1] IN IF n \in Nodes THEN next[n] ELSE NULL
    IN  {walk[k] : k \in 0..Cardinality(Nodes)} \ {NULL}

DeleteProxy ==
    /\ alive /\ \A t \in Threads : pc[t] = "idle" /\ ref[t] = NULL
    /\ heap' = heap \ Chain
    /\ alive' = FALSE
    /\ UNCHANGED <<proxyVars, nodeVars, pc, clientVars, localVars, historyVars>>

(* The process is over: the proxy is deleted or a thread has faulted. *)
Stopped ==
    /\ ~alive \/ \E t \in Threads : pc[t] = "fault"
    /\ UNCHANGED vars

Get(t) == GetLoadSeq(t) \/ GetLoadTail(t) \/ GetCas(t) \/ GetTest(t) \/ GetCompare(t)
Set(t) == SetLoad(t) \/ SetCas(t) \/ SetPrev(t) \/ SetCount(t) \/ SetTail(t)
Drop(t) == DropSub(t) \/ DropNext(t) \/ DropStore(t) \/ DropFree(t)
New(t) ==
    \/ NewLoad(t) \/ NewTest(t) \/ NewRead(t) \/ NewCas(t)
    \/ NewCount(t) \/ NewAlloc(t) \/ NewInit(t)
Add(t) == AddTry(t) \/ AddMore(t) \/ AddEnd(t)
Trim(t) == TrimFree(t) \/ TrimDec(t)

Step(t) ==
    Get(t) \/ Set(t) \/ Drop(t) \/ New(t) \/ Add(t) \/ Trim(t) \/ Backoff(t)

Enter(t) == GetCall(t) \/ DropCall(t) \/ DeferCall(t) \/ TrimCall(t)

(* A fault of one thread ends the process. *)
Running == \A t \in Threads : pc[t] # "fault"

Next ==
    \/ /\ Running
       /\ (\E t \in Threads : Enter(t) \/ Step(t) \/ Waiting(t)) \/ DeleteProxy
    \/ Stopped

Spec == Init /\ [][Next]_vars

(* A thread inside the library is scheduled, and a reference is dropped    *)
(* at last; nobody has to call anything else.                              *)
FairSpec ==
    /\ Spec
    /\ \A t \in Threads : WF_vars(Running /\ Step(t)) /\ WF_vars(Running /\ DropCall(t))

-------------------------------------------------------------------------------
(* Safety *)

Logged == {log[i] : i \in 1..Len(log)}
Done == {done[i] : i \in 1..Len(done)}

(* The first node that is in use, by its place in the chain. *)
FirstInUse == pos[freeTail] + MaxLatency
InUse(n) == n \in heap /\ pos[n] >= FirstInUse
Withheld(n) == n \in heap /\ pos[n] > 0 /\ pos[n] >= pos[freeTail]

(* A thread that has its number looks only at nodes that are in use or     *)
(* withheld from the free list, however long it was held up on its way     *)
(* from the tail it read, and what it holds or drops is in use.            *)
Looking(t) == cur[t] # NULL /\ pc[t] # "g_cas"

WalkedNotReused ==
    \A t \in Threads :
        /\ Looking(t) => Withheld(cur[t])
        /\ ref[t] # NULL => InUse(ref[t])
        /\ own[t] # NULL => InUse(own[t])
        /\ drop[t] # NULL => InUse(drop[t])

(* The walk ends on the node that was last when the number was taken or    *)
(* before it, at most Latency + 1 nodes from the tail that was read, so    *)
(* that latency[n] in the statistics exists.                               *)
WalkBounded == \A t \in Threads : seq[t] # 0 => lat[t] <= Latency + 1

(* freeTail = freeTail->next is made by one thread at a time, the one that *)
(* took the first node in use to zero.                                     *)
Reclaiming(t) == pc[t] \in {"d_next", "d_store"}
SingleReclaimer ==
    \A t \in Threads : Reclaiming(t) =>
        /\ pos[drop[t]] = FirstInUse
        /\ \A u \in Threads : Reclaiming(u) => u = t

(* What the numbers say that have been handed out so far: a node has those *)
(* above Lower and up to Upper.                                            *)
Upper(n) == IF nodeSeq[n] # 0 THEN nodeSeq[n] ELSE sequence
Lower(n) ==
    IF prevSeq[n] # 0 THEN prevSeq[n]
    ELSE Upper(CHOOSE m \in Nodes : next[m] = n /\ pos[m] = pos[n] - 1)

(* Who has a share in the count of n: holders of a reference, those who    *)
(* have its number and are on the way, those about to drop their share,    *)
(* the tail (n is it or will be), and the link from a node in use.         *)
Users(n) ==
    Cardinality({t \in Threads : ref[t] = n}) + Cardinality({t \in Threads : own[t] = n})
    + Cardinality({t \in Threads : Lower(n) < seq[t] /\ seq[t] <= Upper(n)})
    + Cardinality({t \in Threads : drop[t] = n /\ pc[t] \in {"d_sub", "d_free"}})
    + (IF pos[n] >= pos[tail] THEN 1 ELSE 0)
    + (IF pos[n] > FirstInUse THEN 1 ELSE 0)

(* The count of a node in use is that of its users, once the references    *)
(* between its two sequences have been added; they are added once,         *)
(* whoever sets the sequences and however many help.                       *)
CountsBalance ==
    \A n \in Nodes : InUse(n) =>
        count[n] + (IF Odd(count[n]) THEN Upper(n) - Lower(n) - GUARD_BIT ELSE 0)
            = REFERENCE * Users(n)

(* A pop takes a free node and leaves its present successor as the head:   *)
(* freeHead has no sequence, and it is the reference of the popping thread *)
(* that keeps a popped node from coming back to the front unnoticed.       *)
PopInstallsNext ==
    [][freeHead' # freeHead =>
          /\ freeHead # freeTail
          /\ freeHead' = next[freeHead]]_vars

(* With nobody inside the library, or only waiting for a node, and no      *)
(* reference held, everything queued has been freed, and the tail is the   *)
(* last node and the only one in use: no count is left behind.             *)
Quiescent == \A t \in Threads : pc[t] \in {"idle", "backoff"} /\ ref[t] = NULL
QuiescentReclaimed ==
    Quiescent => done = log /\ next[tail] = NULL /\ pos[tail] = FirstInUse

(* Who waits for a node waits for a reference to be dropped: when none is  *)
(* held there is a node on the free list or one may be allocated, unless   *)
(* the maximum was used up by allocations that failed.                     *)
ExhaustedOnlyByReferences ==
    Quiescent /\ failed < MaxNodes => freeHead # freeTail \/ numNodes < MaxNodes

(* numNodes counts what _newNode allocated or could not allocate, and      *)
(* stays below the maximum; the nodes of rcpcInitProxy are not counted and *)
(* may be deleted in the place of others.                                  *)
NodeAccounting ==
    /\ alive => Cardinality(heap) + failed = numNodes + MaxLatency + 1
                    - Cardinality({t \in Threads : pc[t] \in {"n_alloc", "t_dec"}})
    /\ numNodes \in 0..MaxNodes

(* rcpcDeleteProxy gives every node back to the allocator. *)
DeleteFreesAll == [][alive /\ ~alive' => heap' = {}]_vars

(* rcpcTryDeleteProxyNodes stops when there is no free node to delete      *)
(* (rcpc.c, after rcpcNewNode: if (node == NULL) break).                   *)
NoFault == Running

-------------------------------------------------------------------------------
(* Liveness *)

(* What was queued is freed at last, when references are dropped. *)
EveryDeferFreed == \A d \in Data : d \in Logged ~> d \in Done

(* Every call returns, rcpcDeferredDelete on an exhausted pool, or with    *)
(* others adding nodes all the time, included.                             *)
CallsReturn == \A t \in Threads : pc[t] # "idle" ~> pc[t] = "idle"

-------------------------------------------------------------------------------
(* Rcpc implements ProxyCollector: a reference is acquired with its        *)
(* number, data is pending from the link of its node to the call of its    *)
(* free function.                                                          *)
Collector == INSTANCE ProxyCollector WITH
    holding <- Holding,
    pending <- SubSeq(log, Len(done) + 1, Len(log)),
    freed <- Done

ImplementsCollector == Collector!Spec
===============================================================================
