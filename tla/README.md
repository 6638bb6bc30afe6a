# Verification of atomic-ptr-plus

TLA+ models of the memory-reclamation libraries of this repository, TLC
configurations that check them on small instances, and TLAPS proofs of theorems
about them for every instance.

## The system

The repository holds four libraries, none of which uses another, for freeing
memory that other threads may still be reading, and a small layer of 16-byte
atomics. Each is concurrent code that a test exercises only along the schedules
that happen to occur.

| Component | State | Operations | What makes it correct | What is hard |
|---|---|---|---|---|
| **stpc** (`src/stpc`), a proxy collector with double-width compare-and-swap | tail with a sequence of references taken, a chain of nodes with split reference counts and deferred data, a free list through the same chain, the number of nodes and its maximum | take and drop a reference, defer a deletion, delete free nodes, set the maximum, delete the proxy | nothing deferred is freed while a reference taken before the deferral is held; in order; once; always at last; free nodes are reused only when free | every access of every thread interleaves; the count of a node is correct only in sum over several places; the free list is popped with a stale successor (ABA) |
| **rcpc** (`src/rcpc`), an older proxy collector with single-width compare-and-swap | as stpc, with the sequence apart from the tail, a sequence in each node, and a bound on how far a reader walks | the same, and setting the latency | as stpc, and the walk is bounded | a node's sequence is set by whoever comes by first; the count is adjusted by one of several helpers |
| **fastsmr** (`src/fastsmr`), hazard pointers stored without memory barriers | a ring of threads with two queues each, the smr queue, the ready queue, a list of hazard pointers, counts and flags of the polling thread | register and exit a thread, defer work, poll (walk the ring, copy hazard pointers, run work), shut down | no work is run on an object a reader uses; none is lost; all is run at last | stores that are not visible yet; hazard pointers that move while they are copied; threads that exit in the middle of a pass; signals sent outside the mutex |
| **atomic-ptr** (`src/atomic-ptr`), shared pointers that can be copied and assigned atomically | a differential reference in each pointer (ephemeral count and object), two counts in each object | construct, copy, assign, compare-and-swap, dereference and destroy local and shared pointers, recycle objects | an object is deleted once, when the last pointer to it goes | the count of an object is spread over all places that point to it |
| **stdatomic** (`src/stdatomic`), atomics on 16 bytes | none | load, store, compare-and-swap, exchange | the names | a load is two loads |
| **test programs** (`src/test`) | | | | they are the only clients there are, and say what a client may do |

Calls go one way, from a client's threads into the library, except for the
callbacks a library makes: `freeData` of stpc and rcpc, `backoff` of stpc, the work
functions and `forrefs` of fastsmr. Threads meet in shared memory only. fastsmr
has a thread and a mutex of its own; the others have neither.

## Modules

| Module | What it is |
|---|---|
| `ProxyCollector` | What a proxy collector promises: references are taken and dropped, data is deferred, and data may be freed, oldest first, when no reference is held that was taken before it was deferred. |
| `Stpc` | `stpc.c` at the grain of its atomic accesses. |
| `MCStpc` | Roles of threads, and symmetry, for TLC. |
| `StpcInv` | The inductive invariant of `Stpc`, and the invariants of its order and its pool. |
| `StpcInvProofs` | The types, the inductive invariant and the safety properties that follow, proved. |
| `StpcOrderProofs` | The order of freeing, that `Stpc` implements `ProxyCollector`, and the accounting of the pool, proved. |
| `Rcpc` | `rcpc.c` at the grain of its atomic accesses. |
| `MCRcpc` | The first nodes, the calls of each thread, and symmetry, for TLC. |
| `RcpcInv` | The inductive invariant of `Rcpc`, and that of the order in which data is freed. |
| `RcpcProofs` | Lemmas about the counts and the chain, and that the steps that leave the chain as it is keep the invariant. |
| `RcpcInvProofs` | The same for the steps that write what the chain consists of, and the safety properties that follow, proved. |
| `RcpcOrderProofs` | What is freed is the oldest that was deferred and nobody guards it: `Rcpc` implements `ProxyCollector`, proved. |
| `FastSmr` | `fastsmr.c`, `rcuscan.c` and `smrscan.c`, with readers whose stores are buffered. |
| `FastSmrInv` | The inductive invariants of `FastSmr`. |
| `FastSmrProofs` | Facts about its queues; the places of work, its accounting, wakeups and the grace period, proved. |
| `FastSmrSafeProofs` | The order of work, store buffers, and that nothing is run while a reader works on it, proved. |
| `MCFastSmr` | The linked work items of `smrsample.c`, and symmetry, for TLC. |
| `SharedPointers` | What reference-counted pointers promise: an object is deleted only when no pointer names it. |
| `AtomicPtr` | `atomic_ptr.h` at the grain of its atomic accesses. |
| `MCAtomicPtr` | Symmetry, for TLC. |
| `AtomicPtrInv` | The inductive invariant of `AtomicPtr`. |
| `AtomicPtrProofs` | The invariant of `AtomicPtr`, its safety properties, and that it implements `SharedPointers`, proved. |

### Stpc

The state is the proxy's (`tail`, `freeHead`, `freeTail`, `numNodes`, `maxNodes`),
the nodes' (`next`, `count`, `data`), the set `heap` of nodes that are allocated,
and for each thread a program counter and the local variables of the function it is in.
`ref[t]` is the reference thread *t* holds between calls. A step is one atomic
access, or one access to a node that others can reach. So
`stpcGetProxyNodeReference` is `GetCall`, `GetLoadSeq`, `GetCas`; the loop of
`_dropProxyNodeReference` is `DropLoad` or `DropSub` and then `DropNext`,
`DropStore`, `DropFree`, `DropClear` until a count is not the last one;
`stpcDeferredDelete` is `DeferCall`, the steps `New...` of `_newNode`,
`QueueLoadPtr` to `QueueLink` of `_queueNode`, and a drop;
`stpcTryDeleteProxyNodes` is `TrimCall`, `_newNode` with `alloc` false, `TrimFree`
and `TrimDec`. `SetMaxNodes` and `DeleteProxy` happen while no thread is in a
call, which the header asks for.

A 16-byte load is two loads of 8 bytes, as `atomix.c` has it, so pointer and
sequence may come from different moments. Locations of nodes are reused: `Alloc`
may return any location not in `heap`.

`log` and `done` (data deferred and freed, in order), `guard` (for each data the
threads that held a reference when it was deferred and have not dropped it since)
and `pos`, `mark` (the place of a node in the chain and in the log) are history
and read by no guard.

### Rcpc

As in `Stpc` the nodes form one chain, from the free ones to the tail, but two things are
different. A word is all that can be compared and swapped, so the number of references taken
(`sequence`) and the tail are apart: a thread takes a number first and then looks for the
node it belongs to, walking on from a tail that it read before. And between the free nodes and those
in use there are `MaxLatency` *latent* ones, so that a node on such a walk is not reused.

| Code | Actions |
|---|---|
| `rcpcGetProxyNodeReference` | `GetCall` (a client's) or `GetLoadSeq` (the library's own), `GetLoadTail`, `GetCas`; then `GetTest`, `setNodeSequence`, `GetCompare` for each node walked |
| `setNodeSequence` | `SetLoad`, `SetCas`, `SetPrev`, `SetCount`, `SetTail`, and a drop if the tail was swung |
| `rcpcDropProxyNodeReference` | `DropCall` or `DropOwn`; `DropSub`, and after the last one `DropNext`, `DropStore`, `DropFree` |
| `rcpcDeferredDelete` | `DeferCall`, a reference, `_newNode`, `_addNode`, `AddEnd`, a drop; `Backoff` between attempts to get a node |
| `_newNode` | `NewLoad`, `NewTest`, `NewRead`, `NewCas`; `NewCount`, `NewAlloc`; `NewInit` |
| `_addNode` | `AddTry`, `setNodeSequence`, `AddMore` |
| `rcpcTryDeleteProxyNodes` | `TrimCall`, a reference, `_newNode` with `alloc` false, a drop, `TrimFree`, `TrimDec` |
| `rcpcDeleteProxy` | `DeleteProxy` |

`Init` is the state after `rcpcInitProxy`; latency and maximum are set before that. `ref[t]` is what a client holds,
`own[t]` the reference the library takes for itself; `seq[t]` is the number of a thread that looks
for its node at `cur[t]`, `lat[t]` nodes from where it started. `ret[t]` is where a thread goes on after
`setNodeSequence` or a drop, which have several callers. History as in `Stpc`, and `failed`, the allocations that
failed.

The argument for the bound: as long as a thread's compare-and-swap on `sequence` can succeed no reference was taken since
it read the tail, so only threads that had theirs before can have added nodes; each of these may add a node only
while it is no farther than `Latency` from the tail it read itself. The chain can therefore be `Latency` + 1 longer than the thread
believes, and that many nodes it may cross, however late.

### FastSmr

`ring` is the circular list of `rcu_node_t` beginning with `current_node`, so that
moving `current_node` is a rotation; the smr nodes are a list, the queues are
sequences. Everything in the library except what readers do happens under
`rcu_mutex`: a call of a thread is one action, enabled while the polling thread
does not hold the mutex (`Unlocked`). The polling thread's critical section is
broken up where it reads what readers may be changing: one action for each
node `rcu_scan` visits, one for each hazard pointer `smr_scan` copies.

| Code | Actions |
|---|---|
| `smr_acquire`, `rcu_add_node` | `Acquire` |
| `smr_release`, `rcu_delete_node` | `Release` |
| `smr_defer`, and its signal after the unlock | `Defer`, `Signal` |
| `rcu_scan` | `ScanStart`, `Visit`, `VisitIdle` |
| `smr_scan` | `SmrStart`, `Copy`, `Mark` |
| `process_work` | `Take`, `Run`, `RunDone` |
| waits and the end of `rcu_poll` | `Idle`, `WaitEnds` |
| `rcu_shutdown`, `rcu_shutdown2` | `Shutdown`, `Shutdown2` |

Readers follow `smrsample.c`: `Load`, `Validate` and `Retry` are `smrload` of a shared
pointer, `Follow` is `smrload` of the link of the object in use, `Clear` is
`smrnull`. `smrload` and `smrnull` belong to a package that is not in the repository;
`smr_scan` reads the two hazard pointers of a pair with a load barrier between
them, first the one with index 0, and the sample uses one pair to go from node to node. From
that the model has `Follow` store the old object at index 1 before the new one at
index 0. Stores go to a store buffer, and become visible in order, at any time
(`Drain`), at the latest when the thread is switched (`Quiesce`), which is also what its qcount
counts. A thread that `qcount_get` reports as not running counts as one that was
switched just before.

Each type has one meaning of "held back": work of type `fifo` from the first
referenced one on, work of type `trace` what `forrefs` reaches from a referenced
one through objects that are not `live`. The sequence numbers by which the code
marks both are abstracted to the set they mark (`Held`).

### AtomicPtr

`cell` holds the shared pointers, `count` and `pool` the reference objects, by
address, `heap` and `spare` are the addresses allocated and the client's pool. A
thread has one `local_ptr` of its own, `loc`, and the temporaries the operators make:
`tmp` (a `local_ptr`), `obj` (an `atomic_ptr`), `cmp` (the parameter of `cas`). What an operator
does to variables no other thread sees happens with the atomic access before or after it.

| Code | Actions |
|---|---|
| `local_ptr`: assignment of an object or `nullptr`, copy, `recycle`, `setPool` | `LocalNew`, `LocalReset`, `LocalCopy`, `SetPool` |
| `local_ptr` from an `atomic_ptr`, `->`, `*` | `LoadCall`, then `getrefptr` |
| `getrefptr` (count and pointer are two loads) | begun by `LoadCall` or `CopyCall`; `GetLoadPtr`, `GetCas` |
| `atomic_ptr`: assignment | `StoreNew`, `StoreNull`, `StoreLocal`, or `CopyCall`, `getrefptr`, `FixCopy`; then `Swap` |
| `cas` | `CasNew`, or `CopyCall` to `FixCopy`; `CasCompare`, `CasLoad`, `CasCas` |
| destructors | `AtomicDrop`, `LocalDrop`, `Free`; of a shared pointer, `AtomicDestroy` and then `AtomicDrop` |

Addresses are reused, by the allocator or by way of the pool. `Init` has any assignment of
objects to the shared pointers and some objects in the pool, since a thread of a short
run would not get so far.

## Runs

Twelve runs; those that pass are complete searches of the instance's states.

| Run | Instance | Properties |
|---|---|---|
| `stpc_core` | 2 threads, each with 3 calls that defer and take references at will, also while holding one; 3 nodes, at most 2 in use, 2 data, allocations that may fail | `TypeOK`, `SingleReclaimer`, `QuiescentReclaimed`, `PoolBound`, `ImplementsCollector` |
| `stpc_pool` | a reader, a writer with 3 calls, a thread that deletes free nodes twice | `GuardedNotFreed`, `TouchedInUse`, `ExhaustedOnlyByReferences`, `NodeAccounting`, `PopInstallsNext`, `DeleteFreesAll` |
| `stpc_liveness` | a reader, 2 writers, at most 2 nodes, the maximum set to 1 (refused) or 3 | `EveryDeferFreed`, `CallsReturn` |
| `stpc_trim_fault` | a writer, a thread that deletes free nodes | violates `NoFault` |
| `rcpc_core` | latency 0; 2 threads that take references, defer and delete free nodes, and a reader, with 3 calls between them; 3 first and 2 more nodes, 1 allocation that may fail, 2 data | `TypeOK`, `WalkedNotReused`, `WalkBounded`, `SingleReclaimer`, `CountsBalance`, `QuiescentReclaimed`, `NodeAccounting`, `ImplementsCollector` |
| `rcpc_liveness` | a reader and a writer with 2 calls each, or 2 writers with 1 call each; 2 more nodes, 1 allocation that may fail | `ExhaustedOnlyByReferences`, `EveryDeferFreed`, `CallsReturn` |
| `smr_fifo` | 2 threads, one reads along 2 linked objects; type fifo | `TypeOK`, `HazardSafe`, `FifoOrder` |
| `smr_exit` | the same with type trace, and threads that exit and come back | `HazardSafe`, `GracePeriod`, `Accounting`, `NoLostWakeup` |
| `smr_liveness` | a reader, 2 objects | `EveryDeferRun`, `ShutdownEnds` |
| `smr_ring_exit` | 3 threads that may exit, 1 object | violates `HazardSafe` |
| `smr_trace_defer` | as `smr_fifo`, type trace, deferrals in any order | violates `HazardSafe` |
| `atomic_ptr` | 2 threads with 2 operations each, 2 shared pointers, 2 objects | `TypeOK`, `NamedAlive`, `CountsBalance`, `DeletedOnce`, `NoneLeaked`, `ImplementsSharedPointers` |

### What the properties say

*stpc.* `GuardedNotFreed`: data is not freed while a reference is held that was
taken before the data was deferred. `FreedInOrder`: data is freed once and in the order
deferred (proved, and part of what `ImplementsCollector` says). `SingleReclaimer`: at most one thread moves `freeTail`, a plain variable.
`TouchedInUse`: a node that some thread is about to read or write is allocated and not on the free list, but
for the reads that a later compare-and-swap validates. `PopInstallsNext`: a pop of
the free list installs the current successor, however stale the one read before.
`NodeAccounting`, `PoolBound`, `DeleteFreesAll`: nodes are counted, bounded and
given back. `QuiescentReclaimed`: with nobody inside and no reference held nothing
is left unfreed. `ExhaustedOnlyByReferences`: when no reference is held there is a node to be had, so that
a thread that waits for one waits for a reference. `ImplementsCollector`: every step is a step of `ProxyCollector` or none.

*rcpc.* `WalkedNotReused`: a node a thread comes across on its walk is in use or latent, and what it
holds or drops is in use. `WalkBounded`: a walk is at most `Latency` + 1 nodes long, which also keeps the statistics' array
of latencies from being overrun. `CountsBalance`: for each node in use, with the references that
its two sequences say are still to be added, the count is that of its users. `SingleReclaimer` and the others are as for stpc;
`PopInstallsNext` says here that a reference alone
protects the free list from ABA; it is proved (`PopsNext`) and no run checks it, see the bounds.

*fastsmr.* `HazardSafe`: no object is run that a reader works on.
`GracePeriod`: work leaves the ring only after all threads that were registered
when the pass began have quiesced or exited. `Accounting`: work is in one place,
never lost, and counted. `NoLostWakeup`: the wait without a timeout is entered
only with nothing to do or with a signal to come. `FifoOrder`: without
exits, work of type fifo is run in the order deferred.

*atomic-ptr.* `CountsBalance`: `rcount` is the number of atomic pointers to an object, and
`ecount` with the ephemeral counts in those pointers is the number of its local pointers.
`NamedAlive`: what a pointer names, in a variable or in the middle of an operation, exists.
`DeletedOnce` and `NoneLeaked`: an object is deleted by one thread, and never forgotten.
`ImplementsSharedPointers`: every step is one of plain shared pointers, read, written and dropped atomically, or none.

### Bounds, and why they are enough

Threads: an argument between a reference and a reclaim takes a thread that holds,
one that reclaims and one that queues; the instances have all pairs and the triples
of different roles. Nodes: in stpc three are a chain with a reclaimed, a closed and an
open node, and few enough to be reused within a run, so the ABA cases occur (the
mutant that drops the sequence from the compare-and-swap is caught). Calls: three deferrals by a writer wrap
the free list once. In `stpc_pool` only the writer allocates and no allocation fails, as `NodeAccounting` needs: failing
allocations and threads that raise `numNodes` at once are in `stpc_core`, and `PoolBounded` and `NodesAccounted` are proved for any number of such threads with others that delete nodes. `MaxTrim` and `Limits` bound the arguments of two calls. In rcpc the latency is 0: the bound on the walk is then 1, three
threads (one that walks and two that add) can break it if the test in `_addNode` is left out, and that
mutant is caught; the chain has as few nodes as possible, so they are reused within the calls there are. Three calls, spread over
the threads in every way (`Spread`), are one of each or two of a thread against one of another; four come to millions of states. Two threads can then race for the
second of two nodes, with an allocation that fails or none, so that `NodeAccounting` says something of the maximum. What three calls
cannot do is bring a popped node back to the front of the free list under a thread in the middle of a pop. A popped node
is linked last, three more must be linked behind it before it is free, and the nodes
before it popped: that is five deferrals and the pop that they overtake, six calls; in a run with fewer
`PopInstallsNext` would hold even without the reference in `_newNode`. So in rcpc it is left to its theorem, which has no bound. `MaxSpin` is
the value of `sequence` from which a thread with nothing to be had stays in `Backoff`, since each
attempt raises `sequence`; `MaxFail` bounds failing allocations. In fastsmr two objects are what a link needs, two threads
are a ring whose walk stops half way (but in `smr_liveness`, whose ring is one node: what the walk may do wrong along a ring is a matter
of `GracePeriod` and `HazardSafe` in the other runs), and `MaxBuffer` of two holds the stores of
one `smrload`; three threads are needed for one more thread between the
exiting one and its predecessor, which is the case of `smr_ring_exit`. In atomic-ptr a
count that is away from its object takes one thread that reads and one that swaps; two shared pointers
and two objects allow copies between pointers, and a pointer that comes back to an earlier object. Two operations
(`MaxCalls`) of each thread, on any initial assignment, are a read and a later drop or overwrite, in any
overlap with the same of the other.

### Fairness

stpc: weak fairness for each thread once inside a call, since threads are
scheduled, and for `DropCall`, since a client that holds a reference drops it at last; none for starting any other call. `stpcDeferredDelete` with an exhausted pool waits for others to drop
references, so a thread that defers while it holds one may wait for itself: the
liveness run keeps readers and writers apart, which is what makes its
properties true and is a condition on clients.

rcpc: the same, and for the same reasons. With the threads apart, no reference a writer holds
itself is what it waits for, since it drops its own before `backoff`.

fastsmr: weak fairness for the polling thread, for a signal that is due, for a
context switch of each registered thread (the library is built on their
happening), and for a reader to finish with an object. None for
registration, exit, deferral or shutdown.

atomic-ptr: none. Its loops end when other threads pause, and what it promises is safety.

## Proofs

The theorems hold for all sets of threads, nodes and data (or shared pointers and objects), any maximum and any bound on
calls. Those about `Stpc` rest on `StpcAssumption` alone: there are finitely many threads and nodes, one of
them the first, `NULL` is neither a node nor data, the maximum is at least 2 (smaller ones are refused), and the
other parameters have their types. Those about `Rcpc` rest on `RcpcAssumption`: finitely many threads and nodes, `NULL` apart,
any latency, `Latency` + 3 first nodes that are different, a maximum above 1, and the
types of the other parameters. Those about `AtomicPtr` rest on `AtomicPtrAssumption`: threads, shared
pointers and objects are finitely many, and `NULL` is none of them. Those about `FastSmr` rest on
`FastSmrAssumption`: `NULL` is not a work item, the other parameters have their types, and `Links` is any function from
work to sequences of work. Three conditions appear in theorems about `FastSmr`, each because without it the property is false:

* `ExitsOfTwo`: no thread exits, or there are at most two. With three, an exit hands work to a node that the walk
  reaches too soon (run `smr_ring_exit`).
* `Type = "fifo" /\ ~MayExit`, for `FifoOrder`: an exiting thread's work is put behind that of another node, and
  TLC finds work run out of order with two threads.
* `OrderedLinks`, for `HazardSafe`: no object has links, or work is deferred in the order in which the links lead
  (`InOrder`; without it run `smr_trace_defer` fails) and `forrefs` visits what the objects on the way also
  lead to, up to the end (`ChainLinks`: `node_cb` of `smrsample.c` walks the whole rest of its queue), and threads do not exit with type fifo
  (then TLC finds a violation with two threads: a link leads to work that is no longer behind on the smr queue).

The constants of `smr_fifo` and `smr_exit` satisfy what the theorems about their properties ask for.

| Theorem | Module | What is proved of `Spec` |
|---|---|---|
| `TypeCorrect` | `StpcInvProofs` | `[]TypeOK` |
| `Invariance` | `StpcInvProofs` | `[]IInv` |
| `DeferredSafely` | `StpcInvProofs` | `[]GuardedNotFreed` |
| `ReclaimsAlone` | `StpcInvProofs` | `[]SingleReclaimer` |
| `TouchesNodesInUse` | `StpcInvProofs` | `[]TouchedInUse` |
| `PopsAreFresh` | `StpcInvProofs` | `PopInstallsNext` |
| `NothingLeftBehind` | `StpcInvProofs` | `[](alive /\ Quiescent => freeTail = tail.ptr)` |
| `OrderInvariance` | `StpcOrderProofs` | `[]OrderInv` |
| `FreesInOrder` | `StpcOrderProofs` | `[]FreedInOrder` |
| `QuiescentIsClean` | `StpcOrderProofs` | `[]QuiescentReclaimed` |
| `Implements` | `StpcOrderProofs` | `ImplementsCollector` |
| `PoolInvariance` | `StpcOrderProofs` | `[]PoolInv` |
| `NodesAccounted` | `StpcOrderProofs` | `[]NodeAccounting`, if `~AllocMayFail` |
| `PoolBounded` | `StpcOrderProofs` | `[]PoolBound`, if `Limits = {}` |
| `WaitsForReferences` | `StpcOrderProofs` | `[]ExhaustedOnlyByReferences` |
| `TypeCorrect` | `RcpcInvProofs` | `[]TypeOK` |
| `Invariance` | `RcpcInvProofs` | `[](TypeOK /\ IInv)` |
| `WalkSafe` | `RcpcInvProofs` | `[]WalkedNotReused` |
| `WalkEnds` | `RcpcInvProofs` | `[]WalkBounded` |
| `OneReclaims` | `RcpcInvProofs` | `[]SingleReclaimer` |
| `CountsTrue` | `RcpcInvProofs` | `[]CountsBalance` |
| `NodesAccounted` | `RcpcInvProofs` | `[]NodeAccounting` |
| `PopsNext` | `RcpcInvProofs` | `PopInstallsNext` (no run checks it) |
| `OrderInvariance` | `RcpcOrderProofs` | `[]OrderInv` |
| `QuiescentIsClean` | `RcpcOrderProofs` | `[]QuiescentReclaimed` |
| `WaitsForReferences` | `RcpcOrderProofs` | `[]ExhaustedOnlyByReferences` |
| `Implements` | `RcpcOrderProofs` | `ImplementsCollector` |
| `PlacesInvariant` | `FastSmrProofs` | `[]PlaceInv` |
| `TypeCorrect` | `FastSmrProofs` | `[]TypeOK` |
| `AccountingCorrect` | `FastSmrProofs` | `[]Accounting` |
| `WakeupCorrect` | `FastSmrProofs` | `[]NoLostWakeup` |
| `GraceInvariance` | `FastSmrProofs` | `[]GraceInv`, if `ExitsOfTwo` |
| `GraceKept` | `FastSmrProofs` | `[]GracePeriod`, if `ExitsOfTwo` |
| `PassInvariance` | `FastSmrSafeProofs` | `[]PassOrder`, if `ExitsOfTwo` |
| `FifoInvariance` | `FastSmrSafeProofs` | `[](QueueOrder /\ FifoInv)`, if `Type = "fifo" /\ ~MayExit` |
| `FifoKept` | `FastSmrSafeProofs` | `[]FifoOrder`, if `Type = "fifo" /\ ~MayExit` |
| `HazardInvariance` | `FastSmrSafeProofs` | `[]HazardInv`, if `ExitsOfTwo /\ OrderedLinks` |
| `HazardKept` | `FastSmrSafeProofs` | `[]HazardSafe`, if `ExitsOfTwo /\ OrderedLinks` |
| `TypeCorrect` | `AtomicPtrProofs` | `[]TypeOK` |
| `Invariance` | `AtomicPtrProofs` | `[](TypeOK /\ IInv)` |
| `NamedIsAlive` | `AtomicPtrProofs` | `[]NamedAlive` |
| `CountsAreRight` | `AtomicPtrProofs` | `[]CountsBalance` |
| `DeletesAlone` | `AtomicPtrProofs` | `[]DeletedOnce` |
| `NothingLeaks` | `AtomicPtrProofs` | `[]NoneLeaked` |
| `Implements` | `AtomicPtrProofs` | `ImplementsSharedPointers` |

### Stpc

*Types.* `TypeOK` is inductive as it stands. It is a conjunction of named groups, and
the step case (`TypeStep`) goes through the actions one by one and shows for each the
groups it changes.

*The count of a node.* None of the safety properties is inductive. That one thread at a time reclaims
is a consequence of what the counts mean, and a count means nothing by itself:
references taken are added to `tail.seq` while the node is the tail, and to its
count only after another node has become the tail, when some of them have been
dropped already and the count may be negative. `IInv` says for every node in use that

* the tail's count and `tail.seq` add up to `GUARD_BIT + REFERENCE` and twice its users;
* a node that was replaced as the tail, until the thread that replaced it has adjusted its
  count, has the same balance with what that thread carries (in `old` and then in `rcount`): this
  thread *closes* the node;
* any other node has a count of twice its users, and has a user,

where the users (`Users`) are the threads that hold a reference, those in the middle of dropping
one, and the node before it, if that is in use, by its link.
The sequence goes up by 2 and `GUARD_BIT` is odd, so a count that is not closed is
odd and never equals the `REFERENCE` that a dropper compares it with; that is why the guard bit exists, and
the mutant without it is caught. A thread that
finds its own share in the count is therefore the only user of a closed node
(`StartReclaim`), the node is `freeTail` since every node behind that has a user,
its link, and no thread can join it. The other parts of `IInv` are the places of the nodes on
the chain (`Places`, `Links`), who has a node for itself (`Owners`), where
threads are on the chain (`Touched`), what a
reclaimer may rely on (`Reclaims`), that a pop whose comparison would succeed has read
current values (`Pops`), and that a reference that guards data is to
a node before that data's (`Queued`, `Guards`). With `Places` and `Links`, `Pops` is the
argument against ABA: the sequence of `freeHead` grows with every pop, so an
unchanged `freeHead` means the node was never off the chain, and what is free on the chain does not change.

*Order.* `OrderInv` adds that each node in use carries the next entry of the log after that of the node
before it, and that `done` is the log up to `freeTail`, less the entry that a thread
is about to free. `FreedInOrder` follows, and with `NothingLeftBehind` also `QuiescentReclaimed`.

*Refinement.* In `Implements`, `GetCas` is the abstract acquire, `DropCall` the release, `QueueCas` the
deferral and `DropFree` the freeing, where `IInv` gives that no reference guards the
data and `OrderInv` that it is the oldest; all other steps are stutters.

*The pool.* `PoolInv` says that an allocated node is on the chain or a thread's own (`Accounted`), and that
`numNodes` is the number of allocated nodes with those that a thread has counted on and not got yet and those
given back and not counted off (`NodesCounted`), or more where allocations failed. When nobody is
inside beyond the start of `_newNode` and no reference is held, `freeTail` is the tail (`WaitingReclaimed`, by the
balance of counts in `IInv`); with an empty free list the chain is then one node, by `Accounted` the
only one allocated, and `numNodes` is 1, below any maximum.

### Rcpc

*The chain.* As in `Stpc` there are `Places` and `Links`, but a node is linked before the tail is swung. Whoever
comes to a node with a successor calls `setNodeSequence` and swings the tail before it goes on,
so the chain is never more than one node ahead of the tail (`End`), and while it is, somebody is about to swing it
(`Swinging`). All that helpers may find unfinished is therefore at the tail and its successor: a node behind the tail is
`Settled`, its sequence set, copied to the next node and its count adjusted (`Sequences`). A helper that
comes late reads values that are set already, and its compare-and-swap fails or writes what is there.

*The numbers.* The nodes divide the numbers taken from `sequence` into intervals (`From`, `Upper`). `Walk` says that the node a
thread's number belongs to is in use, not behind where the thread is, and within `Latency` + 1 of the tail it read (`Reach`).
This is where the latency is used. `Pend` is the argument for a thread that is about to take a number: if its
compare-and-swap on `sequence` is going to succeed, no number was taken since it read the tail, so who can
still add a node read no later tail, and `_addNode` lets it do so only within `Latency` of that. `Stage` is the one for a thread about to
write the sequence of a node: those whose number is above the value to be written, and who are by that left to the next node, can all reach it.
Without the bound a number could belong to a node its thread does not get to, and without the place of that
node nothing bounds the walk: `WalkedNotReused` and `WalkBounded` need each other.

*The counts.* `Counts` has for each node in use that its count, with the references that its sequences
say are still to be added (`Missing`, until `SetCount` makes the count even), is twice its
shares: references held by clients and by the library, numbers that belong to the node without their threads having
come to it, drops under way, one for the tail and one for the link of the node before. `SetCount` moves the missing
references into the count in one step, whoever of several helpers makes it; setting a
sequence moves none, since the shares of the tail's node go to the numbers of its successor with it. A thread that brings a count to zero is alone with the
first node in use (`Reclaim`). `TypeOK` is part of the induction.

*The free list.* `Pop` is the argument against ABA, and different from that of `Stpc`, since `freeHead` is a plain pointer. A
node that was popped and put back is behind the reference of the popping thread, and stays there: so if the `freeHead` that was read is still at a place
before that reference (`Stayed`), it was never gone, and its successor is the one that was read. By `Walk`
and `Touch` a head that the comparison accepts is at such a place.

*The steps.* `KeptStep`, `HoldsStep` and `PlainStep` say which variables a step must leave alone to
keep each part of `IInv`; most actions change one thread's program counter and what it has, and are covered by these. Each step that writes
to the chain has a lemma of its own: `GetCasTaken`, `SetCasWrite`, `SetPrevWrite`, `SetCountWrite`, `SetTailSwing`, `DropSubKept`,
`DropStoreKept`, `NewCasPop`, `AddTryLink`.

*Order.* `OrderInv` says that the entries of the log behind `done` are the data of the nodes in use behind the first, in
the order of the nodes, with that of the first while its reclaimer has still to free it (`Carried`, `Prefix`), and that data is
deferred once (`Deferred`). A reference guards data if it was taken before the data's node was linked. `Guards` says where it is:
on a node before that one if its holder has found its node, and else its number is not above those of the nodes before
(`Precedes`). Numbers move to a later node only when a sequence is set, and it is set to
a value that was read after the later node was linked, which is not below the numbers of those that guard its
data (`Leaves`). The node of the data that is freed next is the first in use, and no node before it is in use for a guard to be
on (`DueIsOldest`).

With nobody inside and no reference held, a node before the tail has no user, so by `Counts` the tail is the first in
use (`QuietChain`) and all data has been freed; and all allocated nodes are among the `MaxLatency` + 1 places from
`freeTail` to the tail if no node is free, so by `NodeAccounting` `numNodes` is at most the number of allocations that failed (`QuietPool`).

*Refinement.* A client acquires with its number (`GetCas`), long before it has found its node; `DropCall` is the release, a link by
`AddTry` the deferral and `DropFree` the freeing; all other steps are stutters.

### FastSmr

The invariants rest on each other in this order; TLC checked them on instances like those of `smr_fifo` and `smr_exit` first.

*Places.* `PlaceInv` says that each deferred item is in one queue and its state says in which (`RingPlaces`,
`SmrPlaces`, `ReadyPlaces`, `DeferredPlaces`), that only nodes in the ring have work, and that `deferredWork` is what was deferred
less what `process_work` has subtracted (`Counts`). A walk rotates the ring, an exit joins two queues and a scan filters
one; the lemmas on `Only` (`OnlyKeeps`, `OnlyDistinct`), on concatenation and on the turned ring (`FromTurns`) say that these lose and
double nothing. `Accounting` and `NoLostWakeup` follow: the wait without timeout needs `deferredWork = 0` when it is
entered, and the work that makes it 1 comes with a signal.

*The grace period.* `GracePeriod` alone says nothing of how far the walk has come. `GraceInv` does: let the walk have gone from a
node past that of a thread (`Gone`, on a circle). Then if the thread is still waited for by work in the node's first queue, it
has not quiesced since; and work in the second queue waits for no thread that the walk has passed. A node is
visited again only when the walk has gone past all, so what then leaves waits for nobody. An exit hands the work of a node to the node before it,
and from there it leaves before the walk has seen that node's thread quiesce again; with two threads the ring is then one
node, which is visited only after its thread has quiesced.

*Order.* `PassOrder`: work past its first pass was deferred before work that is in it. It needs the order of all work in the ring:
second queues before first ones, and each in the order in which the walk gets to them (`RingOrder`, `Sooner`). For type fifo without exits
the same holds of the second pass and the queues behind it (`FifoInv`), each queue is in order itself (`QueueOrder`), and what a
scan holds back is the end of the smr queue (`HeldIsEnd`); so what is run next is the oldest that was not (`NextIsHead`).

*Hazard pointers.* `HazardInv` follows one work item *u* and one thread *t* through the stages.
(1) Live: it may be reached from shared pointers and links. (2) *u* is unlinked and deferred; until *t* quiesces anything may be in
its buffer. (3) Once *t* has quiesced (`t \notin waiting[u]`), `Covered(t, u)`: if *t* works on something that leads to *u*, then so does its first
hazard pointer, as visible and as each later store to it in the buffer leaves it; or *t* is about to go on from
*u*'s predecessor, or from *u* itself, and the second hazard pointer is on it. By `GraceInv` this is so for all *t* when *u* is on the smr queue. (4) The scan
copies the first of the pair, then the second. A copied first one that does not lead to *u* leaves *t* no way to *u* but
the object it is just leaving (`Missed`), which the second protects; when that is copied as well and is not
*u*, *t* has nothing that leads to *u* (`Clean`). So each registered thread's pointer was either caught or the thread is
clean, and with nothing caught *u* may begin its second pass. (5) A clean thread gets nothing that leads to *u*, since what is
still linked does not (`LinkedInv`, `ReaderAvoids`), so it stays clean until *u* is run. That the order of the two stores and the two
copies is opposite is used in (4); the mutant that swaps the copies is caught. What is caught need not be *u* itself but may be an object
*x* that leads to it. By `LinkedInv` *x* was deferred before *u*, so by `PassOrder` it is not behind in its first pass, and as it is caught it
is not clean and not in its second: it is on the smr queue too (`CaughtIsHeld`), and holds *u* back, by tracing or, in fifo order, by being ahead.

*Store buffers.* What a buffer leaves in the hazard pointers when it has drained is `Flushed`, the last store to each;
`FlushedIs` and `FlushedLonger` say that it composes, whenever the stores become visible, and `Stored` what
it is for each point of a reader's loop.

### AtomicPtr

*The invariant.* `IInv` says of every object that exists (allocated and not in the pool) that `rcount` is the number of
atomic pointers to it, in shared pointers and in the temporaries of operations, and that
`ecount` with the readings that are still held in ephemeral counts (`Carried`) is the number of its local pointers; and that it
has a pointer exactly as long as both counts are not zero (`Counts`). A step of an operation moves a
pointer from one variable to another, or a number of readings from a pointer's ephemeral count to the
object's, and neither changes the balance. That nothing is lost on the way needs what
the temporaries are at each program counter (`Temporaries`, `Operands`): an assignment to a temporary
that still named an object would lose a pointer. From `Counts`, a thread that brings both counts to zero has the last
pointer, so it alone deletes (`Deletes`), and who still has a pointer sees an object that exists. `TypeOK`
is part of the induction, since `rcount` is a number only as long as it counts something.

*Counting.* The sets that the counts stand for are made from functions on the holders of pointers. `RecountOne` and `RecountTwo` say
what a change at one or two holders does to their size, and the lemmas of the actions
(`OwnCounts`, `ExchangeCounts`, `ReadCounts`, `ObtainCounts`, `UncountCounts`) apply them.

*Refinement.* A reading takes effect when the ephemeral count of the shared pointer is raised (`ReadsOne`), a writing when the
differential reference is exchanged (`Writes`); the counts that are then made up for are
stutters (`Stutters`), and a deletion finds no pointer, by `Counts`.

### All

*How the proofs are laid out.* A lemma for each action that concerns the chain has one
step for each part of the invariant; actions that only read or change a thread's own
variables are taken together (`Local`, `InUseSame`, `OrderSame`).

*Model-checked only.* Liveness (`EveryDeferFreed`, `CallsReturn`, `EveryDeferRun`, `ShutdownEnds`), since the proof
system does not do fairness; `DeleteFreesAll`, which is about the walk along `next` and takes induction over its length.

## Known deviations

Three runs show where the code departs from what its comments or tests say, and
more was seen while modelling that no run is spent on.

* `stpc_trim_fault`: deleting free nodes when there are none clears memory through `NULL` (`stpc.c:153`).
* A failed allocation leaves `numNodes` one too high (`stpc.c:149`, `rcpc.c:189`). The model of rcpc counts these
  (`failed`): if as many fail as the maximum allows, nothing can be deferred any more.
* `rcpcTryDeleteProxyNodes` clears memory through `NULL` just as stpc's does (`rcpc.c:192`).
* `rcpcInitProxy` takes its first node from `malloc`, not from `allocMem`, and `rcpcDeleteProxy` or `rcpcTryDeleteProxyNodes` gives it to `freeMem`
  (`rcpc.c:109`); a thread's statistics come from `allocMem` and go to `free` (`rcpc.c:419`). The model has one allocator.
* A thread that exits after its proxy was deleted adds its statistics to those of the deleted proxy (`rcpc.c:408`).
* `smr_ring_exit`: an exiting thread hands its work to the node *before* its own,
  which the walk reaches before it has seen that node's thread quiesce (`rcuscan.c:222`).
  With two threads it cannot go wrong, since the ring is then one node, which `smr_exit` confirms.
* `smr_trace_defer`: tracing is safe only if objects are deferred in the order
  they are unlinked; `smrsample -t` does not ensure that with its two writers.
* `smr_scan` does not lower `smr_count` when work leaves the smr queue
  (`smrscan.c:422`), so scans go on copying hazard pointers with an empty queue and
  `smrempty` and `smrfull` are not counted.
* When a thread exits, work of type fifo may be run out of order: its queues are put behind those of the node before
  (`rcuscan.c:222`), or at the exit of the last thread all queues are joined (`rcuscan.c:202`). In the second case nobody is left to
  depend on the order. In the first a reader may be on its way along links from one object to another that is now ahead on the smr queue,
  and TLC finds `HazardSafe` violated in `smr_fifo` with `MayExit = TRUE`.

## What is abstracted or left out

* *Memory order.* Stpc, Rcpc and AtomicPtr are sequentially consistent, and the code is not: in stpc a reference is taken with a relaxed
  compare-and-swap on the tail (`stpc.c:167`) and dropped with a relaxed load and a release subtraction (`stpc.c:179`), in rcpc the tail is read and
  swung relaxed. What a weaker order adds to the outcomes is neither checked nor proved. FastSmr
  has store buffers for hazard pointers, as that is its point, and nothing weaker.
* *Width.* Sequences and counts are unbounded integers. The code has `long`, and passes the difference of two sequences on as
  `int adjust` (`stpc.c:173`): about 2^30 references taken on one tail would make its count wrong. Wrapping of the sequences themselves is not modelled either.
* *rcpc*: `rcpcAddNode`, which clients cannot call as they have no nodes of their own, and the statistics. `rcpcSetLatency` has no effect once
  the proxy is initialized; the maximum is set before.
* *atomic-ptr*: comparisons and `get`, which change no state of their own, and the user's object: its destructor may destroy
  pointers that are members of it.
* *Statistics* of all libraries, and times: nothing the libraries do depends on them.
* *fastsmr*: `rcu_check`, `rcu_signal` (experimental, not called), `smr_alloc`,
  `smr_dealloc`, `smr_check`, `smr_shutdown`, `rcu_incoming`.
* *stdatomic*: that the inline assembly does what its name says.
* *Test programs*: options, timing, output.

## Plan

1. Done: `ProxyCollector`, `Stpc`, its runs, its inductive invariant and the theorems that
   rest on it; `FastSmr` and its runs; `SharedPointers`, `AtomicPtr` and its run.
2. Done: the theorems of `AtomicPtr`, `ImplementsSharedPointers` among them.
3. Done: `Rcpc` and its runs.
4. `Fifo`: the linked queues of `fifo.c` against sequences; `StpcStats`: counters
   added up at thread exit.
5. Done: `NodeAccounting`, `PoolBound` and `ExhaustedOnlyByReferences` of `Stpc`.
6. Done: the inductive invariant of `Rcpc` and the theorems that rest on it.
7. Done: the order of `Rcpc`, its quiescence and `ImplementsCollector`.
8. Done: the invariants of `FastSmr` and the theorems that rest on them.
9. A way for an exiting thread to hand on its work (`smr_ring_exit`) that keeps the grace period for any number of threads, to be
   proved in place of `ExitsOfTwo`.
