-------------------------------- MODULE FastSmr --------------------------------
(***************************************************************************)
(* fastsmr: hazard pointers whose stores need no memory barrier, because   *)
(* deferred work waits for every registered thread to pass a quiesce point *)
(* before hazard pointers are looked at, and once more afterwards.         *)
(*                                                                         *)
(* A work item goes through the states                                     *)
(*                                                                         *)
(*    live --smr_defer--> pass1 --> smr --> pass2 --> its function is run  *)
(*                        ring      scan    ring                           *)
(*                                                                         *)
(* In the two passes it sits in a queue of a ring of nodes, one for each   *)
(* thread.  The scan walks round the ring as far as threads have quiesced  *)
(* since they were last looked at; work moves from queue0 to queue1 of a   *)
(* node when the walk first gets there, and leaves when it gets there for  *)
(* the second time (rcuscan.c).  In between it waits in one queue until no *)
(* hazard pointer refers to it (smrscan.c).  The polling thread does all   *)
(* this, and runs the functions (fastsmr.c).                               *)
(*                                                                         *)
(* Everything but the readers' own accesses happens under rcu_mutex.  The  *)
(* polling thread's critical section is broken into steps where it looks   *)
(* at what readers may be changing.                                        *)
(***************************************************************************)
EXTENDS Integers, Sequences, FiniteSets

CONSTANTS
    Threads,        \* threads that use hazard pointers
    Work,           \* work items, each deferred at most once
    NULL,
    Type,           \* type of all work items: "fifo" or "trace"
    Links,          \* Links[w]: what forrefs visits from w, in order
    InOrder,        \* whether clients defer in the order they unlink
    Readers,        \* the threads that load pointers in this instance
    MayExit,        \* whether threads may exit and unregister
    MaxBuffer       \* bound: stores of a thread that are not yet visible

ASSUME FastSmrAssumption ==
    /\ NULL \notin Work
    /\ Type \in {"fifo", "trace"}
    /\ Links \in [Work -> Seq(Work)]
    /\ InOrder \in BOOLEAN
    /\ Readers \subseteq Threads
    /\ MayExit \in BOOLEAN
    /\ MaxBuffer \in Nat

VARIABLES
    (* rcuscan.c *)
    ring,           \* the circular list of nodes from current_node on
    queue0, queue1, \* deferred work of each node
    fresh,          \* the thread's qcount differs from last_qcount
    (* smrscan.c *)
    smrNodes,       \* threads with a hazard pointer, the newest first
    smrQueue,       \* work that waits for hazard pointers
    smrCount,
    (* fastsmr.c *)
    readyQueue,     \* work whose function may be called
    deferredWork,
    rcuStop,
    state           \* state of each work item

ringVars == <<ring, queue0, queue1>>
smrVars  == <<smrNodes, smrQueue, smrCount>>
workVars == <<readyQueue, deferredWork, rcuStop, state>>

VARIABLES
    (* the polling thread *)
    poll,           \* where it is
    at,             \* index in ring of the node rcu_scan looks at
    toCopy,         \* hazard pointers not yet copied, as <<thread, slot>>
    copied,         \* hazard pointers copied in this scan
    batch,          \* work taken off readyQueue and not yet run
    workcount       \* work taken off and not yet subtracted
pollVars == <<at, toCopy, copied, batch, workcount>>

VARIABLES
    (* readers and writers *)
    linked,         \* objects that shared pointers still lead to
    hptr,           \* the pair of hazard pointers of each thread, as visible
    buffer,         \* stores <<slot, value>> in each thread's store buffer
    cand,           \* object loaded and not yet validated, or NULL
    using,          \* object a reader works on, or NULL
    signals         \* calls of pthread_cond_signal that are still to come
readerVars == <<hptr, buffer, cand, using>>

VARIABLES
    (* history *)
    waiting,        \* waiting[w]: threads that have not quiesced since w was queued
    deferred,       \* work in the order of smr_defer
    run             \* work in the order its function was called
history == <<waiting, deferred, run>>

vars == <<ringVars, fresh, smrVars, workVars, poll, pollVars, linked,
          readerVars, signals, history>>

-------------------------------------------------------------------------------
Elements(s) == {s[i] : i \in 1..Len(s)}
Registered == Elements(ring)

(* The polling thread holds rcu_mutex except while it waits or runs work. *)
PollStates == {"scan", "visit", "smr", "copy", "mark", "ready", "run",
               "timedwait", "wait", "woken", "done", "aborted"}
Unlocked == poll \in {"run", "timedwait", "wait", "woken", "done"}

TypeOK ==
    /\ ring \in Seq(Threads) /\ smrNodes \in Seq(Threads)
    /\ queue0 \in [Threads -> Seq(Work)] /\ queue1 \in [Threads -> Seq(Work)]
    /\ fresh \in [Threads -> BOOLEAN]
    /\ smrQueue \in Seq(Work) /\ smrCount \in Nat
    /\ readyQueue \in Seq(Work) /\ deferredWork \in Nat
    /\ rcuStop \in BOOLEAN
    /\ state \in [Work -> {"live", "pass1", "smr", "pass2"}]
    /\ poll \in PollStates
    /\ at \in Nat /\ toCopy \in Seq(Threads \X {1, 2})
    /\ copied \subseteq Work \union {NULL}
    /\ batch \in Seq(Work) /\ workcount \in Nat
    /\ linked \subseteq Work
    /\ hptr \in [Threads -> [{1, 2} -> Work \union {NULL}]]
    /\ buffer \in [Threads -> Seq({1, 2} \X (Work \union {NULL}))]
    /\ cand \in [Threads -> Work \union {NULL}]
    /\ using \in [Threads -> Work \union {NULL}]
    /\ signals \in Nat
    /\ waiting \in [Work -> SUBSET Threads]
    /\ deferred \in Seq(Work) /\ run \in Seq(Work)

Init ==
    /\ ring = <<>> /\ smrNodes = <<>>
    /\ queue0 = [t \in Threads |-> <<>>] /\ queue1 = [t \in Threads |-> <<>>]
    /\ fresh = [t \in Threads |-> FALSE]
    /\ smrQueue = <<>> /\ smrCount = 0
    /\ readyQueue = <<>> /\ deferredWork = 0 /\ rcuStop = FALSE
    /\ state = [w \in Work |-> "live"]
    /\ poll = "scan" /\ at = 1 /\ toCopy = <<>> /\ copied = {}
    /\ batch = <<>> /\ workcount = 0
    /\ linked = Work
    /\ hptr = [t \in Threads |-> <<NULL, NULL>>]
    /\ buffer = [t \in Threads |-> <<>>]
    /\ cand = [t \in Threads |-> NULL] /\ using = [t \in Threads |-> NULL]
    /\ signals = 0
    /\ waiting = [w \in Work |-> {}] /\ deferred = <<>> /\ run = <<>>

-------------------------------------------------------------------------------
(* Queueing *)

WithState(ws, s) == [w \in Work |-> IF w \in ws THEN s ELSE state[w]]

(* A pass starts for ws: it is to outlast a quiesce point of every thread  *)
(* in ts.                                                                  *)
StartPass(ws, ts) == waiting' = [w \in Work |-> IF w \in ws THEN ts ELSE waiting[w]]

(* The elements of s that are in S, in their order.  (SelectSeq is defined *)
(* by recursion, which the proofs could not reason about.)                 *)
Only(s, S) ==
    LET kept == {i \in 1..Len(s) : s[i] \in S}
        place(k) == CHOOSE i \in kept : Cardinality({j \in kept : j <= i}) = k
    IN  [k \in 1..Cardinality(kept) |-> s[place(k)]]

(* rcu_requeue of the queue q while threads are registered: work of the    *)
(* first pass goes on to the smr queue, work of the second is ready.       *)
FirstPass(q) == Only(q, {w \in Work : state[w] = "pass1"})
SecondPass(q) == Only(q, {w \in Work : state[w] # "pass1"})

LeaveUncounted(q) ==                        \* fault: smr_count is not incremented
    /\ smrQueue' = smrQueue \o FirstPass(q)
    /\ state' = WithState(Elements(FirstPass(q)), "smr")
    /\ readyQueue' = readyQueue \o SecondPass(q)
    /\ UNCHANGED smrCount
LeavePass(q) ==
    /\ smrQueue' = smrQueue \o FirstPass(q)
    /\ smrCount' = smrCount + Len(FirstPass(q))
    /\ state' = WithState(Elements(FirstPass(q)), "smr")
    /\ readyQueue' = readyQueue \o SecondPass(q)

(* pthread_cond_signal and pthread_cond_broadcast: only the polling thread *)
(* waits.                                                                  *)
WakeTimed ==                                \* fault: only the timed wait ends
    poll' = IF poll = "timedwait" THEN "woken" ELSE poll
WakePoll == poll' = IF poll \in {"wait", "timedwait"} THEN "woken" ELSE poll

-------------------------------------------------------------------------------
(* Registration *)

(* smr_acquire of a thread that has no node yet.  The new node is linked   *)
(* before current_node, at the far end of the walk.                        *)
Acquire(t) ==
    /\ Unlocked /\ t \notin Registered
    /\ ~rcuStop
    /\ ring' = Append(ring, t)
    /\ fresh' = [fresh EXCEPT ![t] = FALSE]
    /\ smrNodes' = <<t>> \o smrNodes
    /\ UNCHANGED <<queue0, queue1, smrQueue, smrCount, workVars, poll, pollVars,
                   linked, readerVars, signals, history>>

Without(s, t) == Only(s, Threads \ {t})

(* The node before t in the ring. *)
Previous(t) ==
    LET i == CHOOSE i \in 1..Len(ring) : ring[i] = t
    IN  IF i = 1 THEN ring[Len(ring)] ELSE ring[i - 1]

(* rcu_delete_node when other nodes remain: the work of t goes to the node *)
(* before it, and current_node moves forward if it was t.                  *)
DeleteNode(t) ==
    /\ ring' = Without(ring, t)
    /\ queue0' = [queue0 EXCEPT ![Previous(t)] = @ \o queue0[t], ![t] = <<>>]
    /\ queue1' = [queue1 EXCEPT ![Previous(t)] = @ \o queue1[t], ![t] = <<>>]

(* What becomes ready when the only thread goes. *)
ReleasedQueue0(t) == queue0[t] \o smrQueue      \* fault: queue1 is left out
Released(t) == queue0[t] \o smrQueue \o queue1[t]

(* smr_release, at the exit of a registered thread.  When the last thread  *)
(* goes, there is nobody left to wait for: work that waits for hazard      *)
(* pointers goes to the node of the thread, and all that is on the node    *)
(* becomes ready.                                                          *)
Release(t) ==
    /\ MayExit
    /\ Unlocked /\ t \in Registered
    /\ cand[t] = NULL /\ using[t] = NULL
    /\ smrNodes' = Without(smrNodes, t)
    /\ IF Len(ring) > 1
       THEN /\ DeleteNode(t)
            /\ UNCHANGED <<smrQueue, smrCount, readyQueue, state>>
       ELSE /\ ring' = <<>>
            /\ readyQueue' = readyQueue \o Released(t)
            /\ state' = WithState(Elements(Released(t)), "pass2")
            /\ queue0' = [queue0 EXCEPT ![t] = <<>>]
            /\ queue1' = [queue1 EXCEPT ![t] = <<>>]
            /\ smrCount' = smrCount - Len(smrQueue)
            /\ smrQueue' = <<>>
    /\ waiting' = [w \in Work |-> waiting[w] \ {t}]
    /\ hptr' = [hptr EXCEPT ![t] = <<NULL, NULL>>]
    /\ buffer' = [buffer EXCEPT ![t] = <<>>]
    /\ WakePoll
    /\ UNCHANGED <<fresh, deferredWork, rcuStop, pollVars, linked, cand, using,
                   signals, deferred, run>>

-------------------------------------------------------------------------------
(* Readers and writers *)

(* What thread t's hazard pointers are once the stores in b are visible.   *)
Flushed(h, b) ==
    LET last(k) == {i \in 1..Len(b) : b[i][1] = k}
        val(k) == IF last(k) = {} THEN h[k]
                  ELSE b[CHOOSE i \in last(k) : \A j \in last(k) : j <= i][2]
    IN  <<val(1), val(2)>>

(* A context switch or an explicit event: the thread's stores become       *)
(* visible and its count goes up.                                          *)
Quiesce(t) ==
    /\ t \in Registered
    /\ fresh' = [fresh EXCEPT ![t] = TRUE]
    /\ hptr' = [hptr EXCEPT ![t] = Flushed(@, buffer[t])]
    /\ buffer' = [buffer EXCEPT ![t] = <<>>]
    /\ waiting' = [w \in Work |-> waiting[w] \ {t}]
    /\ UNCHANGED <<ringVars, smrVars, workVars, poll, pollVars, linked, cand,
                   using, signals, deferred, run>>

(* The oldest buffered store becomes visible at any time. *)
Drain(t) ==
    /\ buffer[t] # <<>>
    /\ hptr' = [hptr EXCEPT ![t] = Flushed(@, <<Head(buffer[t])>>)]
    /\ buffer' = [buffer EXCEPT ![t] = Tail(@)]
    /\ UNCHANGED <<ringVars, fresh, smrVars, workVars, poll, pollVars, linked,
                   cand, using, signals, history>>

Store(t, stores) ==
    /\ Len(buffer[t]) + Len(stores) <= MaxBuffer
    /\ buffer' = [buffer EXCEPT ![t] = @ \o stores]

(* smrload of a shared pointer: load it, store it as hazard pointer, and   *)
(* load it again.                                                          *)
Load(t) ==
    /\ t \in Readers \intersect Registered
    /\ cand[t] = NULL /\ using[t] = NULL
    /\ \E w \in linked : Store(t, <<<<1, w>>>>) /\ cand' = [cand EXCEPT ![t] = w]
    /\ UNCHANGED <<ringVars, fresh, smrVars, workVars, poll, pollVars, linked,
                   hptr, using, signals, history>>

(* smrload of the link of the object in use, which stays protected by the  *)
(* second hazard pointer of the pair: smr_scan copies the pair in the      *)
(* opposite order.                                                         *)
Follow(t) ==
    /\ cand[t] = NULL /\ using[t] # NULL
    /\ Links[using[t]] # <<>>
    /\ LET w == Head(Links[using[t]])
       IN  /\ Store(t, <<<<2, using[t]>>, <<1, w>>>>)
           /\ cand' = [cand EXCEPT ![t] = w]
    /\ UNCHANGED <<ringVars, fresh, smrVars, workVars, poll, pollVars, linked,
                   hptr, using, signals, history>>

(* The second load finds the same pointer.  The link of an object in use   *)
(* does not change, even when the object was taken out.                    *)
Validate(t) ==
    /\ cand[t] # NULL
    /\ using[t] = NULL => cand[t] \in linked
    /\ cand' = [cand EXCEPT ![t] = NULL]
    /\ using' = [using EXCEPT ![t] = cand[t]]
    /\ UNCHANGED <<ringVars, fresh, smrVars, workVars, poll, pollVars, linked,
                   hptr, buffer, signals, history>>

(* It finds another one, which takes its place, or none. *)
Retry(t) ==
    /\ cand[t] # NULL /\ using[t] = NULL /\ cand[t] \notin linked
    /\ \E p \in IF linked = {} THEN {NULL} ELSE linked :
            Store(t, <<<<1, p>>>>) /\ cand' = [cand EXCEPT ![t] = p]
    /\ UNCHANGED <<ringVars, fresh, smrVars, workVars, poll, pollVars, linked,
                   hptr, using, signals, history>>

(* smrnull *)
Clear(t) ==
    /\ cand[t] = NULL /\ using[t] # NULL
    /\ Store(t, <<<<1, NULL>>, <<2, NULL>>>>)
    /\ using' = [using EXCEPT ![t] = NULL]
    /\ UNCHANGED <<ringVars, fresh, smrVars, workVars, poll, pollVars, linked,
                   hptr, cand, signals, history>>

(* A writer takes an object out of the shared structure, never one that    *)
(* another object there links to, and later defers its deletion.           *)
Unlink(w) ==
    /\ w \in linked
    /\ \A v \in linked : w \notin Elements(Links[v])
    /\ linked' = linked \ {w}
    /\ UNCHANGED <<ringVars, fresh, smrVars, workVars, poll, pollVars,
                   readerVars, signals, history>>

(* fifo_enqueue *)
Enqueue(q, w) == Append(q, w)

FirstDefer == deferredWork = 0

(* smr_defer; with nobody registered the work is ready at once. *)
Defer(w) ==
    /\ Unlocked /\ ~rcuStop
    /\ w \notin linked /\ state[w] = "live"
    /\ InOrder => \A v \in Work : w \in Elements(Links[v]) => state[v] # "live"
    /\ IF ring # <<>>
       THEN /\ queue0' = [queue0 EXCEPT ![ring[1]] = Enqueue(@, w)]
            /\ state' = WithState({w}, "pass1")
            /\ UNCHANGED readyQueue
       ELSE /\ readyQueue' = Enqueue(readyQueue, w)
            /\ state' = WithState({w}, "pass2")
            /\ UNCHANGED queue0
    /\ StartPass({w}, Registered)
    /\ deferredWork' = deferredWork + 1
    /\ signals' = IF FirstDefer THEN signals + 1 ELSE signals
    /\ deferred' = Append(deferred, w)
    /\ UNCHANGED <<ring, queue1, fresh, smrVars, rcuStop, poll, pollVars, linked,
                   readerVars, run>>

(* The signal of smr_defer is sent after the mutex was released. *)
Signal ==
    /\ signals > 0
    /\ signals' = signals - 1
    /\ WakePoll
    /\ UNCHANGED <<ringVars, fresh, smrVars, workVars, pollVars, linked,
                   readerVars, history>>

(* rcu_shutdown, up to pthread_join; all clients are through by then. *)
Shutdown ==
    /\ Unlocked /\ ~rcuStop
    /\ \A w \in Work : w \in linked \/ state[w] # "live"
    /\ rcuStop' = TRUE
    /\ WakePoll
    /\ UNCHANGED <<ringVars, fresh, smrVars, readyQueue, deferredWork, state,
                   pollVars, linked, readerVars, signals, history>>

-------------------------------------------------------------------------------
(* The polling thread: rcu_scan *)

ScanStart ==
    /\ poll = "scan"
    /\ poll' = IF ring = <<>> THEN "smr" ELSE "visit"
    /\ at' = 1
    /\ UNCHANGED <<ringVars, fresh, smrVars, workVars, toCopy, copied, batch,
                   workcount, linked, readerVars, signals, history>>

(* The thread of the node has quiesced, or was found not running, which is *)
(* a Quiesce right before.  The work on the node after it moves on.        *)
Checkpoint(t) == fresh[t] /\ fresh' = [fresh EXCEPT ![t] = FALSE]

ShiftBoth(n) ==                             \* fault: work makes one round only
    /\ LeavePass(queue1[n] \o queue0[n])
    /\ queue1' = [queue1 EXCEPT ![n] = <<>>]
    /\ queue0' = [queue0 EXCEPT ![n] = <<>>]
Shift(n) ==
    /\ LeavePass(queue1[n])
    /\ queue1' = [queue1 EXCEPT ![n] = queue0[n]]
    /\ queue0' = [queue0 EXCEPT ![n] = <<>>]

Visit ==
    /\ poll = "visit"
    /\ Checkpoint(ring[at])
    /\ LET next == (at % Len(ring)) + 1
       IN  /\ Shift(ring[next])
           /\ at' = next
           /\ poll' = IF next = 1 THEN "smr" ELSE "visit"
    /\ UNCHANGED <<ring, smrNodes, deferredWork, rcuStop, toCopy, copied, batch,
                   workcount, linked, readerVars, signals, history>>

(* The ring from its node i on. *)
From(i) == SubSeq(ring, i, Len(ring)) \o SubSeq(ring, 1, i - 1)

(* The walk stops at a thread that has not quiesced and goes on from there *)
(* the next time.                                                          *)
VisitIdle ==
    /\ poll = "visit"
    /\ ~fresh[ring[at]]
    /\ ring' = From(at)
    /\ at' = 1
    /\ poll' = "smr"
    /\ UNCHANGED <<queue0, queue1, fresh, smrVars, workVars, toCopy, copied,
                   batch, workcount, linked, readerVars, signals, history>>

-------------------------------------------------------------------------------
(* The polling thread: smr_scan *)

(* The pairs of all threads in the order they are read. *)
PairsSwapped ==                             \* fault: the second of a pair first
    [i \in 1..(2 * Len(smrNodes)) |->
        <<smrNodes[(i + 1) \div 2], IF i % 2 = 1 THEN 2 ELSE 1>>]
Pairs ==
    [i \in 1..(2 * Len(smrNodes)) |->
        <<smrNodes[(i + 1) \div 2], IF i % 2 = 1 THEN 1 ELSE 2>>]

SmrStart ==
    /\ poll = "smr"
    /\ copied' = {}
    /\ IF smrCount = 0
       THEN poll' = "ready" /\ UNCHANGED toCopy
       ELSE poll' = "copy" /\ toCopy' = Pairs
    /\ UNCHANGED <<ringVars, fresh, smrVars, workVars, at, batch, workcount,
                   linked, readerVars, signals, history>>

Copy ==
    /\ poll = "copy"
    /\ IF toCopy = <<>>
       THEN poll' = "mark" /\ UNCHANGED <<toCopy, copied>>
       ELSE /\ copied' = copied \union {hptr[Head(toCopy)[1]][Head(toCopy)[2]]}
            /\ toCopy' = Tail(toCopy)
            /\ UNCHANGED poll
    /\ UNCHANGED <<ringVars, fresh, smrVars, workVars, at, batch, workcount,
                   linked, readerVars, signals, history>>

(* Work on the smr queue that a hazard pointer still refers to, ... *)
Referenced == Elements(smrQueue) \intersect copied

(* ... and what forrefs reaches from w, up to the first live object. *)
TracedOne(w) ==                             \* fault: only w itself is marked
    {w}
Traced(w) ==
    {Links[w][i] : i \in {i \in 1..Len(Links[w]) :
                             \A j \in 1..i : state[Links[w][j]] # "live"}}

(* Work that stays on the smr queue: in fifo order all from the first one  *)
(* that is referenced; otherwise what can be reached from a referenced one. *)
HeldReferenced == Referenced                \* fault: no sequence is kept
Held ==
    IF Type = "fifo"
    THEN {smrQueue[i] : i \in {i \in 1..Len(smrQueue) :
                                  \E j \in 1..i : smrQueue[j] \in copied}}
    ELSE Referenced \union UNION {Traced(w) : w \in Referenced}

(* The work that no hazard pointer holds starts its second pass.  smrCount *)
(* is not lowered, so that it only bounds the length of smrQueue.          *)
Mark ==
    /\ poll = "mark"
    /\ LET free == Only(smrQueue, Work \ Held)
       IN  /\ smrQueue' = Only(smrQueue, Held)
           /\ state' = WithState(Elements(free), "pass2")
           /\ IF ring # <<>>
              THEN /\ queue0' = [queue0 EXCEPT ![ring[1]] = @ \o free]
                   /\ UNCHANGED readyQueue
              ELSE readyQueue' = readyQueue \o free /\ UNCHANGED queue0
           /\ StartPass(Elements(free), Registered)
    /\ poll' = "ready"
    /\ UNCHANGED <<ring, queue1, fresh, smrNodes, smrCount, deferredWork,
                   rcuStop, pollVars, linked, readerVars, signals, deferred, run>>

-------------------------------------------------------------------------------
(* The polling thread: process_work and the waits of rcu_poll *)

Take ==
    /\ poll = "ready"
    /\ readyQueue # <<>>
    /\ batch' = readyQueue
    /\ workcount' = Len(readyQueue)
    /\ readyQueue' = <<>>
    /\ poll' = "run"
    /\ UNCHANGED <<ringVars, fresh, smrVars, deferredWork, rcuStop, state, at,
                   toCopy, copied, linked, readerVars, signals, history>>

Run ==
    /\ poll = "run" /\ batch # <<>>
    /\ run' = Append(run, Head(batch))
    /\ batch' = Tail(batch)
    /\ UNCHANGED <<ringVars, fresh, smrVars, workVars, poll, at, toCopy, copied,
                   workcount, linked, readerVars, signals, waiting, deferred>>

(* The count of a batch starts at zero. *)
NoReset(n) == workcount + n                 \* fault: workcount = 0 is missing
Count(n) == n

(* Work that became ready in the meantime is taken as well before the next *)
(* scan.                                                                   *)
RunDone ==
    /\ poll = "run" /\ batch = <<>>
    /\ deferredWork' = deferredWork - workcount
    /\ IF readyQueue # <<>>
       THEN /\ batch' = readyQueue /\ workcount' = Count(Len(readyQueue))
            /\ readyQueue' = <<>>
            /\ UNCHANGED poll
       ELSE /\ workcount' = 0 /\ poll' = "scan"
            /\ UNCHANGED <<batch, readyQueue>>
    /\ UNCHANGED <<ringVars, fresh, smrVars, rcuStop, state, at, toCopy, copied,
                   linked, readerVars, signals, history>>

(* Nothing is ready. *)
NextWaitStop ==                             \* fault: rcu_stop is tested first
    CASE rcuStop /\ deferredWork = 0 -> "done"
      [] rcuStop /\ deferredWork # 0 -> "aborted"
      [] deferredWork > 0 -> "timedwait"
      [] OTHER -> "wait"
NextWait ==
    CASE deferredWork > 0 -> "timedwait"
      [] deferredWork <= 0 /\ ~rcuStop -> "wait"
      [] deferredWork = 0 /\ rcuStop -> "done"
      [] OTHER -> "aborted"

Idle ==
    /\ poll = "ready"
    /\ readyQueue = <<>>
    /\ poll' = NextWait
    /\ UNCHANGED <<ringVars, fresh, smrVars, workVars, pollVars, linked,
                   readerVars, signals, history>>

(* A timed wait ends by itself, the other one when it was woken. *)
WaitEnds ==
    /\ poll \in {"timedwait", "woken"}
    /\ poll' = "scan"
    /\ UNCHANGED <<ringVars, fresh, smrVars, workVars, pollVars, linked,
                   readerVars, signals, history>>

(* rcu_shutdown2, after pthread_join: the nodes of all threads are deleted. *)
Shutdown2 ==
    /\ poll = "done" /\ ring # <<>>
    /\ ring' = <<>>
    /\ UNCHANGED <<queue0, queue1, fresh, smrVars, workVars, poll, pollVars,
                   linked, readerVars, signals, history>>

Finished ==
    /\ poll = "done" /\ ring = <<>>
    /\ UNCHANGED vars

-------------------------------------------------------------------------------
ThreadNext(t) ==
    \/ Acquire(t) \/ Release(t) \/ Quiesce(t) \/ Drain(t)
    \/ Load(t) \/ Follow(t) \/ Validate(t) \/ Retry(t) \/ Clear(t)
WriterNext == \E w \in Work : Unlink(w) \/ Defer(w)
PollNext ==
    \/ ScanStart \/ Visit \/ VisitIdle
    \/ SmrStart \/ Copy \/ Mark
    \/ Take \/ Run \/ RunDone \/ Idle \/ WaitEnds

Next ==
    \/ \E t \in Threads : ThreadNext(t)
    \/ WriterNext
    \/ Signal
    \/ PollNext
    \/ Shutdown \/ Shutdown2 \/ Finished

Spec == Init /\ [][Next]_vars

(* The polling thread is scheduled, a signal that is due is sent, a        *)
(* registered thread is switched now and then, and readers do not keep an  *)
(* object forever.                                                         *)
FairSpec ==
    /\ Spec
    /\ WF_vars(PollNext) /\ WF_vars(Signal)
    /\ \A t \in Threads : WF_vars(Quiesce(t)) /\ WF_vars(Validate(t) \/ Retry(t) \/ Clear(t))

-------------------------------------------------------------------------------
(* Properties *)

(* What a reader works on has not been given to its function.  The hazard  *)
(* pointer may still be in the reader's store buffer when it starts to use *)
(* the object, which is what smr_defer's first pass is for (smrscan.c      *)
(* smr_scan, rcuscan.c rcu_scan).                                          *)
HazardSafe == \A t \in Threads : using[t] # NULL => using[t] \notin Elements(run)

(* Work leaves the ring only after every thread that was registered when   *)
(* the pass began has quiesced or exited (rcuscan.c rcu_requeue: that is   *)
(* why work stays for two visits of its node).                             *)
GracePeriod ==
    \A w \in Work :
        waiting[w] # {} =>
            \E n \in Registered : w \in Elements(queue0[n] \o queue1[n])

Waiting == (UNION {Elements(queue0[n] \o queue1[n]) : n \in Registered})
              \union Elements(smrQueue \o readyQueue)

(* deferred_work counts what was deferred and not yet accounted for by     *)
(* process_work, and none of it is lost or queued twice when it moves from *)
(* queue to queue or a thread's node goes away; the polling thread never   *)
(* stops or aborts with work left (fastsmr.c rcu_poll).                    *)
Accounting ==
    /\ Elements(deferred) = Waiting \union Elements(batch \o run)
    /\ Len(run) = Cardinality(Elements(run))
    /\ Waiting \intersect Elements(batch \o run) = {}
    /\ deferredWork + Len(run) - (workcount - Len(batch)) = Len(deferred)
    /\ poll # "aborted"
    /\ poll = "done" => deferredWork = 0

(* The polling thread is in the wait without a timeout only while there is *)
(* nothing to do, or a signal is on its way: smr_defer signals for the     *)
(* first work only, and not under the mutex (fastsmr.c smr_defer).         *)
NoLostWakeup == poll = "wait" => ~rcuStop /\ (deferredWork > 0 => signals > 0)

(* Work of type fifo is run in the order it was deferred (fastsmr.h, the   *)
(* type fifo: "deallocate in fifo order").                                 *)
FifoOrder == run = SubSeq(deferred, 1, Len(run))

(* Deferred work is run, whatever the readers do, as long as they let go   *)
(* of objects and their threads are switched (smr_defer).                  *)
EveryDeferRun == \A w \in Work : (state[w] # "live") ~> (w \in Elements(run))

(* rcu_shutdown returns: the polling thread finishes what was deferred and *)
(* ends.                                                                   *)
ShutdownEnds == rcuStop ~> (poll = "done")
===============================================================================
