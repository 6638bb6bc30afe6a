------------------------------- MODULE StpcInv -------------------------------
(***************************************************************************)
(* The inductive invariant of Stpc, from which SingleReclaimer,            *)
(* TouchedInUse, GuardedNotFreed and PopInstallsNext follow.               *)
(*                                                                         *)
(* The count of a node means something only together with the references   *)
(* taken on it that are still in tail.seq, in the oldTail of the thread    *)
(* that replaced it, or in that thread's rcount.  Every conjunct is about  *)
(* the proxy while it is alive.                                            *)
(***************************************************************************)
EXTENDS Stpc

(* Threads by what they owe to a node. *)
Dropping(t) == pc[t] \in {"d_load", "d_sub"}
Passing(t) == pc[t] \in {"d_free", "d_clear"}
Linking(t) == pc[t] = "q_link"
Refs(n) == {t \in Threads : ref[t] = n}
Drops(n) ==
    {t \in Threads : /\ node[t] = n
                     /\ (Dropping(t) /\ rcount[t] = REFERENCE) \/ Passing(t)}
LinkTo(n) == IF pos[n] > pos[freeTail] THEN 1 ELSE 0
Users(n) == Cardinality(Refs(n)) + Cardinality(Drops(n)) + LinkTo(n)

(* The thread that replaced n as the tail, until it has adjusted n's count, *)
(* and what it is to add for the references taken on n.                    *)
Closes(t, n) ==
    \/ Linking(t) /\ old[t].ptr = n
    \/ Dropping(t) /\ node[t] = n /\ rcount[t] # REFERENCE
Taken(t) == IF Linking(t) THEN old[t].seq ELSE GUARD_BIT + REFERENCE - rcount[t]

(* Nodes that a thread has for itself. *)
Owns(t) == pc[t] \in {"n_init", "q_ptr", "q_seq", "q_cas", "t_free"}

-------------------------------------------------------------------------------
(* Nodes of the chain have places from that of the free head to that of    *)
(* the tail.                                                               *)
Places ==
    /\ \A n \in Nodes : pos[n] \in Nat
    /\ \A m, n \in Nodes : pos[m] > 0 /\ pos[m] = pos[n] => m = n
    /\ freeHead.ptr \in Nodes /\ freeTail \in Nodes /\ tail.ptr \in Nodes
    /\ 0 < pos[freeHead.ptr]
    /\ pos[freeHead.ptr] <= pos[freeTail] /\ pos[freeTail] <= pos[tail.ptr]
    /\ \A n \in Nodes :
          pos[n] > 0 => pos[freeHead.ptr] <= pos[n] /\ pos[n] <= pos[tail.ptr]
    /\ \A n \in Nodes : pos[n] > 0 => n \in heap

(* Each links to the one at the next place, or is about to. *)
Links ==
    /\ \A n \in Nodes : pos[n] > 0 /\ n # tail.ptr =>
          \/ next[n] \in Nodes /\ pos[next[n]] = pos[n] + 1
          \/ \E t \in Threads : Linking(t) /\ old[t].ptr = n
    /\ \A t \in Threads : Linking(t) =>
          /\ old[t].ptr \in Nodes /\ node[t] \in Nodes
          /\ pos[old[t].ptr] >= pos[freeTail]
          /\ pos[node[t]] = pos[old[t].ptr] + 1

(* A thread's own node is allocated, off the chain and nobody else's. *)
Owners ==
    /\ \A t \in Threads : Owns(t) =>
          node[t] \in Nodes /\ node[t] \in heap /\ pos[node[t]] = 0
    /\ \A t, u \in Threads : Owns(t) /\ Owns(u) /\ node[t] = node[u] => t = u
    /\ \A t \in Threads : pc[t] \in {"q_ptr", "q_seq", "q_cas"} =>
          count[node[t]] = InitialCount /\ data[node[t]] = arg[t]

(* What threads touch is at freeTail or behind it. *)
Touched ==
    /\ \A t \in Threads : ref[t] # NULL => pos[ref[t]] >= pos[freeTail]
    /\ \A t \in Threads : Dropping(t) =>
          node[t] \in Nodes /\ pos[node[t]] >= pos[freeTail]
    /\ \A t \in Threads : Passing(t) => node[t] = freeTail

(* The count of the tail, of a node that is being closed, and of a node    *)
(* that is closed and not being let go; the last is in use by somebody.    *)
Counts ==
    /\ tail.seq % 2 = 0
    /\ count[tail.ptr] + tail.seq = GUARD_BIT + REFERENCE + 2 * Users(tail.ptr)
    /\ \A t \in Threads : ~Closes(t, tail.ptr)
    /\ \A n \in Nodes : \A t \in Threads : Closes(t, n) =>
          /\ Taken(t) % 2 = 0
          /\ count[n] + Taken(t) = GUARD_BIT + REFERENCE + 2 * Users(n)
          /\ \A u \in Threads : Closes(u, n) => u = t
    /\ \A n \in Nodes :
          /\ pos[n] >= pos[freeTail] /\ n # tail.ptr
          /\ \A t \in Threads : ~Closes(t, n) /\ ~(Reclaiming(t) /\ node[t] = n)
          => count[n] = 2 * Users(n) /\ count[n] > 0

(* Whoever lets a node go is the only one who has to do with it. *)
Reclaims ==
    \A t \in Threads : Reclaiming(t) =>
        /\ node[t] = freeTail /\ freeTail # tail.ptr
        /\ Refs(freeTail) = {} /\ Drops(freeTail) = {}
        /\ \A u \in Threads : ~Closes(u, freeTail)
        /\ \A u \in Threads : Reclaiming(u) => u = t
        /\ pc[t] = "d_store" =>
              nxt[t] = next[freeTail] /\ adv[t] = next[freeTail]

(* A pop whose comparison will succeed has read what is there now. *)
Pops ==
    \A t \in Threads :
        /\ pc[t] \in {"n_test", "n_read", "n_cas"} => old[t].seq <= freeHead.seq
        /\ pc[t] \in {"n_read", "n_cas"} /\ old[t] = freeHead => freeHead.ptr # freeTail
        /\ pc[t] = "n_cas" /\ old[t] = freeHead => nxt[t] = next[freeHead.ptr]

(* Data is in the log from when its node is on the chain. *)
Unqueued(t) ==
    pc[t] \in {"idle", "n_ptr", "n_seq", "n_test", "n_read", "n_cas",
               "n_num", "n_inc", "n_check", "n_alloc", "n_init",
               "q_ptr", "q_seq", "q_cas", "t_free", "t_dec"}
Queued ==
    /\ \A n \in Nodes : pos[n] > 0 /\ data[n] # NULL => data[n] \in Logged
    /\ \A t, u \in Threads : arg[t] # NULL /\ arg[t] = arg[u] => t = u
    /\ \A t \in Threads : Unqueued(t) => arg[t] \notin Logged

(* A reference that guards data is to a node before the data's; a thread   *)
(* that takes a reference has none.                                        *)
Guards ==
    /\ \A d \in Data : \A t \in guard[d] :
          /\ ref[t] # NULL
          /\ \A n \in Nodes : pos[n] > 0 /\ data[n] = d => pos[ref[t]] < pos[n]
    /\ \A t \in Threads : pc[t] \in {"g_seq", "g_cas"} => ref[t] = NULL

Freed == Done \subseteq Logged /\ GuardedNotFreed

(* After stpcDeleteProxy nobody comes back. *)
Deleted == \A t \in Threads : pc[t] = "idle" /\ ref[t] = NULL

ChainInv ==
    /\ Places /\ Links /\ Owners /\ Touched
    /\ Counts /\ Reclaims /\ Pops
    /\ Queued /\ Guards

IInv ==
    /\ alive => ChainInv
    /\ ~alive => Deleted
    /\ Freed

-------------------------------------------------------------------------------
(* The order of freeing.  A node adds to the log the data it carries, if   *)
(* any, so mark[n] counts the data of n and of all nodes before it; what   *)
(* has been freed is the part of the log up to freeTail.                   *)
Carries(n) == IF data[n] = NULL THEN 0 ELSE 1

(* The data of freeTail's node is about to be freed. *)
Due(t) == pc[t] = "d_free" /\ data[freeTail] # NULL

Marks ==
    /\ mark[tail.ptr] = Len(log)
    /\ \A n \in Nodes : pos[n] >= pos[freeTail] => mark[n] <= Len(log)
    /\ \A m, n \in Nodes : pos[m] >= pos[freeTail] /\ pos[n] = pos[m] + 1 =>
          mark[n] = mark[m] + Carries(n)
    /\ \A n \in Nodes : pos[n] > pos[freeTail] /\ data[n] # NULL =>
          mark[n] > 0 /\ log[mark[n]] = data[n]

(* One thread at a time frees data. *)
Passes ==
    /\ \A t, u \in Threads : Passing(t) /\ Passing(u) => t = u
    /\ \A t \in Threads : Due(t) =>
          /\ Len(done) + 1 = mark[freeTail]
          /\ log[mark[freeTail]] = data[freeTail]
    /\ (\A t \in Threads : ~Due(t)) => Len(done) = mark[freeTail]

Prefix == Len(done) <= Len(log) /\ \A i \in 1..Len(done) : done[i] = log[i]

OrderInv ==
    /\ alive => Marks /\ Passes
    /\ ~alive => freeTail = tail.ptr /\ Len(done) = Len(log)
    /\ Prefix

-------------------------------------------------------------------------------
(* The pool.  A node that is allocated is on the chain or a thread's own.  *)
Accounted ==
    alive => \A n \in heap : \/ pos[n] > 0
                            \/ \E t \in Threads : Owns(t) /\ node[t] = n

(* What numNodes stands for: the allocated nodes, those that a thread has  *)
(* counted on and not got yet, and those given back and not counted off.   *)
Allocating ==
    {t \in Threads : pc[t] = "n_alloc" \/ (pc[t] = "n_check" /\ num[t] < maxNodes)}
GivenBack == {t \in Threads : pc[t] = "t_dec"}
Accounts == Cardinality(heap) + Cardinality(Allocating) + Cardinality(GivenBack)

(* An allocation that fails leaves numNodes as it was raised. *)
NodesCounted ==
    /\ Cardinality(heap) <= numNodes
    /\ alive => Accounts <= numNodes
    /\ alive /\ ~AllocMayFail => Accounts = numNodes
    /\ Limits = {} => numNodes <= maxNodes
    /\ maxNodes > 1

PoolInv == Accounted /\ NodesCounted
===============================================================================
