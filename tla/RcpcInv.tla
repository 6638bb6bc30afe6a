------------------------------- MODULE RcpcInv -------------------------------
(***************************************************************************)
(* The inductive invariant of Rcpc, from which its safety properties       *)
(* follow.                                                                 *)
(*                                                                         *)
(* The chain never gets ahead of the tail by more than one node, since who *)
(* comes to a node with a successor does not go on before the tail has     *)
(* left it.  What is beyond the node before the tail, and nothing else, is *)
(* still to be settled by setNodeSequence.                                 *)
(***************************************************************************)
EXTENDS Rcpc

(* Where a thread is in its call, setNodeSequence and drops taken as parts *)
(* of what they are followed by.                                           *)
Setting(t) == pc[t] \in {"s_load", "s_set", "s_prev", "s_count", "s_tail"}
Dropping(t) == pc[t] \in {"d_sub", "d_next", "d_store", "d_free"}
At(t) == IF Setting(t) \/ Dropping(t) THEN ret[t] ELSE pc[t]

Seeks == {"g_test", "g_cmp"}
Gets == {"n_head", "n_tail", "n_read", "n_cas", "n_num", "n_alloc", "n_init"}
Adds == {"a_try", "a_more", "a_end"}

Role(t) ==
    /\ seq[t] # 0 <=> At(t) \in Seeks
    /\ own[t] # NULL <=> At(t) \in Gets \union Adds \union {"fault"}
    /\ cur[t] # NULL <=> seq[t] # 0 \/ own[t] # NULL \/ pc[t] = "g_cas"
    /\ lat[t] # 0 => seq[t] # 0 \/ own[t] # NULL
    /\ drop[t] # NULL <=> Dropping(t)
    /\ Setting(t) => ret[t] \in {"g_cmp", "a_more", "a_end"}
    /\ ret[t] # "idle" => Setting(t) \/ Dropping(t)

(* The three callers of rcpcGetProxyNodeReference: a client has no other   *)
(* reference, and the one that deletes nodes has a node only to delete it. *)
Caller(t) ==
    /\ use[t] = "hold" =>
          /\ At(t) \in {"idle", "g_tail", "g_cas"} \union Seeks
          /\ At(t) # "idle" => ref[t] = NULL
          /\ node[t] = NULL
    /\ At(t) \in {"n_init", "t_free"} \union Adds => node[t] # NULL
    /\ node[t] # NULL =>
          At(t) \in {"g_seq", "g_tail", "g_cas", "n_init", "t_free"}
                      \union Seeks \union Adds
    /\ use[t] = "trim" /\ node[t] # NULL => At(t) \in {"n_init", "t_free"}
    /\ At(t) = "t_free" => use[t] = "trim"

-------------------------------------------------------------------------------
(* The last node, and the places of the chain up to it.                    *)
Newest == IF next[tail] = NULL THEN tail ELSE next[tail]
End == IF next[tail] = NULL THEN pos[tail] ELSE pos[tail] + 1

(* Nodes of the chain have the places from that of freeHead to the end,    *)
(* and each links to the one at the next place.                            *)
Places ==
    /\ \A m, n \in Nodes : pos[m] > 0 /\ pos[m] = pos[n] => m = n
    /\ 0 < pos[freeHead] /\ pos[freeHead] <= pos[freeTail]
    /\ FirstInUse <= pos[tail]
    /\ \A n \in Nodes : pos[n] > 0 => pos[freeHead] <= pos[n] /\ pos[n] <= End
    /\ \A p \in pos[freeHead]..End : \E n \in Nodes : pos[n] = p

Links ==
    \A n \in Nodes : pos[n] > 0 =>
        \/ pos[n] = End /\ next[n] = NULL
        \/ pos[n] < End /\ next[n] \in Nodes /\ pos[next[n]] = pos[n] + 1

(* A node that a thread has for itself is allocated, off the chain and     *)
(* nobody else's; from NewInit on it is as the chain is to get it.         *)
Owns(t) == node[t] # NULL /\ At(t) # "a_end"
Ready(t) == Owns(t) /\ use[t] # "trim" /\ At(t) # "n_init"
Owner(t) ==
    /\ Owns(t) => node[t] \in heap /\ pos[node[t]] = 0
    /\ Ready(t) =>
          /\ next[node[t]] = NULL
          /\ nodeSeq[node[t]] = 0 /\ prevSeq[node[t]] = 0
          /\ count[node[t]] = InitialCount /\ data[node[t]] = arg[t]

Owners ==
    /\ \A t \in Threads : Owner(t)
    /\ \A t, u \in Threads : Owns(t) /\ Owns(u) /\ node[t] = node[u] => t = u

Allocated ==
    IF alive THEN \A n \in Nodes : pos[n] > 0 => n \in heap
             ELSE \A t \in Threads : pc[t] = "idle" /\ ref[t] = NULL

-------------------------------------------------------------------------------
(* Nodes by what setNodeSequence has done for them.  The latent nodes that *)
(* rcpcInitProxy made were never in use.                                   *)
Real(n) == pos[n] > MaxLatency
Passed(n) == nodeSeq[n] # 0 /\ prevSeq[next[n]] = nodeSeq[n]
Settled(n) == Passed(n) /\ ~Odd(count[n])

(* The numbers of n are those above From(n), up to Upper(n).               *)
From(n) == IF prevSeq[n] # 0 THEN prevSeq[n] ELSE Upper(tail)

Sequences ==
    /\ \A n \in Nodes : Real(n) /\ pos[n] < pos[tail] => Settled(n)
    /\ \A n \in Nodes : Real(n) /\ pos[n] <= pos[tail] => prevSeq[n] # 0
    /\ next[tail] # NULL => prevSeq[next[tail]] \in {0, nodeSeq[tail]}
    /\ ~Odd(count[tail]) => next[tail] # NULL /\ Passed(tail)
    /\ nodeSeq[Newest] = 0 /\ Odd(count[Newest])
    /\ \A n \in Nodes : Real(n) => From(n) <= Upper(n) /\ Upper(n) <= sequence
    /\ \A m, n \in Nodes : Real(m) /\ pos[m] < pos[n] => Upper(m) <= From(n)

(* How far a thread is with the node it has come to.                       *)
Above(s) == {u \in Threads : seq[u] > s}
Base(t) == pos[cur[t]] - lat[t]     \* the place of the tail that it read
Reach(t) == Base(t) + Latency + 1

(* A sequence that may still be written leaves those above it to the node  *)
(* behind, which then is not too far for them.                             *)
Stage(t) ==
    /\ Setting(t) => next[cur[t]] # NULL
    /\ pc[t] \in {"g_cmp", "a_more", "a_end"} => pos[cur[t]] < pos[tail]
    /\ Dropping(t) /\ cur[t] # NULL => pos[cur[t]] < pos[tail]
    /\ pc[t] = "s_set" /\ Unset(t) =>
          /\ prevSeq[tail] <= old[t] /\ old[t] <= sequence
          /\ REFERENCE * Cardinality(Above(old[t])) = sequence - old[t]
          /\ \A u \in Above(old[t]) : End <= Reach(u)
    /\ pc[t] \in {"s_prev", "s_count", "s_tail"} => nodeSeq[cur[t]] # 0
    /\ pc[t] \in {"s_count", "s_tail"} => Passed(cur[t])
    /\ pc[t] = "s_tail" => Settled(cur[t])

-------------------------------------------------------------------------------
(* Nodes in use, and the node that a number belongs to.                    *)
Used(n) == pos[n] >= FirstInUse
Has(t, n) == From(n) < seq[t] /\ seq[t] <= Upper(n)

(* Nobody looks beyond the tail; the node that a thread looks for is ahead *)
(* of it and not too far.                                                  *)
Walk(t) ==
    /\ Looking(t) => Real(cur[t]) /\ pos[cur[t]] <= pos[tail]
    /\ seq[t] # 0 =>
          /\ seq[t] <= sequence
          /\ \E n \in Nodes : /\ Used(n) /\ Has(t, n)
                              /\ pos[cur[t]] <= pos[n] /\ pos[n] <= Reach(t)

(* Nobody who could still add a node to the chain read a later tail than a *)
(* thread whose compare-and-swap is going to succeed.                      *)
Pend(t) ==
    /\ pc[t] \in {"g_tail", "g_cas"} => old[t] <= sequence
    /\ pc[t] = "g_cas" /\ SequenceMatches(t) =>
          /\ Real(cur[t]) /\ pos[cur[t]] <= pos[tail]
          /\ End <= pos[cur[t]] + Latency + 1
          /\ \A u \in Threads : Looking(u) => Base(u) <= pos[cur[t]]

Touch(t) ==
    /\ ref[t] # NULL => Used(ref[t])
    /\ own[t] # NULL => Used(own[t]) /\ pos[own[t]] <= pos[cur[t]]
    /\ drop[t] # NULL => Used(drop[t])

-------------------------------------------------------------------------------
(* The users of a node, by what they have.                                 *)
Refs(n) == {t \in Threads : ref[t] = n}
Owned(n) == {t \in Threads : own[t] = n}
Numbers(n) == {t \in Threads : Has(t, n)}
Drops(n) == {t \in Threads : drop[t] = n /\ pc[t] \in {"d_sub", "d_free"}}
TailShare(n) == IF pos[n] >= pos[tail] THEN 1 ELSE 0
LinkShare(n) == IF pos[n] > FirstInUse THEN 1 ELSE 0
Shares(n) ==
    Cardinality(Refs(n)) + Cardinality(Owned(n)) + Cardinality(Numbers(n))
    + Cardinality(Drops(n)) + TailShare(n) + LinkShare(n)

(* References taken on a node that are not in its count yet.               *)
Missing(n) == IF Odd(count[n]) THEN Upper(n) - From(n) - GUARD_BIT ELSE 0

Counts ==
    \A n \in Nodes : Used(n) =>
        /\ count[n] + Missing(n) = REFERENCE * Shares(n)
        /\ Shares(n) > 0 \/ \E t \in Threads : Reclaiming(t) /\ drop[t] = n

(* Whoever lets a node go is alone with the first in use.                  *)
Frees(t) == Reclaiming(t) \/ pc[t] = "d_free"
Reclaim(t) ==
    Frees(t) =>
        /\ pos[drop[t]] = FirstInUse
        /\ \A u \in Threads : Frees(u) => u = t
        /\ Reclaiming(t) => pos[drop[t]] < pos[tail] /\ count[drop[t]] = 0
        /\ pc[t] = "d_store" => nxt[t] = next[freeTail]

(* A free node that has stayed before the reference of a thread was not    *)
(* popped and queued again since the thread read freeHead.                 *)
Stayed(t) == 0 < pos[free[t]] /\ pos[free[t]] < pos[own[t]]
Pop(t) ==
    /\ pc[t] \in {"n_tail", "n_read", "n_cas"} => free[t] \in Nodes
    /\ pc[t] = "n_tail" /\ Stayed(t) => pos[free[t]] <= pos[freeTail]
    /\ pc[t] \in {"n_read", "n_cas"} /\ Stayed(t) => pos[free[t]] < pos[freeTail]
    /\ pc[t] = "n_cas" /\ Stayed(t) => nxt[t] = next[free[t]]

(* The tail is swung before the thread that has linked a node goes on.     *)
Swinging == next[tail] # NULL => \E t \in Threads : Setting(t) /\ cur[t] = tail

(* A node that is allocated is on the chain or a thread's own.             *)
Accounted ==
    /\ NodeAccounting
    /\ alive => \A n \in heap : pos[n] > 0 \/ \E t \in Threads : Owns(t) /\ node[t] = n

IInv ==
    /\ Places /\ Links /\ Allocated /\ Owners
    /\ Sequences /\ Counts
    /\ Swinging /\ Accounted
    /\ \A t \in Threads :
          /\ Role(t) /\ Caller(t)
          /\ Stage(t) /\ Walk(t) /\ Pend(t) /\ Touch(t)
          /\ Reclaim(t) /\ Pop(t)

-------------------------------------------------------------------------------
(* The order of freeing.  What is deferred and not freed is the data that  *)
(* the nodes in use carry behind the first of them, in the order of the    *)
(* nodes, and that of the first until the thread that made it the first    *)
(* has freed it.                                                           *)
Carries(n) == pos[n] > 0 /\ data[n] # NULL
Unfreed == (Len(done) + 1)..Len(log)
Due(n) == \E t \in Threads : pc[t] = "d_free" /\ drop[t] = n

Carried ==
    /\ \A n \in Nodes : Carries(n) =>
          /\ pos[n] > FirstInUse \/ Due(n)
          /\ \E i \in Unfreed : log[i] = data[n]
    /\ \A i \in Unfreed : \E n \in Nodes : Carries(n) /\ log[i] = data[n]
    /\ \A m, n \in Nodes : \A i, j \in Unfreed :
          /\ Carries(m) /\ log[i] = data[m]
          /\ Carries(n) /\ log[j] = data[n]
          /\ pos[m] < pos[n]
          => i < j

Prefix == Len(done) <= Len(log) /\ \A i \in 1..Len(done) : done[i] = log[i]

(* Data is deferred once, by one thread.                                   *)
Deferred ==
    /\ \A i, j \in 1..Len(log) : log[i] = log[j] => i = j
    /\ \A t, u \in Threads : arg[t] # NULL /\ arg[t] = arg[u] => t = u
    /\ \A t \in Threads : At(t) # "a_end" => arg[t] \notin Logged

(* A reference that guards the data of n is to a node before n, or will be *)
(* since its number is not above those of the nodes before n.              *)
Precedes(t, n) ==
    IF ref[t] # NULL THEN pos[ref[t]] < pos[n] ELSE seq[t] <= From(n)

Guards ==
    /\ \A d \in Data : guard[d] \subseteq Holding
    /\ \A n \in Nodes : Carries(n) => \A t \in guard[data[n]] : Precedes(t, n)

(* A sequence that was read after n was linked leaves these numbers before *)
(* n when it is written.                                                   *)
Leaves(t) ==
    pc[t] = "s_set" /\ Unset(t) /\ Carries(next[cur[t]]) =>
        \A u \in guard[data[next[cur[t]]]] : ref[u] = NULL => seq[u] <= old[t]

OrderInv ==
    /\ Carried /\ Prefix /\ Deferred /\ Guards
    /\ \A t \in Threads : Leaves(t)
    /\ alive \/ ExhaustedOnlyByReferences
===============================================================================
