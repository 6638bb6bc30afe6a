-------------------------------- MODULE MCRcpc --------------------------------
(* Rcpc with model values, and the symmetry that its safety run uses. *)
EXTENDS RcpcInv, Functions, TLC

CONSTANTS l1, l2, l3        \* the nodes of rcpcInitProxy, with Latency = 0
Chain0 == <<l1, l2, l3>>

(* So many calls in all, no more than Most by one thread. *)
CONSTANTS Calls, Most
Total(p) == FoldFunction(+, 0, p)
Spread == {p \in [Threads -> 0..Most] : Total(p) = Calls}

(* All calls by two threads, or one by each writer. *)
CONSTANT Pair
PairOrWriters ==
    {[t \in Threads |-> IF t \in Pair THEN Most ELSE 0],
     [t \in Threads |-> IF t \in Writers THEN 1 ELSE 0]}

SameRoles(t, u) ==
    /\ t \in Readers <=> u \in Readers
    /\ t \in Writers <=> u \in Writers
    /\ t \in Trimmers <=> u \in Trimmers

Symmetry ==
    {p \in Permutations(Threads) : \A t \in Threads : SameRoles(t, p[t])}
    \union Permutations(Nodes \ {l1, l2, l3})
    \union Permutations(Data)
===============================================================================
