------------------------------ MODULE MCFastSmr ------------------------------
(***************************************************************************)
(* FastSmr for TLC.  The work items are objects of a queue like that of    *)
(* smrsample.c: each links to the next one.                                *)
(***************************************************************************)
EXTENDS FastSmr, TLC

CONSTANTS w1, w2, Linked    \* Linked: whether readers follow the links

MCLinks == [w \in Work |-> IF Linked /\ w = w1 THEN <<w2>> ELSE <<>>]

(* No property tells threads with the same rights apart. *)
ThreadSymmetry ==
    {f \in Permutations(Threads) : \A t \in Readers : f[t] \in Readers}
===============================================================================
