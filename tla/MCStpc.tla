-------------------------------- MODULE MCStpc --------------------------------
(* Stpc with model values, and the symmetry that its safety runs use. *)
EXTENDS StpcInv, TLC

(* Calls of a thread, by role. *)
CONSTANTS ReaderCalls, WriterCalls, TrimmerCalls
CallsByRole ==
    [t \in Threads |-> CASE t \in Writers  -> WriterCalls
                         [] t \in Trimmers -> TrimmerCalls
                         [] OTHER          -> ReaderCalls]

(* Roles are sets, so only threads with the same roles may be exchanged;   *)
(* FirstNode is named by Init.                                             *)
SameRoles(t, u) ==
    /\ t \in Readers <=> u \in Readers
    /\ t \in Writers <=> u \in Writers
    /\ t \in Trimmers <=> u \in Trimmers

Symmetry ==
    {p \in Permutations(Threads) : \A t \in Threads : SameRoles(t, p[t])}
    \union Permutations(Nodes \ {FirstNode})
    \union Permutations(Data)
===============================================================================
