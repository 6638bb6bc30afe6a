---------------------------- MODULE ProxyCollector ----------------------------
(***************************************************************************)
(* What a proxy collector promises to its clients, whatever its data       *)
(* structure: data handed to DeferredDelete is given to its free function  *)
(* once every thread that held a proxy reference at that moment has        *)
(* dropped it, and data is freed in the order in which it was deferred.    *)
(* A reference taken after the deletion was queued does not delay it.      *)
(*                                                                         *)
(* Stpc.tla and Rcpc.tla implement this module.                            *)
(***************************************************************************)
EXTENDS Naturals, Sequences

CONSTANTS
    Threads,    \* threads that call the collector
    Data        \* objects that may be handed to it, each at most once

VARIABLES
    holding,    \* the threads that hold a proxy reference
    guard,      \* guard[d]: holders of a reference older than d's deletion
    pending,    \* data queued and not yet freed, oldest first
    freed       \* data whose free function has been called

vars == <<holding, guard, pending, freed>>

Queued == {pending[i] : i \in 1..Len(pending)}

TypeOK ==
    /\ holding \subseteq Threads
    /\ guard \in [Data -> SUBSET Threads]
    /\ pending \in Seq(Data)
    /\ freed \subseteq Data

Init ==
    /\ holding = {}
    /\ guard = [d \in Data |-> {}]
    /\ pending = <<>>
    /\ freed = {}

(* A thread obtains a reference to the proxy's current node. *)
Acquire(t) ==
    /\ t \notin holding
    /\ holding' = holding \union {t}
    /\ UNCHANGED <<guard, pending, freed>>

(* It gives the reference back and stops holding up any deletion. *)
Release(t) ==
    /\ t \in holding
    /\ holding' = holding \ {t}
    /\ guard' = [d \in Data |-> guard[d] \ {t}]
    /\ UNCHANGED <<pending, freed>>

(* d is queued behind every thread that holds a reference now. *)
Defer(d) ==
    /\ d \notin Queued \union freed
    /\ pending' = Append(pending, d)
    /\ guard' = [guard EXCEPT ![d] = holding]
    /\ UNCHANGED <<holding, freed>>

(* The oldest queued data is freed, when nobody holds it up any more. *)
Free ==
    /\ pending # <<>>
    /\ guard[Head(pending)] = {}
    /\ freed' = freed \union {Head(pending)}
    /\ pending' = Tail(pending)
    /\ UNCHANGED <<holding, guard>>

Next ==
    \/ \E t \in Threads : Acquire(t) \/ Release(t)
    \/ \E d \in Data : Defer(d)
    \/ Free

Spec == Init /\ [][Next]_vars

(* References are dropped, and what may be freed is freed. *)
FairSpec ==
    /\ Spec
    /\ \A t \in Threads : WF_vars(Release(t))
    /\ WF_vars(Free)

===============================================================================
