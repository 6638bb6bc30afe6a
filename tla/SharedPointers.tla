---------------------------- MODULE SharedPointers ----------------------------
(***************************************************************************)
(* What reference-counted pointers promise, however they count: a thread   *)
(* may read a shared pointer into one of its own at any time, write one of *)
(* its own into a shared pointer, or drop one, and an object is deleted    *)
(* only when no pointer names it.                                          *)
(*                                                                         *)
(* AtomicPtr.tla implements this module.                                   *)
(***************************************************************************)
CONSTANTS
    Threads,
    Cells,      \* pointers that threads share
    Refs,       \* objects, by address
    NULL

VARIABLES
    cell,       \* the object a shared pointer names, or NULL
    own,        \* the objects named by pointers of a thread's own
    live        \* objects that exist

vars == <<cell, own, live>>

TypeOK ==
    /\ cell \in [Cells -> Refs \union {NULL}]
    /\ own \in [Threads -> SUBSET Refs]
    /\ live \subseteq Refs

Init ==
    /\ cell \in [Cells -> Refs \union {NULL}]
    /\ own = [t \in Threads |-> {}]
    /\ live = {cell[c] : c \in Cells} \ {NULL}

Named(r) == (\E c \in Cells : cell[c] = r) \/ (\E t \in Threads : r \in own[t])

(* A thread makes an object, or takes a deleted one from a pool. *)
New(t, r) ==
    /\ r \notin live
    /\ live' = live \union {r}
    /\ own' = [own EXCEPT ![t] = @ \union {r}]
    /\ UNCHANGED cell

Read(t, c) ==
    /\ own' = [own EXCEPT ![t] = @ \union ({cell[c]} \ {NULL})]
    /\ UNCHANGED <<cell, live>>

(* What the pointer named before is the thread's own then; the thread may  *)
(* have another pointer to what it gives away.                             *)
Write(t, c) ==
    \E r \in own[t] \union {NULL} : \E kept \in {own[t], own[t] \ {r}} :
        /\ cell' = [cell EXCEPT ![c] = r]
        /\ own' = [own EXCEPT ![t] = kept \union ({cell[c]} \ {NULL})]
        /\ UNCHANGED live

Drop(t) ==
    \E r \in own[t] :
        /\ own' = [own EXCEPT ![t] = @ \ {r}]
        /\ UNCHANGED <<cell, live>>

Delete(r) ==
    /\ r \in live /\ ~Named(r)
    /\ live' = live \ {r}
    /\ UNCHANGED <<cell, own>>

Next ==
    \/ \E t \in Threads :
          \/ \E r \in Refs : New(t, r)
          \/ \E c \in Cells : Read(t, c) \/ Write(t, c)
          \/ Drop(t)
    \/ \E r \in Refs : Delete(r)

Spec == Init /\ [][Next]_vars
===============================================================================
