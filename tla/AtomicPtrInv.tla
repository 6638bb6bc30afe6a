----------------------------- MODULE AtomicPtrInv -----------------------------
(***************************************************************************)
(* The inductive invariant of AtomicPtr, from which its safety properties  *)
(* follow.                                                                 *)
(***************************************************************************)
EXTENDS AtomicPtr

(* What the temporaries of a thread are at each point of an operation; the *)
(* next assignment to one would lose a pointer that is not accounted for.  *)
TmpFrom == {"fix", "a_drop", "l_drop", "free"}
CmpFrom == {"x_load", "x_cas"}
ObjFrom == {"swap", "cmp", "x_load", "x_cas", "a_drop"}

Temporaries ==
    \A t \in Threads :
        /\ tmp[t] # NULL => pc[t] \in TmpFrom
        /\ cmp[t] # NULL => pc[t] \in CmpFrom
        /\ obj[t] # Nothing => pc[t] \in ObjFrom
        /\ dead[t] # NULL <=> pc[t] = "free"

(* The atomic_ptrs that an operation is about.                             *)
Reads(t) == pc[t] \in {"g_ptr", "g_cas"}
Assigns(t) ==
    \/ pc[t] \in {"fix", "swap", "cmp", "x_load", "x_cas"}
    \/ Reads(t) /\ use[t] \in {"copy", "cas"}

Operands ==
    \A t \in Threads :
        /\ Reads(t) => src[t] \in Cells
        /\ Assigns(t) => dst[t] \in Cells

(* Objects that have been made and not yet deleted. *)
Exists(r) == r \in heap \ spare

Shared(r) == Cardinality(AtomicPtrs(r))
Carried(r) == Cardinality(Away(r))
Held(r) == Cardinality(LocalPtrs(r))

(* The counts of an object are right until it is deleted. *)
Balanced(r) ==
    /\ count[r].rcount = Shared(r)
    /\ count[r].ecount + Carried(r) = Held(r)

(* It has a pointer exactly as long as nobody is to delete it. *)
Counts ==
    \A r \in Refs :
        /\ Exists(r) => Balanced(r)
        /\ Shared(r) + Held(r) > 0 <=> Exists(r) /\ ~Dying(r)

(* Whoever is to delete an object is alone with it. *)
Deletes ==
    \A t \in Threads : dead[t] # NULL =>
        /\ Exists(dead[t])
        /\ \A u \in Threads : dead[u] = dead[t] => u = t

IInv == Temporaries /\ Operands /\ Counts /\ Deletes
===============================================================================
