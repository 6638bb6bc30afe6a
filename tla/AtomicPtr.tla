------------------------------- MODULE AtomicPtr -------------------------------
(***************************************************************************)
(* atomic_ptr and local_ptr of atomic-ptr/atomic_ptr.h.                    *)
(*                                                                         *)
(* An object that is pointed to has two counts: rcount, the atomic_ptrs    *)
(* that name it, and ecount, the local_ptrs.  A thread that reads a shared *)
(* atomic_ptr does not hold the object yet and so cannot count itself      *)
(* there; it adds to an ecount in the pointer, in one compare-and-swap     *)
(* with reading it.  When the pointer comes to name something else, its    *)
(* ecount is brought home to the object, from whose own ecount local_ptrs  *)
(* that were dropped have been subtracted meanwhile.  Only the sum means   *)
(* anything, and the object is deleted when both its counts are zero.      *)
(*                                                                         *)
(* One action makes at most one access to a word that others may change.   *)
(* A thread has one local_ptr of its own, loc, and the temporaries of the  *)
(* operation it is in.  adjust loops on a compare-and-swap that only adds: *)
(* whatever it read at first, it has no effect but the addition.  Local    *)
(* variables are reset where they go out of use.                           *)
(***************************************************************************)
EXTENDS Integers, FiniteSets

CONSTANTS
    Threads,
    Cells,      \* atomic_ptrs that threads share
    Refs,       \* addresses of atomic_ptr_ref
    NULL,
    MaxCalls    \* bound: operations of a thread

ASSUME AtomicPtrAssumption ==
    /\ NULL \notin Refs
    /\ IsFiniteSet(Threads) /\ IsFiniteSet(Cells) /\ Threads \intersect Cells = {}
    /\ MaxCalls \in Nat

VARIABLES
    cell,       \* differentialReference of each shared atomic_ptr
    shared,     \* those that have not been destroyed
    (* atomic_ptr_ref, by address *)
    count,      \* [ecount, rcount]
    pool,       \* whether it goes to a pool when it is done with
    (* the allocator, and the client's pool *)
    heap, spare,
    (* of each thread *)
    pc, calls,
    loc,        \* its local_ptr
    tmp,        \* a local_ptr temporary, to be destroyed or converted
    cmp,        \* the parameter cmp of cas
    obj,        \* an atomic_ptr temporary
    old,        \* oldval in getrefptr, temp in cas
    src, dst,   \* the atomic_ptr that is read, and the one that is assigned
    use,        \* what getrefptr is called for
    dead        \* the object whose counts it has brought to zero
refVars    == <<count, pool>>
heapVars   == <<heap, spare>>
localVars  == <<tmp, cmp, obj, old, src, dst, use, dead>>

vars == <<cell, shared, refVars, heapVars, pc, calls, loc, localVars>>

-------------------------------------------------------------------------------
RefOrNull == Refs \union {NULL}
CellOrNull == Cells \union {NULL}
Differential == [ecount : Nat, ptr : RefOrNull]
Nothing == [ecount |-> 0, ptr |-> NULL]
Fresh(r) == [ecount |-> 0, ptr |-> r]

(* The counts of a new reference object, and of one that does not exist. *)
ForLocal == [ecount |-> 1, rcount |-> 0]
Uncounted == [ecount |-> 0, rcount |-> 0]
ForAtomic == [ecount |-> 0, rcount |-> 1]

TypeOK ==
    /\ cell \in [Cells -> Differential] /\ shared \subseteq Cells
    /\ count \in [Refs -> [ecount : Int, rcount : Nat]]
    /\ pool \in [Refs -> BOOLEAN]
    /\ heap \subseteq Refs /\ spare \subseteq heap
    /\ pc \in [Threads -> {"idle", "g_ptr", "g_cas", "fix", "cmp", "x_load",
                           "x_cas", "swap", "a_drop", "l_drop", "free"}]
    /\ calls \in [Threads -> 0..MaxCalls]
    /\ loc \in [Threads -> RefOrNull] /\ tmp \in [Threads -> RefOrNull]
    /\ cmp \in [Threads -> RefOrNull] /\ dead \in [Threads -> RefOrNull]
    /\ obj \in [Threads -> Differential] /\ old \in [Threads -> Differential]
    /\ src \in [Threads -> CellOrNull] /\ dst \in [Threads -> CellOrNull]
    /\ use \in [Threads -> {"load", "deref", "copy", "cas"}]

(* The client has constructed the shared pointers, with new objects or     *)
(* with nullptr, has set the pool of some, and has filled its pool.        *)
Init ==
    /\ \E first \in [Cells -> RefOrNull] :
          /\ \A c, d \in Cells : first[c] # NULL /\ first[c] = first[d] => c = d
          /\ cell = [c \in Cells |-> Fresh(first[c])]
          /\ spare \in SUBSET (Refs \ {first[c] : c \in Cells})
          /\ heap = spare \union ({first[c] : c \in Cells} \ {NULL})
    /\ shared = Cells
    /\ count = [r \in Refs |-> IF r \in heap \ spare THEN ForAtomic ELSE Uncounted]
    /\ pool \in [Refs -> BOOLEAN] /\ {r \in Refs : pool[r]} \subseteq heap
    /\ \A r \in spare : pool[r]
    /\ pc = [t \in Threads |-> "idle"]
    /\ calls = [t \in Threads |-> MaxCalls]
    /\ loc = [t \in Threads |-> NULL] /\ tmp = [t \in Threads |-> NULL]
    /\ cmp = [t \in Threads |-> NULL] /\ dead = [t \in Threads |-> NULL]
    /\ obj = [t \in Threads |-> Nothing] /\ old = [t \in Threads |-> Nothing]
    /\ src = [t \in Threads |-> NULL] /\ dst = [t \in Threads |-> NULL]
    /\ use = [t \in Threads |-> "load"]

-------------------------------------------------------------------------------
Goto(t, l) == pc' = [pc EXCEPT ![t] = l]

Call(t) ==
    /\ pc[t] = "idle" /\ calls[t] > 0
    /\ calls' = [calls EXCEPT ![t] = @ - 1]

(* atomic_ptr_ref::adjust, adjust_mb *)
Adjusted(r, e, n) == [ecount |-> count[r].ecount + e, rcount |-> count[r].rcount + n]
Adjust(r, e, n) == count' = [count EXCEPT ![r] = Adjusted(r, e, n)]
AdjustIfAny(r, e, n) == IF r = NULL THEN UNCHANGED count ELSE Adjust(r, e, n)

ZeroShared(c) == c.rcount = 0                       \* fault: local_ptrs are ignored
ZeroLocal(c) == c.ecount = 0                        \* fault: atomic_ptrs are ignored
Zero(c) == c.ecount = 0 /\ c.rcount = 0

(* Where a new reference object comes from, with its counts set: the       *)
(* allocator, or the client's pool.                                        *)
Obtain(r, counts) ==
    /\ count' = [count EXCEPT ![r] = counts]
    /\ \/ /\ r \notin heap
          /\ heap' = heap \union {r}
          /\ pool' = [pool EXCEPT ![r] = FALSE]
          /\ UNCHANGED spare
       \/ /\ r \in spare
          /\ spare' = spare \ {r}
          /\ UNCHANGED <<heap, pool>>

-------------------------------------------------------------------------------
(* local_ptr: each assignment makes a temporary, swaps it with loc, which  *)
(* no other thread sees, and destroys it.                                  *)

(* operator = of a new object, and recycle *)
LocalNew(t) ==
    /\ Call(t)
    /\ \E r \in Refs :
          /\ Obtain(r, ForLocal)
          /\ loc' = [loc EXCEPT ![t] = r]
    /\ tmp' = [tmp EXCEPT ![t] = loc[t]]
    /\ Goto(t, "l_drop")
    /\ UNCHANGED <<cell, shared, cmp, obj, old, src, dst, use, dead>>

(* operator = of nullptr, and ~local_ptr *)
LocalReset(t) ==
    /\ Call(t)
    /\ loc[t] # NULL
    /\ loc' = [loc EXCEPT ![t] = NULL]
    /\ tmp' = [tmp EXCEPT ![t] = loc[t]]
    /\ Goto(t, "l_drop")
    /\ UNCHANGED <<cell, shared, refVars, heapVars, cmp, obj, old, src, dst, use, dead>>

(* local_ptr(const local_ptr &): a copy that is destroyed later. *)
LocalCopy(t) ==
    /\ Call(t)
    /\ loc[t] # NULL
    /\ Adjust(loc[t], 1, 0)
    /\ tmp' = [tmp EXCEPT ![t] = loc[t]]
    /\ Goto(t, "l_drop")
    /\ UNCHANGED <<cell, shared, pool, heapVars, loc, cmp, obj, old, src, dst, use, dead>>

SetPool(t) ==
    /\ Call(t)
    /\ loc[t] # NULL /\ ~pool[loc[t]]
    /\ pool' = [pool EXCEPT ![loc[t]] = TRUE]
    /\ UNCHANGED <<cell, shared, count, heapVars, pc, loc, localVars>>

(* operator = (atomic_ptr &), and the temporaries of ->, * and ==: they    *)
(* begin getrefptr.                                                        *)
LoadCall(t, c) ==
    /\ Call(t)
    /\ old' = [old EXCEPT ![t].ecount = cell[c].ecount]
    /\ src' = [src EXCEPT ![t] = c]
    /\ \E u \in {"load", "deref"} : use' = [use EXCEPT ![t] = u]
    /\ Goto(t, "g_ptr")
    /\ UNCHANGED <<cell, shared, refVars, heapVars, loc, tmp, cmp, obj, dst, dead>>

-------------------------------------------------------------------------------
(* atomic_ptr: the temporary is swapped with the shared pointer.           *)

(* operator = of a new object, and recyle *)
StoreNew(t, c) ==
    /\ Call(t)
    /\ \E r \in Refs :
          /\ Obtain(r, ForAtomic)
          /\ obj' = [obj EXCEPT ![t] = Fresh(r)]
    /\ dst' = [dst EXCEPT ![t] = c]
    /\ Goto(t, "swap")
    /\ UNCHANGED <<cell, shared, loc, tmp, cmp, old, src, use, dead>>

(* operator = (nullptr) *)
StoreNull(t, c) ==
    /\ Call(t)
    /\ dst' = [dst EXCEPT ![t] = c]
    /\ Goto(t, "swap")
    /\ UNCHANGED <<cell, shared, refVars, heapVars, loc, tmp, cmp, obj, old, src, use, dead>>

(* operator = (local_ptr &) *)
StoreLocal(t, c) ==
    /\ Call(t)
    /\ AdjustIfAny(loc[t], 0, 1)
    /\ obj' = [obj EXCEPT ![t] = Fresh(loc[t])]
    /\ dst' = [dst EXCEPT ![t] = c]
    /\ Goto(t, "swap")
    /\ UNCHANGED <<cell, shared, pool, heapVars, loc, tmp, cmp, old, src, use, dead>>

(* operator = (atomic_ptr &), and cas with a parameter xchg that is copied *)
(* from an atomic_ptr: they begin getrefptr.                               *)
CopyCall(t, c, d) ==
    /\ Call(t)
    /\ old' = [old EXCEPT ![t].ecount = cell[d].ecount]
    /\ src' = [src EXCEPT ![t] = d]
    /\ dst' = [dst EXCEPT ![t] = c]
    /\ \E u \in {"copy", "cas"} : use' = [use EXCEPT ![t] = u]
    /\ Goto(t, "g_ptr")
    /\ UNCHANGED <<cell, shared, refVars, heapVars, loc, tmp, cmp, obj, dead>>

(* cas with a new object as xchg *)
CasNew(t, c) ==
    /\ Call(t)
    /\ \E r \in Refs :
          /\ Obtain(r, ForAtomic)
          /\ obj' = [obj EXCEPT ![t] = Fresh(r)]
    /\ dst' = [dst EXCEPT ![t] = c]
    /\ Goto(t, "cmp")
    /\ UNCHANGED <<cell, shared, loc, tmp, cmp, old, src, use, dead>>

(* ~atomic_ptr of a shared pointer, by a thread that no other meets there. *)
AtomicDestroy(t, c) ==
    /\ Call(t)
    /\ \A u \in Threads : src[u] # c /\ dst[u] # c
    /\ shared' = shared \ {c}
    /\ cell' = [cell EXCEPT ![c] = Nothing]
    /\ obj' = [obj EXCEPT ![t] = cell[c]]
    /\ Goto(t, "a_drop")
    /\ UNCHANGED <<refVars, heapVars, loc, tmp, cmp, old, src, dst, use, dead>>

-------------------------------------------------------------------------------
(* getrefptr *)

GetLoadPtr(t) ==
    /\ pc[t] = "g_ptr"
    /\ old' = [old EXCEPT ![t].ptr = cell[src[t]].ptr]
    /\ Goto(t, "g_cas")
    /\ UNCHANGED <<cell, shared, refVars, heapVars, calls, loc, tmp, cmp, obj, src, dst,
                   use, dead>>

GetMatchesCount(t) == cell[src[t]].ecount = old[t].ecount     \* fault
GetMatches(t) == cell[src[t]] = old[t]

(* What has been read is counted; loc is assigned, the temporary of a      *)
(* dereference is destroyed, or the new atomic_ptr goes on.                *)
GetCas(t) ==
    /\ pc[t] = "g_cas"
    /\ \/ /\ GetMatches(t)
          /\ cell' = [cell EXCEPT ![src[t]] =
                         [ecount |-> old[t].ecount + 1, ptr |-> old[t].ptr]]
          /\ tmp' = [tmp EXCEPT ![t] = IF use[t] = "load" THEN loc[t] ELSE old[t].ptr]
          /\ loc' = [loc EXCEPT ![t] = IF use[t] = "load" THEN old[t].ptr ELSE @]
          /\ Goto(t, IF use[t] \in {"copy", "cas"} THEN "fix" ELSE "l_drop")
          /\ old' = [old EXCEPT ![t] = Nothing]
          /\ src' = [src EXCEPT ![t] = NULL]
          /\ use' = [use EXCEPT ![t] = IF @ = "deref" THEN "load" ELSE @]
       \/ /\ ~GetMatches(t)
          /\ old' = [old EXCEPT ![t] = cell[src[t]]]
          /\ UNCHANGED <<cell, loc, tmp, src, use, pc>>
    /\ UNCHANGED <<shared, refVars, heapVars, calls, cmp, obj, dst, dead>>

(* atomic_ptr(atomic_ptr &): what was counted as a local_ptr becomes an    *)
(* atomic_ptr.                                                             *)
FixAddsOnly == 0                                    \* fault
FixLocal == -1

FixCopy(t) ==
    /\ pc[t] = "fix"
    /\ AdjustIfAny(tmp[t], FixLocal, 1)
    /\ obj' = [obj EXCEPT ![t] = Fresh(tmp[t])]
    /\ tmp' = [tmp EXCEPT ![t] = NULL]
    /\ use' = [use EXCEPT ![t] = "load"]
    /\ Goto(t, IF use[t] = "cas" THEN "cmp" ELSE "swap")
    /\ UNCHANGED <<cell, shared, pool, heapVars, calls, loc, cmp, old, src, dst, dead>>

(* swap: an atomic exchange *)
Swap(t) ==
    /\ pc[t] = "swap"
    /\ cell' = [cell EXCEPT ![dst[t]] = obj[t]]
    /\ obj' = [obj EXCEPT ![t] = cell[dst[t]]]
    /\ dst' = [dst EXCEPT ![t] = NULL]
    /\ Goto(t, "a_drop")
    /\ UNCHANGED <<shared, refVars, heapVars, calls, loc, tmp, cmp, old, src, use, dead>>

(* cas: its parameters are copies, cmp here one of loc. *)
CasCompare(t) ==
    /\ pc[t] = "cmp"
    /\ AdjustIfAny(loc[t], 1, 0)
    /\ cmp' = [cmp EXCEPT ![t] = loc[t]]
    /\ Goto(t, "x_load")
    /\ UNCHANGED <<cell, shared, pool, heapVars, calls, loc, tmp, obj, old, src, dst, use, dead>>

CasLoad(t) ==
    /\ pc[t] = "x_load"
    /\ old' = [old EXCEPT ![t] = [ecount |-> cell[dst[t]].ecount, ptr |-> cmp[t]]]
    /\ Goto(t, "x_cas")
    /\ UNCHANGED <<cell, shared, refVars, heapVars, calls, loc, tmp, cmp, obj, src, dst,
                   use, dead>>

(* The loop goes on while the pointer is the one compared with. *)
Retry(t) == cell[dst[t]].ptr = cmp[t]

(* On return the parameters are destroyed, xchg first. *)
CasReturn(t) ==
    /\ tmp' = [tmp EXCEPT ![t] = cmp[t]]
    /\ cmp' = [cmp EXCEPT ![t] = NULL]
    /\ old' = [old EXCEPT ![t] = Nothing]
    /\ dst' = [dst EXCEPT ![t] = NULL]
    /\ Goto(t, "a_drop")

CasCas(t) ==
    /\ pc[t] = "x_cas"
    /\ \/ /\ cell[dst[t]] = old[t]
          /\ cell' = [cell EXCEPT ![dst[t]] = obj[t]]
          /\ obj' = [obj EXCEPT ![t] = old[t]]
          /\ CasReturn(t)
       \/ /\ cell[dst[t]] # old[t] /\ Retry(t)
          /\ old' = [old EXCEPT ![t] = cell[dst[t]]]
          /\ UNCHANGED <<cell, obj, tmp, cmp, dst, pc>>
       \/ /\ cell[dst[t]] # old[t] /\ ~Retry(t)
          /\ CasReturn(t)
          /\ UNCHANGED <<cell, obj>>
    /\ UNCHANGED <<shared, refVars, heapVars, calls, loc, src, use, dead>>

-------------------------------------------------------------------------------
(* Destructors *)

NextDrop(t) == IF tmp[t] = NULL THEN "idle" ELSE "l_drop"

DropKeepsCount(d) == 0                              \* fault: ecount is not brought home
BroughtHome(d) == d.ecount

(* Whoever brings the counts to zero goes on to delete the object. *)
LastUse(r, e, n) == r # NULL /\ Zero(Adjusted(r, e, n))

Uncount(t, r, e, n, after) ==
    /\ AdjustIfAny(r, e, n)
    /\ \/ /\ LastUse(r, e, n)
          /\ dead' = [dead EXCEPT ![t] = r]
          /\ Goto(t, "free")
       \/ /\ ~LastUse(r, e, n)
          /\ Goto(t, after)
          /\ UNCHANGED dead

(* ~atomic_ptr, of the temporary, or what it was of a shared pointer *)
AtomicDrop(t) ==
    /\ pc[t] = "a_drop"
    /\ Uncount(t, obj[t].ptr, BroughtHome(obj[t]), -1, NextDrop(t))
    /\ obj' = [obj EXCEPT ![t] = Nothing]
    /\ UNCHANGED <<cell, shared, pool, heapVars, calls, loc, tmp, cmp, old, src, dst, use>>

(* ~local_ptr, of the temporary *)
LocalDrop(t) ==
    /\ pc[t] = "l_drop"
    /\ Uncount(t, tmp[t], -1, 0, "idle")
    /\ tmp' = [tmp EXCEPT ![t] = NULL]
    /\ UNCHANGED <<cell, shared, pool, heapVars, calls, loc, cmp, obj, old, src, dst, use>>

(* The end of either destructor. *)
Free(t) ==
    /\ pc[t] = "free"
    /\ IF pool[dead[t]]
       THEN spare' = spare \union {dead[t]} /\ UNCHANGED heap
       ELSE heap' = heap \ {dead[t]} /\ UNCHANGED spare
    /\ dead' = [dead EXCEPT ![t] = NULL]
    /\ Goto(t, NextDrop(t))
    /\ UNCHANGED <<cell, shared, refVars, calls, loc, tmp, cmp, obj, old, src, dst, use>>

-------------------------------------------------------------------------------
(* Everything is over when the calls are used up. *)
Stopped ==
    /\ \A t \in Threads : pc[t] = "idle" /\ calls[t] = 0
    /\ UNCHANGED vars

Enter(t) ==
    \/ LocalNew(t) \/ LocalReset(t) \/ LocalCopy(t) \/ SetPool(t)
    \/ \E c \in shared :
          \/ LoadCall(t, c) \/ StoreNew(t, c) \/ StoreNull(t, c) \/ StoreLocal(t, c)
          \/ CasNew(t, c) \/ AtomicDestroy(t, c)
          \/ \E d \in shared : CopyCall(t, c, d)

Step(t) ==
    \/ GetLoadPtr(t) \/ GetCas(t) \/ FixCopy(t) \/ Swap(t)
    \/ CasCompare(t) \/ CasLoad(t) \/ CasCas(t)
    \/ AtomicDrop(t) \/ LocalDrop(t) \/ Free(t)

Next == (\E t \in Threads : Enter(t) \/ Step(t)) \/ Stopped

Spec == Init /\ [][Next]_vars

-------------------------------------------------------------------------------
(* Safety *)

(* The atomic_ptrs, shared or temporary, and the local_ptrs that name r.   *)
At(h) == IF h \in Cells THEN cell[h] ELSE obj[h]
AtomicPtrs(r) == {h \in Cells \union Threads : At(h).ptr = r}
LocalPtrs(r) ==
    ({"loc"} \X {t \in Threads : loc[t] = r})
        \union ({"tmp"} \X {t \in Threads : tmp[t] = r})
        \union ({"cmp"} \X {t \in Threads : cmp[t] = r})

(* The readings of r that are counted in atomic_ptrs, each once. *)
Away(r) == UNION {{h} \X (1..At(h).ecount) : h \in AtomicPtrs(r)}

Dying(r) == \E t \in Threads : dead[t] = r
Alive(r) == r \in heap /\ r \notin spare /\ ~Dying(r)

(* An object that a pointer names, in a variable or in the middle of an    *)
(* operation, is allocated, not in the pool, and not about to be deleted,  *)
(* however the loads, stores and destructions of the threads interleave.   *)
NamedAlive ==
    \A r \in Refs : AtomicPtrs(r) # {} \/ LocalPtrs(r) # {} => Alive(r)

(* The counts of an object are right in sum: rcount for the atomic_ptrs,   *)
(* ecount with what is away in atomic_ptrs for the local_ptrs.             *)
CountsBalance ==
    \A r \in Refs : Alive(r) =>
        /\ count[r].rcount = Cardinality(AtomicPtrs(r))
        /\ count[r].ecount + Cardinality(Away(r)) = Cardinality(LocalPtrs(r))

(* One thread brings the counts of an object to zero, and deletes it. *)
DeletedOnce ==
    \A t \in Threads : dead[t] # NULL =>
        /\ dead[t] \in heap /\ dead[t] \notin spare
        /\ \A u \in Threads : dead[u] = dead[t] => u = t

(* No object is left behind when the last pointer to it goes. *)
NoneLeaked ==
    \A r \in Refs : Alive(r) => AtomicPtrs(r) # {} \/ LocalPtrs(r) # {}

(* AtomicPtr implements SharedPointers. *)
Own(t) == {loc[t], tmp[t], cmp[t], obj[t].ptr} \ {NULL}

Pointers == INSTANCE SharedPointers WITH
    cell <- [c \in Cells |-> cell[c].ptr],
    own <- [t \in Threads |-> Own(t)],
    live <- heap \ spare

ImplementsSharedPointers == Pointers!Spec
===============================================================================
