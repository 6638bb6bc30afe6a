------------------------------ MODULE MCAtomicPtr ------------------------------
(* AtomicPtr with model values, which are interchangeable. *)
EXTENDS AtomicPtrInv, TLC

Symmetry == Permutations(Threads) \union Permutations(Cells) \union Permutations(Refs)
===============================================================================
