-------------------------- MODULE MCBufferLockFree --------------------------
(***************************************************************************)
(* Instances of BufferLockFree.                                            *)
(***************************************************************************)
EXTENDS BufferLockFree, TLC

\* The elements of the pool and the writers are interchangeable.
Symmetry == Permutations(Elements) \cup Permutations(Writers)
=============================================================================
