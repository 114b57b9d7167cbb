------------------------------ MODULE MCMemory ------------------------------
(***************************************************************************)
(* Memory with two contexts on an address space of a few pages.            *)
(***************************************************************************)
EXTENDS Memory, TLC

CONSTANTS c1, c2

\* Contexts are only told apart by what they map.
MemorySymmetry == Permutations(Contexts)
=============================================================================
