----------------------------- MODULE MCOkmMutex -----------------------------
(***************************************************************************)
(* The lock word with three contexts.  Liveness is checked, so there is no *)
(* symmetry.                                                               *)
(***************************************************************************)
EXTENDS OkmMutex

CONSTANTS c1, c2, c3
=============================================================================
