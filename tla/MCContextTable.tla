--------------------------- MODULE MCContextTable ---------------------------
(***************************************************************************)
(* ContextTable with every key's search beginning near the last slot, so   *)
(* that searches collide and wrap around.                                  *)
(***************************************************************************)
EXTENDS ContextTable

\* The first context and the snapshot's collide in the last slot; the others
\* begin one before it.
MCStartAt == [k \in Keys |-> IF k \in {First, SnapContext} \/ N = 1 THEN N - 1 ELSE N - 2]
=============================================================================
