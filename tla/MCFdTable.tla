----------------------------- MODULE MCFdTable ------------------------------
(***************************************************************************)
(* FdTable on small tables: as many descriptions as descriptors, as in     *)
(* okm.h, and fewer handles than would fit, so that the table fills up,    *)
(* the places for what waits to be closed run out, and handles are reused. *)
(***************************************************************************)
EXTENDS FdTable
=============================================================================
