----------------------------- MODULE MCChildren -----------------------------
(***************************************************************************)
(* Two contexts and a copy, two entries, three programs, two identifiers:  *)
(* entries and identifiers are reused and the table fills up.              *)
(***************************************************************************)
EXTENDS Children

CONSTANTS c1, c2, k
=============================================================================
