----------------------------- MODULE MCCondVar ------------------------------
(***************************************************************************)
(* Two waiters that wait again, their nodes where the earlier ones were;   *)
(* or three that wait already, so that one is signalled between others.    *)
(***************************************************************************)
EXTENDS CondVar

CONSTANTS w1, w2, w3, g1

SomePrograms ==
    {[queued |-> <<>>, calls |-> [t \in Threads |-> CASE t = w3 -> 0 [] t = w2 -> 2 [] OTHER -> 1]],
     [queued |-> <<w1, w2, w3>>, calls |-> [t \in Threads |-> IF t = g1 THEN 2 ELSE 0]]}
=============================================================================
