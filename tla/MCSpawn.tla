------------------------------ MODULE MCSpawn -------------------------------
(***************************************************************************)
(* A caller whose three positions name its own streams or others, and a    *)
(* fourth descriptor of each kind; every list of up to two file actions.   *)
(***************************************************************************)
EXTENDS Spawn

Chan == <<"chan", 0>>

SomeTables ==
    {[f \in 0..3 |-> CASE f = 0 -> a [] f = 1 -> b [] f = 2 -> c [] f = 3 -> d] :
        a \in {Std(0), Null},
        b \in {Std(1), Std(0), Chan},
        c \in {Std(2), Std(1), Closed},
        d \in {Chan, Std(1), Dir, Null, Idle}}

Op(c, f, s, n) == [cmd |-> c, fd |-> f, src |-> s, name |-> n]

SomeOps ==
    {Op("dup2", f, s, "") : f \in {1, 2, 3}, s \in {0, 1, 3}}
    \cup {Op("open", f, 0, n) : f \in {1, 3}, n \in {"file", "null"}}
    \cup {Op("close", f, 0, "") : f \in {1, 3}}
    \cup {Op("chdir", 0, 0, ""), Op("fchdir", 3, 0, ""), Op("other", 0, 0, "")}
=============================================================================
