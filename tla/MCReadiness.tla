---------------------------- MODULE MCReadiness ----------------------------
(***************************************************************************)
(* Readiness on a terminal, a channel, a listener, a file, a channel's     *)
(* write end and a descriptor that is not open.                            *)
(***************************************************************************)
EXTENDS Readiness, TLC

CONSTANTS c1, c2, term, chan, lis, file, wend, bad, broken

In(d) == [d |-> d, ev |-> {"in"}]
Both(d) == [d |-> d, ev |-> {"in", "out"}]

\* One context has a terminal, a channel and a file; or a listener, a channel's
\* write end, a descriptor that was closed and one whose environment refuses
\* the enquiry.
Separate == {c1 :> {term, chan, file}, c1 :> {lis, wend, bad, broken}}
SeparateSets ==
    {<<In(term), In(chan)>>, <<In(chan)>>, <<In(term), Both(file)>>,
     <<In(lis)>>, <<In(wend), In(lis)>>, <<Both(wend)>>, <<In(wend)>>, <<In(bad)>>, <<In(broken), In(lis)>>}
=============================================================================
