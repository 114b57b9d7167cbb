------------------------------- MODULE Images -------------------------------
(***************************************************************************)
(* Images placed by dlopen (port/src/image/okm_image.c): the list of the   *)
(* placed ones with their counts, which a lock guards, and the             *)
(* initialisers and finalisers, which run after the lock is released and   *)
(* may call dlopen and dlclose themselves.                                 *)
(*                                                                         *)
(* A module is the number of the load that placed it, and stands for the   *)
(* handle too.  A critical section is one step.  Finding an image's bytes  *)
(* and placing them (libokld) is one event that succeeds or fails.         *)
(***************************************************************************)
EXTENDS Integers, Sequences, SequencesExt, FiniteSetsExt

CONSTANTS
    Contexts,
    Paths,
    MaxLoads,       \* modules placed in a behaviour
    MaxRefs,        \* handles to one module
    MaxDepth        \* calls inside initialisers and finalisers

VARIABLES
    placed,         \* g_placed: records of a module, its path and its count
    state,          \* by module: how far its life has come
    held,           \* by context and module: the handles not yet closed
    running         \* by context: the calls that run initialisers or
                    \* finalisers, the innermost last

vars == <<placed, state, held, running>>

Modules == 1 .. MaxLoads

Init ==
    /\ placed = <<>>
    /\ state = [m \in Modules |-> "none"]
    /\ held = [c \in Contexts |-> [m \in Modules |-> 0]]
    /\ running = [c \in Contexts |-> <<>>]

MayCall(c) == Len(running[c]) < MaxDepth
Begin(c, what, m) == running' = [running EXCEPT ![c] = Append(@, [what |-> what, m |-> m])]
End(c) == running' = [running EXCEPT ![c] = Front(@)]
Runs(c, what) == running[c] # <<>> /\ Last(running[c]).what = what
Given(c, m) == held' = [held EXCEPT ![c][m] = @ + 1]

\* Variant: an image that is placed already is not counted again.
ReopenUncounted(c, n) ==
    /\ placed[n].refs < MaxRefs
    /\ Given(c, placed[n].m)
    /\ UNCHANGED <<placed, state, running>>

Reopen(c, n) ==
    /\ placed[n].refs < MaxRefs
    /\ placed' = [placed EXCEPT ![n].refs = @ + 1]
    /\ Given(c, placed[n].m)
    /\ UNCHANGED <<state, running>>

\* The bytes are read, placed and bound, and recorded at the head of the list;
\* a failure changes nothing.
Place(c, path) ==
    \E m \in Modules :
        /\ state[m] = "none" /\ \A l \in 1..(m - 1) : state[l] # "none"
        /\ placed' = <<[m |-> m, path |-> path, refs |-> 1]>> \o placed
        /\ state' = [state EXCEPT ![m] = "placed"]
        /\ Begin(c, "initialise", m)
        /\ UNCHANGED held

Dlopen(c, path) ==
    /\ MayCall(c)
    /\ LET same == {n \in DOMAIN placed : placed[n].path = path}
       IN  IF same # {} THEN Reopen(c, CHOOSE n \in same : \A l \in same : n <= l)
           ELSE Place(c, path)

\* okld_initialise is done, and dlopen returns the handle.
Initialised(c) ==
    /\ Runs(c, "initialise")
    /\ LET m == Last(running[c]).m
       IN  /\ state' = [state EXCEPT ![m] = "ready"]
           /\ Given(c, m)
    /\ End(c)
    /\ UNCHANGED placed

\* A context closes a handle it was given (a handle that is not on the list is
\* refused and changes nothing).  The last to close takes the image off the
\* list and runs its finalisers.
Dlclose(c, m) ==
    /\ MayCall(c) /\ held[c][m] > 0
    /\ held' = [held EXCEPT ![c][m] = @ - 1]
    /\ \E n \in DOMAIN placed :
           /\ placed[n].m = m
           /\ IF placed[n].refs > 1
              THEN /\ placed' = [placed EXCEPT ![n].refs = @ - 1]
                   /\ UNCHANGED <<state, running>>
              ELSE /\ placed' = RemoveAt(placed, n)
                   /\ state' = [state EXCEPT ![m] = IF @ = "ready" THEN "finalising" ELSE "early"]
                   /\ Begin(c, "finalise", m)

\* okld_finalise is done, the image is unloaded and its record freed.
Finalised(c) ==
    /\ Runs(c, "finalise")
    /\ state' = [state EXCEPT ![Last(running[c]).m] = "gone"]
    /\ End(c)
    /\ UNCHANGED <<placed, held>>

Next ==
    \E c \in Contexts :
        \/ \E path \in Paths : Dlopen(c, path)
        \/ \E m \in Modules : Dlclose(c, m)
        \/ Initialised(c) \/ Finalised(c)

Spec == Init /\ [][Next]_vars

-----------------------------------------------------------------------------
\* What dlsym looks through for a handle.
Found(m) == \E n \in DOMAIN placed : placed[n].m = m

Initialising(c, m) == \E n \in DOMAIN running[c] : running[c][n] = [what |-> "initialise", m |-> m]

\* The handles to m: those given, and the one dlopen has yet to return.
Handles(m) ==
    MapThenSumSet(LAMBDA c : held[c][m] + (IF Initialising(c, m) THEN 1 ELSE 0), Contexts)

\* Whoever opens and closes, in initialisers and finalisers too: a path is
\* placed once, the count of an image is the number of handles to it, one that
\* anybody holds is found and neither finalised nor unloaded, and none is
\* finalised before its initialisers have run.
HandlesUsable ==
    /\ \A n, l \in DOMAIN placed : placed[n].path = placed[l].path => n = l
    /\ \A n \in DOMAIN placed : placed[n].refs = Handles(placed[n].m)
    /\ \A m \in Modules :
           /\ Handles(m) > 0 => Found(m) /\ state[m] \in {"placed", "ready"}
           /\ state[m] # "early"
=============================================================================
