------------------------------ MODULE LockSpec ------------------------------
(***************************************************************************)
(* What the port layer's lock promises its callers (okm_lock, okm_unlock,  *)
(* and the private locks of okm_region.c and okm_map.c): at most one       *)
(* context is inside, a context enters only if it asked, and while         *)
(* somebody asks the lock does not stay free for ever.  OkmMutex           *)
(* implements this module; the models of what the lock guards take the     *)
(* lock in one step, as here.                                              *)
(***************************************************************************)
CONSTANTS
    Contexts,       \* the program's execution contexts
    None            \* "nobody holds it"

VARIABLES
    holder,         \* the context inside, or None
    asking          \* the contexts that called the lock and are not inside

lvars == <<holder, asking>>

LockInit ==
    /\ holder = None
    /\ asking = {}

Ask(c) ==
    /\ c \notin asking
    /\ holder # c
    /\ asking' = asking \cup {c}
    /\ UNCHANGED holder

Acquire(c) ==
    /\ c \in asking
    /\ holder = None
    /\ holder' = c
    /\ asking' = asking \ {c}

\* The uncontended path: asking and entering are one step.
AskAndAcquire(c) ==
    /\ c \notin asking
    /\ holder = None
    /\ holder' = c
    /\ UNCHANGED asking

Release(c) ==
    /\ holder = c
    /\ holder' = None
    /\ UNCHANGED asking

LockNext ==
    \E c \in Contexts : Ask(c) \/ Acquire(c) \/ AskAndAcquire(c) \/ Release(c)

LockSafety == LockInit /\ [][LockNext]_lvars

\* Some asking context enters, not every one of them: which one the
\* environment wakes, and who overtakes it, is left open by the code.
LockLive == LockSafety /\ WF_lvars(\E c \in Contexts : Acquire(c))
=============================================================================
