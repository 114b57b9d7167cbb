------------------------------- MODULE FdSpec -------------------------------
(***************************************************************************)
(* What the descriptor table promises, without counts, descriptions or a   *)
(* lock: a descriptor names a handle; a handle somebody named stays open   *)
(* until its last name goes; then the context that took the last name away *)
(* closes it, at once or as a debt of its own.                             *)
(***************************************************************************)
CONSTANTS Contexts, None, Fds, Owned, Borrowed

VARIABLES
    names,          \* what each descriptor names, or None
    opened,         \* the handles the environment holds open
    owes            \* what each context has to bind or to close

fvars == <<names, opened, owes>>

FdInit ==
    /\ names \in [Fds -> Borrowed \cup {None}]
    /\ opened = {}
    /\ owes = [c \in Contexts |-> {}]

Obtain(c, H) ==
    /\ owes[c] = {}
    /\ H \cap opened = {}
    /\ opened' = opened \cup H
    /\ owes' = [owes EXCEPT ![c] = H]
    /\ UNCHANGED names

\* A descriptor that named nothing is given what the context obtained, or
\* something newly opened under the lock, or something borrowed.
Bind(c, f, h) ==
    /\ names[f] = None
    /\ names' = [names EXCEPT ![f] = h]
    /\ \/ h \in owes[c] /\ owes' = [owes EXCEPT ![c] = @ \ {h}] /\ UNCHANGED opened
       \/ h \in Owned \ opened /\ opened' = opened \cup {h} /\ UNCHANGED owes
       \/ h \in Borrowed /\ UNCHANGED <<opened, owes>>

\* The names change; what loses its last name is closed, or owed by c.
Rename(c, new) ==
    LET gone == {h \in Owned : /\ \E f \in Fds : names[f] = h
                               /\ \A f \in Fds : new[f] # h}
    IN  /\ names' = new
        /\ \E later \in SUBSET gone :
               /\ owes' = [owes EXCEPT ![c] = @ \cup later]
               /\ opened' = opened \ (gone \ later)

Drop(c, f) == names[f] # None /\ Rename(c, [names EXCEPT ![f] = None])

Dup(c, f, g) == names[f] # None /\ Rename(c, [names EXCEPT ![g] = names[f]])

Close(c, h) ==
    /\ h \in owes[c]
    /\ owes' = [owes EXCEPT ![c] = @ \ {h}]
    /\ opened' = opened \ {h}
    /\ UNCHANGED names

FdNext ==
    \E c \in Contexts :
        \/ \E H \in SUBSET Owned : Obtain(c, H)
        \/ \E f \in Fds, h \in Owned \cup Borrowed : Bind(c, f, h)
        \/ \E f \in Fds : Drop(c, f)
        \/ \E f, g \in Fds : Dup(c, f, g)
        \/ \E h \in Owned : Close(c, h)

FdSafety == FdInit /\ [][FdNext]_fvars
=============================================================================
