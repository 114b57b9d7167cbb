-------------------------------- MODULE Names -------------------------------
(***************************************************************************)
(* Names and the current directory (port/src/okm_fd.c, okm_resolve and     *)
(* okm_chdir; do_openat of okm_syscall.c for directories).  The            *)
(* environment opens a name beneath a directory it has supplied and        *)
(* refuses one that ascends, so this layer remembers by name where the     *)
(* current directory and every open directory are, and resolves by name.   *)
(*                                                                         *)
(* A place is the sequence of components that leads to it from the root;   *)
(* there are no symbolic links, and no name is too long.                   *)
(***************************************************************************)
EXTENDS Integers, SequencesExt

CONSTANTS
    Contexts, Fds, None,
    Supplied,       \* g_pre: the places supplied, in the order they came
    Paths,          \* the names used: [abs, comps], comps with "." and ".."
    Tree,           \* bound: the places that exist
    MaxNamed,       \* how many directories' names can be remembered
    Alone           \* whether nobody moves while another opens a directory

VARIABLES
    cwd,            \* g_cwd, as a place
    cwdAt,          \* the place okm_cwd_dir is open at
    dirs,           \* the open directories: the place opened, the name or None
    opening         \* what a context has opened and not yet bound

vars == <<cwd, cwdAt, dirs, opening>>

Cwd == -100        \* AT_FDCWD

Init ==
    /\ cwd = Supplied[1] /\ cwdAt = Supplied[1]
    /\ dirs = [f \in Fds |-> None]
    /\ opening = [x \in Contexts |-> None]

-----------------------------------------------------------------------------
\* normalise: one component after the other, an ascent dropping the last kept.
Push(o, c) == CASE c = "." -> o
                [] c = ".." -> IF o = <<>> THEN o ELSE Front(o)
                [] OTHER -> Append(o, c)
Normalise(comps) == FoldLeft(Push, <<>>, comps)

Join(prefix, path) == Normalise(IF path.abs THEN path.comps ELSE prefix \o path.comps)

\* okm_absolute; None where the directory's own name is not known.
Absolute(d, path) ==
    IF path.abs \/ d = Cwd THEN Join(cwd, path)
    ELSE IF dirs[d].name = None THEN None ELSE Join(dirs[d].name, path)

\* The supplied directory whose name is the longest prefix, the first of those.
Best(abs) ==
    LET fit == {i \in DOMAIN Supplied : IsPrefix(Supplied[i], abs)}
        longest == {i \in fit : \A j \in fit : Len(Supplied[j]) <= Len(Supplied[i])}
    IN  IF fit = {} THEN 0 ELSE Min(longest)

Refused == [ok |-> FALSE, base |-> <<>>, rel |-> <<>>]

\* okm_resolve: the place of the directory asked, and the name asked of it.
Resolve(d, path) ==
    LET abs == Absolute(d, path)
    IN  IF abs = None
        THEN [ok |-> TRUE, base |-> dirs[d].at, rel |-> Normalise(path.comps)]
        ELSE IF Best(abs) = 0 THEN Refused
        ELSE LET base == Supplied[Best(abs)]
             IN  [ok |-> TRUE, base |-> base, rel |-> SubSeq(abs, Len(base) + 1, Len(abs))]

\* kal_fs_open_dir.
Target(r) == r.base \o r.rel
Opens(r) == r.ok /\ Target(r) \in Tree

-----------------------------------------------------------------------------
Known(d) == d \in {Cwd} \cup {f \in Fds : dirs[f] # None}

\* do_openat of a directory: resolved and opened; then named, again from where
\* the program is, and bound.
Open(x, d, path) ==
    /\ opening[x] = None
    /\ Known(d) /\ Opens(Resolve(d, path))
    /\ opening' = [opening EXCEPT ![x] = [d |-> d, path |-> path, at |-> Target(Resolve(d, path))]]
    /\ UNCHANGED <<cwd, cwdAt, dirs>>

Named == {f \in Fds : dirs[f] # None /\ dirs[f].name # None}

Bind(x, f) ==
    LET o == opening[x]
        name == IF Known(o.d) THEN Absolute(o.d, o.path) ELSE None
    IN  /\ o # None
        /\ dirs[f] = None
        /\ dirs' = [dirs EXCEPT ![f] =
               [at |-> o.at, name |-> IF Cardinality(Named) < MaxNamed THEN name ELSE None]]
        /\ opening' = [opening EXCEPT ![x] = None]
        /\ UNCHANGED <<cwd, cwdAt>>

InUse(f) == \E x \in Contexts : opening[x] # None /\ opening[x].d = f

Close(f) ==
    /\ dirs[f] # None
    /\ Alone => ~InUse(f)
    /\ dirs' = [dirs EXCEPT ![f] = None]
    /\ UNCHANGED <<cwd, cwdAt, opening>>

\* okm_chdir by name, and by descriptor when its name is known.
Chdir(path) ==
    LET r == Resolve(Cwd, path)
    IN  /\ Alone => ~InUse(Cwd)
        /\ Opens(r)
        /\ cwdAt' = Target(r)
        /\ cwd' = Join(cwd, path)
        /\ UNCHANGED <<dirs, opening>>

\* Variant: one whose name is not known is moved to, and the name kept.
FchdirUnnamed(f) ==
    /\ Alone => ~InUse(Cwd)
    /\ dirs[f] # None
    /\ cwdAt' = dirs[f].at
    /\ cwd' = IF dirs[f].name = None THEN cwd ELSE dirs[f].name
    /\ UNCHANGED <<dirs, opening>>

Fchdir(f) ==
    /\ Alone => ~InUse(Cwd)
    /\ dirs[f] # None /\ dirs[f].name # None
    /\ cwdAt' = dirs[f].at
    /\ cwd' = dirs[f].name
    /\ UNCHANGED <<dirs, opening>>

Next ==
    \/ \E x \in Contexts : \/ \E d \in Fds \cup {Cwd}, p \in Paths : Open(x, d, p)
                           \/ \E f \in Fds : Bind(x, f)
    \/ \E f \in Fds : Close(f) \/ Fchdir(f)
    \/ \E p \in Paths : Chdir(p)

Spec == Init /\ [][Next]_vars

-----------------------------------------------------------------------------
\* Where a name leads, walked step by step from the directory it is relative to.
Step(c, at) == CASE c = "." -> at [] c = ".." -> SubSeq(at, 1, Len(at) - 1) [] OTHER -> at \o <<c>>
Walk(at, path) ==
    LET W[i \in 0..Len(path.comps)] ==
            IF i = 0 THEN IF path.abs THEN <<>> ELSE at ELSE Step(path.comps[i], W[i - 1])
    IN  W[Len(path.comps)]

Place(d) == IF d = Cwd THEN cwdAt ELSE dirs[d].at
Ascends(path) == ".." \in ToSet(path.comps)

\* However directories were opened, closed and moved to before, a name leads
\* where walking it from the directory itself leads, through the nearest
\* supplied directory, and is refused only where no supplied one contains it.
\* The code says less of a directory whose name was not remembered, and here
\* only names that do not ascend are asked of one.
LeadsThere ==
    \A d \in {d \in Fds \cup {Cwd} : Known(d)}, p \in Paths :
        LET r == Resolve(d, p)
            there == Walk(Place(d), p)
            unnamed == d # Cwd /\ ~p.abs /\ dirs[d].name = None
        IN  \/ unnamed /\ Ascends(p)
            \/ /\ r.ok <=> \/ unnamed
                           \/ \E i \in DOMAIN Supplied : IsPrefix(Supplied[i], there)
               /\ r.ok => /\ Target(r) = there
                          /\ unnamed \/ \A i \in DOMAIN Supplied :
                                 IsPrefix(Supplied[i], there) => Len(Supplied[i]) <= Len(r.base)
=============================================================================
