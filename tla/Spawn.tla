------------------------------- MODULE Spawn --------------------------------
(***************************************************************************)
(* Starting a program: __okm_spawn_common (port/src/okm_spawn.c) for one   *)
(* call.  The environment starts a program with three streams, each given  *)
(* as a handle or as zero, which means the one the calling image was       *)
(* started with.  The call translates the caller's descriptors and the     *)
(* file actions, in the order they were added, into those three handles    *)
(* and a directory; what it opens on the way it releases.  It holds the    *)
(* table's lock from Seed to Release, so no other context is in between.   *)
(***************************************************************************)
EXTENDS Integers, Sequences, FiniteSets, SequencesExt

CONSTANTS
    Tables,         \* what the caller's descriptors name
    Ops,            \* the file actions it may add
    MaxOps,         \* bound: how many it adds
    Reuse,          \* whether one may use what an earlier one changed
    MaxOpen         \* OKM_SPAWN_MAX_OPEN

Positions == 0..2

\* What a descriptor names: one of the streams the program was started with, a
\* stream it opened, or something that carries none.
Std(p) == <<"std", p>>
Opened(i) == <<"opened", i>>
Null == <<"null", 0>>
Closed == <<"closed", 0>>
Dir == <<"dir", 0>>
Cwd == <<"cwd", 0>>         \* the caller's own directory
Idle == <<"idle", 0>>       \* a socket that is not connected
Inherit == <<"inherit", 0>> \* the handle zero

VARIABLES
    table,          \* the caller's descriptors
    ops,            \* the file actions, in the order they were added
    props,          \* what the environment can do: "pass" streams, "null" ones
    pc,
    i,              \* the file action that is next
    given,          \* the three handles
    nulls,          \* g_null_at
    placed,         \* a stream of the caller's choosing was placed
    refused,        \* the error, or "no"
    files, dirs,    \* what the call opened and has not released
    where,          \* the directory to run in, and the handle held on it, if any
    started         \* whether the program was started

env == <<table, ops, props>>
vars == <<env, pc, i, given, nulls, placed, refused, files, dirs, where, started>>

\* A file action that uses what an earlier one changed: a descriptor that one
\* of them replaced or closed, or the directory that one of them chose.
Uses(o, e) ==
    \/ /\ o.cmd \in {"dup2", "fchdir"} /\ e.cmd \in {"dup2", "open", "close"}
       /\ (IF o.cmd = "dup2" THEN o.src ELSE o.fd) = e.fd
    \/ o.cmd \in {"open", "chdir"} /\ e.cmd \in {"chdir", "fchdir"}
Independent(s) == \A j \in DOMAIN s : \A k \in 1..(j - 1) : ~Uses(s[j], s[k])

Init ==
    /\ table \in Tables
    /\ ops \in SeqOf(Ops, MaxOps)
    /\ Reuse \/ Independent(ops)
    /\ props \in SUBSET {"pass", "null"}
    /\ pc = "resolve" /\ i = 1
    /\ given = [p \in Positions |-> Inherit]
    /\ nulls = {} /\ placed = FALSE /\ refused = "no"
    /\ files = {} /\ dirs = {} /\ where = [dir |-> Cwd, held |-> 0] /\ started = FALSE

-----------------------------------------------------------------------------
\* The attributes, the name and the lengths are looked at before anything else;
\* a name that cannot be started is reported and nothing was done.
Resolve ==
    /\ pc = "resolve"
    /\ \/ pc' = "seed" /\ UNCHANGED refused
       \/ pc' = "done" /\ refused' \in {"ENOENT", "EACCES", "ENOSYS", "E2BIG"}
    /\ UNCHANGED <<env, i, given, nulls, placed, files, dirs, where, started>>

\* stream_for_spawn: the error for a descriptor that carries no stream.
StreamError(x) ==
    CASE x = Idle -> "ENOTCONN"
      [] x \in {Dir, Closed, Null} -> "EBADF"
      [] OTHER -> "no"

\* The three handles as they are built up.
Built == [given |-> given, nulls |-> nulls, placed |-> placed, refused |-> "no"]

\* place, with a variant that does not take the null device back: the program's
\* own stream of that position is inherited; its standard input, whose handle
\* is zero, cannot be given elsewhere.
PlaceKeepsNull(b, p, s) ==
    IF s = Std(p) THEN [b EXCEPT !.given[p] = Inherit]
    ELSE IF s = Std(0) THEN [b EXCEPT !.refused = "ENOSYS"]
    ELSE [b EXCEPT !.given[p] = s, !.placed = TRUE]

Place(b, p, s) ==
    LET c == [b EXCEPT !.nulls = @ \ {p}]
    IN  IF s = Std(p) THEN [c EXCEPT !.given[p] = Inherit]
        ELSE IF s = Std(0) THEN [c EXCEPT !.refused = "ENOSYS"]
        ELSE [c EXCEPT !.given[p] = s, !.placed = TRUE]

PlaceNull(b, p) == [b EXCEPT !.given[p] = Inherit, !.nulls = @ \cup {p}]

\* A descriptor at a position: seed's turn, and a dup2.
PlaceFd(b, p, x) ==
    IF x = Null THEN PlaceNull(b, p)
    ELSE IF StreamError(x) # "no" THEN [b EXCEPT !.refused = StreamError(x)]
    ELSE Place(b, p, x)

Build(b) ==
    /\ given' = b.given /\ nulls' = b.nulls /\ placed' = b.placed
    /\ refused' = b.refused

\* seed: the three positions before any file action.
Seed ==
    LET turn(b, p) == IF b.refused # "no" THEN b ELSE PlaceFd(b, p, table[p])
        b == FoldLeft(turn, Built, <<0, 1, 2>>)
    IN  /\ pc = "seed"
        /\ Build(b)
        /\ pc' = IF b.refused = "no" THEN "ops" ELSE "release"
        /\ UNCHANGED <<env, i, files, dirs, where, started>>

-----------------------------------------------------------------------------
(***************************************************************************)
(* The file actions, one a step; the first that cannot be performed ends   *)
(* the loop.                                                               *)
(***************************************************************************)
Turn(cmds) == pc = "ops" /\ i <= Len(ops) /\ ops[i].cmd \in cmds
Advance ==
    /\ i' = i + 1
    /\ pc' = IF refused' = "no" THEN "ops" ELSE "release"
    /\ UNCHANGED <<env, started>>
Refuse(e) == refused' = e /\ UNCHANGED <<given, nulls, placed, files, dirs, where>>

Dup2 ==
    LET o == ops[i]
    IN  /\ Turn({"dup2"})
        /\ \/ o.fd \notin Positions /\ Refuse("ENOSYS")
           \/ /\ o.fd \in Positions
              /\ Build(PlaceFd(Built, o.fd, table[o.src]))
              /\ UNCHANGED <<files, dirs, where>>
        /\ Advance

\* A file is opened and its stream placed; the null device is not opened.
Open ==
    LET o == ops[i]
        file == o.fd \in Positions /\ o.name # "null"
        room == Cardinality(files) < MaxOpen
    IN  /\ Turn({"open"})
        /\ \/ o.fd \notin Positions /\ Refuse("ENOSYS")
           \/ /\ o.fd \in Positions /\ o.name = "null"
              /\ Build(PlaceNull(Built, o.fd))
              /\ UNCHANGED <<files, dirs, where>>
           \/ file /\ ~room /\ Refuse("ENOSYS")
           \/ file /\ room /\ Refuse("ENOENT")
           \/ /\ file /\ room
              /\ files' = files \cup {i}
              /\ Build(Place(Built, o.fd, Opened(i)))
              /\ UNCHANGED <<dirs, where>>
        /\ Advance

\* One of the three cannot be closed; what lies above is not passed on.  An
\* action of another kind cannot be performed.
CloseOrOther ==
    /\ Turn({"close", "other"})
    /\ IF ops[i].cmd = "other" \/ ops[i].fd \in Positions THEN Refuse("ENOSYS")
       ELSE UNCHANGED <<refused, given, nulls, placed, files, dirs, where>>
    /\ Advance

\* The directory to run in, by name or by descriptor, is opened, and the one
\* an earlier action opened released.  In the variant that one is kept.
Enter(o) == where' = [dir |-> IF o.cmd = "chdir" THEN Opened(i) ELSE Dir, held |-> i]

ChdirKeepsFormer ==
    /\ Turn({"chdir", "fchdir"})
    /\ dirs' = dirs \cup {i}
    /\ Enter(ops[i])
    /\ UNCHANGED <<given, nulls, placed, refused, files>>
    /\ Advance

Chdir ==
    LET o == ops[i]
    IN  /\ Turn({"chdir", "fchdir"})
        /\ \/ o.cmd = "chdir" /\ Refuse("ENOENT")
           \/ o.cmd = "fchdir" /\ Refuse("EBADF")
           \/ /\ o.cmd = "fchdir" => table[o.fd] = Dir
              /\ dirs' = (dirs \ {where.held}) \cup {i}
              /\ Enter(o)
              /\ UNCHANGED <<given, nulls, placed, refused, files>>
        /\ Advance

-----------------------------------------------------------------------------
\* After the last action: the positions given the null device, which an
\* environment that cannot supply one is given as a file; and whether the
\* environment can place the streams that were placed.
Nulls ==
    LET own == nulls # {} /\ "null" \notin props
        room == Cardinality(files) < MaxOpen
        turn(b, p) == IF p \in nulls /\ b.refused = "no" THEN Place(b, p, Null) ELSE b
    IN  /\ pc = "ops" /\ i > Len(ops)
        /\ \/ ~own /\ UNCHANGED <<given, nulls, placed, refused, files>>
           \/ /\ own /\ room
              /\ files' = files \cup {0}
              /\ Build(FoldLeft(turn, Built, <<0, 1, 2>>))
           \/ /\ own
              /\ refused' = IF room THEN "ENOENT" ELSE "ENOSYS"
              /\ UNCHANGED <<given, nulls, placed, files>>
        /\ pc' = "start"
        /\ UNCHANGED <<env, i, dirs, where, started>>

\* start_program: the environment is asked for what it can do of what is meant
\* (a unit, directories granted, a bound lifetime); it may fail.
StartProgram == started' \in BOOLEAN

\* The start, unless it was refused or asks for streams to be placed where the
\* environment cannot.
Start ==
    LET able == placed => "pass" \in props
    IN  /\ pc = "start"
        /\ IF refused = "no" /\ able THEN StartProgram ELSE UNCHANGED started
        /\ refused' = IF refused = "no" /\ ~able THEN "ENOSYS" ELSE refused
        /\ pc' = "release"
        /\ UNCHANGED <<env, i, given, nulls, placed, files, dirs, where>>

\* Whatever came of it, what the call opened is released.
Release ==
    /\ pc = "release"
    /\ files' = {} /\ dirs' = dirs \ {where.held}
    /\ pc' = "done"
    /\ UNCHANGED <<env, i, given, nulls, placed, refused, where, started>>

\* The call has returned.
Returned == pc = "done" /\ UNCHANGED vars

Next ==
    \/ Resolve \/ Seed \/ Dup2 \/ Open \/ CloseOrOther \/ Chdir \/ Nulls \/ Start \/ Release
    \/ Returned

Spec == Init /\ [][Next]_vars

-----------------------------------------------------------------------------
\* What the file actions ask for, each applied to what the ones before it
\* left: the descriptors of the program and the directory it runs in.
Asked ==
    LET apply(t, j) ==
            LET o == ops[j]
            IN  CASE o.cmd = "dup2" -> [t EXCEPT !.fd[o.fd] = t.fd[o.src]]
                  [] o.cmd = "open" ->
                        [t EXCEPT !.fd[o.fd] = IF o.name = "null" THEN Null ELSE Opened(j)]
                  [] o.cmd = "close" -> [t EXCEPT !.fd[o.fd] = Closed]
                  [] o.cmd = "chdir" -> [t EXCEPT !.dir = Opened(j)]
                  [] o.cmd = "fchdir" -> [t EXCEPT !.dir = t.fd[o.fd]]
                  [] OTHER -> t
    IN  FoldLeft(apply, [fd |-> table, dir |-> Cwd], [j \in DOMAIN ops |-> j])

\* The stream the program finds at a position.
Received(p) ==
    IF p \in nulls THEN Null ELSE IF given[p] = Inherit THEN Std(p) ELSE given[p]

\* __okm_spawn_common: a program that is started has at its three positions,
\* and as its directory, what the caller's descriptors and the file actions in
\* their order say, or it is not started.
StartedAsAsked ==
    started => /\ \A p \in Positions : Received(p) = Asked.fd[p]
               /\ where.dir = Asked.dir

\* Whether the program was started, refused or failed to start, the files and
\* directories opened for it have been released when the call returns; and there
\* are never more than the array that remembers them holds.
NothingKept ==
    /\ pc = "done" => files = {} /\ dirs = {}
    /\ Cardinality(files) <= MaxOpen
=============================================================================
