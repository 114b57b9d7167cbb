------------------------------ MODULE Transfers -----------------------------
(***************************************************************************)
(* Transfers at a position and copies (port/src/okm_syscall.c,             *)
(* do_transfer_at and copy_file_range).  Where the environment has no      *)
(* transfer at a position the file's own is moved there and back, under    *)
(* the descriptor table's lock; a copy always works so, and takes no lock. *)
(*                                                                         *)
(* A byte is where it stands in its file, so what a call has moved says    *)
(* whether it moved the right ones.  The environment may move fewer bytes  *)
(* than asked, and may refuse any call, a seek included.  The calls look   *)
(* at the result of the seeks they begin with and not at those that put a  *)
(* position back.                                                          *)
(***************************************************************************)
EXTENDS Integers, Sequences

CONSTANTS
    Contexts, None,
    Files,          \* the descriptions of open files
    Size,           \* bound: how long they are
    Vectors,        \* the lengths of the buffers of a transfer
    Copies,         \* the descriptions a copy goes from and to
    Wants,          \* how many bytes it is to copy
    Block           \* how many it moves at once

VARIABLES
    direct,         \* okm_fs_at_available
    pos,            \* the position of each description
    plain,          \* where it should be while no call is under way; None
                    \* once a call has left it elsewhere, until a seek
    lock,           \* who holds the table's lock
    call            \* the call of each context

vars == <<direct, pos, plain, lock, call>>

\* f, from and g, to: files and offsets, an offset None where none is given;
\* keep: the positions saved; moved: which bytes, of the reading side and where.
Idle == [pc |-> "idle", f |-> None, g |-> None, from |-> None, to |-> None, v |-> <<>>, want |-> 0,
         keep |-> <<>>, block |-> 0, moved |-> <<>>, begun |-> <<>>, short |-> FALSE]

Init ==
    /\ direct \in BOOLEAN
    /\ pos = [f \in Files |-> 0] /\ plain = pos
    /\ lock = None
    /\ call = [x \in Contexts |-> Idle]

At(x, l) == call[x].pc = l
Put(x, c) == call' = [call EXCEPT ![x] = c]
Left(p) == IF p < Size THEN Size - p ELSE 0
Least(a, b) == IF a < b THEN a ELSE b
Further(p, n) == IF p = None THEN None ELSE p + n

\* Who only reads, and who copies, has the description to itself.
Apart(f) == \A y \in Contexts : At(y, "idle") \/ f \notin {call[y].f, call[y].g}

Read(x, f) ==
    /\ At(x, "idle") /\ Apart(f) /\ Left(pos[f]) > 0
    /\ pos' = [pos EXCEPT ![f] = @ + 1]
    /\ plain' = [plain EXCEPT ![f] = Further(@, 1)]
    /\ UNCHANGED <<direct, lock, call>>

Lseek(x, f) ==
    /\ At(x, "idle") /\ Apart(f)
    /\ \E o \in 0..Size : pos' = [pos EXCEPT ![f] = o] /\ plain' = [plain EXCEPT ![f] = o]
    /\ UNCHANGED <<direct, lock, call>>

-----------------------------------------------------------------------------
TransferAt(x, f) ==
    /\ At(x, "idle")
    /\ \A y \in Contexts : call[y].g = None \/ f \notin {call[y].f, call[y].g}
    /\ \E o \in 0..Size, v \in Vectors :
           Put(x, [Idle EXCEPT !.pc = IF direct THEN "move" ELSE "lock",
                               !.f = f, !.from = o, !.begun = <<o>>, !.v = v])
    /\ UNCHANGED <<direct, pos, plain, lock>>

\* Variant: the lock is not taken.
LockNothing(x) ==
    /\ At(x, "lock")
    /\ Put(x, [call[x] EXCEPT !.pc = "seek"])
    /\ UNCHANGED <<direct, pos, plain, lock>>

Lock(x) ==
    /\ At(x, "lock") /\ lock = None
    /\ lock' = x
    /\ Put(x, [call[x] EXCEPT !.pc = "seek"])
    /\ UNCHANGED <<direct, pos, plain>>

Seek(x) ==
    LET c == call[x]
    IN  /\ At(x, "seek")
        /\ \/ /\ pos' = [pos EXCEPT ![c.f] = c.from]
              /\ Put(x, [c EXCEPT !.pc = "move", !.keep = <<pos[c.f]>>])
              /\ UNCHANGED lock
           \/ lock' = None /\ Put(x, Idle) /\ UNCHANGED pos
        /\ UNCHANGED <<direct, plain>>

\* One buffer of the vector; one not filled, or a failure, is the last.
Move(x) ==
    LET c == call[x]
        p == IF direct THEN c.from + Len(c.moved) ELSE pos[c.f]
    IN  /\ At(x, "move")
        /\ \/ /\ c.v # <<>>
              /\ \E n \in 0..Least(Head(c.v), Left(p)) :
                     /\ pos' = IF direct THEN pos ELSE [pos EXCEPT ![c.f] = p + n]
                     /\ Put(x, [c EXCEPT !.moved = @ \o [i \in 1..n |-> p + i - 1],
                                         !.v = Tail(@),
                                         !.pc = IF n < Head(c.v) THEN "back" ELSE "move"])
           \/ Put(x, [c EXCEPT !.pc = "back"]) /\ UNCHANGED pos
        /\ UNCHANGED <<direct, plain, lock>>

\* The position is put back, unless that is refused, which nobody notices.
Back(x) ==
    LET c == call[x]
    IN  /\ At(x, "back")
        /\ \/ /\ pos' = IF direct THEN pos ELSE [pos EXCEPT ![c.f] = c.keep[1]]
              /\ UNCHANGED plain
           \/ ~direct /\ plain' = [plain EXCEPT ![c.f] = None] /\ UNCHANGED pos
        /\ lock' = IF direct THEN lock ELSE None
        /\ Put(x, Idle)
        /\ UNCHANGED direct

-----------------------------------------------------------------------------
\* The positions are saved, and moved where an offset is given.  A seek that is
\* refused ends the call as it is: the first leaves all as it was, the second
\* leaves the input where the first moved it.
CopyFileRange(x) ==
    /\ At(x, "idle")
    /\ \E fg \in Copies, o \in {None} \cup 0..Size, t \in {None} \cup 0..Size, w \in Wants :
           LET f == fg[1]
               g == fg[2]
               p == IF o = None THEN pos ELSE [pos EXCEPT ![f] = o]
           IN  /\ Apart(f) /\ Apart(g) /\ (t = None => pos[g] <= Size)
               /\ \/ /\ pos' = IF t = None THEN p ELSE [p EXCEPT ![g] = t]
                     /\ Put(x, [Idle EXCEPT !.pc = "read", !.f = f, !.g = g, !.from = o, !.to = t,
                                            !.want = w, !.keep = <<pos[f], p[g]>>,
                                            !.begun = <<IF o = None THEN pos[f] ELSE o,
                                                        IF t = None THEN pos[g] ELSE t>>])
                     /\ UNCHANGED plain
                  \/ /\ o # None /\ t # None
                     /\ pos' = p /\ plain' = [plain EXCEPT ![f] = None]
                     /\ UNCHANGED call
    /\ UNCHANGED <<direct, lock>>

CopyRead(x) ==
    LET c == call[x]
    IN  /\ At(x, "read")
        /\ \E n \in 0..Least(Least(c.want - Len(c.moved), Block), Left(pos[c.f])) :
               /\ pos' = [pos EXCEPT ![c.f] = @ + n]
               /\ Put(x, [c EXCEPT !.block = n, !.pc = IF n = 0 THEN "finish" ELSE "write"])
        /\ UNCHANGED <<direct, plain, lock>>

CopyWrite(x) ==
    LET c == call[x]
        n == c.block
        from == pos[c.f] - n
        to == pos[c.g]
    IN  /\ At(x, "write")
        /\ \E m \in 0..n :
               /\ pos' = [pos EXCEPT ![c.g] = @ + m]
               /\ Put(x, [c EXCEPT !.moved = @ \o [i \in 1..m |-> <<from + i - 1, to + i - 1>>],
                                   !.short = m < n,
                                   !.pc = IF m < n \/ Len(c.moved) + m = c.want THEN "finish" ELSE "read"])
        /\ UNCHANGED <<direct, plain, lock>>

\* The positions saved are put back, each unless that is refused; one that was
\* used instead should have advanced by what was copied, and that of the input
\* has advanced by what was read, which is more after a write that was short.
CopyFinish(x) ==
    LET c == call[x]
        given == (IF c.from = None THEN {} ELSE {c.f}) \cup (IF c.to = None THEN {} ELSE {c.g})
    IN  /\ At(x, "finish")
        /\ \E back \in SUBSET given :
               /\ pos' = [h \in Files |-> IF h \notin back THEN pos[h]
                                         ELSE c.keep[IF h = c.f THEN 1 ELSE 2]]
               /\ plain' = [h \in Files |->
                      IF h \notin {c.f, c.g} \/ h \in back THEN plain[h]
                      ELSE IF h \in given \/ (h = c.f /\ c.short) THEN None
                      ELSE Further(plain[h], Len(c.moved))]
        /\ Put(x, Idle)
        /\ UNCHANGED <<direct, lock>>

Next ==
    \E x \in Contexts :
        \/ \E f \in Files : Read(x, f) \/ Lseek(x, f) \/ TransferAt(x, f)
        \/ Lock(x) \/ Seek(x) \/ Move(x) \/ Back(x)
        \/ CopyFileRange(x) \/ CopyRead(x) \/ CopyWrite(x) \/ CopyFinish(x)

Spec == Init /\ [][Next]_vars

-----------------------------------------------------------------------------
\* What a call has moved is, in order and without a gap, what follows the
\* offset it was given, on both sides of a copy, whoever else transfers.
MovesTheRightBytes ==
    \A x \in Contexts : \A i \in DOMAIN call[x].moved :
        call[x].moved[i] = IF call[x].g = None THEN call[x].begun[1] + i - 1
                           ELSE <<call[x].begun[1] + i - 1, call[x].begun[2] + i - 1>>

\* A description's own position is moved by the calls that use it, by as much
\* as they moved, and by no call that was given an offset, whether that moved
\* anything or failed (okm_syscall.c:1576).  Three exceptions are the code's: a
\* seek back that is refused, a refused seek of the output of a copy, after the
\* input's, and a short write of a copy that uses the input's own position.
PositionsKept == \A f \in Files : Apart(f) => plain[f] \in {pos[f], None}

-----------------------------------------------------------------------------
(***************************************************************************)
(* The invariant behind both.                                              *)
(***************************************************************************)
\* What the proof takes of the constants; no copy is within one description.
Assumptions ==
    /\ Size \in Nat /\ Block \in Nat /\ Wants \subseteq Nat /\ Vectors \subseteq Seq(Nat)
    /\ \A fg \in Copies : fg[1] \in Files /\ fg[2] \in Files /\ fg[1] # fg[2]
    /\ None \notin Nat /\ None \notin Files /\ None \notin Contexts

\* The calls, of which moved is m.
Calls(m) ==
    [pc : {"idle", "lock", "seek", "move", "back", "read", "write", "finish"},
     f : Files \cup {None}, g : Files \cup {None}, from : Nat \cup {None}, to : Nat \cup {None},
     v : Seq(Nat), want : Nat, keep : Seq(Nat), block : Nat, moved : {m},
     begun : Seq(Nat), short : BOOLEAN]

TypeOK ==
    /\ direct \in BOOLEAN
    /\ pos \in [Files -> Nat] /\ plain \in [Files -> Nat \cup {None}]
    /\ call = [x \in Contexts |-> call[x]]
    /\ \A x \in Contexts : call[x] \in Calls(call[x].moved)

\* A position p of h is the one it should have.
Agrees(p, h) == plain[h] \in {p, None}

\* A call has moved, or may move, the position of h.
Moving(c, h) ==
    \/ c.g # None /\ h \in {c.f, c.g}
    \/ ~direct /\ c.pc \in {"move", "back"} /\ c.f = h

\* The bytes that follow a, without a gap; and those of two files.
Follow(m, a) == \A i \in DOMAIN m : m[i] = a + i - 1
FollowBoth(m, a, b) == \A i \in DOMAIN m : m[i] = <<a + i - 1, b + i - 1>>

\* A transfer at a position: it has the lock while it moves one.
TransferOK(x, c) ==
    /\ c.g = None /\ c.f \in Files /\ c.from \in Nat /\ c.begun[1] = c.from
    /\ c.moved \in Seq(Nat)
    /\ direct => c.pc \in {"move", "back"}
    /\ c.pc \in {"lock", "seek"} => c.moved = <<>>
    /\ ~direct /\ c.pc # "lock" => lock = x
    /\ Follow(c.moved, c.from)
    /\ ~direct /\ c.pc \in {"move", "back"} => c.keep[1] \in Nat /\ Agrees(c.keep[1], c.f)
    /\ ~direct /\ c.pc = "move" => pos[c.f] = c.from + Len(c.moved)

\* A copy: both positions are as far as what was copied, or read of the block.
CopyOK(c) ==
    LET b == c.begun
        n == Len(c.moved)
    IN  /\ c.f \in Files /\ c.g \in Files /\ c.f # c.g
        /\ b[1] \in Nat /\ b[2] \in Nat /\ c.moved \in Seq(Nat \X Nat)
        /\ c.keep[1] \in Nat /\ c.keep[2] \in Nat
        /\ Agrees(c.keep[1], c.f) /\ Agrees(c.keep[2], c.g)
        /\ c.from = None => Agrees(b[1], c.f)
        /\ c.to = None => Agrees(b[2], c.g)
        /\ FollowBoth(c.moved, b[1], b[2])
        /\ pos[c.g] = b[2] + n
        /\ c.pc = "read" \/ (c.pc = "finish" /\ ~c.short) => pos[c.f] = b[1] + n
        /\ c.pc = "write" => pos[c.f] = b[1] + n + c.block

CallOK(x, c) ==
    /\ c.pc = "idle" => c = Idle
    /\ c.pc \in {"lock", "seek", "move", "back"} => TransferOK(x, c)
    /\ c.pc \in {"read", "write", "finish"} => CopyOK(c)

\* Nobody uses what another copies.
Separate(c, d) == c.g # None => c.f \notin {d.f, d.g} /\ c.g \notin {d.f, d.g}

IInv ==
    /\ TypeOK
    /\ \A x \in Contexts : CallOK(x, call[x])
    /\ \A x, y \in Contexts : x # y => Separate(call[x], call[y])
    /\ \A h \in Files : (\A x \in Contexts : ~Moving(call[x], h)) => Agrees(pos[h], h)
=============================================================================
