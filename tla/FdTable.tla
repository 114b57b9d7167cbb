------------------------------ MODULE FdTable -------------------------------
(***************************************************************************)
(* The descriptor table (port/src/okm_fd.c) and the calls that change it   *)
(* (port/src/okm_syscall.c): open, pipe, socket, close, dup, dup2 and the  *)
(* release of everything before exec's wait, by several contexts, with the *)
(* reads that look a descriptor up without the lock.                       *)
(*                                                                         *)
(* The lock is taken in one step (LockSpec).  Under it, a store to g_fd    *)
(* that a lockless reader can see is a step of its own ("publish").  What  *)
(* a description owned is closed after the lock is released, one step per  *)
(* close.  The environment may give a closed handle out again.             *)
(***************************************************************************)
EXTENDS Integers, FiniteSets

CONSTANTS
    Contexts,       \* the program's execution contexts
    None,           \* no context, no handle
    MaxFd,          \* OKM_MAX_FD
    MaxDesc,        \* OKM_MAX_DESC
    MaxDirs,        \* OKM_MAX_DIRS
    SettlingMax,    \* OKM_SETTLING_MAX
    StdStreams,     \* how many descriptors the program starts with
    Files, Dirs, Channels,  \* handles of the environment, closed after unlock
    Sockets,        \* socket slots, released under the lock
    NullDev,        \* what is only borrowed: the null device, the streams
    Program         \* the kinds of calls the program makes

ASSUME SizesAssumption ==
    /\ MaxFd \in Nat \ {0}
    /\ MaxDesc \in Nat
    /\ MaxDesc >= MaxFd
    /\ MaxDirs \in Nat
    /\ SettlingMax \in Nat
    /\ StdStreams \in 0..MaxFd

Late == Files \cup Dirs \cup Channels
Owned == Late \cup Sockets
Handles == Owned \cup {NullDev}

ASSUME HandlesAssumption ==
    /\ None \notin Contexts
    /\ None \notin Handles
    /\ NullDev \notin Owned
    /\ Sockets \cap Late = {}
    /\ Dirs \cap (Files \cup Channels) = {}

Fds == 0..(MaxFd - 1)
Descs == 0..(MaxDesc - 1)
Slots == 0..(MaxDirs - 1)
Free == -1          \* OKM_FD_FREE, no slot, "none found"

VARIABLES
    holder,         \* who holds okm_lock, or None
    fd,             \* g_fd[f].desc
    refs,           \* g_desc[d].refs
    held,           \* what description d names; None is OKM_FREE
    slot,           \* g_desc[d].path_slot
    slotUsed,       \* g_dirpath_used
    settling,       \* g_settling: what each context let go of under the lock
    pub,            \* the store to g_fd about to be made by the holder
    opened,         \* the handles the environment holds open
    pc,             \* where each context is
    op,             \* the call each context makes
    own,            \* handles obtained for a call and not bound yet
    closing,        \* taken out of g_settling, about to be closed
    got             \* the description a read found without the lock

table == <<fd, refs, held, slot, slotUsed, settling, pub>>
locals == <<op, own, closing, got>>
vars == <<holder, table, opened, pc, locals>>

NoOp == [k |-> "none", fd |-> Free, to |-> Free]
NoPub == [f |-> Free, d |-> Free]

FirstOf(S) == IF S = {} THEN Free ELSE CHOOSE x \in S : \A y \in S : x <= y

\* okm_fd_alloc: the lowest free descriptor from a given one on.
FdAlloc(from) == FirstOf({f \in Fds : f >= from /\ fd[f] = Free})

\* desc_alloc: the first description nobody refers to.
DescAlloc == FirstOf({d \in Descs : refs[d] = 0})

\* path_slot_alloc: a place for a directory's name, or none.
PathSlotAlloc == FirstOf(Slots \ slotUsed)

\* okm_table_init: descriptors 0, 1, ... are the program's own streams.
Init ==
    /\ holder = None
    /\ fd = [f \in Fds |-> IF f < StdStreams THEN f ELSE Free]
    /\ refs = [d \in Descs |-> IF d < StdStreams THEN 1 ELSE 0]
    /\ held = [d \in Descs |-> IF d < StdStreams THEN NullDev ELSE None]
    /\ slot = [d \in Descs |-> Free]
    /\ slotUsed = {}
    /\ settling = {}
    /\ pub = NoPub
    /\ opened = {}
    /\ pc = [c \in Contexts |-> "idle"]
    /\ op = [c \in Contexts |-> NoOp]
    /\ own = [c \in Contexts |-> {}]
    /\ closing = [c \in Contexts |-> {}]
    /\ got = [c \in Contexts |-> Free]

Goto(c, l) == pc' = [pc EXCEPT ![c] = l]

-----------------------------------------------------------------------------
(***************************************************************************)
(* The calls a program makes.  "A descriptor another context is closing at *)
(* this moment is one POSIX leaves the program to have arranged not to     *)
(* use": no read is begun on a descriptor being closed or replaced, and    *)
(* none is closed or replaced while it is read.                            *)
(***************************************************************************)
Reading(f) == \E x \in Contexts : pc[x] = "using" /\ op[x].fd = f

Going(f) ==
    \E x \in Contexts :
        \/ op[x].k = "close" /\ op[x].fd = f
        \/ op[x].k = "dup2" /\ op[x].to = f
        \/ op[x].k = "exec"

Begin(c, o) ==
    /\ pc[c] = "idle"
    /\ op' = [op EXCEPT ![c] = o]
    /\ Goto(c, "lock")
    /\ UNCHANGED <<holder, table, closing, got>>

\* do_openat: the file is opened before the lock is taken.
Open(c, h) ==
    /\ h \in (Files \cup Dirs) \ opened
    /\ opened' = opened \cup {h}
    /\ own' = [own EXCEPT ![c] = {h}]
    /\ Begin(c, [NoOp EXCEPT !.k = "open"])

\* pipe2: both ends are obtained before the lock is taken.
Pipe(c, h1, h2) ==
    /\ {h1, h2} \subseteq Channels \ opened
    /\ h1 # h2
    /\ opened' = opened \cup {h1, h2}
    /\ own' = [own EXCEPT ![c] = {h1, h2}]
    /\ Begin(c, [NoOp EXCEPT !.k = "pipe"])

\* The calls that obtain nothing from the environment first: the null device,
\* a socket, close, dup (from the lowest, or F_DUPFD from a given one), dup2,
\* and the release of everything that exec makes.
Call(c, o) ==
    /\ o.k \in {"close", "dup2"} => ~Reading(IF o.k = "close" THEN o.fd ELSE o.to)
    /\ o.k = "exec" => \A f \in Fds : ~Reading(f)
    /\ Begin(c, o)
    /\ UNCHANGED <<opened, own>>

\* A read: okm_desc_of, without the lock; then the transfer.
Read(c, f) ==
    /\ pc[c] = "idle"
    /\ fd[f] # Free
    /\ ~Going(f)
    /\ got' = [got EXCEPT ![c] = fd[f]]
    /\ op' = [op EXCEPT ![c] = [k |-> "read", fd |-> f, to |-> Free]]
    /\ Goto(c, "using")
    /\ UNCHANGED <<holder, table, opened, own, closing>>

EndRead(c) ==
    /\ pc[c] = "using"
    /\ got' = [got EXCEPT ![c] = Free]
    /\ op' = [op EXCEPT ![c] = NoOp]
    /\ Goto(c, "idle")
    /\ UNCHANGED <<holder, table, opened, own, closing>>

-----------------------------------------------------------------------------
Lock(c) ==
    /\ pc[c] = "lock"
    /\ holder = None
    /\ holder' = c
    /\ Goto(c, "body")
    /\ UNCHANGED <<table, opened, locals>>

\* Variant of Retire: a description with no place left to wait is closed at
\* once and put aside all the same.
RetireTwice(c, d) ==
    /\ held' = [held EXCEPT ![d] = None]
    /\ settling' = IF held[d] \in Late THEN settling \cup {[owner |-> c, h |-> held[d]]}
                   ELSE settling
    /\ opened' = IF Cardinality(settling) = SettlingMax THEN opened \ {held[d]} ELSE opened
    /\ slotUsed' = slotUsed \ {slot[d]}
    /\ slot' = [slot EXCEPT ![d] = Free]

\* desc_release, once the count is taken down to zero: a socket is closed at
\* once, what else is owned is put aside, or closed at once when there is no
\* place left; the directory's name goes, and the description is free.
Retire(c, d) ==
    LET h == held[d]
        aside == h \in Late /\ Cardinality(settling) < SettlingMax
    IN  /\ held' = [held EXCEPT ![d] = None]
        /\ settling' = IF aside THEN settling \cup {[owner |-> c, h |-> h]} ELSE settling
        /\ opened' = IF h \in Owned /\ ~aside THEN opened \ {h} ELSE opened
        /\ slotUsed' = slotUsed \ {slot[d]}
        /\ slot' = [slot EXCEPT ![d] = Free]

\* Variant of DescRelease: one reference too early.
DescReleaseEarly(c, d) ==
    IF refs[d] <= 2
    THEN Retire(c, d)
    ELSE UNCHANGED <<held, settling, opened, slot, slotUsed>>

\* The rest of desc_release: nothing more while the count is not zero.
DescRelease(c, d) ==
    IF refs[d] = 1
    THEN Retire(c, d)
    ELSE UNCHANGED <<held, settling, opened, slot, slotUsed>>

\* Variant of BindNew: a failed call forgets what it obtained.
BindNewForgets(c) ==
    LET f == FdAlloc(0)
        d == DescAlloc
    IN  /\ pc[c] = "body"
        /\ op[c].k \in {"open", "pipe", "null", "socket"}
        /\ \/ /\ f = Free \/ (op[c].k = "socket" /\ Sockets \subseteq opened)
              /\ Goto(c, "unlock")
              /\ own' = [own EXCEPT ![c] = {}]
              /\ UNCHANGED <<refs, held, pub, opened>>
           \/ /\ f # Free
              /\ op[c].k # "socket"
              /\ \E h \in IF op[c].k = "null" THEN {NullDev} ELSE own[c] :
                    /\ refs' = [refs EXCEPT ![d] = 1]
                    /\ held' = [held EXCEPT ![d] = h]
                    /\ own' = [own EXCEPT ![c] = @ \ {h}]
              /\ pub' = [f |-> f, d |-> d]
              /\ Goto(c, "publish")
              /\ UNCHANGED opened
        /\ UNCHANGED <<holder, fd, slot, slotUsed, settling, op, closing, got>>

\* okm_fd_alloc and okm_fd_bind's description for what a call obtained.  With
\* no descriptor free the call fails and still owns what it has not bound.
BindNew(c) ==
    LET f == FdAlloc(0)
        d == DescAlloc
    IN  /\ pc[c] = "body"
        /\ op[c].k \in {"open", "pipe", "null", "socket"}
        /\ \/ /\ f = Free \/ (op[c].k = "socket" /\ Sockets \subseteq opened)
              /\ Goto(c, "unlock")
              /\ UNCHANGED <<refs, held, pub, own, opened>>
           \/ /\ f # Free
              /\ \E h \in CASE op[c].k = "null" -> {NullDev}
                            [] op[c].k = "socket" -> Sockets \ opened
                            [] OTHER -> own[c] :
                    /\ refs' = [refs EXCEPT ![d] = 1]
                    /\ held' = [held EXCEPT ![d] = h]
                    /\ own' = [own EXCEPT ![c] = @ \ {h}]
                    /\ opened' = IF h \in Sockets THEN opened \cup {h} ELSE opened
              /\ pub' = [f |-> f, d |-> d]
              /\ Goto(c, "publish")
        /\ UNCHANGED <<holder, fd, slot, slotUsed, settling, op, closing, got>>

\* The store of the descriptor, the last thing okm_fd_bind and okm_fd_dup do;
\* then okm_dir_remember, where the directory's name is known and there is a
\* place for it.  pipe2 goes on to its second end.
Publish(c) ==
    /\ pc[c] = "publish"
    /\ fd' = [fd EXCEPT ![pub.f] = pub.d]
    /\ pub' = NoPub
    /\ \/ /\ op[c].k = "open"
          /\ held[pub.d] \in Dirs
          /\ PathSlotAlloc # Free
          /\ slot' = [slot EXCEPT ![pub.d] = PathSlotAlloc]
          /\ slotUsed' = slotUsed \cup {PathSlotAlloc}
       \/ UNCHANGED <<slot, slotUsed>>
    /\ Goto(c, IF op[c].k = "pipe" /\ own[c] # {} THEN "body" ELSE "unlock")
    /\ UNCHANGED <<holder, refs, held, settling, opened, locals>>

\* close: okm_fd_release of a descriptor that names something.
CloseBody(c) ==
    LET d == fd[op[c].fd]
    IN  /\ pc[c] = "body"
        /\ op[c].k = "close"
        /\ \/ d = Free /\ UNCHANGED <<table, opened>>
           \/ /\ d # Free
              /\ fd' = [fd EXCEPT ![op[c].fd] = Free]
              /\ refs' = [refs EXCEPT ![d] = @ - 1]
              /\ DescRelease(c, d)
              /\ UNCHANGED pub
        /\ Goto(c, "unlock")
        /\ UNCHANGED <<holder, locals>>

\* Variant of DupBody: what the target named is not released.
DupKeepsOld(c) ==
    LET src == fd[op[c].fd]
        to == IF op[c].k = "dup" THEN FdAlloc(op[c].to) ELSE op[c].to
    IN  /\ pc[c] = "body"
        /\ op[c].k \in {"dup", "dup2"}
        /\ \/ /\ src = Free \/ to = Free \/ to = op[c].fd
              /\ Goto(c, "unlock")
              /\ UNCHANGED <<table, opened>>
           \/ /\ src # Free /\ to # Free /\ to # op[c].fd
              /\ refs' = [refs EXCEPT ![src] = @ + 1]
              /\ pub' = [f |-> to, d |-> src]
              /\ Goto(c, "publish")
              /\ UNCHANGED <<fd, held, settling, opened, slot, slotUsed>>
        /\ UNCHANGED <<holder, locals>>

\* okm_fd_dup: to the lowest free descriptor, or over a given one, whose
\* description is released before the new one is counted.
DupBody(c) ==
    LET src == fd[op[c].fd]
        to == IF op[c].k = "dup" THEN FdAlloc(op[c].to) ELSE op[c].to
    IN  /\ pc[c] = "body"
        /\ op[c].k \in {"dup", "dup2"}
        /\ \/ /\ src = Free \/ to = Free \/ to = op[c].fd
              /\ Goto(c, "unlock")
              /\ UNCHANGED <<table, opened>>
           \/ /\ src # Free /\ to # Free /\ to # op[c].fd
              /\ IF fd[to] # Free
                 THEN /\ LET released == [refs EXCEPT ![fd[to]] = @ - 1]
                         IN  refs' = [released EXCEPT ![src] = @ + 1]
                      /\ DescRelease(c, fd[to])
                 ELSE /\ refs' = [refs EXCEPT ![src] = @ + 1]
                      /\ UNCHANGED <<held, settling, opened, slot, slotUsed>>
              /\ pub' = [f |-> to, d |-> src]
              /\ Goto(c, "publish")
              /\ UNCHANGED fd
        /\ UNCHANGED <<holder, locals>>

\* __okm_close_all_for_exec: the loop over the table, one turn a step.
ExecBody(c) ==
    LET bound == {f \in Fds : fd[f] # Free}
        f == FirstOf(bound)
    IN  /\ pc[c] = "body"
        /\ op[c].k = "exec"
        /\ \/ /\ bound = {}
              /\ Goto(c, "unlock")
              /\ UNCHANGED <<table, opened>>
           \/ /\ bound # {}
              /\ fd' = [fd EXCEPT ![f] = Free]
              /\ refs' = [refs EXCEPT ![fd[f]] = @ - 1]
              /\ DescRelease(c, fd[f])
              /\ UNCHANGED <<pub, pc>>
        /\ UNCHANGED <<holder, locals>>

\* Variant of Unlock: an early return that leaves the lock held.
UnlockStays(c) ==
    /\ pc[c] = "unlock"
    /\ holder' = IF settling = {} THEN None ELSE holder
    /\ Goto(c, "settle")
    /\ UNCHANGED <<table, opened, locals>>

\* okm_unlock: what this context let go of is taken out, the lock released.
Unlock(c) ==
    LET mine == {s \in settling : s.owner = c}
    IN  /\ pc[c] = "unlock"
        /\ settling' = settling \ mine
        /\ closing' = [closing EXCEPT ![c] = {s.h : s \in mine}]
        /\ holder' = None
        /\ Goto(c, "settle")
        /\ UNCHANGED <<fd, refs, held, slot, slotUsed, pub, opened, op, own, got>>

\* close_owned, with the lock released.
Settle(c) ==
    /\ pc[c] = "settle"
    /\ \E h \in closing[c] :
           /\ closing' = [closing EXCEPT ![c] = @ \ {h}]
           /\ opened' = opened \ {h}
    /\ UNCHANGED <<holder, table, pc, op, own, got>>

\* A call that got no descriptor closes what it had obtained.
GiveBack(c) ==
    /\ pc[c] = "settle"
    /\ closing[c] = {}
    /\ \E h \in own[c] :
           /\ own' = [own EXCEPT ![c] = @ \ {h}]
           /\ opened' = opened \ {h}
    /\ UNCHANGED <<holder, table, pc, op, closing, got>>

\* The call returns; exec only waits for the program it started, and ends.
Return(c) ==
    /\ pc[c] = "settle"
    /\ closing[c] = {}
    /\ own[c] = {}
    /\ op' = [op EXCEPT ![c] = NoOp]
    /\ Goto(c, IF op[c].k = "exec" THEN "gone" ELSE "idle")
    /\ UNCHANGED <<holder, table, opened, own, closing, got>>

-----------------------------------------------------------------------------
Calls ==
    [k : {"null", "socket", "exec"}, fd : {Free}, to : {Free}]
        \cup [k : {"close"}, fd : Fds, to : {Free}]
        \cup [k : {"dup"}, fd : Fds, to : {0, MaxFd - 1}]
        \cup [k : {"dup2"}, fd : Fds, to : Fds]

Step(c) ==
    \/ Lock(c) \/ BindNew(c) \/ Publish(c) \/ CloseBody(c) \/ DupBody(c)
    \/ ExecBody(c) \/ Unlock(c) \/ Settle(c) \/ GiveBack(c) \/ Return(c)
    \/ EndRead(c)

Next ==
    \E c \in Contexts :
        \/ \E h \in Files \cup Dirs : Open(c, h)
        \/ \E h1, h2 \in Channels : Pipe(c, h1, h2)
        \/ \E o \in Calls : o.k \in Program /\ Call(c, o)
        \/ \E f \in Fds : "read" \in Program /\ Read(c, f)
        \/ Step(c)

Spec == Init /\ [][Next]_vars

\* A context inside a call goes on, and the lock lets somebody in
\* (OkmMutex!ImplementsLock); calls are never owed.
Fairness ==
    /\ \A c \in Contexts : WF_vars(Step(c) /\ ~Lock(c))
    /\ WF_vars(\E c \in Contexts : Lock(c))

FairSpec == Spec /\ Fairness

-----------------------------------------------------------------------------
\* What a descriptor names, the store about to be made included.
Named == IF pub.f = Free THEN fd ELSE [fd EXCEPT ![pub.f] = pub.d]

\* What a context has yet to bind or to close before its call returns.
Owes(c) == own[c] \cup closing[c] \cup {s.h : s \in {x \in settling : x.owner = c}}

\* Every variable keeps its type.
TypeOK ==
    /\ holder \in Contexts \cup {None}
    /\ fd \in [Fds -> Descs \cup {Free}]
    /\ refs \in [Descs -> 0..MaxFd]
    /\ held \in [Descs -> Handles \cup {None}]
    /\ slot \in [Descs -> Slots \cup {Free}]
    /\ slotUsed \subseteq Slots
    /\ settling \subseteq [owner : Contexts, h : Late]
    /\ pub \in [f : Fds, d : Descs] \cup {NoPub}
    /\ opened \subseteq Owned
    /\ pc \in [Contexts -> {"idle", "lock", "body", "publish", "unlock",
                            "settle", "using", "gone"}]
    /\ op \in [Contexts -> [k : {"none", "open", "pipe", "null", "socket", "read",
                                 "close", "dup", "dup2", "exec"},
                            fd : Fds \cup {Free}, to : Fds \cup {Free}]]
    /\ own \in [Contexts -> SUBSET Late]
    /\ closing \in [Contexts -> SUBSET Late]
    /\ got \in [Contexts -> Descs \cup {Free}]

\* The count of a description is exactly the number of descriptors that name
\* it, after any sequence of open, pipe, close, dup and dup2 (dup2 over a
\* descriptor of the same description included), and it names something
\* exactly while the count is not zero.  So a call that finds a descriptor free
\* finds a description free, which pipe2 and the sockets rely on by not looking
\* at okm_fd_bind's result; and a place for a directory's name is taken exactly
\* while one description has it.
RefsExact ==
    /\ \A d \in Descs :
           /\ refs[d] = Cardinality({f \in Fds : Named[f] = d})
           /\ (refs[d] = 0) <=> (held[d] = None)
    /\ \A c \in Contexts : pc[c] = "body" /\ FdAlloc(0) # Free => DescAlloc # Free
    /\ slotUsed = {slot[d] : d \in Descs} \ {Free}
    /\ \A d, e \in Descs : slot[d] = slot[e] /\ slot[d] # Free => d = e

\* Every handle the environment holds open has exactly one keeper: the one
\* description that names it, or the one context that is to bind or close it.
\* No handle is left without one, and none will be closed twice.  A keeper need
\* not be known to the program: when pipe2 finds a descriptor for its first end
\* only, that end stays bound to it and the caller is not told which it is
\* (okm_syscall.c:2109-2111); the other end is closed.  What waits in g_settling was put there by
\* the context that holds the lock: an unlock leaves nothing for another to
\* close, nor takes another's.
OneKeeper ==
    /\ opened = {h \in Owned : \/ \E d \in Descs : held[d] = h
                               \/ \E c \in Contexts : h \in Owes(c)}
    /\ \A h \in opened :
           /\ \A d, e \in Descs : held[d] = h /\ held[e] = h => d = e
           /\ \A b, c \in Contexts : h \in Owes(b) /\ h \in Owes(c) => b = c
           /\ \A d \in Descs, c \in Contexts : held[d] = h => h \notin Owes(c)
    /\ \A s \in settling : s.owner = holder

\* A read that looked its descriptor up without the lock uses a live
\* description of an open handle, whatever the other contexts open, close,
\* duplicate or publish meanwhile, as long as the program does not close or
\* replace that descriptor itself.
ReadSeesOpen ==
    \A c \in Contexts :
        pc[c] = "using" =>
            /\ fd[op[c].fd] = got[c]
            /\ held[got[c]] \in opened \cup {NullDev}

Fd == INSTANCE FdSpec WITH
    names <- [f \in Fds |-> IF Named[f] = Free THEN None ELSE held[Named[f]]],
    owes <- [c \in Contexts |-> Owes(c)],
    Borrowed <- {NullDev}

\* The counted table implements the table without counts: nothing is closed
\* while a descriptor names it, nothing is closed twice, and what loses its
\* last name is closed by the context that took it away.
ImplementsFds == Fd!FdSafety

\* Once no context begins a new call, every call begun returns.
CallsReturn ==
    \/ []<><<\E c \in Contexts : pc[c] = "idle" /\ pc'[c] # "idle">>_vars
    \/ \A c \in Contexts : []<>(pc[c] \in {"idle", "gone"})
=============================================================================
