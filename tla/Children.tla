------------------------------ MODULE Children ------------------------------
(***************************************************************************)
(* The table of started programs (g_child, port/src/okm_syscall.c) and the *)
(* calls upon it: fork (okm_fork.c), recording what posix_spawn started,   *)
(* wait4 and kill, by several contexts of a program and by a copy of it.   *)
(*                                                                         *)
(* Entries are taken under the table's lock.  wait4 and kill take none:    *)
(* they read an entry, wait, and read it again.  A copy made by fork       *)
(* begins with the table, and with the lock, of the image it was made of.  *)
(***************************************************************************)
EXTENDS Integers, FiniteSets, FiniteSetsExt

CONSTANTS
    Original,       \* the contexts of the program
    Copy,           \* the context of a copy of it
    Nobody,         \* no context
    MaxChild,       \* OKM_MAX_CHILD
    MaxProg,        \* bound: programs started
    First,          \* g_next_pid at the start (1000)
    Ids,            \* the environment's identifiers, which it reuses; they may
                    \* be numbers that g_next_pid comes to as well
    MaxNumber,      \* bound: no call begins past this g_next_pid
    Forkers, Spawners, AnyWaiters   \* the contexts that fork, spawn, wait for any

Contexts == Original \cup {Copy}
Images == {1, 2}
Slots == 1..MaxChild
Programs == 1..MaxProg
Image(c) == IF c = Copy THEN 2 ELSE 1

VARIABLES
    says,           \* whether the environment tells a program's identifier
    table,          \* per image, g_child: used, pid, h (a program, 0 none), unit
    next,           \* per image, g_next_pid
    lock,           \* per image, who holds the table's lock
    copy,           \* the program that is the copy, or 0
    self,           \* what getpid answers in the copy
    prog,           \* the environment's programs: "none", "runs", "ended", "gone"
    id,             \* and their identifiers
    open,           \* the handles held: an image and a program
    pc,             \* what each context is doing
    at,             \* the entry it is at, or 0
    new,            \* the program it has started and its unit, not yet recorded
    kids,           \* the children it was told of and has not waited for
    told            \* the number told for each program

env == <<says, copy, self, prog, id, open>>
tables == <<table, next, lock>>
local == <<pc, at, new, kids, told>>
vars == <<env, tables, local>>

Free == [used |-> FALSE, pid |-> 0, h |-> 0, unit |-> 0]
NoNew == [prog |-> 0, unit |-> 0]

Init ==
    /\ says \in BOOLEAN
    /\ table = [m \in Images |-> [s \in Slots |-> Free]]
    /\ next = [m \in Images |-> First]
    /\ lock = [m \in Images |-> Nobody]
    /\ copy = 0 /\ self = 0
    /\ prog = [p \in Programs |-> "none"]
    /\ id = [p \in Programs |-> 0]
    /\ open = {}
    /\ pc = [c \in Contexts |-> IF c = Copy THEN "unborn" ELSE "idle"]
    /\ at = [c \in Contexts |-> 0]
    /\ new = [c \in Contexts |-> NoNew]
    /\ kids = [c \in Contexts |-> {}]
    /\ told = [p \in Programs |-> 0]

-----------------------------------------------------------------------------
\* A context runs while its program does.
Runs(c) == c = Copy => copy # 0 /\ prog[copy] = "runs"
At(c, l) == pc[c] = l /\ Runs(c)

Entry(c) == table[Image(c)][at[c]]
Set(c, s, e) == table' = [table EXCEPT ![Image(c)][s] = e]
Used(m) == {s \in Slots : table[m][s].used}
Lowest(S) == IF S = {} THEN 0 ELSE Min(S)
Held(c, h) == <<Image(c), h>> \in open

\* child_index: the first entry in use that bears the number.  In the variant
\* one that is not in use is found too.
ChildIndexAny(m, pid) == Lowest({s \in Slots : table[m][s].pid = pid})

ChildIndex(m, pid) == Lowest({s \in Used(m) : table[m][s].pid = pid})

\* Two entries in use bear one number: a number was reserved that is also the
\* identifier of a child, or an identifier was given out again between the end of
\* a wait and the release of the entry.  child_index then finds either.
Clash == \E m \in Images : \E s, t \in Used(m) : s # t /\ table[m][s].pid = table[m][t].pid

\* The identifiers the environment does not give out: those of programs that
\* run or have not been waited for.
Taken == {id[q] : q \in {r \in Programs : prog[r] \in {"runs", "ended"}}}

\* The environment starts a program.
Start(c, p) ==
    /\ p = Lowest({q \in Programs : prog[q] = "none"})
    /\ prog' = [prog EXCEPT ![p] = "runs"]
    /\ \E n \in Ids \ Taken : id' = [id EXCEPT ![p] = n]
    /\ open' = open \cup {<<Image(c), p>>}

\* A program ends; one whose handle nobody holds is gone.
End(p) ==
    /\ prog[p] = "runs"
    /\ prog' = [prog EXCEPT ![p] = IF \E m \in Images : <<m, p>> \in open THEN "ended" ELSE "gone"]
    /\ UNCHANGED <<says, copy, self, id, open, tables, local>>

\* A call returns, leaving nothing behind in the context.
Return(c) ==
    /\ pc' = [pc EXCEPT ![c] = "idle"]
    /\ at' = [at EXCEPT ![c] = 0]
    /\ new' = [new EXCEPT ![c] = NoNew]

-----------------------------------------------------------------------------
(***************************************************************************)
(* Taking an entry, under the lock.                                        *)
(***************************************************************************)
\* __okm_child_reserve: the first entry not in use, and a number.
Reserve(c, then) ==
    LET m == Image(c)
        s == Lowest(Slots \ Used(m))
    IN  /\ lock[m] = Nobody /\ s # 0
        /\ lock' = [lock EXCEPT ![m] = c]
        /\ next' = [next EXCEPT ![m] = @ + 1]
        /\ Set(c, s, [used |-> TRUE, pid |-> next[m] + 1, h |-> 0, unit |-> 0])
        /\ at' = [at EXCEPT ![c] = s]
        /\ pc' = [pc EXCEPT ![c] = then]

\* __okm_child_commit and __okm_child_job: the entry names the program, by the
\* environment's identifier where it says, and its unit.  The caller is told
\* the number, and releases the lock.  In the variant the entry keeps the number
\* that was reserved.
CommitUnsettled(c) ==
    LET p == new[c].prog
    IN  /\ At(c, "commit")
        /\ Set(c, at[c], [Entry(c) EXCEPT !.h = p, !.unit = new[c].unit])
        /\ lock' = [lock EXCEPT ![Image(c)] = Nobody]
        /\ told' = [told EXCEPT ![p] = IF says THEN id[p] ELSE Entry(c).pid]
        /\ kids' = [kids EXCEPT ![c] = @ \cup {p}]
        /\ Return(c)
        /\ UNCHANGED <<env, next>>

Commit(c) ==
    LET p == new[c].prog
        pid == IF says THEN id[p] ELSE Entry(c).pid
        unit == IF new[c].unit = 0 THEN Entry(c).unit ELSE new[c].unit
    IN  /\ At(c, "commit")
        /\ Set(c, at[c], [used |-> TRUE, pid |-> pid, h |-> p, unit |-> unit])
        /\ lock' = [lock EXCEPT ![Image(c)] = Nobody]
        /\ told' = [told EXCEPT ![p] = pid]
        /\ kids' = [kids EXCEPT ![c] = @ \cup {p}]
        /\ Return(c)
        /\ UNCHANGED <<env, next>>

-----------------------------------------------------------------------------
(***************************************************************************)
(* fork.                                                                   *)
(***************************************************************************)
ForkReserve(c) ==
    /\ At(c, "idle") /\ c \in Forkers
    /\ next[Image(c)] < MaxNumber
    /\ Reserve(c, "fork")
    /\ UNCHANGED <<env, new, kids, told>>

\* kal_space_start fails: the entry is given back.
ForkFails(c) ==
    /\ At(c, "fork")
    /\ Set(c, at[c], [Entry(c) EXCEPT !.used = FALSE])
    /\ lock' = [lock EXCEPT ![Image(c)] = Nobody]
    /\ Return(c)
    /\ UNCHANGED <<env, next, kids, told>>

\* It succeeds: the copy begins with everything as it is at this moment, the
\* lock held and the number reserved for it (g_carried_pid) included.  The
\* first copy is followed; another is a program like those of spawn.
ForkStarts(c) ==
    /\ At(c, "fork")
    /\ \E p \in Programs :
          /\ Start(c, p)
          /\ new' = [new EXCEPT ![c] = [prog |-> p, unit |-> 0]]
          /\ IF copy = 0
             THEN /\ copy' = p
                  /\ self' = Entry(c).pid
                  /\ table' = [table EXCEPT ![2] = table[1]]
                  /\ next' = [next EXCEPT ![2] = next[1]]
                  /\ lock' = [lock EXCEPT ![2] = Copy]
                  /\ pc' = [pc EXCEPT ![c] = "commit", ![Copy] = "copied"]
             ELSE /\ pc' = [pc EXCEPT ![c] = "commit"]
                  /\ UNCHANGED <<copy, self, tables>>
    /\ UNCHANGED <<says, at, kids, told>>

\* The copy resumes: it forgets the children of the image it was made of, names
\* itself, and releases its copy of the lock.
CopyResumes(c) ==
    /\ At(c, "copied") /\ c = Copy
    /\ table' = [table EXCEPT ![2] = [s \in Slots |-> [@[s] EXCEPT !.used = FALSE]]]
    /\ self' = IF says THEN id[copy] ELSE self
    /\ lock' = [lock EXCEPT ![2] = Nobody]
    /\ pc' = [pc EXCEPT ![c] = "idle"]
    /\ UNCHANGED <<says, copy, prog, id, open, next, at, new, kids, told>>

-----------------------------------------------------------------------------
(***************************************************************************)
(* posix_spawn: the program is started under the lock, with a unit of its  *)
(* own if that was asked for, and recorded under the lock taken again.     *)
(***************************************************************************)
Spawn(c) ==
    /\ At(c, "idle") /\ c \in Spawners
    /\ next[Image(c)] < MaxNumber
    /\ pc' = [pc EXCEPT ![c] = "start"]
    /\ UNCHANGED <<env, tables, at, new, kids, told>>

SpawnStarts(c) ==
    /\ At(c, "start") /\ lock[Image(c)] = Nobody
    /\ \E p \in Programs : \E unit \in {0, p} :
          Start(c, p) /\ new' = [new EXCEPT ![c] = [prog |-> p, unit |-> unit]]
    /\ pc' = [pc EXCEPT ![c] = "record"]
    /\ UNCHANGED <<says, copy, self, tables, at, kids, told>>

\* The environment does not start it.
SpawnFails(c) ==
    /\ At(c, "start") /\ lock[Image(c)] = Nobody
    /\ Return(c)
    /\ UNCHANGED <<env, tables, kids, told>>

Record(c) ==
    /\ At(c, "record")
    /\ Reserve(c, "commit")
    /\ UNCHANGED <<env, new, kids, told>>

\* No entry is free: the handle is released and the caller told EAGAIN.  The
\* program runs.
RecordFull(c) ==
    /\ At(c, "record") /\ lock[Image(c)] = Nobody /\ Used(Image(c)) = Slots
    /\ open' = open \ {<<Image(c), new[c].prog>>}
    /\ Return(c)
    /\ UNCHANGED <<says, copy, self, prog, id, tables, kids, told>>

-----------------------------------------------------------------------------
(***************************************************************************)
(* wait4, without the lock.                                                *)
(***************************************************************************)
\* The entries a call may answer with: the one of a child of the caller's, or,
\* for a call that names no child, the first in use, or any of them when the
\* call does not wait.
Named(c) == {ChildIndex(Image(c), told[p]) : p \in kids[c]} \ {0}

\* It waits for the entry it found, ...
WaitFind(c) ==
    /\ At(c, "idle")
    /\ \/ \E s \in Named(c) : at' = [at EXCEPT ![c] = s]
       \/ /\ c \in AnyWaiters /\ Used(Image(c)) # {}
          /\ at' = [at EXCEPT ![c] = Min(Used(Image(c)))]
    /\ pc' = [pc EXCEPT ![c] = "wait"]
    /\ UNCHANGED <<env, tables, new, kids, told>>

\* ... the handle of which the environment refuses or waits upon.
WaitEnds(c) ==
    LET h == Entry(c).h
    IN  /\ At(c, "wait")
        /\ Held(c, h) => prog[h] = "ended"
        /\ pc' = [pc EXCEPT ![c] = IF Held(c, h) THEN "close" ELSE "error"]
        /\ UNCHANGED <<env, tables, at, new, kids, told>>

\* With WNOHANG it asks once: each entry that may answer, in turn.
Poll(c, S) ==
    LET h(s) == table[Image(c)][s].h
        s == Lowest({t \in S : Held(c, h(t)) => prog[h(t)] = "ended"})
    IN  /\ At(c, "idle") /\ s # 0
        /\ at' = [at EXCEPT ![c] = s]
        /\ pc' = [pc EXCEPT ![c] = IF Held(c, h(s)) THEN "close" ELSE "error"]
        /\ UNCHANGED <<env, tables, new, kids, told>>

WaitNoHang(c) ==
    \/ \E s \in Named(c) : Poll(c, {s})
    \/ c \in AnyWaiters /\ Poll(c, Used(Image(c)))

\* The program has ended: its handle is released, ...
CloseHandle(c) ==
    LET h == Entry(c).h
    IN  /\ At(c, "close")
        /\ open' = open \ {<<Image(c), h>>}
        /\ prog' = [prog EXCEPT ![h] = "gone"]
        /\ kids' = [d \in Contexts |-> IF Image(d) = Image(c) THEN kids[d] \ {h} ELSE kids[d]]
        /\ pc' = [pc EXCEPT ![c] = "free"]
        /\ UNCHANGED <<says, copy, self, id, tables, at, new, told>>

\* ... and then its entry, whose number is returned; or the error is.
WaitReturns(c) ==
    /\ pc[c] \in {"free", "error"} /\ Runs(c)
    /\ Set(c, at[c], [Entry(c) EXCEPT !.used = @ /\ pc[c] = "error"])
    /\ Return(c)
    /\ UNCHANGED <<env, next, lock, kids, told>>

-----------------------------------------------------------------------------
Step(c) ==
    \/ Commit(c) \/ ForkFails(c) \/ ForkStarts(c) \/ CopyResumes(c)
    \/ SpawnStarts(c) \/ SpawnFails(c) \/ Record(c) \/ RecordFull(c)
    \/ WaitEnds(c) \/ CloseHandle(c) \/ WaitReturns(c)

Call(c) == ForkReserve(c) \/ Spawn(c) \/ WaitFind(c) \/ WaitNoHang(c)

\* A behaviour is followed up to a clash: past it the calls, which take no lock
\* and read an entry twice, act on each other's entries.
Next ==
    /\ ~Clash
    /\ (\E c \in Contexts : Step(c) \/ Call(c)) \/ (\E p \in Programs : End(p))

Spec == Init /\ [][Next]_vars

-----------------------------------------------------------------------------
TypeOK ==
    /\ says \in BOOLEAN
    /\ table \in [Images -> [Slots -> [used : BOOLEAN, pid : Nat, h : {0} \cup Programs,
                                       unit : {0} \cup Programs]]]
    /\ lock \in [Images -> Contexts \cup {Nobody}]
    /\ copy \in {0} \cup Programs
    /\ prog \in [Programs -> {"none", "runs", "ended", "gone"}]
    /\ open \subseteq Images \X Programs
    /\ at \in [Contexts -> 0..MaxChild]
    /\ \A c \in Contexts : kids[c] \subseteq Programs

\* A child a context was told of can be waited for by the number it was told:
\* the number names one entry in use, whose handle is that program's and held;
\* as long as no two entries in use bear one number.
ChildrenWaitable ==
    ~Clash => \A c \in Contexts : \A p \in kids[c] :
        LET m == Image(c)
        IN  \E s \in Slots : /\ {t \in Used(m) : table[m][t].pid = told[p]} = {s}
                             /\ table[m][s].h = p /\ Held(c, p)

\* An entry in use is a child some context of the image was told of, or one that
\* a call in progress has taken or is about to free: failed forks take none
\* away, and a copy begins with none (okm_fork.c, __okm_forget_children).  And an
\* entry does not keep the unit of the program that had it before, which kill(-n)
\* would reach under the number of the next (job_index).
EntriesAccounted ==
    \A m \in Images :
        /\ \A s \in Used(m) :
               \/ \E c \in Contexts : Image(c) = m /\ table[m][s].h \in kids[c]
               \/ \E c \in Contexts : Image(c) = m /\ at[c] = s /\ pc[c] \in {"fork", "commit", "free"}
               \/ m = 2 /\ pc[Copy] = "copied"
        /\ \A s \in Slots : table[m][s].unit # 0 => told[table[m][s].unit] = table[m][s].pid

\* What fork returned for the copy is what the copy answers for itself; and it
\* gives back the lock it began with, which nobody else in it could: a lock is
\* held only from within the call that took it (okm_fork.c).
CopyAgrees ==
    /\ copy # 0 /\ told[copy] # 0 /\ pc[Copy] # "copied" => self = told[copy]
    /\ \A m \in Images : lock[m] # Nobody => pc[lock[m]] \in {"fork", "commit", "copied"}

\* The entry that wait4 found without the lock, and reads again once it has
\* waited, is still that of a child of the caller's: meanwhile no other context
\* freed it, took it or settled it for another program, and the handle is never
\* refused.  As long as no two entries in use bear one number, and no context
\* waits for any child while another has one (AnyWaiters).
WaitsForItsOwn ==
    ~Clash => \A c \in Contexts :
        /\ pc[c] # "error"
        /\ pc[c] \in {"wait", "close"} => Entry(c).used /\ Entry(c).h \in kids[c]

\* wait4 is not refused while the program has a child to wait for, whatever
\* the other contexts are doing to the table.
WaitAnswered ==
    \A c, d \in Contexts :
        pc[c] = "error" /\ Image(d) = Image(c) => kids[d] = {}
=============================================================================
