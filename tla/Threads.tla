------------------------------ MODULE Threads ------------------------------
(***************************************************************************)
(* Starting and ending execution contexts (port/src/okm_thread.c).  The    *)
(* environment requires that a task it started be waited for, and at most  *)
(* once; POSIX lets a detached thread be forgotten.  So every task started *)
(* goes on a list, and the next __clone, by whatever context, waits for    *)
(* those that have finished and frees their records.  Each step that reads *)
(* or changes the list holds the table's lock.  The list is a set here:    *)
(* its order decides only which finished record is taken first, and a      *)
(* record may become finished while the list is being walked.              *)
(***************************************************************************)
EXTENDS Naturals

CONSTANTS
    Main,           \* the first context
    Tasks,          \* the tasks the environment may start
    Records,        \* the places of memory for a struct okm_thread
    None

ASSUME NamesApart == Main \notin Tasks /\ None \notin Tasks \cup Records

Contexts == Tasks \cup {Main}

VARIABLES
    owner,          \* the task a record was allocated for, or None
    tid,            \* t->tid of each record: the task it names, None if erased
    finished,       \* t->finished
    done,           \* okm_done: the records of the tasks to be waited for
    state,          \* of each task: "none", "run", "leave", "finished", "ended"
    rec,            \* the record each task was started with
    joined,         \* how often each task was waited for
    pc,             \* where each context is in __clone
    at,             \* the record it is at: being reaped, or the new one
    new,            \* the task it is starting
    told            \* what its last __clone returned

mem == <<owner, tid, finished>>
task == <<state, rec, joined>>
vars == <<mem, done, task, pc, at, new, told>>

Init ==
    /\ owner = [r \in Records |-> None]
    /\ tid = [r \in Records |-> None]
    /\ finished = [r \in Records |-> FALSE]
    /\ done = {}
    /\ state = [t \in Tasks |-> "none"]
    /\ rec = [t \in Tasks |-> None]
    /\ joined = [t \in Tasks |-> 0]
    /\ pc = [c \in Contexts |-> "run"]
    /\ at = [c \in Contexts |-> None]
    /\ new = [c \in Contexts |-> None]
    /\ told = [c \in Contexts |-> None]

Goto(c, l) == pc' = [pc EXCEPT ![c] = l]

\* A context runs the program's code, and so may call __clone.
Running(c) == IF c = Main THEN TRUE ELSE state[c] = "run"

Clone(c) ==
    /\ Running(c)
    /\ pc[c] = "run"
    /\ Goto(c, "reap")
    /\ UNCHANGED <<mem, done, task, at, new, told>>

-----------------------------------------------------------------------------
(***************************************************************************)
(* reap.                                                                   *)
(***************************************************************************)
Finished == {r \in done : finished[r]}

\* Variant of Reap: the record found is not taken off the list.
ReapKeeps(c) ==
    /\ pc[c] = "reap"
    /\ \/ \E r \in Finished : at' = [at EXCEPT ![c] = r] /\ Goto(c, "join")
       \/ Finished = {} /\ at' = at /\ Goto(c, "alloc")
    /\ UNCHANGED <<mem, done, task, new, told>>

\* Under the lock: a finished record is unlinked; when there is none, reap ends.
Reap(c) ==
    /\ pc[c] = "reap"
    /\ \/ \E r \in Finished :
              /\ at' = [at EXCEPT ![c] = r]
              /\ done' = done \ {r}
              /\ Goto(c, "join")
       \/ /\ Finished = {}
          /\ Goto(c, "alloc")
          /\ UNCHANGED <<done, at>>
    /\ UNCHANGED <<mem, task, new, told>>

\* Outside the lock: the wait returns when the task has ended.  (Variant: the
\* record is freed without the wait.)
JoinNobody(c) ==
    /\ pc[c] = "join"
    /\ Goto(c, "free")
    /\ UNCHANGED <<mem, done, task, at, new, told>>

Join(c) ==
    LET t == owner[at[c]]
    IN  /\ pc[c] = "join"
        /\ state[t] = "ended"
        /\ joined' = [joined EXCEPT ![t] = @ + 1]
        /\ Goto(c, "free")
        /\ UNCHANGED <<mem, done, state, rec, at, new, told>>

Free(c) ==
    /\ pc[c] = "free"
    /\ owner' = [owner EXCEPT ![at[c]] = None]
    /\ tid' = [tid EXCEPT ![at[c]] = None]
    /\ Goto(c, "reap")
    /\ UNCHANGED <<finished, done, task, at, new, told>>

-----------------------------------------------------------------------------
(***************************************************************************)
(* The rest of __clone.                                                    *)
(***************************************************************************)
NewRecord(c, r, t) ==
    /\ owner[r] = None
    /\ state[t] = "none" /\ \A x \in Contexts : new[x] # t
    /\ owner' = [owner EXCEPT ![r] = t]
    /\ tid' = [tid EXCEPT ![r] = t]
    /\ at' = [at EXCEPT ![c] = r]
    /\ new' = [new EXCEPT ![c] = t]
    /\ Goto(c, "start")

\* Variant of Alloc: the record is used as the allocation left it.
AllocUncleared(c) ==
    /\ pc[c] = "alloc"
    /\ \/ \E r \in Records, t \in Tasks : NewRecord(c, r, t)
       \/ Goto(c, "run") /\ UNCHANGED <<owner, tid, at, new>>
    /\ UNCHANGED <<finished, done, task, told>>

\* The record is allocated and cleared, and its task numbered (t is the task
\* that number names: ++g_tid is under the lock, so no two are the same); or
\* there is no memory, and __clone fails.
Alloc(c) ==
    /\ pc[c] = "alloc"
    /\ \/ \E r \in Records, t \in Tasks :
              NewRecord(c, r, t) /\ finished' = [finished EXCEPT ![r] = FALSE]
       \/ Goto(c, "run") /\ UNCHANGED <<mem, at, new>>
    /\ UNCHANGED <<done, task, told>>

Refused(c, l) ==
    /\ owner' = [owner EXCEPT ![at[c]] = None]
    /\ tid' = [tid EXCEPT ![at[c]] = None]
    /\ new' = [new EXCEPT ![c] = None]
    /\ Goto(c, l)
    /\ UNCHANGED <<state, rec>>

Started(c) ==
    /\ state' = [state EXCEPT ![new[c]] = "run"]
    /\ rec' = [rec EXCEPT ![new[c]] = at[c]]
    /\ Goto(c, "link")
    /\ UNCHANGED <<owner, tid, new>>

\* The new task may run at once; refused, the record is freed.
StartTask(c) ==
    /\ pc[c] = "start"
    /\ Started(c) \/ Refused(c, "run")
    /\ UNCHANGED <<finished, done, joined, at, told>>

Link(c) ==
    /\ pc[c] = "link"
    /\ done' = done \cup {at[c]}
    /\ Goto(c, "return")
    /\ UNCHANGED <<mem, task, at, new, told>>

\* return t->tid, read after the lock is released.
Return(c) ==
    /\ pc[c] = "return"
    /\ told' = [told EXCEPT ![c] = <<new[c], tid[at[c]]>>]
    /\ new' = [new EXCEPT ![c] = None]
    /\ Goto(c, "run")
    /\ UNCHANGED <<mem, done, task, at>>

-----------------------------------------------------------------------------
(***************************************************************************)
(* entry: the thread ends by returning to it; it clears the word its       *)
(* creator waits upon, marks its record finished and gives up its entry    *)
(* among the contexts, after which it touches nothing.                     *)
(***************************************************************************)
Leave(t) ==
    /\ state[t] = "run"
    /\ pc[t] = "run"
    /\ state' = [state EXCEPT ![t] = "leave"]
    /\ UNCHANGED <<mem, done, rec, joined, pc, at, new, told>>

Finish(t) ==
    /\ state[t] = "leave"
    /\ finished' = [finished EXCEPT ![rec[t]] = TRUE]
    /\ state' = [state EXCEPT ![t] = "finished"]
    /\ UNCHANGED <<owner, tid, done, rec, joined, pc, at, new, told>>

EndTask(t) ==
    /\ state[t] = "finished"
    /\ state' = [state EXCEPT ![t] = "ended"]
    /\ UNCHANGED <<mem, done, rec, joined, pc, at, new, told>>

Step(c) ==
    \/ Reap(c) \/ Join(c) \/ Free(c) \/ Alloc(c) \/ StartTask(c) \/ Link(c) \/ Return(c)
Ending(t) == Finish(t) \/ EndTask(t)

Next ==
    \/ \E c \in Contexts : Clone(c) \/ Step(c)
    \/ \E t \in Tasks : Leave(t) \/ Ending(t)

Spec == Init /\ [][Next]_vars

\* A context that is in __clone, or on its way out, is scheduled.
FairSpec ==
    /\ Spec
    /\ \A c \in Contexts : WF_vars(Step(c))
    /\ \A t \in Tasks : WF_vars(Ending(t))

-----------------------------------------------------------------------------
\* Every variable keeps its type; the list names allocated records only.
TypeOK ==
    /\ owner \in [Records -> Tasks \cup {None}] /\ tid \in [Records -> Tasks \cup {None}]
    /\ finished \in [Records -> BOOLEAN]
    /\ done \subseteq {r \in Records : owner[r] # None}
    /\ state \in [Tasks -> {"none", "run", "leave", "finished", "ended"}]
    /\ rec \in [Tasks -> Records \cup {None}]
    /\ joined \in [Tasks -> Nat]
    /\ pc \in [Contexts -> {"run", "reap", "join", "free", "alloc", "start", "link", "return"}]
    /\ at \in [Contexts -> Records \cup {None}] /\ new \in [Contexts -> Tasks \cup {None}]

\* A task has its own record until it has ended: whichever context reaps, and
\* whenever, none frees the record or has it given to another task before that.
RecordKept ==
    \A t \in Tasks : state[t] \in {"run", "leave", "finished"} => owner[rec[t]] = t

Linked(t) == rec[t] \in done /\ owner[rec[t]] = t
Linking(t) == \E c \in Contexts : pc[c] = "link" /\ new[c] = t
Reaping(t) == \E c \in Contexts : pc[c] = "join" /\ at[c] = rec[t] /\ owner[rec[t]] = t

\* Every task started is waited for exactly once: until it is, it is on the
\* list, or about to be, or some context is about to wait for it, never two.
WaitedForOnce ==
    \A t \in Tasks : state[t] # "none" =>
        /\ joined[t] = 1 <=> ~Linked(t) /\ ~Linking(t) /\ ~Reaping(t)
        /\ joined[t] <= 1
        /\ \A c, d \in Contexts :
               pc[c] = "join" /\ pc[d] = "join" /\ at[c] = rec[t] /\ at[d] = rec[t] => c = d

\* __clone returns, however long its reap takes: a record it found finished is
\* one whose task ends without further ado.
CloneReturns == \A c \in Contexts : pc[c] = "reap" ~> pc[c] \in {"run", "start"}

\* __clone returns the identity it chose for the task it started.
ReturnsTheIdentity == \A c \in Contexts : told[c] # None => told[c][1] = told[c][2]
=============================================================================
