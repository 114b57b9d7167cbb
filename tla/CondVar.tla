------------------------------ MODULE CondVar -------------------------------
(***************************************************************************)
(* Waiting on words (__okm_futex, port/src/okm_thread.c) and what musl     *)
(* builds on it: the mutex as this port takes it and the private condition *)
(* variable.  The environment wakes waiters and cannot move them, so a     *)
(* FUTEX_REQUEUE is answered by a wake.                                    *)
(*                                                                         *)
(* Waiters take tokens, waiting while there are none; givers add some and  *)
(* signal or broadcast, before or after they unlock.  One action is one    *)
(* atomic access or one futex call.  A critical section of _c_lock is one  *)
(* action: what others do meanwhile to the nodes it looks at (their own    *)
(* exchange of state) commutes with the rest of it.                        *)
(***************************************************************************)
EXTENDS Integers, Sequences, FiniteSetsExt

CONSTANTS
    Waiters, Givers,
    Timed,          \* the waiters that state a deadline
    Remaining,      \* how far it may be: "past", "exact" (now) or "later"
    Programs,       \* which waiters wait already, the oldest first, and (a
                    \* bound) how many calls each thread has still to make
    None

Threads == Waiters \cup Givers
All == Cardinality(Waiters)

VARIABLES
    word, blockers,     \* _m_lock (0, 1, and 2 with the top bit), _m_waiters
    head, tail,         \* _c_head, _c_tail
    node,               \* struct waiter of each waiter's call
    ref,                \* ref of each giver's call
    tokens,             \* what the mutex protects
    loc,                \* where each thread is, and its locals
    calls               \* how many calls each has still to make

mutex == <<word, blockers>>
cond == <<head, tail, node, ref>>
vars == <<mutex, cond, tokens, loc, calls>>

NoNode == [prev |-> None, next |-> None, state |-> "none", barrier |-> 0, notify |-> None]

\* then: what follows the lock or unlock; at, back: the word slept on and
\* where to go on; n, first, inside: of a signal; e: "timedout" or "ok".
Idle == [pc |-> "idle", then |-> "", saw |-> 0, e |-> "ok", n |-> 0, first |-> None,
         inside |-> FALSE, at |-> <<>>, back |-> "", bounded |-> FALSE]

M == <<"mutex">>
Barrier(t) == <<"barrier", t>>
Ref(t) == <<"ref", t>>

Asleep(l, a, back, bounded) ==
    [l EXCEPT !.pc = "asleep", !.at = a, !.back = back, !.bounded = bounded]

\* The variable and the mutex at rest, with the waiters of q asleep in a wait.
InitWith(q) ==
    LET Place(t) == {i \in DOMAIN q : q[i] = t}
        Nth(i) == IF i \in DOMAIN q THEN q[i] ELSE None
    IN  /\ head = Nth(Len(q)) /\ tail = Nth(1)
        /\ node = [t \in Waiters |-> IF Place(t) = {} THEN NoNode ELSE
               [NoNode EXCEPT !.state = "WAITING", !.barrier = 2,
                              !.next = Nth(Max(Place(t)) - 1), !.prev = Nth(Max(Place(t)) + 1)]]
        /\ loc = [t \in Threads |-> IF Place(t) = {} THEN Idle
                                    ELSE Asleep(Idle, Barrier(t), "again", t \in Timed)]

Init ==
    /\ word = 0 /\ blockers = 0
    /\ ref = [t \in Givers |-> 0]
    /\ tokens = 0
    /\ \E p \in Programs : InitWith(p.queued) /\ calls = p.calls

At(t, l) == loc[t].pc = l
Put(t, l) == loc' = [loc EXCEPT ![t] = l]
To(t, l) == [loc[t] EXCEPT !.pc = l, !.then = ""]
ToLock(t, next) == [loc[t] EXCEPT !.pc = "lock", !.then = next]
Go(t, l) == Put(t, [loc[t] EXCEPT !.pc = l])
GoUnlock(t, next) == Put(t, [loc[t] EXCEPT !.pc = "unlock", !.then = next])

-----------------------------------------------------------------------------
(***************************************************************************)
(* __okm_futex.  A wait sleeps if the word still has the value; a deadline *)
(* that is exactly now leaves no nanoseconds, and none is no bound.        *)
(***************************************************************************)
Bound(remaining) == remaining = "later"

Awake(l) == [l EXCEPT !.pc = l.back, !.at = <<>>, !.back = "", !.bounded = FALSE]

FutexWait(t, a, same, back, bounded) ==
    Put(t, IF same THEN Asleep(loc[t], a, back, bounded) ELSE [loc[t] EXCEPT !.pc = back])

Sleepers(a) == {t \in Threads : At(t, "asleep") /\ loc[t].at = a}

FutexWake(t, a, n, l) ==
    \E W \in kSubset(Min({n, Cardinality(Sleepers(a))}), Sleepers(a)) :
        loc' = [u \in Threads |-> IF u = t THEN l ELSE IF u \in W THEN Awake(loc[u]) ELSE loc[u]]

Expire(t) ==
    /\ At(t, "asleep")
    /\ loc[t].bounded
    /\ Put(t, [Awake(loc[t]) EXCEPT !.pc = "leave", !.e = "timedout"])
    /\ UNCHANGED <<mutex, cond, tokens, calls>>

\* Variant: the operation is not known, as it was before it was answered.
RequeueNobody(val, move) == 0

\* How many a FUTEX_REQUEUE wakes: those to wake and those to move.
RequeueCount(val, move) == val + move

-----------------------------------------------------------------------------
(***************************************************************************)
(* pthread_mutex_lock without a deadline, and pthread_mutex_unlock.        *)
(***************************************************************************)
TryLock(t) ==
    /\ At(t, "lock")
    /\ word' = IF word = 0 THEN 1 ELSE word
    /\ IF word = 0 THEN Put(t, To(t, loc[t].then)) ELSE Go(t, "swap")
    /\ UNCHANGED <<blockers, cond, tokens, calls>>

\* Variants: the word is marked as merely held; a held one is taken.
SwapUnmarked(t) ==
    /\ At(t, "swap")
    /\ word' = IF word = 0 THEN 1 ELSE 2
    /\ IF word = 0 THEN Put(t, To(t, loc[t].then)) ELSE Go(t, "held")
    /\ UNCHANGED <<blockers, cond, tokens, calls>>

SwapTakes(t) ==
    /\ At(t, "swap")
    /\ word' = 2
    /\ IF word < 2 THEN Put(t, To(t, loc[t].then)) ELSE Go(t, "held")
    /\ UNCHANGED <<blockers, cond, tokens, calls>>

Swap(t) ==
    /\ At(t, "swap")
    /\ word' = 2
    /\ IF word = 0 THEN Put(t, To(t, loc[t].then)) ELSE Go(t, "held")
    /\ UNCHANGED <<blockers, cond, tokens, calls>>

Held(t) ==
    /\ At(t, "held")
    /\ FutexWait(t, M, word = 2, "swap", FALSE)
    /\ UNCHANGED <<mutex, cond, tokens, calls>>

Unlock(t) ==
    /\ At(t, "unlock")
    /\ Put(t, [loc[t] EXCEPT !.pc = "release", !.saw = blockers])
    /\ UNCHANGED <<mutex, cond, tokens, calls>>

Release(t) ==
    /\ At(t, "release")
    /\ word' = 0
    /\ Put(t, [IF loc[t].saw # 0 \/ word = 2 THEN [loc[t] EXCEPT !.pc = "wake"]
                ELSE To(t, loc[t].then) EXCEPT !.saw = 0])
    /\ UNCHANGED <<blockers, cond, tokens, calls>>

Wake(t) ==
    /\ At(t, "wake")
    /\ FutexWake(t, M, 1, To(t, loc[t].then))
    /\ UNCHANGED <<mutex, cond, tokens, calls>>

-----------------------------------------------------------------------------
(***************************************************************************)
(* The program.                                                            *)
(***************************************************************************)
Begin(t) ==
    /\ At(t, "idle")
    /\ calls[t] > 0
    /\ calls' = [calls EXCEPT ![t] = @ - 1]
    /\ Put(t, [Idle EXCEPT !.pc = "lock", !.then = IF t \in Waiters THEN "check" ELSE "give"])
    /\ UNCHANGED <<mutex, cond, tokens>>

Give(t) ==
    /\ At(t, "give")
    /\ \E n \in {1, All}, in \in BOOLEAN :
           /\ tokens' = tokens + n
           /\ Put(t, [loc[t] EXCEPT !.n = n, !.inside = in,
                                    !.pc = IF in THEN "signal" ELSE "unlock", !.then = "signal"])
    /\ UNCHANGED <<mutex, cond, calls>>

\* A token is taken, or the waiter has waited long enough; otherwise it waits:
\* its node goes on the list, at the head, and the mutex is unlocked.
Check(t) ==
    /\ At(t, "check")
    /\ \/ /\ tokens > 0
          /\ tokens' = tokens - 1
          /\ GoUnlock(t, "idle")
          /\ UNCHANGED cond
       \/ /\ tokens = 0 /\ loc[t].e = "timedout"
          /\ GoUnlock(t, "idle")
          /\ UNCHANGED <<tokens, cond>>
       \/ /\ tokens = 0 /\ loc[t].e = "ok"
          /\ head' = t
          /\ tail' = IF tail = None THEN t ELSE tail
          /\ node' = [u \in Waiters |->
                 IF u = t THEN [NoNode EXCEPT !.next = head, !.state = "WAITING", !.barrier = 2]
                 ELSE IF tail # None /\ u = head THEN [node[u] EXCEPT !.prev = t] ELSE node[u]]
          /\ GoUnlock(t, "block")
          /\ UNCHANGED <<tokens, ref>>
    /\ UNCHANGED <<mutex, calls>>

-----------------------------------------------------------------------------
(***************************************************************************)
(* pthread_cond_timedwait, from the loop that sleeps on.                   *)
(***************************************************************************)
Block(t) ==
    /\ At(t, "block")
    /\ \/ /\ t \in Timed /\ "past" \in Remaining
          /\ Put(t, [loc[t] EXCEPT !.pc = "leave", !.e = "timedout"])
       \/ \E r \in IF t \in Timed THEN Remaining \ {"past"} ELSE {"none"} :
              FutexWait(t, Barrier(t), node[t].barrier = 2, "again", Bound(r))
    /\ UNCHANGED <<mutex, cond, tokens, calls>>

Again(t) ==
    /\ At(t, "again")
    /\ Go(t, IF node[t].barrier = 2 THEN "block" ELSE "leave")
    /\ UNCHANGED <<mutex, cond, tokens, calls>>

Leave(t) ==
    /\ At(t, "leave")
    /\ node' = IF node[t].state = "WAITING" THEN [node EXCEPT ![t].state = "LEAVING"] ELSE node
    /\ Go(t, IF node[t].state = "WAITING" THEN "unlink" ELSE "barrier")
    /\ UNCHANGED <<mutex, head, tail, ref, tokens, calls>>

\* Under _c_lock, on the list it is on, which may no longer be the variable's.
Unlink(t) ==
    LET p == node[t].prev
        q == node[t].next
    IN  /\ At(t, "unlink")
        /\ head' = IF head = t THEN q ELSE head
        /\ tail' = IF tail = t THEN p ELSE tail
        /\ node' = [u \in Waiters |->
               [node[u] EXCEPT !.next = IF head # t /\ u = p THEN q ELSE @,
                               !.prev = IF tail # t /\ u = q THEN p ELSE @]]
        /\ IF node[t].notify = None THEN Put(t, ToLock(t, "return")) ELSE Go(t, "notify")
        /\ UNCHANGED <<mutex, ref, tokens, calls>>

Notify(t) ==
    LET g == node[t].notify
    IN  /\ At(t, "notify")
        /\ ref' = [ref EXCEPT ![g] = @ - 1]
        /\ IF ref[g] = 1 THEN Go(t, "notified") ELSE Put(t, ToLock(t, "return"))
        /\ UNCHANGED <<mutex, head, tail, node, tokens, calls>>

Notified(t) ==
    /\ At(t, "notified")
    /\ FutexWake(t, Ref(node[t].notify), 1, ToLock(t, "return"))
    /\ UNCHANGED <<mutex, cond, tokens, calls>>

\* lock(&node.barrier): only its opener writes it, and once; what the lock
\* leaves there is not looked at again.
LockBarrier(t) ==
    /\ At(t, "barrier")
    /\ \/ /\ node[t].barrier = 2
          /\ FutexWait(t, Barrier(t), TRUE, "barrier", FALSE)
          /\ UNCHANGED node
       \/ /\ node[t].barrier = 0
          /\ node' = [node EXCEPT ![t].barrier = 1]
          /\ Put(t, ToLock(t, "pass"))
    /\ UNCHANGED <<mutex, head, tail, ref, tokens, calls>>

\* With the mutex: the first of those signalled together counts itself a
\* waiter of the mutex, the last takes that back.
Pass(t) ==
    /\ At(t, "pass")
    /\ blockers' = IF node[t].next = None THEN blockers + 1 ELSE blockers
    /\ Go(t, IF node[t].prev = None THEN "last" ELSE "mark")
    /\ UNCHANGED <<word, cond, tokens, calls>>

Last(t) ==
    /\ At(t, "last")
    /\ blockers' = blockers - 1
    /\ Go(t, "return")
    /\ UNCHANGED <<word, cond, tokens, calls>>

MarkWord(t) ==
    /\ At(t, "mark")
    /\ word' = 2
    /\ Go(t, "open_next")
    /\ UNCHANGED <<blockers, cond, tokens, calls>>

\* unlock_requeue of the barrier of the one signalled next.
OpenNext(t) ==
    /\ At(t, "open_next")
    /\ node' = [node EXCEPT ![node[t].prev].barrier = 0]
    /\ Go(t, "requeue")
    /\ UNCHANGED <<mutex, head, tail, ref, tokens, calls>>

Requeue(t) ==
    /\ At(t, "requeue")
    /\ FutexWake(t, Barrier(node[t].prev), RequeueCount(0, 1), To(t, "return"))
    /\ UNCHANGED <<mutex, cond, tokens, calls>>

Return(t) ==
    /\ At(t, "return")
    /\ node' = [node EXCEPT ![t] = NoNode]
    /\ Go(t, "check")
    /\ UNCHANGED <<mutex, head, tail, ref, tokens, calls>>

-----------------------------------------------------------------------------
(***************************************************************************)
(* __private_cond_signal.                                                  *)
(***************************************************************************)
\* From p on, towards the newer: up to n that still wait, and those leaving.
Sweep[p \in Waiters \cup {None}, n \in 0..All] ==
    IF n = 0 \/ p = None THEN [sig |-> <<>>, leaving |-> {}, rest |-> p]
    ELSE LET more == Sweep[node[p].prev, IF node[p].state = "WAITING" THEN n - 1 ELSE n]
         IN  IF node[p].state = "WAITING"
             THEN [more EXCEPT !.sig = <<p>> \o @]
             ELSE [more EXCEPT !.leaving = @ \cup {p}]

AfterSignal(l) == [l EXCEPT !.pc = IF l.inside THEN "unlock" ELSE "idle", !.then = "idle",
                            !.first = None, !.n = 0, !.inside = FALSE]

\* Variant: those leaving are not waited for.
SettleAtOnce(t) ==
    /\ At(t, "settle")
    /\ IF loc[t].first = None THEN Put(t, AfterSignal(loc[t])) ELSE Go(t, "open")
    /\ UNCHANGED <<mutex, cond, tokens, calls>>

Signal(t) ==
    LET s == Sweep[tail, loc[t].n]
        sig == {s.sig[i] : i \in DOMAIN s.sig}
        cut == IF s.rest = None THEN None ELSE node[s.rest].next
    IN  /\ At(t, "signal")
        /\ node' = [u \in Waiters |->
               [node[u] EXCEPT !.state = IF u \in sig THEN "SIGNALED" ELSE @,
                               !.notify = IF u \in s.leaving THEN t ELSE @,
                               !.prev = IF u = cut THEN None ELSE @,
                               !.next = IF u = s.rest THEN None ELSE @]]
        /\ tail' = s.rest
        /\ head' = IF s.rest = None THEN None ELSE head
        /\ ref' = [ref EXCEPT ![t] = Cardinality(s.leaving)]
        /\ Put(t, [loc[t] EXCEPT !.pc = "settle", !.first = IF s.sig = <<>> THEN None ELSE s.sig[1]])
        /\ UNCHANGED <<mutex, tokens, calls>>

\* Those leaving take themselves off the list before anybody goes on.
Settle(t) ==
    /\ At(t, "settle")
    /\ \/ ref[t] # 0 /\ FutexWait(t, Ref(t), TRUE, "settle", FALSE)
       \/ /\ ref[t] = 0
          /\ IF loc[t].first = None THEN Put(t, AfterSignal(loc[t])) ELSE Go(t, "open")
    /\ UNCHANGED <<mutex, cond, tokens, calls>>

Open(t) ==
    /\ At(t, "open")
    /\ node' = [node EXCEPT ![loc[t].first].barrier = 0]
    /\ Go(t, "opened")
    /\ UNCHANGED <<mutex, head, tail, ref, tokens, calls>>

Opened(t) ==
    /\ At(t, "opened")
    /\ FutexWake(t, Barrier(loc[t].first), 1, AfterSignal(loc[t]))
    /\ UNCHANGED <<mutex, cond, tokens, calls>>

-----------------------------------------------------------------------------
WaiterStep(t) ==
    \/ Check(t) \/ Block(t) \/ Again(t) \/ Leave(t) \/ Unlink(t) \/ Notify(t) \/ Notified(t)
    \/ LockBarrier(t) \/ Pass(t) \/ Last(t) \/ MarkWord(t) \/ OpenNext(t)
    \/ Requeue(t) \/ Return(t) \/ Expire(t)

GiverStep(t) == Give(t) \/ Signal(t) \/ Settle(t) \/ Open(t) \/ Opened(t)

Step(t) ==
    \/ TryLock(t) \/ Swap(t) \/ Held(t) \/ Unlock(t) \/ Release(t) \/ Wake(t)
    \/ t \in Waiters /\ WaiterStep(t)
    \/ t \in Givers /\ GiverStep(t)

Next == \E t \in Threads : Begin(t) \/ Step(t)

Spec == Init /\ [][Next]_vars

\* A thread that can go on does; a bounded wait of the environment ends.
FairSpec == Spec /\ \A t \in Threads : WF_vars(Step(t))

-----------------------------------------------------------------------------
HoldsAt(l) ==
    \/ l.pc \in {"check", "give", "unlock", "release", "pass", "last", "mark", "open_next",
                 "requeue", "return"}
    \/ l.inside /\ l.pc # "idle"

Holds(t) == HoldsAt(loc[t])

\* At most one thread is between a lock, or the return of a wait, and its
\* unlock, and the word says that somebody is.
MutexHeldAlone ==
    /\ Cardinality({t \in Threads : Holds(t)}) <= 1
    /\ (\E t \in Threads : Holds(t)) => word # 0

Live(u) == u = None \/ node[u].state # "none"

\* Waiters are on their threads' stacks: the list, and whatever a step is about
\* to follow, leads only to nodes and counts of calls that have not returned.
NodesInUse ==
    /\ Live(head) /\ Live(tail)
    /\ \A t \in Waiters :
           /\ At(t, "unlink") => Live(node[t].prev) /\ Live(node[t].next)
           /\ At(t, "notify") => ref[node[t].notify] > 0
           /\ At(t, "open_next") => Live(node[t].prev)
    /\ \A t \in Givers : At(t, "open") => Live(loc[t].first)

\* Whoever was signalled returns from its wait, however many were signalled
\* together and whichever of them timed out meanwhile; and so does, signalled or
\* not, whoever stated a deadline.
WaitsReturn ==
    \A t \in Waiters :
        (node[t].state = "SIGNALED" \/ (t \in Timed /\ node[t].state # "none")) ~> node[t].state = "none"

\* What was given is taken while anybody is left to take it: no signal is lost.
GivenIsTaken == tokens > 0 ~> (tokens = 0 \/ \A t \in Waiters : At(t, "idle"))

-----------------------------------------------------------------------------
\* What a thread's place says of its locals: a lock leads into the section it
\* guards and an unlock out of it, a sleeper goes on before it has the mutex
\* unless it signals from inside, and only the sleep of a wait is bounded.
Sound(l) ==
    /\ DOMAIN l = DOMAIN Idle
    /\ \/ l.pc \in {"lock", "swap", "held"}
       \/ l.pc = "asleep" /\ l.back = "swap"
       => l.then \in {"check", "give", "return", "pass"}
    /\ l.pc \in {"unlock", "release", "wake"} => l.then \in {"idle", "signal", "block"}
    /\ l.pc = "asleep" => l.back \in {"swap", "again", "barrier", "settle"}
    /\ l.inside => \/ l.pc \in {"signal", "settle", "open", "opened"}
                   \/ l.pc = "asleep" /\ l.back = "settle"
    /\ l.bounded => l.pc = "asleep" /\ l.back = "again"

\* MutexHeldAlone, without counting, and what it rests on.
HeldInv ==
    /\ DOMAIN loc = Threads
    /\ \A t \in Threads : Sound(loc[t])
    /\ \A t, u \in Threads : Holds(t) /\ Holds(u) => t = u
    /\ \A t \in Threads : Holds(t) => word # 0
=============================================================================
