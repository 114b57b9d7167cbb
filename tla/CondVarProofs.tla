--------------------------- MODULE CondVarProofs ----------------------------
(***************************************************************************)
(* Proofs about the condition variable, for any number of waiters and      *)
(* givers: at most one thread is between lock and unlock of its mutex.     *)
(*                                                                         *)
(* HeldInv is the invariant: a thread is at a place where its fields say   *)
(* what they should (Sound), whoever holds the mutex holds it alone, and   *)
(* the word is 0 only when nobody does.  A waiter that is woken goes on    *)
(* where its sleep left it, so waking changes neither.                     *)
(***************************************************************************)
EXTENDS CondVar, FiniteSetTheorems, TLAPS

\* Whoever is woken goes on at a place that holds the mutex no more and no less.
LEMMA AwakeSound ==
    ASSUME NEW l, Sound(l), l.pc = "asleep"
    PROVE  Sound(Awake(l)) /\ (HoldsAt(Awake(l)) <=> HoldsAt(l))
<1> DEFINE m == Awake(l)
<1>1. DOMAIN l = DOMAIN Idle
  BY DEF Sound
<1>2. DOMAIN m = DOMAIN l
  BY DEF Awake
<1>3. /\ m.pc = l.back /\ m.back = "" /\ m.bounded = FALSE
      /\ m.then = l.then /\ m.inside = l.inside
  BY <1>1 DEF Awake, Idle
<1>4. Sound(m) /\ (HoldsAt(m) <=> HoldsAt(l))
  <2> HIDE DEF m
  <2> QED
    BY <1>1, <1>2, <1>3 DEF Sound, HoldsAt
<1> QED
  BY <1>4

\* The step of one thread leaves the others where they are, or wakes them.
Others(t) ==
    /\ DOMAIN loc' = Threads
    /\ \A u \in Threads \ {t} :
           loc'[u] = loc[u] \/ (At(u, "asleep") /\ loc'[u] = Awake(loc[u]))

\* Moving one thread moves no other.
LEMMA PutOthers ==
    ASSUME NEW t \in Threads, NEW l, DOMAIN loc = Threads, Put(t, l)
    PROVE  Others(t) /\ loc'[t] = l
BY DEF Put, Others

\* A wake moves its own thread, and otherwise only ones that slept.
LEMMA WakeOthers ==
    ASSUME NEW t \in Threads, NEW l, NEW a, NEW n, DOMAIN loc = Threads, FutexWake(t, a, n, l)
    PROVE  Others(t) /\ loc'[t] = l
<1>1. PICK W \in kSubset(Min({n, Cardinality(Sleepers(a))}), Sleepers(a)) :
          loc' = [u \in Threads |-> IF u = t THEN l ELSE IF u \in W THEN Awake(loc[u]) ELSE loc[u]]
  BY DEF FutexWake
<1>2. \A u \in W : At(u, "asleep")
  BY DEF kSubset, Sleepers
<1> QED
  BY <1>1, <1>2 DEF Others

\* A step keeps the invariant if it keeps its thread's place sound and takes
\* the mutex only when the word is 0, and gives up the word only with the mutex.
LEMMA StepHeld ==
    ASSUME HeldInv, NEW t \in Threads, Others(t), Sound(loc'[t]),
           \/ HoldsAt(loc'[t]) => Holds(t)
           \/ word = 0,
           HoldsAt(loc'[t]) => word' # 0,
           word' = 0 => word = 0 \/ Holds(t)
    PROVE  HeldInv'
<1>1. \A u \in Threads \ {t} : Sound(loc'[u]) /\ (Holds(u)' <=> Holds(u))
  BY AwakeSound DEF Others, HeldInv, Holds, At
<1>2. Holds(t)' <=> HoldsAt(loc'[t])
  BY DEF Holds
<1> QED
  BY <1>1, <1>2 DEF HeldInv, Others

\* A step that leaves the word alone, or marks it, keeps the invariant if the
\* thread holds the mutex after it no more than before.
LEMMA PlainHeld ==
    ASSUME HeldInv, NEW t \in Threads, Others(t), Sound(loc'[t]), word' = word \/ word' = 2,
           HoldsAt(loc'[t]) => Holds(t)
    PROVE  HeldInv'
<1>1. HoldsAt(loc'[t]) => word' # 0
  BY DEF HeldInv
<1> QED
  BY <1>1, StepHeld
\* The same, of a thread that is put somewhere, waking others or not.
LEMMA PutHeld ==
    ASSUME HeldInv, NEW t \in Threads, NEW m,
           Put(t, m) \/ \E a, n : FutexWake(t, a, n, m),
           Sound(m), HoldsAt(m) => Holds(t), word' = word \/ word' = 2
    PROVE  HeldInv'
<1>1. DOMAIN loc = Threads
  BY DEF HeldInv
<1>2. Others(t) /\ loc'[t] = m
  BY <1>1, PutOthers, WakeOthers
<1> QED
  BY <1>2, PlainHeld

\* A wait on a word keeps it: whoever sleeps, or finds the word changed, goes on
\* where the futex call returns, which is before it has the mutex or inside it.
LEMMA WaitHeld ==
    ASSUME HeldInv, NEW t \in Threads, NEW a, NEW same, NEW back, NEW bounded,
           FutexWait(t, a, same, back, bounded), word' = word,
           loc[t].pc \notin {"idle", "asleep"},
           back \in {"swap", "again", "barrier", "settle"},
           loc[t].inside => back = "settle",
           bounded => back = "again",
           back = "swap" => loc[t].then \in {"check", "give", "return", "pass"}
    PROVE  HeldInv'
<1> DEFINE l == loc[t]
           m == loc'[t]
<1>0. DOMAIN loc = Threads /\ Sound(l)
  BY DEF HeldInv
<1>1. CASE same
  <2>1. Others(t) /\ m = Asleep(l, a, back, bounded)
    BY <1>0, <1>1, PutOthers DEF FutexWait
  <2>2. Sound(m) /\ (HoldsAt(m) => HoldsAt(l))
    BY <1>0, <2>1 DEF Asleep, Sound, HoldsAt, Idle
  <2> QED
    BY <2>1, <2>2, PlainHeld DEF Holds
<1>2. CASE ~same
  <2>1. Others(t) /\ m = [l EXCEPT !.pc = back]
    BY <1>0, <1>2, PutOthers DEF FutexWait
  <2>2. Sound(m) /\ (HoldsAt(m) => HoldsAt(l))
    BY <1>0, <2>1 DEF Sound, HoldsAt, Idle
  <2> QED
    BY <2>1, <2>2, PlainHeld DEF Holds
<1> QED
  BY <1>1, <1>2

\* Every step of the mutex keeps the invariant.
LEMMA MutexHeld ==
    ASSUME HeldInv, NEW t \in Threads,
           TryLock(t) \/ Swap(t) \/ Held(t) \/ Unlock(t) \/ Release(t) \/ Wake(t)
    PROVE  HeldInv'
<1> DEFINE l == loc[t]
           m == loc'[t]
<1>0. DOMAIN loc = Threads /\ Sound(l)
  BY DEF HeldInv
<1>1. CASE TryLock(t)
  <2>1. Others(t) /\ m = IF word = 0 THEN To(t, l.then) ELSE [l EXCEPT !.pc = "swap"]
    BY <1>0, <1>1, PutOthers DEF TryLock, Go
  <2>2. Sound(m) /\ (HoldsAt(m) => word = 0)
    BY <1>0, <1>1, <2>1 DEF TryLock, At, To, Sound, HoldsAt, Idle
  <2> QED
    BY <1>1, <2>1, <2>2, StepHeld DEF TryLock
<1>2. CASE Swap(t)
  <2>1. Others(t) /\ m = IF word = 0 THEN To(t, l.then) ELSE [l EXCEPT !.pc = "held"]
    BY <1>0, <1>2, PutOthers DEF Swap, Go
  <2>2. Sound(m) /\ (HoldsAt(m) => word = 0)
    BY <1>0, <1>2, <2>1 DEF Swap, At, To, Sound, HoldsAt, Idle
  <2> QED
    BY <1>2, <2>1, <2>2, StepHeld DEF Swap
<1>3. CASE Held(t)
  <2>1. FutexWait(t, M, word = 2, "swap", FALSE) /\ word' = word /\ l.pc = "held"
    BY <1>3 DEF Held, At, mutex
  <2>2. l.then \in {"check", "give", "return", "pass"} /\ ~l.inside
    BY <1>0, <2>1 DEF Sound
  <2> QED
    BY <2>1, <2>2, WaitHeld
<1>4. CASE Unlock(t)
  <2>1. Others(t) /\ m = [l EXCEPT !.pc = "release", !.saw = blockers]
    BY <1>0, <1>4, PutOthers DEF Unlock
  <2>2. Sound(m) /\ HoldsAt(l)
    BY <1>0, <1>4, <2>1 DEF Unlock, At, Sound, HoldsAt, Idle
  <2> QED
    BY <1>4, <2>1, <2>2, StepHeld DEF Unlock, mutex, HeldInv, Holds
<1>5. CASE Release(t)
  <2>1. Others(t) /\ m = [IF l.saw # 0 \/ word = 2 THEN [l EXCEPT !.pc = "wake"]
                           ELSE To(t, l.then) EXCEPT !.saw = 0]
    BY <1>0, <1>5, PutOthers DEF Release
  <2>2. Sound(m) /\ HoldsAt(l) /\ ~HoldsAt(m)
    BY <1>0, <1>5, <2>1 DEF Release, At, To, Sound, HoldsAt, Idle
  <2> QED
    BY <2>1, <2>2, StepHeld DEF Holds
<1>6. CASE Wake(t)
  <2>1. Others(t) /\ m = To(t, l.then)
    BY <1>0, <1>6, WakeOthers DEF Wake
  <2>2. Sound(m) /\ ~HoldsAt(m)
    BY <1>0, <1>6, <2>1 DEF Wake, At, To, Sound, HoldsAt, Idle
  <2> QED
    BY <1>6, <2>1, <2>2, StepHeld DEF Wake, mutex
<1> QED
  BY <1>1, <1>2, <1>3, <1>4, <1>5, <1>6

\* Every step of a waiter keeps it: it comes by the mutex in lock alone, and
\* gives it up in unlock alone, however its wait ends.
LEMMA WaiterHeld ==
    ASSUME HeldInv, NEW t \in Threads, WaiterStep(t)
    PROVE  HeldInv'
<1> DEFINE l == loc[t]
<1>0. DOMAIN loc = Threads /\ Sound(l)
  BY DEF HeldInv
<1>1. CASE Check(t)
  <2>1. PICK next \in {"idle", "block"} : GoUnlock(t, next)
    BY <1>1 DEF Check
  <2> DEFINE m == [l EXCEPT !.pc = "unlock", !.then = next]
  <2>2. Put(t, m) /\ word' = word
    BY <1>1, <2>1 DEF Check, GoUnlock, mutex
  <2>3. Sound(m) /\ HoldsAt(l)
    BY <1>0, <1>1 DEF Check, At, Sound, HoldsAt, Idle
  <2> HIDE DEF m
  <2> QED
    BY <2>2, <2>3, PutHeld DEF Holds
<1>2. CASE Block(t)
  <2>1. l.pc = "block" /\ word' = word /\ ~l.inside
    BY <1>0, <1>2 DEF Block, At, Sound, mutex
  <2>2. CASE Put(t, [l EXCEPT !.pc = "leave", !.e = "timedout"])
    <3> DEFINE m == [l EXCEPT !.pc = "leave", !.e = "timedout"]
    <3>1. Sound(m) /\ ~HoldsAt(m)
      BY <1>0, <2>1 DEF Sound, HoldsAt, Idle
    <3> HIDE DEF m
    <3>2. Put(t, m)
      BY <2>2 DEF m
    <3> QED
      BY <2>1, <3>1, <3>2, PutHeld
  <2>3. ASSUME NEW r, FutexWait(t, Barrier(t), node[t].barrier = 2, "again", Bound(r))
        PROVE  HeldInv'
    BY <2>1, <2>3, WaitHeld
  <2> QED
    BY <1>2, <2>2, <2>3 DEF Block
<1>3. CASE Again(t)
  <2> DEFINE m == [l EXCEPT !.pc = IF node[t].barrier = 2 THEN "block" ELSE "leave"]
  <2>1. Put(t, m) /\ word' = word
    BY <1>3 DEF Again, Go, mutex
  <2>2. Sound(m) /\ (HoldsAt(m) => HoldsAt(l))
    BY <1>0, <1>3 DEF Again, At, Sound, HoldsAt, Idle
  <2> HIDE DEF m
  <2> QED
    BY <2>1, <2>2, PutHeld DEF Holds
<1>4. CASE Leave(t)
  <2> DEFINE m == [l EXCEPT !.pc = IF node[t].state = "WAITING" THEN "unlink" ELSE "barrier"]
  <2>1. Put(t, m) /\ word' = word
    BY <1>4 DEF Leave, Go, mutex
  <2>2. Sound(m) /\ (HoldsAt(m) => HoldsAt(l))
    BY <1>0, <1>4 DEF Leave, At, Sound, HoldsAt, Idle
  <2> HIDE DEF m
  <2> QED
    BY <2>1, <2>2, PutHeld DEF Holds
<1>5. CASE Unlink(t)
  <2> DEFINE m == IF node[t].notify = None THEN ToLock(t, "return") ELSE [l EXCEPT !.pc = "notify"]
  <2>1. Put(t, m) /\ word' = word
    BY <1>5 DEF Unlink, Go, mutex
  <2>2. Sound(m) /\ (HoldsAt(m) => HoldsAt(l))
    BY <1>0, <1>5 DEF Unlink, At, Sound, HoldsAt, Idle, ToLock
  <2> HIDE DEF m
  <2> QED
    BY <2>1, <2>2, PutHeld DEF Holds
<1>6. CASE Notify(t)
  <2> DEFINE m == IF ref[node[t].notify] = 1 THEN [l EXCEPT !.pc = "notified"] ELSE ToLock(t, "return")
  <2>1. Put(t, m) /\ word' = word
    BY <1>6 DEF Notify, Go, mutex
  <2>2. Sound(m) /\ (HoldsAt(m) => HoldsAt(l))
    BY <1>0, <1>6 DEF Notify, At, Sound, HoldsAt, Idle, ToLock
  <2> HIDE DEF m
  <2> QED
    BY <2>1, <2>2, PutHeld DEF Holds
<1>7. CASE Notified(t)
  <2> DEFINE m == ToLock(t, "return")
  <2>1. (\E a, n : FutexWake(t, a, n, m)) /\ word' = word
    BY <1>7 DEF Notified, mutex
  <2>2. Sound(m) /\ (HoldsAt(m) => HoldsAt(l))
    BY <1>0, <1>7 DEF Notified, At, Sound, HoldsAt, Idle, ToLock
  <2> HIDE DEF m
  <2> QED
    BY <2>1, <2>2, PutHeld DEF Holds
<1>8. CASE LockBarrier(t)
  <2>1. l.pc = "barrier" /\ word' = word /\ ~l.inside
    BY <1>0, <1>8 DEF LockBarrier, At, Sound, mutex
  <2>2. CASE FutexWait(t, Barrier(t), TRUE, "barrier", FALSE)
    BY <2>1, <2>2, WaitHeld
  <2>3. CASE Put(t, ToLock(t, "pass"))
    <3>1. Sound(ToLock(t, "pass")) /\ ~HoldsAt(ToLock(t, "pass"))
      BY <1>0, <2>1 DEF Sound, HoldsAt, ToLock, Idle
    <3> QED
      BY <2>1, <2>3, <3>1, PutHeld
  <2> QED
    BY <1>8, <2>2, <2>3 DEF LockBarrier
<1>9. CASE Pass(t)
  <2> DEFINE m == [l EXCEPT !.pc = IF node[t].prev = None THEN "last" ELSE "mark"]
  <2>1. Put(t, m) /\ word' = word
    BY <1>9 DEF Pass, Go
  <2>2. Sound(m) /\ (HoldsAt(m) => HoldsAt(l))
    BY <1>0, <1>9 DEF Pass, At, Sound, HoldsAt, Idle
  <2> HIDE DEF m
  <2> QED
    BY <2>1, <2>2, PutHeld DEF Holds
<1>10. CASE Last(t)
  <2> DEFINE m == [l EXCEPT !.pc = "return"]
  <2>1. Put(t, m) /\ word' = word
    BY <1>10 DEF Last, Go
  <2>2. Sound(m) /\ (HoldsAt(m) => HoldsAt(l))
    BY <1>0, <1>10 DEF Last, At, Sound, HoldsAt, Idle
  <2> HIDE DEF m
  <2> QED
    BY <2>1, <2>2, PutHeld DEF Holds
<1>11. CASE MarkWord(t)
  <2> DEFINE m == [l EXCEPT !.pc = "open_next"]
  <2>1. Put(t, m) /\ word' = 2
    BY <1>11 DEF MarkWord, Go
  <2>2. Sound(m) /\ (HoldsAt(m) => HoldsAt(l))
    BY <1>0, <1>11 DEF MarkWord, At, Sound, HoldsAt, Idle
  <2> HIDE DEF m
  <2> QED
    BY <2>1, <2>2, PutHeld DEF Holds
<1>12. CASE OpenNext(t)
  <2> DEFINE m == [l EXCEPT !.pc = "requeue"]
  <2>1. Put(t, m) /\ word' = word
    BY <1>12 DEF OpenNext, Go, mutex
  <2>2. Sound(m) /\ (HoldsAt(m) => HoldsAt(l))
    BY <1>0, <1>12 DEF OpenNext, At, Sound, HoldsAt, Idle
  <2> HIDE DEF m
  <2> QED
    BY <2>1, <2>2, PutHeld DEF Holds
<1>13. CASE Requeue(t)
  <2> DEFINE m == To(t, "return")
  <2>1. (\E a, n : FutexWake(t, a, n, m)) /\ word' = word
    BY <1>13 DEF Requeue, mutex
  <2>2. Sound(m) /\ (HoldsAt(m) => HoldsAt(l))
    BY <1>0, <1>13 DEF Requeue, At, Sound, HoldsAt, Idle, To
  <2> HIDE DEF m
  <2> QED
    BY <2>1, <2>2, PutHeld DEF Holds
<1>14. CASE Return(t)
  <2> DEFINE m == [l EXCEPT !.pc = "check"]
  <2>1. Put(t, m) /\ word' = word
    BY <1>14 DEF Return, Go, mutex
  <2>2. Sound(m) /\ (HoldsAt(m) => HoldsAt(l))
    BY <1>0, <1>14 DEF Return, At, Sound, HoldsAt, Idle
  <2> HIDE DEF m
  <2> QED
    BY <2>1, <2>2, PutHeld DEF Holds
<1>15. CASE Expire(t)
  <2> DEFINE m == [Awake(l) EXCEPT !.pc = "leave", !.e = "timedout"]
  <2>1. Put(t, m) /\ word' = word
    BY <1>15 DEF Expire, mutex
  <2>2. Sound(m) /\ (HoldsAt(m) => HoldsAt(l))
    BY <1>0, <1>15 DEF Expire, At, Sound, HoldsAt, Idle, Awake
  <2> HIDE DEF m
  <2> QED
    BY <2>1, <2>2, PutHeld DEF Holds
<1> QED
  BY <1>1, <1>2, <1>3, <1>4, <1>5, <1>6, <1>7, <1>8, <1>9, <1>10, <1>11, <1>12, <1>13, <1>14, <1>15 DEF WaiterStep

\* Every step of a giver keeps it: it signals with the mutex or without, and is
\* in the same case throughout.
LEMMA GiverHeld ==
    ASSUME HeldInv, NEW t \in Threads, GiverStep(t)
    PROVE  HeldInv'
<1> DEFINE l == loc[t]
<1>0. DOMAIN loc = Threads /\ Sound(l)
  BY DEF HeldInv
<1>1. CASE Give(t)
  <2>1. PICK n \in {1, All}, in \in BOOLEAN :
            Put(t, [l EXCEPT !.n = n, !.inside = in,
                             !.pc = IF in THEN "signal" ELSE "unlock", !.then = "signal"])
    BY <1>1 DEF Give
  <2> DEFINE m == [l EXCEPT !.n = n, !.inside = in,
                            !.pc = IF in THEN "signal" ELSE "unlock", !.then = "signal"]
  <2>2. Sound(m) /\ HoldsAt(l)
    BY <1>0, <1>1 DEF Give, At, Sound, HoldsAt, Idle
  <2>3. Put(t, m) /\ word' = word
    BY <1>1, <2>1 DEF Give, mutex
  <2> HIDE DEF m
  <2> QED
    BY <2>2, <2>3, PutHeld DEF Holds
<1>2. CASE Signal(t)
  <2>1. PICK first : Put(t, [l EXCEPT !.pc = "settle", !.first = first])
    BY <1>2, Zenon DEF Signal
  <2> DEFINE m == [l EXCEPT !.pc = "settle", !.first = first]
  <2>2. l.pc = "signal" /\ word' = word
    BY <1>2 DEF Signal, At, mutex
  <2>3. Sound(m) /\ (HoldsAt(m) => HoldsAt(l))
    BY <1>0, <2>2 DEF Sound, HoldsAt, Idle
  <2>4. Put(t, m)
    BY <2>1
  <2> HIDE DEF m
  <2> QED
    BY <2>2, <2>3, <2>4, PutHeld DEF Holds
<1>3. CASE Settle(t)
  <2>1. l.pc = "settle" /\ word' = word
    BY <1>3 DEF Settle, At, mutex
  <2>2. CASE FutexWait(t, Ref(t), TRUE, "settle", FALSE)
    BY <2>1, <2>2, WaitHeld
  <2>3. CASE Put(t, AfterSignal(l))
    <3>1. Sound(AfterSignal(l)) /\ (HoldsAt(AfterSignal(l)) => HoldsAt(l))
      BY <1>0, <2>1 DEF AfterSignal, Sound, HoldsAt, Idle
    <3> QED
      BY <2>1, <2>3, <3>1, PutHeld DEF Holds
  <2>4. CASE Go(t, "open")
    <3> DEFINE m == [l EXCEPT !.pc = "open"]
    <3>1. Sound(m) /\ (HoldsAt(m) => HoldsAt(l))
      BY <1>0, <2>1 DEF Sound, HoldsAt, Idle
    <3>2. Put(t, m)
      BY <2>4 DEF Go
    <3> HIDE DEF m
    <3> QED
      BY <2>1, <3>1, <3>2, PutHeld DEF Holds
  <2> QED
    BY <1>3, <2>2, <2>3, <2>4 DEF Settle
<1>4. CASE Open(t)
  <2> DEFINE m == [l EXCEPT !.pc = "opened"]
  <2>1. Put(t, m) /\ word' = word
    BY <1>4 DEF Open, Go, mutex
  <2>2. Sound(m) /\ (HoldsAt(m) => HoldsAt(l))
    BY <1>0, <1>4 DEF Open, At, Sound, HoldsAt, Idle
  <2> HIDE DEF m
  <2> QED
    BY <2>1, <2>2, PutHeld DEF Holds
<1>5. CASE Opened(t)
  <2> DEFINE m == AfterSignal(l)
  <2>1. (\E a, n : FutexWake(t, a, n, m)) /\ word' = word
    BY <1>5 DEF Opened, mutex
  <2>2. Sound(m) /\ (HoldsAt(m) => HoldsAt(l))
    BY <1>0, <1>5 DEF Opened, At, Sound, HoldsAt, Idle, AfterSignal
  <2> HIDE DEF m
  <2> QED
    BY <2>1, <2>2, PutHeld DEF Holds
<1> QED
  BY <1>1, <1>2, <1>3, <1>4, <1>5 DEF GiverStep

\* At rest, or with some asleep in a wait, nobody holds the mutex.
LEMMA InitHeld == Init => HeldInv
<1> SUFFICES ASSUME Init PROVE HeldInv
  OBVIOUS
<1>1. PICK p \in Programs : InitWith(p.queued)
  BY DEF Init
<1>2. DOMAIN loc = Threads
  BY <1>1 DEF InitWith
<1>3. ASSUME NEW t \in Threads PROVE Sound(loc[t]) /\ ~Holds(t)
  <2>1. loc[t] = Idle \/ loc[t] = Asleep(Idle, Barrier(t), "again", t \in Timed)
    BY <1>1 DEF InitWith
  <2>2. Sound(Idle) /\ ~HoldsAt(Idle)
    BY DEF Sound, HoldsAt, Idle
  <2>3. ASSUME NEW bounded
        PROVE  LET m == Asleep(Idle, Barrier(t), "again", bounded) IN Sound(m) /\ ~HoldsAt(m)
    <3> DEFINE m == Asleep(Idle, Barrier(t), "again", bounded)
    <3>1. /\ DOMAIN m = DOMAIN Idle
          /\ m.pc = "asleep" /\ m.back = "again" /\ m.inside = FALSE
      BY DEF Asleep, Idle
    <3> HIDE DEF m
    <3>2. Sound(m) /\ ~HoldsAt(m)
      BY <3>1 DEF Sound, HoldsAt
    <3> QED
      BY <3>2 DEF m
  <2> QED
    BY <2>1, <2>2, <2>3 DEF Holds
<1> QED
  BY <1>2, <1>3 DEF HeldInv

\* Every step of the program keeps the invariant.
LEMMA NextHeld == HeldInv /\ [Next]_vars => HeldInv'
<1> SUFFICES ASSUME HeldInv, [Next]_vars PROVE HeldInv'
  OBVIOUS
<1>1. ASSUME NEW t \in Threads, Begin(t) PROVE HeldInv'
  <2> DEFINE m == [Idle EXCEPT !.pc = "lock", !.then = IF t \in Waiters THEN "check" ELSE "give"]
  <2>1. Put(t, m) /\ word' = word
    BY <1>1 DEF Begin, mutex
  <2>2. Sound(m) /\ ~HoldsAt(m)
    BY DEF Sound, HoldsAt, Idle
  <2> HIDE DEF m
  <2> QED
    BY <2>1, <2>2, PutHeld
<1>2. ASSUME NEW t \in Threads, Step(t) PROVE HeldInv'
  BY <1>2, MutexHeld, WaiterHeld, GiverHeld DEF Step
<1>3. CASE UNCHANGED vars
  BY <1>3 DEF vars, mutex, HeldInv, Holds
<1> QED
  BY <1>1, <1>2, <1>3 DEF Next

\* With any number of waiters and givers, timed or not, whoever is signalled or
\* times out meanwhile: at most one thread is between lock and unlock.
THEOREM MutexHeldAloneAlways == Spec => []MutexHeldAlone
<1>1. HeldInv => MutexHeldAlone
  <2> SUFFICES ASSUME HeldInv PROVE MutexHeldAlone
    OBVIOUS
  <2> DEFINE H == {t \in Threads : Holds(t)}
  <2>1. H = {} \/ \E t \in Threads : H = {t}
    BY DEF HeldInv
  <2>2. Cardinality(H) = 0 \/ Cardinality(H) = 1
    BY <2>1, FS_EmptySet, FS_Singleton, Zenon
  <2> QED
    BY <2>2 DEF HeldInv, MutexHeldAlone
<1> QED
  BY <1>1, InitHeld, NextHeld, PTL DEF Spec
=============================================================================
