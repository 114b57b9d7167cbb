---------------------------- MODULE ThreadsProofs ---------------------------
(***************************************************************************)
(* Proofs about threads.                                                   *)
(*                                                                         *)
(* __clone and reap, for any number of tasks and records.  The invariant   *)
(* says who is responsible for each allocated record: the list, or one     *)
(* context that starts, links, waits for or frees it.                      *)
(*                                                                         *)
(* The thread-local variables of an image, for any number of threads,      *)
(* variables, keys and rounds: the steps of a thread that runs, and what   *)
(* one that ends does round by round and key by key, keep the invariant    *)
(* of ThreadVars, which says what VariablesKept does.                      *)
(***************************************************************************)
EXTENDS Threads, TLAPS

\* c has the record it is at to itself.
Holds(c) == pc[c] \in {"start", "link", "join", "free"}

Types ==
    /\ owner \in [Records -> Tasks \cup {None}]
    /\ done \subseteq Records
    /\ state \in [Tasks -> {"none", "run", "leave", "finished", "ended"}]
    /\ rec \in [Tasks -> Records \cup {None}]
    /\ joined \in [Tasks -> Nat]
    /\ pc \in [Contexts -> {"run", "reap", "join", "free", "alloc", "start", "link", "return"}]
    /\ at \in [Contexts -> Records \cup {None}]
    /\ new \in [Contexts -> Tasks \cup {None}]

\* t has begun, r is its record, and it has been waited for n times.
Begun(t, r, n) == t \in Tasks /\ state[t] # "none" /\ rec[t] = r /\ joined[t] = n

\* A record held is held once, and by a context that has the right to it.
Held ==
    /\ \A c \in Contexts : Holds(c) => at[c] \in Records /\ at[c] \notin done
    /\ \A c, d \in Contexts : Holds(c) /\ Holds(d) /\ at[c] = at[d] => c = d
    /\ \A c \in Contexts : pc[c] = "start" =>
           new[c] \in Tasks /\ owner[at[c]] = new[c] /\ state[new[c]] = "none"
    /\ \A c \in Contexts : pc[c] = "link" => owner[at[c]] = new[c] /\ Begun(new[c], at[c], 0)
    /\ \A c \in Contexts : pc[c] = "join" => Begun(owner[at[c]], at[c], 0)
    /\ \A c \in Contexts : pc[c] = "free" =>
           Begun(owner[at[c]], at[c], 1) /\ state[owner[at[c]]] = "ended"

\* So is one on the list, and a task not yet waited for is on it or held.
Accounted ==
    /\ \A r \in done : Begun(owner[r], r, 0)
    /\ \A t \in Tasks : state[t] = "none" => joined[t] = 0
    /\ \A t \in Tasks : state[t] # "none" /\ joined[t] = 0 =>
           /\ rec[t] \in Records /\ owner[rec[t]] = t
           /\ rec[t] \in done \/ \E c \in Contexts : pc[c] \in {"link", "join"} /\ at[c] = rec[t]
    /\ \A t \in Tasks : joined[t] # 0 => joined[t] = 1 /\ state[t] = "ended"

\* A task is new to one context, and only until that context's __clone returns.
NewOnce ==
    /\ \A c \in Contexts : new[c] # None => pc[c] \in {"start", "link", "return"}
    /\ \A c \in Contexts : pc[c] = "return" => new[c] \in Tasks /\ state[new[c]] # "none"
    /\ \A c, d \in Contexts : new[c] = new[d] /\ new[c] # None => c = d

IInv == Types /\ Held /\ Accounted /\ NewOnce

-----------------------------------------------------------------------------
\* Before the first __clone nothing is allocated and nothing begun.
LEMMA InitIInv == Init => IInv
BY NamesApart DEF Init, IInv, Types, Held, Accounted, NewOnce, Holds

\* reap takes a finished record off the list, and waits for its task outside
\* the lock: the record passes from the list to one context.
LEMMA ReapIInv == ASSUME IInv, NEW c \in Contexts, Reap(c) PROVE IInv'
<1>1. CASE \E r \in Finished : at' = [at EXCEPT ![c] = r] /\ done' = done \ {r} /\ Goto(c, "join")
  <2>1. PICK r \in done : at' = [at EXCEPT ![c] = r] /\ done' = done \ {r} /\ Goto(c, "join")
    BY <1>1, Zenon DEF Finished
  <2>2. r \in Records /\ ~Holds(c) /\ new[c] = None /\ Begun(owner[r], r, 0)
    BY DEF Reap, IInv, Types, Held, Accounted, NewOnce, Holds
  <2>3. UNCHANGED <<owner, state, rec, joined, new>>
    BY DEF Reap, mem, task
  <2> USE <2>1, <2>2, <2>3 DEF Goto, IInv, Types
  <2>4. Types'
    OBVIOUS
  <2>5. Held'
    BY DEF Held, Holds, Begun
  <2>6. Accounted'
    BY DEF Accounted, Begun, Reap
  <2>7. NewOnce'
    BY DEF NewOnce
  <2> QED
    BY <2>4, <2>5, <2>6, <2>7
<1>2. CASE Goto(c, "alloc") /\ UNCHANGED <<done, at>>
  <2>1. UNCHANGED <<owner, state, rec, joined, new>> /\ ~Holds(c) /\ new[c] = None /\ pc[c] = "reap"
    BY DEF Reap, mem, task, Holds, IInv, NewOnce
  <2> QED
    BY <1>2, <2>1 DEF Goto, IInv, Types, Held, Accounted, NewOnce, Holds, Begun
<1> QED
  BY <1>1, <1>2 DEF Reap

\* The wait counts once, and only when the task has ended.
LEMMA JoinIInv == ASSUME IInv, NEW c \in Contexts, Join(c) PROVE IInv'
<1> DEFINE t == owner[at[c]]
<1>1. /\ pc[c] = "join" /\ Goto(c, "free") /\ state[t] = "ended"
      /\ joined' = [joined EXCEPT ![t] = @ + 1]
      /\ UNCHANGED <<owner, done, state, rec, at, new>>
  BY DEF Join, mem
<1>2. t \in Tasks /\ joined[t] = 0 /\ rec[t] = at[c] /\ at[c] \in Records /\ at[c] \notin done
  BY <1>1 DEF IInv, Held, Begun, Holds
<1> HIDE DEF t
<1>3. Types'
  BY <1>1, <1>2 DEF IInv, Types, Goto
<1>4. joined'[t] = 1 /\ \A u \in Tasks \ {t} : joined'[u] = joined[u]
  BY <1>1, <1>2 DEF IInv, Types
<1>5. Held'
  BY <1>1, <1>2, <1>4 DEF IInv, Types, Held, Holds, Begun, Goto, t
<1>6. Accounted'
  BY <1>1, <1>2, <1>4 DEF IInv, Types, Accounted, Begun, Goto
<1>7. NewOnce'
  BY <1>1 DEF IInv, Types, NewOnce, Goto
<1> QED
  BY <1>3, <1>5, <1>6, <1>7 DEF IInv

\* The record freed is on no list and held by nobody else.
LEMMA FreeIInv == ASSUME IInv, NEW c \in Contexts, Free(c) PROVE IInv'
<1>1. /\ pc[c] = "free" /\ Goto(c, "reap") /\ owner' = [owner EXCEPT ![at[c]] = None]
      /\ UNCHANGED <<done, state, rec, joined, at, new>>
  BY DEF Free, task
<1>2. Holds(c) /\ at[c] \in Records /\ at[c] \notin done /\ Begun(owner[at[c]], at[c], 1)
  BY <1>1 DEF IInv, Held, Holds
<1>3. Types'
  BY <1>1, <1>2 DEF IInv, Types, Goto
<1>4. Held'
  BY <1>1, <1>2 DEF IInv, Types, Held, Holds, Begun, Goto
<1>5. Accounted'
  BY <1>1, <1>2 DEF IInv, Types, Accounted, Begun, Goto
<1>6. NewOnce'
  BY <1>1 DEF IInv, Types, NewOnce, Goto
<1> QED
  BY <1>3, <1>4, <1>5, <1>6 DEF IInv

\* The record allocated is nobody's, and the task it is for not yet begun.
LEMMA AllocIInv == ASSUME IInv, NEW c \in Contexts, Alloc(c) PROVE IInv'
<1>1. pc[c] = "alloc" /\ UNCHANGED <<done, state, rec, joined>> /\ new[c] = None
  BY DEF Alloc, task, IInv, NewOnce
<1>2. ASSUME NEW r \in Records, NEW t \in Tasks, NewRecord(c, r, t) PROVE IInv'
  <2>1. t # None /\ \A x \in Contexts : new[x] # t
    BY <1>2, NamesApart DEF NewRecord
  <2>2. r \notin done /\ \A d \in Contexts : Holds(d) => at[d] # r
    BY <1>2, NamesApart DEF NewRecord, IInv, Held, Accounted, Begun, Holds
  <2>3. /\ owner[r] = None /\ state[t] = "none" /\ owner' = [owner EXCEPT ![r] = t]
        /\ at' = [at EXCEPT ![c] = r] /\ new' = [new EXCEPT ![c] = t] /\ Goto(c, "start")
    BY <1>2 DEF NewRecord
  <2>4. Types'
    BY <1>1, <2>3 DEF IInv, Types, Goto
  <2>5. Held'
    BY <1>1, <2>1, <2>2, <2>3 DEF IInv, Types, Held, Holds, Begun, Goto
  <2>6. Accounted'
    BY <1>1, <2>1, <2>2, <2>3, NamesApart DEF IInv, Types, Accounted, Begun, Goto
  <2>7. NewOnce'
    BY <1>1, <2>1, <2>3 DEF IInv, Types, NewOnce, Goto
  <2> QED
    BY <2>4, <2>5, <2>6, <2>7 DEF IInv
<1>3. CASE Goto(c, "run") /\ UNCHANGED <<mem, at, new>>
  BY <1>1, <1>3 DEF mem, Goto, IInv, Types, Held, Accounted, NewOnce, Holds, Begun
<1> QED
  BY <1>2, <1>3 DEF Alloc

\* The task starts with the record its creator holds; refused, it is freed.
LEMMA StartIInv == ASSUME IInv, NEW c \in Contexts, StartTask(c) PROVE IInv'
<1> DEFINE t == new[c]
<1>1. pc[c] = "start" /\ UNCHANGED <<done, joined, at>>
  BY DEF StartTask
<1>2. /\ Holds(c) /\ at[c] \in Records /\ at[c] \notin done
      /\ t \in Tasks /\ t # None /\ owner[at[c]] = t /\ state[t] = "none" /\ joined[t] = 0
  BY <1>1, NamesApart DEF IInv, Held, Holds, Accounted
<1>3. \A d \in Contexts : d # c => new[d] # t /\ (Holds(d) => at[d] # at[c])
  BY <1>2 DEF IInv, Held, NewOnce
<1> HIDE DEF t
<1>4. CASE Started(c)
  <2>1. /\ state' = [state EXCEPT ![t] = "run"] /\ rec' = [rec EXCEPT ![t] = at[c]]
        /\ Goto(c, "link") /\ UNCHANGED <<owner, new>>
    BY <1>4 DEF Started, t
  <2>2. Types'
    BY <1>1, <1>2, <2>1 DEF IInv, Types, Goto
  <2>3. Held'
    BY <1>1, <1>2, <1>3, <2>1 DEF IInv, Types, Held, Holds, Begun, Goto, t
  <2>4. Accounted'
    BY <1>1, <1>2, <1>3, <2>1 DEF IInv, Types, Accounted, Begun, Goto
  <2>5. NewOnce'
    BY <1>1, <1>2, <1>3, <2>1 DEF IInv, Types, NewOnce, Goto, t
  <2> QED
    BY <2>2, <2>3, <2>4, <2>5 DEF IInv
<1>5. CASE Refused(c, "run")
  <2>1. /\ owner' = [owner EXCEPT ![at[c]] = None] /\ new' = [new EXCEPT ![c] = None]
        /\ Goto(c, "run") /\ UNCHANGED <<state, rec>>
    BY <1>5 DEF Refused
  <2>2. Types'
    BY <1>1, <1>2, <2>1 DEF IInv, Types, Goto
  <2>3. Held'
    BY <1>1, <1>2, <1>3, <2>1 DEF IInv, Types, Held, Holds, Begun, Goto
  <2>4. Accounted'
    BY <1>1, <1>2, <1>3, <2>1 DEF IInv, Types, Accounted, Begun, Goto
  <2>5. NewOnce'
    BY <1>1, <1>2, <1>3, <2>1 DEF IInv, Types, NewOnce, Goto
  <2> QED
    BY <2>2, <2>3, <2>4, <2>5 DEF IInv
<1> QED
  BY <1>4, <1>5 DEF StartTask

\* The record passes from its creator to the list.
LEMMA LinkIInv == ASSUME IInv, NEW c \in Contexts, Link(c) PROVE IInv'
<1>1. /\ pc[c] = "link" /\ done' = done \cup {at[c]} /\ Goto(c, "return")
      /\ UNCHANGED <<owner, state, rec, joined, at, new>>
  BY DEF Link, mem, task
<1>2. Holds(c) /\ at[c] \in Records /\ owner[at[c]] = new[c] /\ Begun(new[c], at[c], 0)
  BY <1>1 DEF IInv, Held, Holds
<1>3. Types'
  BY <1>1, <1>2 DEF IInv, Types, Goto
<1>4. Held'
  BY <1>1, <1>2 DEF IInv, Types, Held, Holds, Begun, Goto
<1>5. Accounted'
  BY <1>1, <1>2 DEF IInv, Types, Accounted, Begun, Goto
<1>6. NewOnce'
  BY <1>1, <1>2 DEF IInv, Types, NewOnce, Begun, Goto
<1> QED
  BY <1>3, <1>4, <1>5, <1>6 DEF IInv

\* Calling __clone, returning from it and a task's own steps touch no record
\* that the invariant names.
LEMMA OtherIInv ==
    ASSUME IInv,
           \/ \E c \in Contexts : Clone(c) \/ Return(c)
           \/ \E t \in Tasks : Leave(t) \/ Ending(t)
    PROVE  IInv'
<1>1. ASSUME NEW c \in Contexts, Clone(c) PROVE IInv'
  BY <1>1 DEF Clone, mem, task, Goto, IInv, Types, Held, Accounted, NewOnce, Holds, Begun
<1>2. ASSUME NEW c \in Contexts, Return(c) PROVE IInv'
  BY <1>2 DEF Return, mem, task, Goto, IInv, Types, Held, Accounted, NewOnce, Holds, Begun
<1>3. ASSUME NEW t \in Tasks, Leave(t) \/ Ending(t) PROVE IInv'
  <2>1. /\ state[t] # "none" /\ state[t] # "ended"
        /\ \E l \in {"leave", "finished", "ended"} : state' = [state EXCEPT ![t] = l]
        /\ UNCHANGED <<owner, done, rec, joined, pc, at, new>>
    BY <1>3 DEF Leave, Ending, Finish, EndTask, mem
  <2>2. Types'
    BY <2>1 DEF IInv, Types
  <2>3. Held'
    BY <2>1 DEF IInv, Types, Held, Holds, Begun
  <2>4. Accounted'
    BY <2>1 DEF IInv, Types, Accounted, Begun
  <2>5. NewOnce'
    BY <2>1 DEF IInv, Types, NewOnce
  <2> QED
    BY <2>2, <2>3, <2>4, <2>5, Zenon DEF IInv
<1> QED
  BY <1>1, <1>2, <1>3

\* Every step keeps the invariant.
LEMMA NextIInv == IInv /\ [Next]_vars => IInv'
<1> SUFFICES ASSUME IInv, [Next]_vars PROVE IInv'
  OBVIOUS
<1>1. CASE UNCHANGED vars
  BY <1>1 DEF vars, mem, task, IInv, Types, Held, Accounted, NewOnce, Holds, Begun
<1> QED
  BY <1>1, ReapIInv, JoinIInv, FreeIInv, AllocIInv, StartIInv, LinkIInv, OtherIInv DEF Next, Step

\* A task not yet waited for has its record; one waited for has ended.
LEMMA IInvKept == IInv => RecordKept
BY DEF IInv, Types, Accounted, RecordKept

\* The holders of the invariant are those WaitedForOnce speaks of.
LEMMA IInvWaited == IInv => WaitedForOnce
<1> SUFFICES ASSUME IInv, NEW t \in Tasks, state[t] # "none"
             PROVE  /\ joined[t] = 1 <=> ~Linked(t) /\ ~Linking(t) /\ ~Reaping(t)
                    /\ joined[t] <= 1
                    /\ \A c, d \in Contexts :
                           pc[c] = "join" /\ pc[d] = "join" /\ at[c] = rec[t] /\ at[d] = rec[t]
                               => c = d
  BY DEF WaitedForOnce
<1>1. joined[t] \in {0, 1}
  BY DEF IInv, Types, Accounted
<1>2. ASSUME joined[t] = 1 PROVE ~Linked(t) /\ ~Linking(t) /\ ~Reaping(t)
  BY <1>2 DEF IInv, Held, Accounted, Begun, Linked, Linking, Reaping
<1>3. ASSUME joined[t] = 0 PROVE Linked(t) \/ Linking(t) \/ Reaping(t)
  <2>1. owner[rec[t]] = t
    BY <1>3 DEF IInv, Accounted
  <2>2. CASE rec[t] \in done
    BY <2>1, <2>2 DEF Linked
  <2>3. ASSUME NEW c \in Contexts, pc[c] = "link", at[c] = rec[t] PROVE Linking(t)
    BY <2>1, <2>3 DEF IInv, Held, Linking
  <2>4. ASSUME NEW c \in Contexts, pc[c] = "join", at[c] = rec[t] PROVE Reaping(t)
    BY <2>1, <2>4 DEF Reaping
  <2> QED
    BY <1>3, <2>2, <2>3, <2>4 DEF IInv, Accounted
<1>4. \A c, d \in Contexts :
          pc[c] = "join" /\ pc[d] = "join" /\ at[c] = rec[t] /\ at[d] = rec[t] => c = d
  BY DEF IInv, Held, Holds
<1> QED
  BY <1>1, <1>2, <1>3, <1>4

-----------------------------------------------------------------------------
\* reap, run by any number of contexts, frees no record of a task that has not
\* ended, and __clone gives none away.
THEOREM RecordKeptAlways == Spec => []RecordKept
BY InitIInv, NextIInv, IInvKept, PTL DEF Spec

\* Every task started is waited for exactly once, by whichever context reaps.
THEOREM WaitedForOnceAlways == Spec => []WaitedForOnce
BY InitIInv, NextIInv, IInvWaited, PTL DEF Spec

-----------------------------------------------------------------------------
\* The thread-local variables have threads and a state of their own.
CONSTANTS Users, Vars, MaxKeys, Iterations, MaxAgain
VARIABLES index, cxx, next_key, tsd, tsd_used, rounds, blocks, freed, first, registered, again,
          asking, arg, found, round, visited

Tv == INSTANCE ThreadVars WITH
    Threads <- Users, key <- index, pc <- asking, k <- found, j <- round, i <- visited
-----------------------------------------------------------------------------
\* Before the first use there are no keys and no storage.
LEMMA VarsInitIInv == Tv!Assumptions /\ Tv!Init => Tv!IInv
<1> SUFFICES ASSUME Tv!Assumptions, Tv!Init PROVE Tv!IInv
  OBVIOUS
<1>1. Tv!Types
  BY DEF Tv!Init, Tv!Types, Tv!Assumptions, Tv!Keys, Tv!Blocks
<1>2. Tv!OneKey
  BY DEF Tv!Init, Tv!OneKey
<1>3. ASSUME NEW t \in Users PROVE Tv!TInv(t)
  <2>1. Tv!Control(t) /\ Tv!FirstOf(t) /\ Tv!Ended(t)
    BY DEF Tv!Init, Tv!Control, Tv!FirstOf, Tv!Ended
  <2>2. Tv!Storage(t) /\ Tv!Asked(t) /\ Tv!Runtime(t)
    BY Zenon DEF Tv!Init, Tv!Storage, Tv!Asked, Tv!Runtime, Tv!Keys
  <2> QED
    BY <2>1, <2>2, Zenon DEF Tv!TInv
<1> QED
  BY <1>1, <1>2, <1>3, Zenon DEF Tv!IInv

\* A key that was made is one of those a round looks at.
LEMMA KeyRange ==
    ASSUME Tv!Assumptions
    PROVE  /\ \A n \in 0..MaxKeys : n # 0 => n \in Tv!Keys
           /\ \A n \in Tv!Keys : MaxKeys + 1 > n
BY DEF Tv!Assumptions, Tv!Keys

-----------------------------------------------------------------------------
\* What a step may do to the keys: nothing, or make one.
MadeFor(v) == index[v] = 0 /\ index' = [index EXCEPT ![v] = next_key + 1] /\ cxx' = cxx
MadeForRuntime == cxx = 0 /\ cxx' = next_key + 1 /\ index' = index
Extended ==
    \/ index' = index /\ cxx' = cxx /\ next_key' = next_key
    \/ /\ next_key < MaxKeys /\ next_key' = next_key + 1
       /\ MadeForRuntime \/ \E v \in Vars : MadeFor(v)

\* What a thread's storage, registrations and rounds consist of.
Untouched(u) ==
    /\ tsd'[u] = tsd[u] /\ tsd_used'[u] = tsd_used[u] /\ rounds'[u] = rounds[u]
    /\ blocks'[u] = blocks[u] /\ freed'[u] = freed[u] /\ first'[u] = first[u]
    /\ registered'[u] = registered[u] /\ again'[u] = again[u]
    /\ round'[u] = round[u] /\ visited'[u] = visited[u]

\* A new key is nobody's yet, and no variable's key changes.
LEMMA KeysStay ==
    ASSUME Tv!Assumptions, Tv!Types, Tv!OneKey, Extended
    PROVE  /\ Tv!OneKey'
           /\ index' \in [Vars -> 0..MaxKeys] /\ cxx' \in 0..MaxKeys /\ next_key' \in 0..MaxKeys
           /\ \A v \in Vars : index[v] # 0 => index'[v] = index[v]
           /\ \A v \in Vars : index'[v] # 0 /\ index[v] = 0 => index'[v] = next_key + 1
           /\ cxx # 0 => cxx' = cxx
           /\ cxx' # 0 /\ cxx = 0 => cxx' = next_key + 1
<1>1. CASE index' = index /\ cxx' = cxx /\ next_key' = next_key
  BY <1>1, Zenon DEF Tv!OneKey, Tv!Types
<1>2. CASE next_key < MaxKeys /\ next_key' = next_key + 1 /\ MadeForRuntime
  BY <1>2 DEF Tv!OneKey, Tv!Types, MadeForRuntime, Tv!Assumptions
<1>3. ASSUME next_key < MaxKeys, next_key' = next_key + 1, NEW x \in Vars, MadeFor(x)
      PROVE  /\ Tv!OneKey'
             /\ index' \in [Vars -> 0..MaxKeys] /\ cxx' \in 0..MaxKeys /\ next_key' \in 0..MaxKeys
             /\ \A v \in Vars : index[v] # 0 => index'[v] = index[v]
             /\ \A v \in Vars : index'[v] # 0 /\ index[v] = 0 => index'[v] = next_key + 1
             /\ cxx # 0 => cxx' = cxx
             /\ cxx' # 0 /\ cxx = 0 => cxx' = next_key + 1
  <2>1. /\ index \in [Vars -> 0..MaxKeys] /\ next_key \in Nat /\ cxx \in Nat /\ MaxKeys \in Nat
        /\ next_key + 1 \in 0..MaxKeys
    BY <1>3 DEF Tv!Types, Tv!Assumptions
  <2>2. index'[x] = next_key + 1 /\ \A v \in Vars : v # x => index'[v] = index[v]
    BY <1>3, <2>1, Zenon DEF MadeFor
  <2>3. index' \in [Vars -> 0..MaxKeys] /\ cxx' = cxx /\ index[x] = 0
    BY <1>3, <2>1, Zenon DEF MadeFor
  <2>4. \A v \in Vars : index[v] \in Nat /\ index[v] <= next_key
    BY <2>1 DEF Tv!OneKey
  <2>5. Tv!OneKey'
    BY <1>3, <2>1, <2>2, <2>3, <2>4 DEF Tv!OneKey
  <2> QED
    BY <1>3, <2>1, <2>2, <2>3, <2>5, Zenon DEF Tv!Types
<1> QED
  BY <1>1, <1>2, <1>3, Zenon DEF Extended

\* A thread whose own state a step leaves alone keeps its invariant, whichever
\* key is made: it has no value under a new one.
LEMMA UntouchedKeeps ==
    ASSUME Tv!Assumptions, Tv!Types, Tv!OneKey, Extended, NEW u \in Users, Tv!TInv(u), Untouched(u)
    PROVE  Tv!FirstOf(u)' /\ Tv!Storage(u)' /\ Tv!Asked(u)' /\ Tv!Runtime(u)'
<1>1. /\ \A v \in Vars : index[v] # 0 => index'[v] = index[v]
      /\ \A v \in Vars : index'[v] # 0 /\ index[v] = 0 => index'[v] = next_key + 1
      /\ cxx # 0 => cxx' = cxx
      /\ cxx' # 0 /\ cxx = 0 => cxx' = next_key + 1
      /\ index' \in [Vars -> 0..MaxKeys] /\ cxx' \in 0..MaxKeys
  BY KeysStay, Zenon
<1>2. \A n \in Tv!Keys : n > next_key => tsd[u][n] = 0
  <2> SUFFICES ASSUME NEW n \in Tv!Keys, n > next_key, tsd[u][n] # 0 PROVE FALSE
    OBVIOUS
  <2>1. n = cxx \/ \E v \in Vars : index[v] = n
    BY Zenon DEF Tv!TInv, Tv!Asked
  <2> QED
    BY <2>1 DEF Tv!OneKey, Tv!Types, Tv!Keys, Tv!Assumptions
<1>3. \A n : Tv!Visits(u, n)' = Tv!Visits(u, n)
  BY Zenon DEF Untouched, Tv!Visits
<1>4. Tv!FirstOf(u)'
  BY Zenon DEF Untouched, Tv!TInv, Tv!FirstOf
<1>5. next_key \in Nat /\ MaxKeys \in Nat /\ Tv!Keys = 1..MaxKeys
  BY DEF Tv!Types, Tv!Assumptions, Tv!Keys
<1>6. Tv!Storage(u)'
  <2> SUFFICES ASSUME NEW v \in Vars
               PROVE  /\ first[u][v] = 0 /\ index'[v] # 0 => tsd[u][index'[v]] = 0
                      /\ first[u][v] # 0 => index'[v] # 0
                      /\ first[u][v] # 0 /\ Tv!Visits(u, index'[v]) < Iterations =>
                             /\ tsd[u][index'[v]] = first[u][v]
                             /\ first[u][v] \notin freed[u]
                             /\ rounds[u][first[u][v]] = Iterations - 1 - Tv!Visits(u, index'[v])
                      /\ first[u][v] # 0 /\ Tv!Visits(u, index'[v]) >= Iterations =>
                             tsd[u][index'[v]] = 0 /\ first[u][v] \in freed[u]
    BY Zenon DEF Untouched, Tv!Storage, Tv!Visits
  <2>1. CASE index[v] # 0
    BY <1>1, <2>1, Zenon DEF Tv!TInv, Tv!Storage
  <2>2. CASE index[v] = 0
    <3>1. first[u][v] = 0
      BY <2>2, Zenon DEF Tv!TInv, Tv!Storage
    <3>2. index'[v] # 0 => index'[v] \in Tv!Keys /\ index'[v] > next_key
      BY <1>1, <1>5, <2>2
    <3> QED
      BY <1>2, <3>1, <3>2, Zenon
  <2> QED
    BY <2>1, <2>2, Zenon
<1>7. Tv!Asked(u)'
  <2>1. \A n \in Tv!Keys : tsd[u][n] # 0 => n = cxx' \/ \E v \in Vars : index'[v] = n
    BY <1>1, <1>5 DEF Tv!TInv, Tv!Asked
  <2> QED
    BY <2>1, Zenon DEF Untouched, Tv!TInv, Tv!Asked
<1>8. Tv!Runtime(u)'
  <2>1. CASE cxx # 0
    BY <1>1, <2>1, Zenon DEF Untouched, Tv!TInv, Tv!Runtime, Tv!Visits
  <2>2. CASE cxx = 0
    <3>1. registered[u] = {}
      BY <2>2, Zenon DEF Tv!TInv, Tv!Runtime
    <3>2. cxx' # 0 => cxx' \in Tv!Keys /\ cxx' > next_key
      BY <1>1, <1>5, <2>2
    <3> QED
      BY <1>2, <3>1, <3>2, Zenon DEF Untouched, Tv!Runtime
  <2> QED
    BY <2>1, <2>2, Zenon
<1> QED
  BY <1>4, <1>6, <1>7, <1>8, Zenon

\* So does one that is not the one that moves.
LEMMA OtherKeeps ==
    ASSUME Tv!Assumptions, Tv!Types, Tv!OneKey, Extended, NEW u \in Users, Tv!TInv(u), Untouched(u),
           asking'[u] = asking[u], arg'[u] = arg[u], found'[u] = found[u]
    PROVE  Tv!TInv(u)'
<1>1. Tv!FirstOf(u)' /\ Tv!Storage(u)' /\ Tv!Asked(u)' /\ Tv!Runtime(u)'
  BY UntouchedKeeps, Zenon
<1>2. \A v \in Vars : index[v] # 0 => index'[v] = index[v]
  BY KeysStay, Zenon
<1>3. Tv!Control(u)'
  BY <1>2, Zenon DEF Tv!TInv, Tv!Control, Untouched
<1>4. Tv!Ended(u)'
  BY Zenon DEF Tv!TInv, Tv!Ended, Untouched
<1> QED
  BY <1>1, <1>3, <1>4, Zenon DEF Tv!TInv

\* Reading the key changes nothing but where the thread is.
LEMMA LookKeeps ==
    ASSUME Tv!Assumptions, Tv!IInv, NEW t \in Users, NEW v \in Vars, Tv!Look(t, v) PROVE Tv!IInv'
<1>t. Tv!Types
  BY Zenon DEF Tv!IInv
<1>i. Tv!Control(t) /\ Tv!FirstOf(t) /\ Tv!Storage(t) /\ Tv!Asked(t) /\ Tv!Runtime(t) /\ Tv!Ended(t)
  BY Zenon DEF Tv!IInv, Tv!TInv
<1> USE DEF Tv!Look, Tv!Go, Tv!shared, Tv!values, Tv!history, Tv!ending
<1>1. Tv!Types'
  <2>1. found' \in [Users -> 0..MaxKeys] /\ DOMAIN arg' = Users
    BY <1>t, Zenon DEF Tv!Types
  <2>2. asking' \in [Users -> {"run", "make", "get", "destructors", "ended"}]
    BY <1>t, Zenon DEF Tv!Types
  <2> QED
    BY <1>t, <2>1, <2>2, Zenon DEF Tv!Types
<1>2. Extended /\ \A u \in Users : Untouched(u)
  BY Zenon DEF Extended, Untouched
<1>3. Tv!OneKey'
  BY <1>2, KeysStay, Zenon DEF Tv!IInv
<1>4. ASSUME NEW u \in Users, u # t PROVE Tv!TInv(u)'
  BY <1>t, <1>2, <1>4, OtherKeeps, Zenon DEF Tv!IInv, Tv!Types
<1>5. Tv!TInv(t)'
  <2>1. Tv!FirstOf(t)' /\ Tv!Storage(t)' /\ Tv!Asked(t)' /\ Tv!Runtime(t)'
    BY <1>2, UntouchedKeeps, Zenon DEF Tv!IInv
  <2>2. Tv!Control(t)' /\ Tv!Ended(t)'
    BY <1>t, <1>i, Zenon DEF Tv!Types, Tv!Control, Tv!Ended
  <2> QED
    BY <2>1, <2>2, Zenon DEF Tv!TInv
<1> QED
  BY <1>1, <1>3, <1>4, <1>5, Zenon DEF Tv!IInv

\* Under the lock a variable's key is made once.
LEMMA MakeKeeps ==
    ASSUME Tv!Assumptions, Tv!IInv, NEW t \in Users, Tv!Make(t) PROVE Tv!IInv'
<1>t. Tv!Types
  BY Zenon DEF Tv!IInv
<1>i. Tv!Control(t) /\ Tv!FirstOf(t) /\ Tv!Storage(t) /\ Tv!Asked(t) /\ Tv!Runtime(t) /\ Tv!Ended(t)
  BY Zenon DEF Tv!IInv, Tv!TInv
<1> USE DEF Tv!Make, Tv!Go, Tv!values, Tv!history, Tv!ending
<1>1. arg[t] \in Vars
  BY <1>i, Zenon DEF Tv!Control
<1>2. Extended /\ \A u \in Users : Untouched(u)
  BY <1>1, Zenon DEF Extended, Untouched, MadeFor
<1>3. /\ Tv!OneKey'
      /\ index' \in [Vars -> 0..MaxKeys] /\ cxx' \in 0..MaxKeys /\ next_key' \in 0..MaxKeys
  BY <1>2, KeysStay, Zenon DEF Tv!IInv
<1>4. index'[arg[t]] # 0 /\ found'[t] = index'[arg[t]]
  BY <1>t, <1>1 DEF Tv!Types, Tv!Assumptions
<1>5. Tv!Types'
  <2>1. found' \in [Users -> 0..MaxKeys]
    BY <1>t, <1>1, <1>3, Zenon DEF Tv!Types
  <2>2. asking' \in [Users -> {"run", "make", "get", "destructors", "ended"}]
    BY <1>t, Zenon DEF Tv!Types
  <2> QED
    BY <1>t, <1>3, <2>1, <2>2, Zenon DEF Tv!Types
<1>6. ASSUME NEW u \in Users, u # t PROVE Tv!TInv(u)'
  BY <1>t, <1>2, <1>6, OtherKeeps, Zenon DEF Tv!IInv, Tv!Types
<1>7. Tv!TInv(t)'
  <2>1. Tv!FirstOf(t)' /\ Tv!Storage(t)' /\ Tv!Asked(t)' /\ Tv!Runtime(t)'
    BY <1>2, UntouchedKeeps, Zenon DEF Tv!IInv
  <2>2. Tv!Control(t)' /\ Tv!Ended(t)'
    BY <1>t, <1>i, <1>1, <1>4, Zenon DEF Tv!Types, Tv!Control, Tv!Ended
  <2> QED
    BY <2>1, <2>2, Zenon DEF Tv!TInv
<1> QED
  BY <1>3, <1>5, <1>6, <1>7, Zenon DEF Tv!IInv

\* The end begins with no round.
LEMMA ExitKeeps ==
    ASSUME Tv!Assumptions, Tv!IInv, NEW t \in Users, Tv!Exit(t) PROVE Tv!IInv'
<1>t. Tv!Types
  BY Zenon DEF Tv!IInv
<1>i. Tv!Control(t) /\ Tv!FirstOf(t) /\ Tv!Storage(t) /\ Tv!Asked(t) /\ Tv!Runtime(t) /\ Tv!Ended(t)
  BY Zenon DEF Tv!IInv, Tv!TInv
<1> USE DEF Tv!Exit, Tv!Go, Tv!shared, Tv!values, Tv!history, Tv!ending
<1>1. Tv!Types'
  BY <1>t, Zenon DEF Tv!Types
<1>2. Extended /\ \A u \in Users : Untouched(u)
  BY Zenon DEF Extended, Untouched
<1>3. Tv!OneKey'
  BY <1>2, KeysStay, Zenon DEF Tv!IInv
<1>4. ASSUME NEW u \in Users, u # t PROVE Tv!TInv(u)'
  BY <1>t, <1>2, <1>4, OtherKeeps, Zenon DEF Tv!IInv, Tv!Types
<1>5. Tv!TInv(t)'
  <2>1. Tv!FirstOf(t)' /\ Tv!Storage(t)' /\ Tv!Asked(t)' /\ Tv!Runtime(t)'
    BY <1>2, UntouchedKeeps, Zenon DEF Tv!IInv
  <2>2. Tv!Control(t)' /\ Tv!Ended(t)'
    BY <1>t, <1>i, Zenon DEF Tv!Types, Tv!Control, Tv!Ended
  <2> QED
    BY <2>1, <2>2, Zenon DEF Tv!TInv
<1> QED
  BY <1>1, <1>3, <1>4, <1>5, Zenon DEF Tv!IInv

\* The first use allocates, and every later one finds what it allocated.
LEMMA GetKeeps ==
    ASSUME Tv!Assumptions, Tv!IInv, NEW t \in Users, Tv!Get(t) PROVE Tv!IInv'
<1> DEFINE a == arg[t]
<1> DEFINE b == blocks[t] + 1
<1>t. Tv!Types
  BY Zenon DEF Tv!IInv
<1>i. Tv!Control(t) /\ Tv!FirstOf(t) /\ Tv!Storage(t) /\ Tv!Asked(t) /\ Tv!Runtime(t) /\ Tv!Ended(t)
  BY Zenon DEF Tv!IInv, Tv!TInv
<1>0. /\ asking[t] = "get" /\ asking' = [asking EXCEPT ![t] = "run"]
      /\ found' = [found EXCEPT ![t] = 0]
      /\ first' = [first EXCEPT ![t][a] = IF @ = 0 THEN tsd'[t][found[t]] ELSE @]
      /\ UNCHANGED <<index, cxx, next_key, freed, registered, again, arg, round, visited>>
  BY Zenon DEF Tv!Get, Tv!Go, Tv!shared, Tv!ending
<1>1. /\ a \in Vars /\ found[t] = index[a] /\ index[a] # 0 /\ found[t] \in Tv!Keys
      /\ round[t] = 0 /\ visited[t] = MaxKeys + 1
  BY <1>t, <1>i, <1>0 DEF Tv!Control, Tv!Types, Tv!Keys, Tv!Assumptions
<1>2. \A n \in Tv!Keys : Tv!Visits(t, n) = 0
  BY <1>1 DEF Tv!Visits, Tv!Keys, Tv!Assumptions
<1>3. Iterations \in Nat /\ Iterations >= 2 /\ MaxKeys \in Nat /\ blocks[t] \in 0..MaxKeys
  BY <1>t DEF Tv!Assumptions, Tv!Types
<1>4. first[t][a] = tsd[t][found[t]]
  BY <1>i, <1>1, <1>2, <1>3 DEF Tv!Storage
<1>5. Extended
  BY <1>0, Zenon DEF Extended
<1>6. Tv!OneKey'
  BY <1>5, KeysStay, Zenon DEF Tv!IInv
<1>7. /\ found' \in [Users -> 0..MaxKeys]
      /\ asking' \in [Users -> {"run", "make", "get", "destructors", "ended"}]
  BY <1>t, <1>0, <1>3 DEF Tv!Types
<1>8. Tv!Control(t)' /\ Tv!Ended(t)'
  BY <1>t, <1>i, <1>0, <1>1, Zenon DEF Tv!Types, Tv!Control, Tv!Ended
<1>9. CASE tsd[t][found[t]] # 0
  <2>1. UNCHANGED <<blocks, rounds, tsd, tsd_used>>
    BY <1>9, Zenon DEF Tv!Get
  <2>2. first' = first
    BY <1>t, <1>0, <1>1, <1>4, <1>9, <2>1, Zenon DEF Tv!Types
  <2>3. \A u \in Users : Untouched(u)
    BY <1>0, <2>1, <2>2, Zenon DEF Untouched
  <2>4. Tv!Types'
    BY <1>t, <1>0, <1>7, <2>1, <2>2, Zenon DEF Tv!Types
  <2>5. ASSUME NEW u \in Users, u # t PROVE Tv!TInv(u)'
    BY <1>t, <1>0, <1>5, <2>3, <2>5, OtherKeeps, Zenon DEF Tv!IInv, Tv!Types
  <2>6. Tv!TInv(t)'
    BY <1>5, <1>8, <2>3, UntouchedKeeps, Zenon DEF Tv!IInv, Tv!TInv
  <2> QED
    BY <1>6, <2>4, <2>5, <2>6, Zenon DEF Tv!IInv
<1>10. CASE tsd[t][found[t]] = 0
  <2>1. /\ blocks[t] < MaxKeys
        /\ blocks' = [blocks EXCEPT ![t] = @ + 1]
        /\ rounds' = [rounds EXCEPT ![t][b] = Iterations - 1]
        /\ tsd' = [tsd EXCEPT ![t][found[t]] = b]
        /\ tsd_used' = [tsd_used EXCEPT ![t] = @ \/ tsd[t][found[t]] # b]
    BY <1>10, Zenon DEF Tv!Get, Tv!Allocate, Tv!Set
  <2>2. b \in Tv!Blocks /\ b \in 0..MaxKeys /\ b # 0
    BY <1>3, <2>1 DEF Tv!Blocks
  <2>3. tsd' \in [Users -> [Tv!Keys -> 0..MaxKeys]] /\ tsd'[t] = [tsd[t] EXCEPT ![found[t]] = b]
    BY <1>t, <1>1, <2>1, <2>2, Zenon DEF Tv!Types
  <2>4. tsd'[t][found[t]] = b
    BY <1>t, <1>1, <2>3 DEF Tv!Types
  <2>5. first'[t] = [first[t] EXCEPT ![a] = b] /\ first' \in [Users -> [Vars -> 0..MaxKeys]]
    BY <1>t, <1>0, <1>1, <1>4, <1>10, <2>2, <2>4, Zenon DEF Tv!Types
  <2>6. /\ rounds'[t] = [rounds[t] EXCEPT ![b] = Iterations - 1]
        /\ rounds' \in [Users -> [Tv!Blocks -> Nat]]
    BY <1>t, <1>3, <2>1, <2>2 DEF Tv!Types
  <2>7. blocks'[t] = b /\ blocks' \in [Users -> 0..MaxKeys]
    BY <1>t, <2>1, <2>2, Zenon DEF Tv!Types
  <2>8. tsd_used'[t] = TRUE /\ tsd_used' \in [Users -> BOOLEAN]
    BY <1>t, <1>10, <2>1, <2>2, Zenon DEF Tv!Types
  <2>9. Tv!Types'
    BY <1>t, <1>0, <1>7, <2>3, <2>5, <2>6, <2>7, <2>8, Zenon DEF Tv!Types
  <2>10. ASSUME NEW u \in Users, u # t PROVE Tv!TInv(u)'
    <3>1. Untouched(u)
      BY <1>t, <1>0, <2>1, <2>10, Zenon DEF Untouched, Tv!Types
    <3> QED
      BY <1>t, <1>0, <1>5, <2>10, <3>1, OtherKeeps, Zenon DEF Tv!IInv, Tv!Types
  <2>11. Tv!FirstOf(t)'
    <3>1. \A v \in Vars : first[t][v] \in Nat /\ first[t][v] <= blocks[t]
      BY <1>t, <1>i DEF Tv!Types, Tv!FirstOf
    <3>2. first'[t][a] = b /\ \A v \in Vars : v # a => first'[t][v] = first[t][v]
      BY <1>t, <1>1, <2>5 DEF Tv!Types
    <3>3. \A c \in 1..b : \E v \in Vars : first'[t][v] = c
      <4> SUFFICES ASSUME NEW c \in 1..b PROVE \E v \in Vars : first'[t][v] = c
        OBVIOUS
      <4>1. CASE c = b
        BY <1>1, <3>2, <4>1, Zenon
      <4>2. CASE c # b
        <5>1. c \in 1..blocks[t]
          BY <1>3, <4>2
        <5>2. PICK v \in Vars : first[t][v] = c
          BY <1>i, <5>1, Zenon DEF Tv!FirstOf
        <5>3. v # a
          BY <1>4, <1>10, <5>1, <5>2
        <5> QED
          BY <3>2, <5>2, <5>3, Zenon
      <4> QED
        BY <4>1, <4>2, Zenon
    <3>4. freed'[t] \subseteq 1..b
      BY <1>i, <1>0, <1>3 DEF Tv!FirstOf
    <3>5. \A v, w \in Vars : first'[t][v] # 0 /\ first'[t][v] = first'[t][w] => v = w
      BY <1>i, <1>3, <3>1, <3>2 DEF Tv!FirstOf
    <3>6. \A v \in Vars : first'[t][v] <= b
      BY <1>3, <3>1, <3>2
    <3> QED
      BY <2>7, <3>3, <3>4, <3>5, <3>6, Zenon DEF Tv!FirstOf
  <2>12. Tv!Storage(t)'
    <3> SUFFICES ASSUME NEW v \in Vars
                 PROVE  /\ first'[t][v] = 0 /\ index[v] # 0 => tsd'[t][index[v]] = 0
                        /\ first'[t][v] # 0 => index[v] # 0
                        /\ first'[t][v] # 0 =>
                               /\ tsd'[t][index[v]] = first'[t][v]
                               /\ first'[t][v] \notin freed[t]
                               /\ rounds'[t][first'[t][v]] = Iterations - 1
      <4>1. \A v \in Vars : index[v] # 0 => index[v] \in Tv!Keys
        BY <1>t, KeyRange, Zenon DEF Tv!Types
      <4>2. \A n : Tv!Visits(t, n)' = Tv!Visits(t, n)
        BY <1>0, Zenon DEF Tv!Visits
      <4> QED
        BY <1>0, <1>2, <1>3, <4>1, <4>2 DEF Tv!Storage
    <3>1. freed[t] \subseteq 1..blocks[t] /\ first[t][v] \in Nat /\ first[t][v] <= blocks[t]
      BY <1>t, <1>i DEF Tv!FirstOf, Tv!Types
    <3>2. CASE v = a
      <4>1. first'[t][v] = b
        BY <1>t, <1>1, <2>5, <3>2 DEF Tv!Types
      <4>2. rounds'[t][b] = Iterations - 1
        BY <1>t, <2>2, <2>6 DEF Tv!Types
      <4>3. b \notin freed[t]
        BY <1>3, <3>1
      <4> QED
        BY <1>1, <2>2, <2>4, <3>2, <4>1, <4>2, <4>3, Zenon
    <3>3. CASE v # a
      <4>1. first'[t][v] = first[t][v]
        BY <1>t, <1>1, <2>5, <3>3 DEF Tv!Types
      <4>2. index[v] # 0 => index[v] \in Tv!Keys /\ index[v] # found[t] /\ Tv!Visits(t, index[v]) = 0
        <5>1. index[v] # 0 => index[v] \in Tv!Keys
          BY <1>t DEF Tv!Types, Tv!Keys, Tv!Assumptions
        <5>2. index[v] # 0 => index[v] # found[t]
          BY <1>1, <3>3, Zenon DEF Tv!IInv, Tv!OneKey
        <5> QED
          BY <1>2, <5>1, <5>2, Zenon
      <4>3. index[v] # 0 => tsd'[t][index[v]] = tsd[t][index[v]]
        BY <1>t, <2>3, <4>2 DEF Tv!Types
      <4>4. first[t][v] # 0 => first[t][v] \in Tv!Blocks /\ first[t][v] # b
        BY <1>3, <3>1 DEF Tv!Blocks
      <4>5. first[t][v] # 0 => rounds'[t][first[t][v]] = rounds[t][first[t][v]]
        BY <1>t, <2>6, <4>4 DEF Tv!Types
      <4> QED
        BY <1>i, <1>3, <4>1, <4>2, <4>3, <4>5 DEF Tv!Storage
    <3> QED
      BY <3>2, <3>3, Zenon
  <2>13. Tv!Asked(t)'
    <3>1. \A n \in Tv!Keys : n # found[t] => tsd'[t][n] = tsd[t][n]
      BY <1>t, <2>3, Zenon DEF Tv!Types
    <3> QED
      BY <1>i, <1>0, <1>1, <2>8, <3>1, Zenon DEF Tv!Asked
  <2>14. Tv!Runtime(t)'
    <3>1. cxx # 0 => cxx \in Tv!Keys /\ cxx # found[t]
      BY <1>1 DEF Tv!IInv, Tv!Types, Tv!OneKey, Tv!Keys, Tv!Assumptions
    <3>2. cxx # 0 => tsd'[t][cxx] = tsd[t][cxx]
      BY <1>t, <2>3, <3>1, Zenon DEF Tv!Types
    <3>3. Tv!Visits(t, cxx)' = Tv!Visits(t, cxx)
      BY <1>0, Zenon DEF Tv!Visits
    <3>4. \A v \in Vars : first[t][v] # 0 => first'[t][v] # 0
      BY <1>t, <1>1, <2>2, <2>5 DEF Tv!Types
    <3>5. registered[t] \subseteq Vars
      BY <1>t, Zenon DEF Tv!Types
    <3> QED
      BY <1>i, <1>0, <3>2, <3>3, <3>4, <3>5, Zenon DEF Tv!Runtime
  <2>15. Tv!TInv(t)'
    BY <1>8, <2>11, <2>12, <2>13, <2>14, Zenon DEF Tv!TInv
  <2> QED
    BY <1>6, <2>9, <2>10, <2>15, Zenon DEF Tv!IInv
<1> QED
  BY <1>9, <1>10, Zenon

\* A registration sets the value of the runtime's key and no other.
LEMMA RegisterKeeps ==
    ASSUME Tv!Assumptions, Tv!IInv, NEW t \in Users, NEW x \in Vars, Tv!Register(t, x) PROVE Tv!IInv'
<1>t. Tv!Types
  BY Zenon DEF Tv!IInv
<1>i. Tv!Control(t) /\ Tv!FirstOf(t) /\ Tv!Storage(t) /\ Tv!Asked(t) /\ Tv!Runtime(t) /\ Tv!Ended(t)
  BY Zenon DEF Tv!IInv, Tv!TInv
<1>0. /\ asking[t] = "run" /\ first[t][x] # 0
      /\ tsd' = [tsd EXCEPT ![t][cxx'] = 1]
      /\ tsd_used' = [tsd_used EXCEPT ![t] = @ \/ tsd[t][cxx'] # 1]
      /\ registered' = [registered EXCEPT ![t] = @ \cup {x}]
      /\ UNCHANGED <<index, rounds, blocks, freed, first, again, asking, arg, found, round, visited>>
  BY Zenon DEF Tv!Register, Tv!Set, Tv!ending
<1>1. Extended
  BY Zenon DEF Tv!Register, Extended, MadeForRuntime
<1>2. /\ Tv!OneKey'
      /\ cxx' \in 0..MaxKeys /\ next_key' \in 0..MaxKeys
      /\ cxx # 0 => cxx' = cxx
      /\ cxx' # 0 /\ cxx = 0 => cxx' = next_key + 1
  BY <1>1, KeysStay, Zenon DEF Tv!IInv
<1>3. cxx' \in Tv!Keys /\ MaxKeys \in Nat /\ 1 \in 0..MaxKeys
  BY <1>t, <1>2 DEF Tv!Register, Tv!Keys, Tv!Types, Tv!Assumptions
<1>4. round[t] = 0 /\ visited[t] = MaxKeys + 1 /\ again[t] = 0
  BY <1>i, <1>0, Zenon DEF Tv!Control
<1>5. tsd' \in [Users -> [Tv!Keys -> 0..MaxKeys]] /\ tsd'[t] = [tsd[t] EXCEPT ![cxx'] = 1]
  BY <1>t, <1>0, <1>3, Zenon DEF Tv!Types
<1>6. /\ tsd'[t][cxx'] = 1
      /\ \A n \in Tv!Keys : n # cxx' => tsd'[t][n] = tsd[t][n]
  BY <1>t, <1>3, <1>5 DEF Tv!Types
<1>7. registered' \in [Users -> SUBSET Vars] /\ registered'[t] = registered[t] \cup {x}
  BY <1>t, <1>0, Zenon DEF Tv!Types
<1>8. /\ tsd_used' \in [Users -> BOOLEAN]
      /\ tsd_used'[t] = (tsd_used[t] \/ tsd[t][cxx'] # 1)
  BY <1>t, <1>0, Zenon DEF Tv!Types
<1>9. Tv!Types'
  BY <1>t, <1>0, <1>2, <1>5, <1>7, <1>8, Zenon DEF Tv!Types
<1>10. ASSUME NEW u \in Users, u # t PROVE Tv!TInv(u)'
  <2>1. Untouched(u)
    BY <1>t, <1>0, <1>10, Zenon DEF Untouched, Tv!Types
  <2> QED
    BY <1>0, <1>1, <1>10, <2>1, OtherKeeps, Zenon DEF Tv!IInv
<1>11. Tv!Control(t)' /\ Tv!Ended(t)' /\ Tv!FirstOf(t)'
  BY <1>i, <1>0, Zenon DEF Tv!Control, Tv!Ended, Tv!FirstOf
<1>12. Tv!Storage(t)'
  <2>1. \A v \in Vars : index[v] # 0 => index[v] \in Tv!Keys /\ index[v] # cxx'
    <3>1. \A v \in Vars : index[v] # 0 => index[v] \in Tv!Keys
      <4>1. index \in [Vars -> 0..MaxKeys]
        BY <1>t, Zenon DEF Tv!Types
      <4> QED
        BY <1>3, <4>1 DEF Tv!Keys
    <3> QED
      BY <1>0, <1>2, <3>1, Zenon DEF Tv!OneKey
  <2>2. \A v \in Vars : index[v] # 0 => tsd'[t][index[v]] = tsd[t][index[v]]
    BY <1>6, <2>1, Zenon
  <2>3. \A n : Tv!Visits(t, n)' = Tv!Visits(t, n)
    BY <1>0, Zenon DEF Tv!Visits
  <2>4. Tv!Storage(t)
    BY Zenon DEF Tv!IInv, Tv!TInv
  <2> QED
    BY <1>0, <2>2, <2>3, <2>4 DEF Tv!Storage
<1>13. Tv!Asked(t)'
  <2>1. \A n \in Tv!Keys : n # cxx' /\ tsd[t][n] # 0 => \E v \in Vars : index[v] = n
    <3> SUFFICES ASSUME NEW n \in Tv!Keys, n # cxx', tsd[t][n] # 0 PROVE \E v \in Vars : index[v] = n
      BY Zenon
    <3>1. n = cxx \/ \E v \in Vars : index[v] = n
      BY <1>i, Zenon DEF Tv!Asked
    <3>2. n # cxx
      BY <1>2, <1>3 DEF Tv!Keys
    <3> QED
      BY <3>1, <3>2, Zenon
  <2>2. tsd[t][cxx'] # 0 => tsd_used[t]
    <3>1. visited[t] > cxx'
      BY <1>3, <1>4, KeyRange, Zenon
    <3> QED
      BY <1>i, <1>3, <3>1, Zenon DEF Tv!Asked
  <2>3. tsd_used'[t]
    <3>1. 1 # 0
      OBVIOUS
    <3> QED
      BY <1>8, <2>2, <3>1, Zenon
  <2> QED
    BY <1>0, <1>6, <2>1, <2>3, ZenonT(40) DEF Tv!Asked
<1>14. Tv!Runtime(t)'
  <2>1. Tv!Visits(t, cxx)' = 0
    BY <1>0, <1>3, <1>4 DEF Tv!Visits, Tv!Keys
  <2>2. \A v \in registered'[t] : first'[t][v] # 0
    BY <1>i, <1>0, <1>7, Zenon DEF Tv!Runtime
  <2>3. registered'[t] # {} /\ cxx' # 0 /\ tsd'[t][cxx'] # 0 /\ again'[t] = 0
    BY <1>0, <1>3, <1>4, <1>6, <1>7 DEF Tv!Keys
  <2> QED
    BY <2>1, <2>2, <2>3, Zenon DEF Tv!Runtime
<1> QED
  BY <1>2, <1>9, <1>10, <1>11, <1>12, <1>13, <1>14, Zenon DEF Tv!IInv, Tv!TInv

-----------------------------------------------------------------------------
\* At the end of a round after which there is no other, because none was asked
\* for or none is left, nothing is registered and every block was given back.
LEMMA NothingLeft ==
    ASSUME Tv!Assumptions, Tv!IInv, NEW t \in Users, visited[t] = MaxKeys + 1,
           ~(tsd_used[t] /\ round[t] < Iterations)
    PROVE  registered[t] = {} /\ \A b \in 1..blocks[t] : b \in freed[t]
<1>i. Tv!FirstOf(t) /\ Tv!Storage(t) /\ Tv!Asked(t) /\ Tv!Runtime(t)
  BY Zenon DEF Tv!IInv, Tv!TInv
<1>1. /\ Iterations \in Nat /\ MaxKeys \in Nat /\ MaxAgain \in Nat /\ MaxAgain + 2 <= Iterations
      /\ round[t] \in 0..Iterations /\ again[t] \in 0..MaxAgain /\ Tv!Keys = 1..MaxKeys
  BY Zenon DEF Tv!Assumptions, Tv!IInv, Tv!Types, Tv!Keys
<1>2. \A n \in Tv!Keys : Tv!Visits(t, n) = round[t] /\ visited[t] > n
  BY <1>1 DEF Tv!Visits
<1>3. cxx # 0 => cxx \in Tv!Keys
  BY KeyRange, Zenon DEF Tv!IInv, Tv!Types
<1>4. \A v \in Vars : index[v] # 0 => index[v] \in Tv!Keys
  BY KeyRange, Zenon DEF Tv!IInv, Tv!Types
<1>5. \A n \in Tv!Keys : tsd[t][n] # 0 => ~(round[t] < Iterations)
  BY <1>i, <1>2, Zenon DEF Tv!Asked
<1>6. registered[t] = {}
  <2> SUFFICES ASSUME registered[t] # {} PROVE FALSE
    OBVIOUS
  <2>1. cxx \in Tv!Keys /\ tsd[t][cxx] # 0 /\ again[t] = round[t]
    BY <1>i, <1>2, <1>3, Zenon DEF Tv!Runtime
  <2>2. round[t] < Iterations
    BY <1>1, <2>1
  <2> QED
    BY <1>5, <2>1, <2>2, Zenon
<1>7. ASSUME NEW b \in 1..blocks[t] PROVE b \in freed[t]
  <2>1. PICK v \in Vars : first[t][v] = b
    BY <1>i, Zenon DEF Tv!FirstOf
  <2>2. b # 0
    OBVIOUS
  <2>3. index[v] \in Tv!Keys /\ Tv!Visits(t, index[v]) = round[t]
    BY <1>i, <1>2, <1>4, <2>1, <2>2, Zenon DEF Tv!Storage
  <2>4. ~(round[t] < Iterations)
    BY <1>i, <1>5, <2>1, <2>2, <2>3, Zenon DEF Tv!Storage
  <2>5. round[t] >= Iterations
    BY <1>1, <2>4
  <2> QED
    BY <1>i, <2>1, <2>2, <2>3, <2>5, Zenon DEF Tv!Storage
<1> QED
  BY <1>6, <1>7, Zenon

\* A new round begins with as many calls behind every key as the last ended
\* with; without one, everything was given back in the last.
LEMMA RoundKeeps ==
    ASSUME Tv!Assumptions, Tv!IInv, NEW t \in Users, Tv!Round(t) PROVE Tv!IInv'
<1>t. Tv!Types
  BY Zenon DEF Tv!IInv
<1>i. Tv!Control(t) /\ Tv!FirstOf(t) /\ Tv!Storage(t) /\ Tv!Asked(t) /\ Tv!Runtime(t) /\ Tv!Ended(t)
  BY Zenon DEF Tv!IInv, Tv!TInv
<1>0. /\ asking[t] = "destructors" /\ visited[t] = MaxKeys + 1
      /\ UNCHANGED <<index, cxx, next_key, tsd, rounds, blocks, freed, first, registered, again, arg, found>>
  BY Zenon DEF Tv!Round, Tv!shared, Tv!history
<1>1. Extended /\ Tv!OneKey'
  BY <1>0, KeysStay, Zenon DEF Extended, Tv!IInv
<1>2. /\ Iterations \in Nat /\ MaxKeys \in Nat /\ MaxAgain \in Nat /\ MaxAgain + 2 <= Iterations
      /\ round[t] \in 0..Iterations /\ Tv!Keys = 1..MaxKeys
  BY <1>t, Zenon DEF Tv!Assumptions, Tv!Types, Tv!Keys
<1>r. visited[t] = MaxKeys + 1
  BY <1>0, Zenon
<1>3. \A n \in Tv!Keys : Tv!Visits(t, n) = round[t]
  BY <1>r, <1>2 DEF Tv!Visits
<1>4. \A v \in Vars : index[v] # 0 => index[v] \in Tv!Keys
  BY <1>t, <1>2 DEF Tv!Types
<1>5. CASE tsd_used[t] /\ round[t] < Iterations
  <2>1. /\ tsd_used' = [tsd_used EXCEPT ![t] = FALSE]
        /\ round' = [round EXCEPT ![t] = @ + 1]
        /\ visited' = [visited EXCEPT ![t] = 1]
        /\ asking' = asking
    BY <1>5, Zenon DEF Tv!Round
  <2>2. round'[t] = round[t] + 1 /\ visited'[t] = 1 /\ round'[t] \in 0..Iterations
    BY <1>t, <1>2, <1>5, <2>1 DEF Tv!Types
  <2>3. Tv!Types'
    <3>1. round' \in [Users -> 0..Iterations]
      BY <1>t, <1>2, <1>5, <2>1 DEF Tv!Types
    <3>2. visited' \in [Users -> 1..MaxKeys+1] /\ tsd_used' \in [Users -> BOOLEAN]
      BY <1>t, <1>2, <2>1 DEF Tv!Types
    <3> QED
      BY <1>t, <1>0, <2>1, <3>1, <3>2, Zenon DEF Tv!Types
  <2>4. ASSUME NEW u \in Users, u # t PROVE Tv!TInv(u)'
    <3>1. Untouched(u)
      BY <1>t, <1>0, <2>1, <2>4, Zenon DEF Untouched, Tv!Types
    <3> QED
      BY <1>0, <1>1, <2>1, <2>4, <3>1, OtherKeeps, Zenon DEF Tv!IInv
  <2>5. \A n \in Tv!Keys : Tv!Visits(t, n)' = round[t]
    BY <1>2, <2>2 DEF Tv!Visits
  <2>6. Tv!Control(t)' /\ Tv!FirstOf(t)' /\ Tv!Ended(t)'
    <3>1. round'[t] # 0
      BY <1>2, <2>2
    <3>2. asking'[t] = "destructors"
      BY <1>0, <2>1, Zenon
    <3> QED
      BY <1>i, <1>0, <3>1, <3>2, Zenon DEF Tv!Control, Tv!FirstOf, Tv!Ended
  <2>7. Tv!Storage(t)'
    <3>1. Tv!Storage(t)
      BY Zenon DEF Tv!IInv, Tv!TInv
    <3>2. \A v \in Vars : first[t][v] # 0 => Tv!Visits(t, index[v])' = Tv!Visits(t, index[v])
      BY <1>0, <1>3, <1>4, <2>5, <3>1, Zenon DEF Tv!Storage
    <3> QED
      BY <1>0, <3>1, <3>2 DEF Tv!Storage, Tv!Visits
  <2>8. Tv!Asked(t)'
    <3>1. \A n \in Tv!Keys : ~(visited'[t] > n)
      BY <1>2, <2>2
    <3> QED
      BY <1>i, <1>0, <3>1, Zenon DEF Tv!Asked
  <2>9. Tv!Runtime(t)'
    <3>1. cxx # 0 => cxx \in Tv!Keys
      BY <1>t, <1>2 DEF Tv!Types
    <3> QED
      BY <1>i, <1>0, <1>3, <2>5, <3>1, Zenon DEF Tv!Runtime
  <2> QED
    BY <1>1, <2>3, <2>4, <2>6, <2>7, <2>8, <2>9, Zenon DEF Tv!IInv, Tv!TInv
<1>6. CASE ~(tsd_used[t] /\ round[t] < Iterations)
  <2>1. asking' = [asking EXCEPT ![t] = "ended"] /\ UNCHANGED <<tsd_used, round, visited>>
    BY <1>6, Zenon DEF Tv!Round, Tv!Go, Tv!ending
  <2>2. Tv!Types' /\ \A u \in Users : Untouched(u)
    BY <1>t, <1>0, <2>1, Zenon DEF Tv!Types, Untouched
  <2>3. ASSUME NEW u \in Users, u # t PROVE Tv!TInv(u)'
    BY <1>t, <1>0, <1>1, <2>1, <2>2, <2>3, OtherKeeps, Zenon DEF Tv!IInv, Tv!Types
  <2>4. Tv!FirstOf(t)' /\ Tv!Storage(t)' /\ Tv!Asked(t)' /\ Tv!Runtime(t)'
    BY <1>1, <2>2, UntouchedKeeps, Zenon DEF Tv!IInv
  <2>5. Tv!Control(t)'
    BY <1>t, <1>i, <1>0, <2>1, Zenon DEF Tv!Types, Tv!Control
  <2>6. registered[t] = {} /\ \A b \in 1..blocks[t] : b \in freed[t]
    BY <1>6, <1>r, NothingLeft, Zenon
  <2>7. Tv!Ended(t)'
    BY <1>i, <1>0, <2>6, Zenon DEF Tv!FirstOf, Tv!Ended
  <2> QED
    BY <1>1, <2>2, <2>3, <2>4, <2>5, <2>7, Zenon DEF Tv!IInv, Tv!TInv
<1> QED
  BY <1>5, <1>6, Zenon

\* The sizes, at a thread that ends.
Sizes(t) ==
    /\ Iterations \in Nat /\ MaxKeys \in Nat /\ MaxAgain \in Nat /\ MaxAgain + 2 <= Iterations
    /\ round[t] \in 0..Iterations /\ Tv!Keys = 1..MaxKeys /\ Tv!Blocks = 1..MaxKeys

\* A call of a destructor is one more behind the key it is for, and for no
\* other; until then the key's value is the variable's, its header counting.
LEMMA VisitCounts ==
    ASSUME Tv!Assumptions, Tv!IInv, NEW t \in Users, Tv!Visit(t)
    PROVE  /\ Sizes(t)
           /\ round[t] >= 1 /\ visited'[t] = visited[t] + 1 /\ visited' \in [Users -> 1..MaxKeys+1]
           /\ Tv!Visits(t, visited[t]) = round[t] - 1
           /\ \A m \in Tv!Keys : (visited'[t] > m) = (visited[t] > m \/ m = visited[t])
           /\ \A v \in Vars : index[v] # 0 => index[v] \in Tv!Keys
           /\ \A v \in Vars : /\ index[v] # 0 /\ index[v] # visited[t] =>
                                     Tv!Visits(t, index[v])' = Tv!Visits(t, index[v])
                              /\ index[v] = visited[t] => Tv!Visits(t, index[v])' = round[t]
           /\ cxx # 0 /\ cxx # visited[t] => Tv!Visits(t, cxx)' = Tv!Visits(t, cxx)
           /\ cxx = visited[t] => Tv!Visits(t, cxx)' = round[t]
           /\ cxx # 0 => cxx \in Tv!Keys
           /\ \A v \in Vars : first[t][v] # 0 /\ index[v] = visited[t] =>
                  /\ tsd[t][visited[t]] = first[t][v] /\ first[t][v] \notin freed[t]
                  /\ rounds[t][first[t][v]] = Iterations - round[t]
           /\ Tv!Control(t)' /\ Tv!Ended(t)'
<1> DEFINE n == visited[t]
<1>t. Tv!Types
  BY Zenon DEF Tv!IInv
<1>i. Tv!Control(t) /\ Tv!FirstOf(t) /\ Tv!Storage(t) /\ Tv!Asked(t) /\ Tv!Runtime(t) /\ Tv!Ended(t)
  BY Zenon DEF Tv!IInv, Tv!TInv
<1>0. /\ asking[t] = "destructors" /\ n \in Tv!Keys /\ visited' = [visited EXCEPT ![t] = @ + 1]
      /\ UNCHANGED <<index, cxx, next_key, blocks, first, asking, arg, found, round>>
  BY Zenon DEF Tv!Visit, Tv!shared
<1>s. Sizes(t)
  BY <1>t, Zenon DEF Sizes, Tv!Assumptions, Tv!Types, Tv!Keys, Tv!Blocks
<1>2. /\ Iterations \in Nat /\ MaxKeys \in Nat /\ MaxAgain \in Nat /\ MaxAgain + 2 <= Iterations
      /\ round[t] \in 0..Iterations /\ Tv!Keys = 1..MaxKeys /\ Tv!Blocks = 1..MaxKeys
  BY <1>s, Zenon DEF Sizes
<1>3. round[t] >= 1 /\ visited'[t] = n + 1 /\ visited' \in [Users -> 1..MaxKeys+1]
  <2>1. round[t] = 0 => visited[t] = MaxKeys + 1
    BY <1>i, Zenon DEF Tv!Control
  <2>2. n \in 1..MaxKeys /\ n + 1 \in 1..MaxKeys+1
    BY <1>0, <1>2
  <2>3. visited'[t] = n + 1 /\ visited' \in [Users -> 1..MaxKeys+1]
    BY <1>t, <1>0, <2>2, Zenon DEF Tv!Types
  <2> QED
    BY <1>2, <2>1, <2>2, <2>3
<1>4. /\ Tv!Visits(t, n) = round[t] - 1
      /\ \A m \in Tv!Keys : (visited'[t] > m) = (visited[t] > m \/ m = n)
  BY <1>0, <1>2, <1>3 DEF Tv!Visits
<1>5. \A v \in Vars : index[v] # 0 => index[v] \in Tv!Keys
  BY <1>t, <1>2 DEF Tv!Types
<1>6. \A v \in Vars :
          /\ index[v] # 0 /\ index[v] # n => Tv!Visits(t, index[v])' = Tv!Visits(t, index[v])
          /\ index[v] = n => Tv!Visits(t, index[v])' = round[t]
  BY <1>0, <1>3, <1>4, <1>5, Zenon DEF Tv!Visits
<1>7. /\ cxx # 0 /\ cxx # n => Tv!Visits(t, cxx)' = Tv!Visits(t, cxx)
      /\ cxx = n => Tv!Visits(t, cxx)' = round[t]
      /\ cxx # 0 => cxx \in Tv!Keys
  <2>1. cxx # 0 => cxx \in Tv!Keys
    BY <1>t, KeyRange, Zenon DEF Tv!Types
  <2> QED
    BY <1>0, <1>3, <1>4, <2>1, Zenon DEF Tv!Visits
<1>8. \A v \in Vars : first[t][v] # 0 /\ index[v] = n =>
          /\ tsd[t][n] = first[t][v] /\ first[t][v] \notin freed[t]
          /\ rounds[t][first[t][v]] = Iterations - round[t]
  BY <1>i, <1>2, <1>3, <1>4 DEF Tv!Storage
<1>9. Tv!Control(t)'
  <2>1. round[t] # 0
    BY <1>2, <1>3
  <2>2. asking'[t] = "destructors" /\ round'[t] = round[t]
    BY <1>0, Zenon
  <2> QED
    BY <2>1, <2>2, Zenon DEF Tv!Control
<1>10. Tv!Ended(t)'
  BY <1>0, Zenon DEF Tv!Ended
<1> QED
  BY <1>s, <1>3, <1>4, <1>5, <1>6, <1>7, <1>8, <1>9, <1>10, Zenon

\* A key without a value: nothing is called.
LEMMA VisitNothing ==
    ASSUME Tv!Assumptions, Tv!IInv, NEW t \in Users, Tv!Visit(t), tsd[t][visited[t]] = 0
    PROVE  Tv!IInv'
<1> DEFINE n == visited[t]
<1>t. Tv!Types
  BY Zenon DEF Tv!IInv
<1>i. Tv!Control(t) /\ Tv!FirstOf(t) /\ Tv!Storage(t) /\ Tv!Asked(t) /\ Tv!Runtime(t) /\ Tv!Ended(t)
  BY Zenon DEF Tv!IInv, Tv!TInv
<1>0. /\ asking[t] = "destructors" /\ n \in Tv!Keys /\ visited' = [visited EXCEPT ![t] = @ + 1]
      /\ UNCHANGED <<index, cxx, next_key, blocks, first, asking, arg, found, round>>
  BY Zenon DEF Tv!Visit, Tv!shared
<1>1. Extended /\ Tv!OneKey'
  BY <1>0, KeysStay, Zenon DEF Extended, Tv!IInv
<1>3. round[t] >= 1 /\ visited'[t] = n + 1 /\ visited' \in [Users -> 1..MaxKeys+1]
  BY VisitCounts, Zenon
<1>4. /\ Tv!Visits(t, n) = round[t] - 1
      /\ \A m \in Tv!Keys : (visited'[t] > m) = (visited[t] > m \/ m = n)
  BY VisitCounts, Zenon
<1>6. \A v \in Vars :
          /\ index[v] # 0 /\ index[v] # n => Tv!Visits(t, index[v])' = Tv!Visits(t, index[v])
          /\ index[v] = n => Tv!Visits(t, index[v])' = round[t]
  BY VisitCounts, Zenon
<1>7. /\ cxx # 0 /\ cxx # n => Tv!Visits(t, cxx)' = Tv!Visits(t, cxx)
      /\ cxx = n => Tv!Visits(t, cxx)' = round[t]
      /\ cxx # 0 => cxx \in Tv!Keys
  BY VisitCounts, Zenon
<1>8. \A v \in Vars : first[t][v] # 0 /\ index[v] = n =>
          /\ tsd[t][n] = first[t][v] /\ first[t][v] \notin freed[t]
          /\ rounds[t][first[t][v]] = Iterations - round[t]
  BY VisitCounts, Zenon
<1>9. Tv!Control(t)' /\ Tv!Ended(t)'
  BY VisitCounts, Zenon
<1>11. UNCHANGED <<tsd, tsd_used, rounds, freed, registered, again>>
  BY Zenon DEF Tv!Visit
<1>12. Tv!Types'
  BY <1>t, <1>0, <1>3, <1>11, Zenon DEF Tv!Types
<1>13. ASSUME NEW u \in Users, u # t PROVE Tv!TInv(u)'
  <2>1. Untouched(u)
    BY <1>t, <1>0, <1>11, <1>13, Zenon DEF Untouched, Tv!Types
  <2> QED
    BY <1>0, <1>1, <1>13, <2>1, OtherKeeps, Zenon DEF Tv!IInv
<1>14. Tv!FirstOf(t)'
  BY <1>i, <1>0, <1>11, Zenon DEF Tv!FirstOf
<1>15. Tv!Storage(t)'
  <2>1. \A v \in Vars : first[t][v] # 0 => index[v] # n /\ index[v] # 0
    BY <1>i, <1>8, Zenon DEF Tv!Storage
  <2>2. \A v \in Vars : first[t][v] # 0 => Tv!Visits(t, index[v])' = Tv!Visits(t, index[v])
    BY <1>6, <2>1, Zenon
  <2>3. Tv!Storage(t)
    BY Zenon DEF Tv!IInv, Tv!TInv
  <2> QED
    BY <1>0, <1>11, <2>2, <2>3, Zenon DEF Tv!Storage
<1>16. Tv!Asked(t)'
  BY <1>i, <1>0, <1>4, <1>11, Zenon DEF Tv!Asked
<1>17. Tv!Runtime(t)'
  BY <1>i, <1>0, <1>7, <1>11, Zenon DEF Tv!Runtime
<1> QED
  BY <1>1, <1>9, <1>12, <1>13, <1>14, <1>15, <1>16, <1>17, Zenon DEF Tv!IInv, Tv!TInv

\* The runtime's destructor runs what is registered, or registers anew.
LEMMA VisitRuntime ==
    ASSUME Tv!Assumptions, Tv!IInv, NEW t \in Users, Tv!Visit(t), tsd[t][visited[t]] # 0,
           visited[t] = cxx
    PROVE  Tv!IInv'
<1> DEFINE n == visited[t]
<1>t. Tv!Types
  BY Zenon DEF Tv!IInv
<1>i. Tv!Control(t) /\ Tv!FirstOf(t) /\ Tv!Storage(t) /\ Tv!Asked(t) /\ Tv!Runtime(t) /\ Tv!Ended(t)
  BY Zenon DEF Tv!IInv, Tv!TInv
<1>0. /\ asking[t] = "destructors" /\ n \in Tv!Keys /\ visited' = [visited EXCEPT ![t] = @ + 1]
      /\ UNCHANGED <<index, cxx, next_key, blocks, first, asking, arg, found, round>>
  BY Zenon DEF Tv!Visit, Tv!shared
<1>1. Extended /\ Tv!OneKey'
  BY <1>0, KeysStay, Zenon DEF Extended, Tv!IInv
<1>2. Sizes(t)
  BY VisitCounts, Zenon
<1>3. round[t] >= 1 /\ visited'[t] = n + 1 /\ visited' \in [Users -> 1..MaxKeys+1]
  BY VisitCounts, Zenon
<1>4. /\ Tv!Visits(t, n) = round[t] - 1
      /\ \A m \in Tv!Keys : (visited'[t] > m) = (visited[t] > m \/ m = n)
  BY VisitCounts, Zenon
<1>5. \A v \in Vars : index[v] # 0 => index[v] \in Tv!Keys
  BY VisitCounts, Zenon
<1>6. \A v \in Vars :
          /\ index[v] # 0 /\ index[v] # n => Tv!Visits(t, index[v])' = Tv!Visits(t, index[v])
          /\ index[v] = n => Tv!Visits(t, index[v])' = round[t]
  BY VisitCounts, Zenon
<1>7. /\ cxx # 0 /\ cxx # n => Tv!Visits(t, cxx)' = Tv!Visits(t, cxx)
      /\ cxx = n => Tv!Visits(t, cxx)' = round[t]
      /\ cxx # 0 => cxx \in Tv!Keys
  BY VisitCounts, Zenon
<1>9. Tv!Control(t)' /\ Tv!Ended(t)'
  BY VisitCounts, Zenon
<1>10. Tv!RunRegistered(t)
  BY Zenon DEF Tv!Visit
<1>11. UNCHANGED <<rounds, freed>>
  BY <1>10, Zenon DEF Tv!RunRegistered
<1>12. cxx \in Tv!Keys /\ registered[t] # {} /\ again[t] = round[t] - 1
  <2>1. cxx \in Tv!Keys /\ cxx # 0
    BY <1>0, <1>2 DEF Sizes
  <2>2. Tv!Runtime(t)
    BY Zenon DEF Tv!IInv, Tv!TInv
  <2> QED
    BY <1>4, <2>1, <2>2, Zenon DEF Tv!Runtime
<1>13. \A v \in Vars : index[v] # n
  BY <1>0, <1>2 DEF Tv!IInv, Tv!OneKey, Sizes
<1>14. /\ tsd' \in [Users -> [Tv!Keys -> 0..MaxKeys]]
       /\ \A m \in Tv!Keys : m # cxx => tsd'[t][m] = tsd[t][m]
       /\ \A u \in Users : u # t => tsd'[u] = tsd[u]
  <2>1. tsd' = tsd \/ tsd' = [tsd EXCEPT ![t][cxx] = 0]
    BY <1>10, Zenon DEF Tv!RunRegistered
  <2>2. tsd \in [Users -> [Tv!Keys -> 0..MaxKeys]] /\ 0 \in 0..MaxKeys
    <3>1. 0 \in 0..MaxKeys
      BY <1>2 DEF Sizes
    <3> QED
      BY <1>t, <3>1, Zenon DEF Tv!Types
  <2>3. CASE tsd' = [tsd EXCEPT ![t][cxx] = 0]
    BY <1>12, <2>2, <2>3, Zenon
  <2> QED
    BY <2>1, <2>2, <2>3, Zenon
<1>15. /\ tsd_used' \in [Users -> BOOLEAN]
       /\ registered' \in [Users -> SUBSET Vars]
       /\ again' \in [Users -> 0..MaxAgain]
       /\ \A u \in Users : u # t =>
              tsd_used'[u] = tsd_used[u] /\ registered'[u] = registered[u] /\ again'[u] = again[u]
  <2>1. /\ tsd_used \in [Users -> BOOLEAN] /\ registered \in [Users -> SUBSET Vars]
        /\ again \in [Users -> 0..MaxAgain]
    BY <1>t, Zenon DEF Tv!Types
  <2>2. CASE /\ again[t] < MaxAgain
             /\ again' = [again EXCEPT ![t] = @ + 1]
             /\ tsd_used' = [tsd_used EXCEPT ![t] = TRUE]
             /\ registered' = registered
    <3>1. again[t] + 1 \in 0..MaxAgain
      BY <1>2, <2>1, <2>2 DEF Sizes
    <3>2. again' \in [Users -> 0..MaxAgain]
      BY <2>1, <2>2, <3>1, Zenon
    <3> QED
      BY <2>1, <2>2, <3>2, Zenon
  <2>3. CASE registered' = [registered EXCEPT ![t] = {}] /\ UNCHANGED <<again, tsd_used>>
    BY <2>1, <2>3, Zenon
  <2> QED
    BY <1>10, <2>2, <2>3, Zenon DEF Tv!RunRegistered
<1>16. Tv!Types'
  BY <1>t, <1>0, <1>3, <1>11, <1>14, <1>15, Zenon DEF Tv!Types
<1>17. ASSUME NEW u \in Users, u # t PROVE Tv!TInv(u)'
  <2>1. Untouched(u)
    BY <1>t, <1>0, <1>11, <1>14, <1>15, <1>17, Zenon DEF Untouched, Tv!Types
  <2> QED
    BY <1>0, <1>1, <1>17, <2>1, OtherKeeps, Zenon DEF Tv!IInv
<1>18. Tv!FirstOf(t)'
  BY <1>i, <1>0, <1>11, ZenonT(40) DEF Tv!FirstOf
<1>19. Tv!Storage(t)'
  <2>1. \A v \in Vars : index[v] # 0 => Tv!Visits(t, index[v])' = Tv!Visits(t, index[v])
    BY <1>6, <1>13, Zenon
  <2>2. \A v \in Vars : index[v] # 0 => tsd'[t][index[v]] = tsd[t][index[v]]
    BY <1>5, <1>13, <1>14, Zenon
  <2>3. Tv!Storage(t)
    BY Zenon DEF Tv!IInv, Tv!TInv
  <2> QED
    BY <1>0, <1>11, <2>1, <2>2, <2>3, Zenon DEF Tv!Storage
<1>20. Tv!Asked(t)' /\ Tv!Runtime(t)'
  <2>1. CASE /\ again[t] < MaxAgain
             /\ again' = [again EXCEPT ![t] = @ + 1]
             /\ tsd_used' = [tsd_used EXCEPT ![t] = TRUE]
             /\ UNCHANGED <<tsd, registered>>
    <3>1. again'[t] = round[t] /\ tsd_used'[t]
      BY <1>t, <1>2, <1>12, <2>1 DEF Tv!Types, Sizes
    <3>2. Tv!Asked(t)'
      BY <1>i, <1>0, <2>1, <3>1, Zenon DEF Tv!Asked
    <3>3. Tv!Runtime(t)'
      BY <1>i, <1>0, <1>7, <1>12, <2>1, <3>1, Zenon DEF Tv!Runtime
    <3> QED
      BY <3>2, <3>3, Zenon
  <2>2. CASE /\ tsd' = [tsd EXCEPT ![t][cxx] = 0]
             /\ registered' = [registered EXCEPT ![t] = {}]
             /\ UNCHANGED <<again, tsd_used>>
    <3>1. tsd'[t][cxx] = 0 /\ registered'[t] = {}
      <4>1. tsd \in [Users -> [Tv!Keys -> 0..MaxKeys]] /\ registered \in [Users -> SUBSET Vars]
        BY <1>t, Zenon DEF Tv!Types
      <4> QED
        BY <1>12, <2>2, <4>1, Zenon
    <3>2. Tv!Asked(t)'
      BY <1>i, <1>0, <1>4, <1>14, <2>2, <3>1 DEF Tv!Asked
    <3>3. Tv!Runtime(t)'
      BY <1>0, <3>1, Zenon DEF Tv!Runtime
    <3> QED
      BY <3>2, <3>3, Zenon
  <2> QED
    BY <1>10, <2>1, <2>2, Zenon DEF Tv!RunRegistered
<1> QED
  BY <1>1, <1>9, <1>16, <1>17, <1>18, <1>19, <1>20, Zenon DEF Tv!IInv, Tv!TInv

\* b is the one block of t's variable x, whose key the round has come to.
BlockOf(t, x, b) ==
    /\ index[x] = visited[t] /\ first[t][x] = b /\ b # 0
    /\ tsd[t][visited[t]] = b /\ b \notin freed[t] /\ rounds[t][b] = Iterations - round[t]
    /\ b \in 1..blocks[t]
    /\ \A v \in Vars : v # x =>
           /\ index[v] # visited[t]
           /\ first[t][v] # 0 => first[t][v] # b /\ first[t][v] \in Tv!Blocks

\* A variable's destructor is called with the one block of its variable.
LEMMA VisitBlock ==
    ASSUME Tv!Assumptions, Tv!IInv, NEW t \in Users, Tv!Visit(t), tsd[t][visited[t]] # 0,
           visited[t] # cxx
    PROVE  /\ Tv!Release(t, visited[t], tsd[t][visited[t]]) /\ UNCHANGED <<registered, again>>
           /\ \E x \in Vars, b \in Tv!Blocks : BlockOf(t, x, b)
<1> DEFINE n == visited[t]
<1>t. Tv!Types
  BY Zenon DEF Tv!IInv
<1>i. Tv!Control(t) /\ Tv!FirstOf(t) /\ Tv!Storage(t) /\ Tv!Asked(t) /\ Tv!Runtime(t) /\ Tv!Ended(t)
  BY Zenon DEF Tv!IInv, Tv!TInv
<1>0. /\ asking[t] = "destructors" /\ n \in Tv!Keys /\ visited' = [visited EXCEPT ![t] = @ + 1]
      /\ UNCHANGED <<index, cxx, next_key, blocks, first, asking, arg, found, round>>
  BY Zenon DEF Tv!Visit, Tv!shared
<1>2. Sizes(t)
  BY VisitCounts, Zenon
<1>8. \A v \in Vars : first[t][v] # 0 /\ index[v] = n =>
          /\ tsd[t][n] = first[t][v] /\ first[t][v] \notin freed[t]
          /\ rounds[t][first[t][v]] = Iterations - round[t]
  BY VisitCounts, Zenon
<1>10. Tv!Release(t, n, tsd[t][n]) /\ UNCHANGED <<registered, again>>
  BY Zenon DEF Tv!Visit
<1>11. PICK x \in Vars : index[x] = n
  BY <1>i, <1>0, Zenon DEF Tv!Asked
<1>12. first[t][x] # 0
  <2>1. n \in Tv!Keys
    BY <1>0, Zenon
  <2>2. n # 0
    BY <1>2, <2>1 DEF Sizes
  <2> QED
    BY <1>i, <1>11, <2>2, Zenon DEF Tv!Storage
<1> DEFINE b == first[t][x]
<1>13. tsd[t][n] = b /\ b \notin freed[t] /\ rounds[t][b] = Iterations - round[t]
  BY <1>8, <1>11, <1>12, Zenon
<1>14. b \in Tv!Blocks /\ b \in 1..blocks[t]
  <2>1. b \in 0..MaxKeys /\ b # 0 /\ b <= blocks[t] /\ blocks[t] \in 0..MaxKeys
    <3>1. blocks \in [Users -> 0..MaxKeys] /\ first \in [Users -> [Vars -> 0..MaxKeys]]
      BY <1>t, Zenon DEF Tv!Types
    <3> QED
      BY <1>i, <1>11, <1>12, <3>1 DEF Tv!FirstOf
  <2> QED
    BY <1>2, <2>1 DEF Sizes
<1>15. \A v \in Vars : v # x =>
          /\ index[v] # n
          /\ first[t][v] # 0 => first[t][v] # b /\ first[t][v] \in Tv!Blocks
  <2> SUFFICES ASSUME NEW v \in Vars, v # x
               PROVE  index[v] # n /\ (first[t][v] # 0 => first[t][v] # b /\ first[t][v] \in Tv!Blocks)
    OBVIOUS
  <2>1. index[v] # n
    BY <1>0, <1>2, <1>11 DEF Tv!IInv, Tv!OneKey, Sizes
  <2>2. first[t][v] # 0 => first[t][v] # b
    BY <1>i, <1>12, Zenon DEF Tv!FirstOf
  <2>3. first[t][v] \in 0..MaxKeys
    BY <1>t DEF Tv!Types
  <2> QED
    BY <1>2, <2>1, <2>2, <2>3 DEF Sizes
<1>16. BlockOf(t, x, b)
  BY <1>11, <1>12, <1>13, <1>14, <1>15, Zenon DEF BlockOf
<1> QED
  BY <1>10, <1>14, <1>16, Zenon

\* A header that counts keeps its block for another round.
LEMMA VisitKept ==
    ASSUME Tv!Assumptions, Tv!IInv, NEW t \in Users, Tv!Visit(t),
           visited[t] # cxx, UNCHANGED <<registered, again>>, Tv!Release(t, visited[t], tsd[t][visited[t]]),
           NEW x \in Vars, NEW b \in Tv!Blocks, BlockOf(t, x, b), rounds[t][b] > 0
    PROVE  Tv!IInv'
<1> DEFINE n == visited[t]
<1>t. Tv!Types
  BY Zenon DEF Tv!IInv
<1>i. Tv!Control(t) /\ Tv!FirstOf(t) /\ Tv!Storage(t) /\ Tv!Asked(t) /\ Tv!Runtime(t) /\ Tv!Ended(t)
  BY Zenon DEF Tv!IInv, Tv!TInv
<1>0. /\ asking[t] = "destructors" /\ n \in Tv!Keys /\ visited' = [visited EXCEPT ![t] = @ + 1]
      /\ UNCHANGED <<index, cxx, next_key, blocks, first, asking, arg, found, round>>
  BY Zenon DEF Tv!Visit, Tv!shared
<1>1. Extended /\ Tv!OneKey'
  BY <1>0, KeysStay, Zenon DEF Extended, Tv!IInv
<1>2. Sizes(t)
  BY VisitCounts, Zenon
<1>3. round[t] >= 1 /\ visited'[t] = n + 1 /\ visited' \in [Users -> 1..MaxKeys+1]
  BY VisitCounts, Zenon
<1>6. \A v \in Vars :
          /\ index[v] # 0 /\ index[v] # n => Tv!Visits(t, index[v])' = Tv!Visits(t, index[v])
          /\ index[v] = n => Tv!Visits(t, index[v])' = round[t]
  BY VisitCounts, Zenon
<1>7. /\ cxx # 0 /\ cxx # n => Tv!Visits(t, cxx)' = Tv!Visits(t, cxx)
      /\ cxx = n => Tv!Visits(t, cxx)' = round[t]
      /\ cxx # 0 => cxx \in Tv!Keys
  BY VisitCounts, Zenon
<1>9. Tv!Control(t)' /\ Tv!Ended(t)'
  BY VisitCounts, Zenon
<1>11. index[x] = n /\ first[t][x] = b /\ b # 0
  BY Zenon DEF BlockOf
<1>13. tsd[t][n] = b /\ b \notin freed[t] /\ rounds[t][b] = Iterations - round[t]
  BY Zenon DEF BlockOf
<1>14. b \in 1..blocks[t]
  BY Zenon DEF BlockOf
<1>15. \A v \in Vars : v # x =>
          /\ index[v] # n
          /\ first[t][v] # 0 => first[t][v] # b /\ first[t][v] \in Tv!Blocks
  BY Zenon DEF BlockOf
<1>21. /\ rounds' = [rounds EXCEPT ![t][b] = @ - 1]
       /\ tsd_used' = [tsd_used EXCEPT ![t] = TRUE]
       /\ UNCHANGED <<tsd, freed>>
  BY <1>13, Zenon DEF Tv!Release
<1>22. /\ rounds' \in [Users -> [Tv!Blocks -> Nat]]
       /\ rounds'[t] = [rounds[t] EXCEPT ![b] = rounds[t][b] - 1]
       /\ tsd_used' \in [Users -> BOOLEAN] /\ tsd_used'[t]
  <2>1. rounds \in [Users -> [Tv!Blocks -> Nat]] /\ tsd_used \in [Users -> BOOLEAN]
    BY <1>t, Zenon DEF Tv!Types
  <2>2. rounds[t][b] - 1 \in Nat
    BY <1>14, <2>1
  <2>3. rounds'[t] = [rounds[t] EXCEPT ![b] = rounds[t][b] - 1]
    BY <1>21, <2>1, Zenon
  <2>4. rounds'[t] \in [Tv!Blocks -> Nat]
    <3>1. rounds[t] \in [Tv!Blocks -> Nat]
      BY <2>1, Zenon
    <3>2. ASSUME NEW f \in [Tv!Blocks -> Nat], NEW c \in Tv!Blocks, NEW y \in Nat
          PROVE  [f EXCEPT ![c] = y] \in [Tv!Blocks -> Nat]
      OBVIOUS
    <3> QED
      BY <1>14, <2>2, <2>3, <3>1, <3>2, Zenon
  <2>5. rounds' \in [Users -> [Tv!Blocks -> Nat]]
    BY <1>21, <2>1, <2>3, <2>4, Zenon
  <2> QED
    BY <1>21, <2>1, <2>3, <2>5, Zenon
<1>23. Tv!Types'
  BY <1>t, <1>0, <1>3, <1>21, <1>22, Zenon DEF Tv!Types
<1>24. ASSUME NEW u \in Users, u # t PROVE Tv!TInv(u)'
  <2>1. Untouched(u)
    BY <1>t, <1>0, <1>21, <1>24, Zenon DEF Untouched, Tv!Types
  <2> QED
    BY <1>0, <1>1, <1>24, <2>1, OtherKeeps, Zenon DEF Tv!IInv
<1>25. Tv!FirstOf(t)'
  BY <1>i, <1>0, <1>21, Zenon DEF Tv!FirstOf
<1>26. Tv!Storage(t)'
  <2> SUFFICES ASSUME NEW v \in Vars
               PROVE  /\ first[t][v] = 0 /\ index[v] # 0 => tsd[t][index[v]] = 0
                      /\ first[t][v] # 0 => index[v] # 0
                      /\ first[t][v] # 0 /\ Tv!Visits(t, index[v])' < Iterations =>
                             /\ tsd[t][index[v]] = first[t][v]
                             /\ first[t][v] \notin freed[t]
                             /\ rounds'[t][first[t][v]] = Iterations - 1 - Tv!Visits(t, index[v])'
                      /\ first[t][v] # 0 /\ Tv!Visits(t, index[v])' >= Iterations =>
                             tsd[t][index[v]] = 0 /\ first[t][v] \in freed[t]
    BY <1>0, <1>21, Zenon DEF Tv!Storage
  <2>1. CASE v = x
    <3>1. Tv!Visits(t, index[v])' = round[t]
      BY <1>6, <1>11, <2>1, Zenon
    <3>2. rounds'[t][b] = Iterations - 1 - round[t]
      <4>1. rounds[t] \in [Tv!Blocks -> Nat]
        BY <1>t, Zenon DEF Tv!Types
      <4>2. rounds'[t][b] = rounds[t][b] - 1
        BY <1>14, <1>22, <4>1, Zenon
      <4> QED
        BY <1>2, <1>13, <4>2 DEF Sizes
    <3>3. n \in Tv!Keys
      BY <1>0, Zenon
    <3>4. n # 0 /\ ~(round[t] >= Iterations)
      BY <1>2, <1>13, <3>3 DEF Sizes
    <3> QED
      BY <1>11, <1>13, <2>1, <3>1, <3>2, <3>4, Zenon
  <2>2. CASE v # x
    <3>1. index[v] # 0 => Tv!Visits(t, index[v])' = Tv!Visits(t, index[v])
      BY <1>6, <1>15, <2>2, Zenon
    <3>2. first[t][v] # 0 => rounds'[t][first[t][v]] = rounds[t][first[t][v]]
      BY <1>t, <1>14, <1>15, <1>22, <2>2 DEF Tv!Types
    <3> QED
      BY <1>i, <3>1, <3>2, Zenon DEF Tv!Storage
  <2> QED
    BY <2>1, <2>2, Zenon
<1>27. Tv!Asked(t)'
  BY <1>i, <1>0, <1>21, <1>22, Zenon DEF Tv!Asked
<1>28. Tv!Runtime(t)'
  BY <1>i, <1>0, <1>7, <1>21, Zenon DEF Tv!Runtime
<1> QED
  BY <1>1, <1>9, <1>23, <1>24, <1>25, <1>26, <1>27, <1>28, Zenon DEF Tv!IInv, Tv!TInv

\* A header that counts no more gives its block back.
LEMMA VisitFreed ==
    ASSUME Tv!Assumptions, Tv!IInv, NEW t \in Users, Tv!Visit(t),
           visited[t] # cxx, UNCHANGED <<registered, again>>, Tv!Release(t, visited[t], tsd[t][visited[t]]),
           NEW x \in Vars, NEW b \in Tv!Blocks, BlockOf(t, x, b), ~(rounds[t][b] > 0)
    PROVE  Tv!IInv'
<1> DEFINE n == visited[t]
<1>t. Tv!Types
  BY Zenon DEF Tv!IInv
<1>i. Tv!Control(t) /\ Tv!FirstOf(t) /\ Tv!Storage(t) /\ Tv!Asked(t) /\ Tv!Runtime(t) /\ Tv!Ended(t)
  BY Zenon DEF Tv!IInv, Tv!TInv
<1>0. /\ asking[t] = "destructors" /\ n \in Tv!Keys /\ visited' = [visited EXCEPT ![t] = @ + 1]
      /\ UNCHANGED <<index, cxx, next_key, blocks, first, asking, arg, found, round>>
  BY Zenon DEF Tv!Visit, Tv!shared
<1>1. Extended /\ Tv!OneKey'
  BY <1>0, KeysStay, Zenon DEF Extended, Tv!IInv
<1>2. Sizes(t)
  BY VisitCounts, Zenon
<1>3. round[t] >= 1 /\ visited'[t] = n + 1 /\ visited' \in [Users -> 1..MaxKeys+1]
  BY VisitCounts, Zenon
<1>4. /\ Tv!Visits(t, n) = round[t] - 1
      /\ \A m \in Tv!Keys : (visited'[t] > m) = (visited[t] > m \/ m = n)
  BY VisitCounts, Zenon
<1>5. \A v \in Vars : index[v] # 0 => index[v] \in Tv!Keys
  BY VisitCounts, Zenon
<1>6. \A v \in Vars :
          /\ index[v] # 0 /\ index[v] # n => Tv!Visits(t, index[v])' = Tv!Visits(t, index[v])
          /\ index[v] = n => Tv!Visits(t, index[v])' = round[t]
  BY VisitCounts, Zenon
<1>7. /\ cxx # 0 /\ cxx # n => Tv!Visits(t, cxx)' = Tv!Visits(t, cxx)
      /\ cxx = n => Tv!Visits(t, cxx)' = round[t]
      /\ cxx # 0 => cxx \in Tv!Keys
  BY VisitCounts, Zenon
<1>9. Tv!Control(t)' /\ Tv!Ended(t)'
  BY VisitCounts, Zenon
<1>11. index[x] = n /\ first[t][x] = b /\ b # 0
  BY Zenon DEF BlockOf
<1>13. tsd[t][n] = b /\ b \notin freed[t] /\ rounds[t][b] = Iterations - round[t]
  BY Zenon DEF BlockOf
<1>14. b \in 1..blocks[t]
  BY Zenon DEF BlockOf
<1>15. \A v \in Vars : v # x =>
          /\ index[v] # n
          /\ first[t][v] # 0 => first[t][v] # b /\ first[t][v] \in Tv!Blocks
  BY Zenon DEF BlockOf
<1>21. /\ freed' = [freed EXCEPT ![t] = @ \cup {b}]
       /\ tsd' = [tsd EXCEPT ![t][n] = 0]
       /\ UNCHANGED <<rounds, tsd_used>>
  BY <1>13, Zenon DEF Tv!Release
<1>22. /\ tsd' \in [Users -> [Tv!Keys -> 0..MaxKeys]]
       /\ tsd'[t][n] = 0
       /\ \A m \in Tv!Keys : m # n => tsd'[t][m] = tsd[t][m]
       /\ freed' \in [Users -> SUBSET Tv!Blocks] /\ freed'[t] = freed[t] \cup {b}
  <2>1. /\ tsd \in [Users -> [Tv!Keys -> 0..MaxKeys]] /\ freed \in [Users -> SUBSET Tv!Blocks]
        /\ 0 \in 0..MaxKeys
    <3>1. 0 \in 0..MaxKeys
      BY <1>2 DEF Sizes
    <3> QED
      BY <1>t, <3>1, Zenon DEF Tv!Types
  <2>2. tsd'[t] = [tsd[t] EXCEPT ![n] = 0]
    BY <1>21, <2>1, Zenon
  <2>3. tsd'[t] \in [Tv!Keys -> 0..MaxKeys] /\ tsd'[t][n] = 0
    <3>1. n \in Tv!Keys
      BY <1>0, Zenon
    <3> QED
      BY <2>1, <2>2, <3>1, Zenon
  <2>4. \A m \in Tv!Keys : m # n => tsd'[t][m] = tsd[t][m]
    BY <2>1, <2>2, Zenon
  <2>5. tsd' \in [Users -> [Tv!Keys -> 0..MaxKeys]]
    BY <1>21, <2>1, <2>3, Zenon
  <2>6. freed' \in [Users -> SUBSET Tv!Blocks] /\ freed'[t] = freed[t] \cup {b}
    BY <1>14, <1>21, <2>1, Zenon
  <2> QED
    BY <2>3, <2>4, <2>5, <2>6, Zenon
<1>23. Tv!Types'
  BY <1>t, <1>0, <1>3, <1>21, <1>22, Zenon DEF Tv!Types
<1>24. ASSUME NEW u \in Users, u # t PROVE Tv!TInv(u)'
  <2>1. Untouched(u)
    BY <1>t, <1>0, <1>21, <1>24, Zenon DEF Untouched, Tv!Types
  <2> QED
    BY <1>0, <1>1, <1>24, <2>1, OtherKeeps, Zenon DEF Tv!IInv
<1>25. Tv!FirstOf(t)'
  BY <1>i, <1>0, <1>14, <1>22, Zenon DEF Tv!FirstOf
<1>26. Tv!Storage(t)'
  <2> SUFFICES ASSUME NEW v \in Vars
               PROVE  /\ first[t][v] = 0 /\ index[v] # 0 => tsd'[t][index[v]] = 0
                      /\ first[t][v] # 0 => index[v] # 0
                      /\ first[t][v] # 0 /\ Tv!Visits(t, index[v])' < Iterations =>
                             /\ tsd'[t][index[v]] = first[t][v]
                             /\ first[t][v] \notin freed'[t]
                             /\ rounds[t][first[t][v]] = Iterations - 1 - Tv!Visits(t, index[v])'
                      /\ first[t][v] # 0 /\ Tv!Visits(t, index[v])' >= Iterations =>
                             tsd'[t][index[v]] = 0 /\ first[t][v] \in freed'[t]
    BY <1>0, <1>21, Zenon DEF Tv!Storage
  <2>1. CASE v = x
    <3>1. Tv!Visits(t, index[v])' = round[t]
      BY <1>6, <1>11, <2>1, Zenon
    <3>2. n \in Tv!Keys
      BY <1>0, Zenon
    <3>3. n # 0 /\ ~(round[t] < Iterations)
      BY <1>2, <1>13, <3>2 DEF Sizes
    <3> QED
      BY <1>11, <1>22, <2>1, <3>1, <3>3, Zenon
  <2>2. CASE v # x
    <3>1. index[v] # 0 => Tv!Visits(t, index[v])' = Tv!Visits(t, index[v])
      BY <1>6, <1>15, <2>2, Zenon
    <3>2. index[v] # 0 => tsd'[t][index[v]] = tsd[t][index[v]]
      BY <1>5, <1>15, <1>22, <2>2, Zenon
    <3>3. first[t][v] # 0 => (first[t][v] \in freed'[t] <=> first[t][v] \in freed[t])
      BY <1>15, <1>22, <2>2, Zenon
    <3> QED
      BY <1>i, <3>1, <3>2, <3>3, Zenon DEF Tv!Storage
  <2> QED
    BY <2>1, <2>2, Zenon
<1>27. Tv!Asked(t)'
  BY <1>i, <1>0, <1>4, <1>21, <1>22, Zenon DEF Tv!Asked
<1>28. Tv!Runtime(t)'
  BY <1>i, <1>0, <1>7, <1>22, Zenon DEF Tv!Runtime
<1> QED
  BY <1>1, <1>9, <1>23, <1>24, <1>25, <1>26, <1>27, <1>28, Zenon DEF Tv!IInv, Tv!TInv

\* A call of a destructor keeps the invariant.
LEMMA VisitKeeps ==
    ASSUME Tv!Assumptions, Tv!IInv, NEW t \in Users, Tv!Visit(t)
    PROVE  Tv!IInv'
<1>1. CASE tsd[t][visited[t]] = 0
  BY <1>1, VisitNothing, Zenon
<1>2. CASE tsd[t][visited[t]] # 0 /\ visited[t] = cxx
  BY <1>2, VisitRuntime, Zenon
<1>3. CASE tsd[t][visited[t]] # 0 /\ visited[t] # cxx
  <2>1. Tv!Release(t, visited[t], tsd[t][visited[t]]) /\ UNCHANGED <<registered, again>>
    BY <1>3, VisitBlock, Zenon
  <2>2. PICK x \in Vars, b \in Tv!Blocks : BlockOf(t, x, b)
    BY <1>3, VisitBlock, Zenon
  <2>3. CASE rounds[t][b] > 0
    BY <1>3, <2>1, <2>2, <2>3, VisitKept, Zenon
  <2>4. CASE ~(rounds[t][b] > 0)
    BY <1>3, <2>1, <2>2, <2>4, VisitFreed, Zenon
  <2> QED
    BY <2>3, <2>4, Zenon
<1> QED
  BY <1>1, <1>2, <1>3, Zenon

-----------------------------------------------------------------------------
\* Every step keeps the invariant.
LEMMA VarsNextIInv == Tv!Assumptions /\ Tv!IInv /\ [Tv!Next]_(Tv!vars) => Tv!IInv'
<1> SUFFICES ASSUME Tv!Assumptions, Tv!IInv, [Tv!Next]_(Tv!vars) PROVE Tv!IInv'
  OBVIOUS
<1>1. CASE UNCHANGED Tv!vars
  <2>1. /\ UNCHANGED <<index, cxx, next_key, tsd, tsd_used, rounds, blocks, freed>>
        /\ UNCHANGED <<first, registered, again, asking, arg, found, round, visited>>
    BY <1>1, Zenon DEF Tv!vars
  <2>2. Tv!Types' /\ Tv!OneKey'
    BY <2>1, Zenon DEF Tv!IInv, Tv!Types, Tv!OneKey
  <2>3. Extended /\ \A u \in Users : Untouched(u)
    BY <2>1, Zenon DEF Extended, Untouched
  <2> QED
    BY <2>1, <2>2, <2>3, OtherKeeps, Zenon DEF Tv!IInv
<1> QED
  BY <1>1, LookKeeps, MakeKeeps, GetKeeps, RegisterKeeps, ExitKeeps, RoundKeeps, VisitKeeps,
     Zenon DEF Tv!Next

\* Whatever the number of threads, variables and keys, and in whatever order
\* the keys were made: a thread's variable is its own from the first use until
\* its last registered destructor has run, and its storage is then given back.
THEOREM VariablesOutliveDestructors == Tv!Assumptions => (Tv!Spec => []Tv!VariablesKept)
<1> SUFFICES ASSUME Tv!Assumptions PROVE Tv!Spec => []Tv!VariablesKept
  OBVIOUS
<1>1. Tv!Init => Tv!IInv
  BY VarsInitIInv, Zenon
<1>2. Tv!IInv /\ [Tv!Next]_(Tv!vars) => Tv!IInv'
  BY VarsNextIInv, Zenon
<1>3. Tv!IInv => Tv!VariablesKept
  <2> SUFFICES ASSUME Tv!IInv, NEW t \in Users
               PROVE  /\ asking[t] \in {"run", "make", "get"} =>
                             \A v \in Vars : first[t][v] # 0 => Tv!Kept(t, v)
                      /\ asking[t] = "destructors" /\ visited[t] = cxx /\ tsd[t][cxx] # 0 =>
                             \A v \in registered[t] : Tv!Kept(t, v)
                      /\ asking[t] = "ended" => registered[t] = {} /\ freed[t] = 1..blocks[t]
    BY Zenon DEF Tv!VariablesKept
  <2>1. /\ Iterations \in Nat /\ MaxKeys \in Nat /\ MaxAgain \in Nat /\ MaxAgain + 2 <= Iterations
        /\ round[t] \in 0..Iterations /\ visited[t] \in 1..MaxKeys+1 /\ cxx \in 0..MaxKeys
        /\ again[t] \in 0..MaxAgain /\ registered[t] \subseteq Vars
    BY Zenon DEF Tv!IInv, Tv!Types, Tv!Assumptions
  <2>2. \A v \in Vars : index[v] \in 0..MaxKeys
    BY Zenon DEF Tv!IInv, Tv!Types
  <2>3. asking[t] \in {"run", "make", "get"} => \A v \in Vars : Tv!Visits(t, index[v]) < Iterations
    <3>1. asking[t] \in {"run", "make", "get"} => round[t] = 0
      BY Zenon DEF Tv!IInv, Tv!TInv, Tv!Control
    <3> QED
      BY <2>1, <3>1 DEF Tv!Visits
  <2>4. ASSUME asking[t] = "destructors", visited[t] = cxx, tsd[t][cxx] # 0, NEW v \in registered[t]
        PROVE  first[t][v] # 0 /\ Tv!Visits(t, index[v]) < Iterations
    <3>1. cxx # 0 /\ registered[t] # {} /\ again[t] = Tv!Visits(t, cxx) /\ first[t][v] # 0
      BY <2>1, <2>4, Zenon DEF Tv!IInv, Tv!TInv, Tv!Runtime
    <3>2. again[t] = round[t] - 1
      BY <2>1, <2>4, <3>1 DEF Tv!Visits
    <3> QED
      BY <2>1, <2>2, <3>1, <3>2 DEF Tv!Visits
  <2>5. \A v \in Vars : first[t][v] # 0 /\ Tv!Visits(t, index[v]) < Iterations => Tv!Kept(t, v)
    BY Zenon DEF Tv!IInv, Tv!TInv, Tv!Storage, Tv!Kept
  <2> QED
    BY <2>1, <2>3, <2>4, <2>5, Zenon DEF Tv!IInv, Tv!TInv, Tv!Ended
<1> QED
  BY <1>1, <1>2, <1>3, PTL DEF Tv!Spec
=============================================================================
