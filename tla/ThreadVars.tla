----------------------------- MODULE ThreadVars -----------------------------
(***************************************************************************)
(* The thread-local variables of an image (port/src/image/okm_image.c,     *)
(* __emutls_get_address and tls_release) over musl's keys and the rounds   *)
(* of destructors that end a thread (pthread_key_create.c).                *)
(*                                                                         *)
(* A variable has a key, made by the first thread that asks; its storage   *)
(* in a thread is that thread's value under the key.  The C++ runtime has  *)
(* a key of its own, made when the first variable with a destructor is     *)
(* registered; the destructor of that key reads the variables registered.  *)
(* Each critical section is one step.                                      *)
(***************************************************************************)
EXTENDS Integers

CONSTANTS
    Threads,
    Vars,
    MaxKeys,        \* keys looked at in a round (PTHREAD_KEYS_MAX)
    Iterations,     \* PTHREAD_DESTRUCTOR_ITERATIONS
    MaxAgain        \* how often a destructor may register others anew

\* Each variable and the runtime have a key, and there are rounds enough for
\* the destructors that are registered by destructors, and one more.
Assumptions ==
    /\ MaxKeys \in Nat /\ Iterations \in Nat /\ MaxAgain \in Nat
    /\ MaxAgain + 2 <= Iterations

VARIABLES
    key,            \* by variable: object.index, 0 if it has none
    cxx,            \* the runtime's key, or 0
    next_key,       \* the keys made so far
    tsd,            \* by thread and key: the block that is its value, or 0
    tsd_used,
    rounds,         \* by thread and block: the count in its header
    blocks,         \* by thread: the blocks allocated
    freed,          \* by thread: those given back
    first,          \* by thread and variable: the first block it was given
    registered,     \* by thread: the variables with a destructor to run
    again,          \* by thread: the times a destructor registered others
    pc, arg,        \* by thread: where it is, and the variable it asks for
    k,              \* by thread: the key it read
    j, i            \* by thread: the round, and the key it has come to in it

vars == <<key, cxx, next_key, tsd, tsd_used, rounds, blocks, freed, first, registered, again,
          pc, arg, k, j, i>>
shared == <<key, cxx, next_key>>
values == <<tsd, tsd_used, rounds, blocks, freed>>
history == <<first, registered, again>>
ending == <<j, i>>

Blocks == 1 .. MaxKeys
Keys == 1 .. MaxKeys

Init ==
    /\ key = [v \in Vars |-> 0] /\ cxx = 0 /\ next_key = 0
    /\ tsd = [t \in Threads |-> [n \in Keys |-> 0]]
    /\ tsd_used = [t \in Threads |-> FALSE]
    /\ rounds = [t \in Threads |-> [b \in Blocks |-> 0]]
    /\ blocks = [t \in Threads |-> 0]
    /\ freed = [t \in Threads |-> {}]
    /\ first = [t \in Threads |-> [v \in Vars |-> 0]]
    /\ registered = [t \in Threads |-> {}]
    /\ again = [t \in Threads |-> 0]
    /\ pc = [t \in Threads |-> "run"]
    /\ arg = [t \in Threads |-> CHOOSE v \in Vars : TRUE]
    /\ k = [t \in Threads |-> 0]
    /\ j = [t \in Threads |-> 0]
    /\ i = [t \in Threads |-> MaxKeys + 1]

Go(t, where) == pc' = [pc EXCEPT ![t] = where]

\* pthread_setspecific
Set(t, n, b) ==
    /\ tsd' = [tsd EXCEPT ![t][n] = b]
    /\ tsd_used' = [tsd_used EXCEPT ![t] = @ \/ tsd[t][n] # b]

\* The key is read without the lock.
Look(t, v) ==
    /\ pc[t] = "run"
    /\ arg' = [arg EXCEPT ![t] = v]
    /\ k' = [k EXCEPT ![t] = key[v]]
    /\ Go(t, IF key[v] = 0 THEN "make" ELSE "get")
    /\ UNCHANGED <<shared, values, history, ending>>

\* Under the lock the key is looked for again, and made if there is none.
Make(t) ==
    /\ pc[t] = "make"
    /\ IF key[arg[t]] # 0 THEN UNCHANGED <<key, next_key>>
       ELSE /\ next_key < MaxKeys
            /\ next_key' = next_key + 1
            /\ key' = [key EXCEPT ![arg[t]] = next_key + 1]
    /\ k' = [k EXCEPT ![t] = key'[arg[t]]]
    /\ Go(t, "get")
    /\ UNCHANGED <<cxx, values, history, arg, ending>>

\* Variant: storage that skips a round fewer.
AllocateShort(t) ==
    /\ blocks' = [blocks EXCEPT ![t] = @ + 1]
    /\ rounds' = [rounds EXCEPT ![t][blocks[t] + 1] = Iterations - 2]
    /\ Set(t, k[t], blocks[t] + 1)

Allocate(t) ==
    /\ blocks' = [blocks EXCEPT ![t] = @ + 1]
    /\ rounds' = [rounds EXCEPT ![t][blocks[t] + 1] = Iterations - 1]
    /\ Set(t, k[t], blocks[t] + 1)

Get(t) ==
    /\ pc[t] = "get"
    /\ IF tsd[t][k[t]] # 0 THEN UNCHANGED <<blocks, rounds, tsd, tsd_used>>
       ELSE blocks[t] < MaxKeys /\ Allocate(t)
    /\ first' = [first EXCEPT ![t][arg[t]] = IF @ = 0 THEN tsd'[t][k[t]] ELSE @]
    /\ k' = [k EXCEPT ![t] = 0]
    /\ Go(t, "run")
    /\ UNCHANGED <<shared, freed, registered, again, arg, ending>>

\* The C++ runtime registers the destructor of a variable that has been used.
Register(t, v) ==
    /\ pc[t] = "run" /\ first[t][v] # 0 /\ v \notin registered[t]
    /\ IF cxx # 0 THEN UNCHANGED <<cxx, next_key>>
       ELSE /\ next_key < MaxKeys
            /\ next_key' = next_key + 1 /\ cxx' = next_key + 1
    /\ Set(t, cxx', 1)
    /\ registered' = [registered EXCEPT ![t] = @ \cup {v}]
    /\ UNCHANGED <<key, rounds, blocks, freed, first, again, pc, arg, k, ending>>

\* The thread ends; its variables are no longer asked for but by destructors.
Exit(t) ==
    /\ pc[t] = "run"
    /\ Go(t, "destructors")
    /\ UNCHANGED <<shared, values, history, arg, k, ending>>

\* __pthread_tsd_run_dtors: another round while a value was set in the last.
Round(t) ==
    /\ pc[t] = "destructors" /\ i[t] = MaxKeys + 1
    /\ IF tsd_used[t] /\ j[t] < Iterations
       THEN /\ tsd_used' = [tsd_used EXCEPT ![t] = FALSE]
            /\ j' = [j EXCEPT ![t] = @ + 1]
            /\ i' = [i EXCEPT ![t] = 1]
            /\ UNCHANGED pc
       ELSE Go(t, "ended") /\ UNCHANGED <<tsd_used, ending>>
    /\ UNCHANGED <<shared, tsd, rounds, blocks, freed, history, arg, k>>

\* tls_release of block b, which has been taken from key n and, unless it is
\* given back, is set there again.
Release(t, n, b) ==
    IF rounds[t][b] > 0
    THEN /\ rounds' = [rounds EXCEPT ![t][b] = @ - 1]
         /\ tsd_used' = [tsd_used EXCEPT ![t] = TRUE]
         /\ UNCHANGED <<tsd, freed>>
    ELSE /\ freed' = [freed EXCEPT ![t] = @ \cup {b}]
         /\ tsd' = [tsd EXCEPT ![t][n] = 0]
         /\ UNCHANGED <<rounds, tsd_used>>

\* The runtime's destructor, which has been taken from its key too: it reads
\* what is registered, and may leave others registered for the next round.
RunRegistered(t) ==
    /\ \/ /\ again[t] < MaxAgain
          /\ again' = [again EXCEPT ![t] = @ + 1]
          /\ tsd_used' = [tsd_used EXCEPT ![t] = TRUE]
          /\ UNCHANGED <<tsd, registered>>
       \/ /\ tsd' = [tsd EXCEPT ![t][cxx] = 0]
          /\ registered' = [registered EXCEPT ![t] = {}]
          /\ UNCHANGED <<again, tsd_used>>
    /\ UNCHANGED <<rounds, freed>>

\* The value of one key is taken and its destructor called.
Visit(t) ==
    /\ pc[t] = "destructors" /\ i[t] \in Keys
    /\ i' = [i EXCEPT ![t] = @ + 1]
    /\ IF tsd[t][i[t]] = 0 THEN UNCHANGED <<tsd, tsd_used, rounds, freed, registered, again>>
       ELSE IF i[t] = cxx THEN RunRegistered(t)
       ELSE Release(t, i[t], tsd[t][i[t]]) /\ UNCHANGED <<registered, again>>
    /\ UNCHANGED <<shared, blocks, first, pc, arg, k, j>>

Next ==
    \E t \in Threads :
        \/ \E v \in Vars : Look(t, v) \/ Register(t, v)
        \/ Make(t) \/ Get(t) \/ Exit(t) \/ Round(t) \/ Visit(t)

Spec == Init /\ [][Next]_vars

-----------------------------------------------------------------------------
\* The storage a thread asking for v again would be given is its first.
Kept(t, v) == tsd[t][key[v]] = first[t][v] /\ first[t][v] \notin freed[t]

\* A thread that uses a variable has one storage for it from the first use
\* until its last destructor has run, in whatever order the keys were made and
\* as often as destructors register others; then it is given back, once.
VariablesKept ==
    \A t \in Threads :
        /\ pc[t] \in {"run", "make", "get"} =>
               \A v \in Vars : first[t][v] # 0 => Kept(t, v)
        /\ pc[t] = "destructors" /\ i[t] = cxx /\ tsd[t][cxx] # 0 =>
               \A v \in registered[t] : Kept(t, v)
        /\ pc[t] = "ended" => registered[t] = {} /\ freed[t] = 1 .. blocks[t]

-----------------------------------------------------------------------------
(***************************************************************************)
(* The invariant behind VariablesKept.                                     *)
(*                                                                         *)
(* VariablesKept says nothing of the counts in the headers or of the       *)
(* rounds left.  What makes it inductive is that a key's destructor has    *)
(* been called once in every round that has passed it (Visits), so that    *)
(* the count in a header says how many calls are still to be skipped, and  *)
(* that of the runtime's destructor says how often it has registered anew. *)
(***************************************************************************)
\* How often the destructor of key n has been called since t began to end.
Visits(t, n) == IF i[t] > n THEN j[t] ELSE j[t] - 1

Types ==
    /\ key \in [Vars -> 0..MaxKeys]
    /\ cxx \in 0..MaxKeys /\ next_key \in 0..MaxKeys
    /\ tsd \in [Threads -> [Keys -> 0..MaxKeys]]
    /\ tsd_used \in [Threads -> BOOLEAN]
    /\ rounds \in [Threads -> [Blocks -> Nat]]
    /\ blocks \in [Threads -> 0..MaxKeys]
    /\ freed \in [Threads -> SUBSET Blocks]
    /\ first \in [Threads -> [Vars -> 0..MaxKeys]]
    /\ registered \in [Threads -> SUBSET Vars]
    /\ again \in [Threads -> 0..MaxAgain]
    /\ pc \in [Threads -> {"run", "make", "get", "destructors", "ended"}]
    /\ DOMAIN arg = Threads
    /\ k \in [Threads -> 0..MaxKeys]
    /\ j \in [Threads -> 0..Iterations]
    /\ i \in [Threads -> 1..MaxKeys+1]

\* Each key was made for one variable or for the runtime.
OneKey ==
    /\ \A v \in Vars : key[v] <= next_key
    /\ cxx <= next_key
    /\ \A v \in Vars : key[v] # 0 => key[v] # cxx
    /\ \A v, w \in Vars : key[v] # 0 /\ key[v] = key[w] => v = w

\* Where a thread is: it has begun no round before it ends, and what it asks
\* for is the variable whose key it read.
Control(t) ==
    /\ pc[t] \in {"make", "get"} => arg[t] \in Vars
    /\ pc[t] = "get" => k[t] = key[arg[t]] /\ k[t] # 0
    /\ pc[t] \in {"run", "make", "get"} => j[t] = 0
    /\ j[t] = 0 => i[t] = MaxKeys + 1 /\ again[t] = 0

\* The blocks are the first storages of the variables used, one each.
FirstOf(t) ==
    /\ \A v \in Vars : first[t][v] <= blocks[t]
    /\ \A v, w \in Vars : first[t][v] # 0 /\ first[t][v] = first[t][w] => v = w
    /\ \A b \in 1..blocks[t] : \E v \in Vars : first[t][v] = b
    /\ freed[t] \subseteq 1..blocks[t]

\* The header counts the calls that are still to keep the block; it is the
\* value of its key until then, and given back at the call after them.
Storage(t) ==
    \A v \in Vars :
        /\ first[t][v] = 0 /\ key[v] # 0 => tsd[t][key[v]] = 0
        /\ first[t][v] # 0 => key[v] # 0
        /\ first[t][v] # 0 /\ Visits(t, key[v]) < Iterations =>
               /\ tsd[t][key[v]] = first[t][v]
               /\ first[t][v] \notin freed[t]
               /\ rounds[t][first[t][v]] = Iterations - 1 - Visits(t, key[v])
        /\ first[t][v] # 0 /\ Visits(t, key[v]) >= Iterations =>
               tsd[t][key[v]] = 0 /\ first[t][v] \in freed[t]

\* A value left behind in this round asks for another.
Asked(t) ==
    /\ \A n \in Keys : tsd[t][n] # 0 => n = cxx \/ \E v \in Vars : key[v] = n
    /\ \A n \in Keys : tsd[t][n] # 0 /\ i[t] > n => tsd_used[t]

\* While anything is registered the runtime's key has its value, and each call
\* of its destructor has registered anew.
Runtime(t) ==
    /\ registered[t] # {} => cxx # 0 /\ tsd[t][cxx] # 0 /\ again[t] = Visits(t, cxx)
    /\ registered[t] = {} /\ cxx # 0 => tsd[t][cxx] = 0
    /\ \A v \in registered[t] : first[t][v] # 0

Ended(t) == pc[t] = "ended" => registered[t] = {} /\ freed[t] = 1..blocks[t]

TInv(t) == Control(t) /\ FirstOf(t) /\ Storage(t) /\ Asked(t) /\ Runtime(t) /\ Ended(t)

IInv == Types /\ OneKey /\ \A t \in Threads : TInv(t)
=============================================================================
