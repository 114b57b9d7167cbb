------------------------------ MODULE OkmMutex ------------------------------
(***************************************************************************)
(* okm_mutex_lock and okm_mutex_unlock (port/src/okm_fd.c): a word that is *)
(* 0 (free), 1 (held) or 2 (held and waited for), taken by compare and     *)
(* exchange, looked at a bounded number of times, and then slept on.       *)
(*                                                                         *)
(* One action is one atomic access to the word, or one call of the         *)
(* environment's wait and wake.                                            *)
(***************************************************************************)
EXTENDS Naturals

CONSTANTS
    Contexts,       \* the program's execution contexts
    None,           \* no context: the abstract lock's "free"
    Looks           \* how many times the word is looked at before sleeping

ASSUME LooksAssumption == Looks \in Nat
ASSUME NoneAssumption == None \notin Contexts

VARIABLES
    word,           \* *word
    pc,             \* where each context is
    looks           \* the loop counter i of each context

vars == <<word, pc, looks>>

\* "out"     not in the lock's code and not holding it
\* "look"    in the loop, about to load the word
\* "cas"     in the loop, the load saw 0, about to compare and exchange
\* "xchg"    about to exchange the word with 2
\* "wait"    about to call the environment's wait on the value 2
\* "asleep"  in the environment's wait
\* "held"    okm_mutex_lock has returned
\* "wake"    okm_mutex_unlock has freed a waited-for word, about to wake one
PC == {"out", "look", "cas", "xchg", "wait", "asleep", "held", "wake"}

At(l) == {c \in Contexts : pc[c] = l}

Goto(c, l) == pc' = [pc EXCEPT ![c] = l]

Init ==
    /\ word = 0
    /\ pc = [c \in Contexts |-> "out"]
    /\ looks = [c \in Contexts |-> 0]

-----------------------------------------------------------------------------
\* okm_mutex_lock: the first compare and exchange.
TryFast(c) ==
    /\ pc[c] = "out"
    /\ looks' = [looks EXCEPT ![c] = 0]
    /\ \/ word = 0 /\ word' = 1 /\ Goto(c, "held")
       \/ word # 0 /\ UNCHANGED word /\ Goto(c, "look")

\* The loop's load; its end, when the looks are spent, leads to the exchange.
Look(c) ==
    /\ pc[c] = "look"
    /\ UNCHANGED word
    /\ \/ /\ looks[c] < Looks
          /\ word = 0
          /\ Goto(c, "cas")
          /\ UNCHANGED looks
       \/ /\ looks[c] < Looks
          /\ word # 0
          /\ looks' = [looks EXCEPT ![c] = @ + 1]
          /\ UNCHANGED pc
       \/ /\ looks[c] = Looks
          /\ Goto(c, "xchg")
          /\ UNCHANGED looks

\* Variant of Cas: the word is stored, trusting the load.
CasBlind(c) ==
    /\ pc[c] = "cas"
    /\ word' = 1
    /\ Goto(c, "held")
    /\ UNCHANGED looks

\* The loop's compare and exchange, after a load that saw the word free.
Cas(c) ==
    /\ pc[c] = "cas"
    /\ \/ /\ word = 0
          /\ word' = 1
          /\ Goto(c, "held")
          /\ UNCHANGED looks
       \/ /\ word # 0
          /\ looks' = [looks EXCEPT ![c] = @ + 1]
          /\ Goto(c, "look")
          /\ UNCHANGED word

\* Variants of Exchange: the woken context takes the word as merely held;
\* a word that is held, but not waited for, is taken for free.
ExchangeForgetsWaiters(c) ==
    /\ pc[c] = "xchg"
    /\ word' = IF word = 0 THEN 1 ELSE 2
    /\ Goto(c, IF word = 0 THEN "held" ELSE "wait")
    /\ UNCHANGED looks

ExchangeTakesHeld(c) ==
    /\ pc[c] = "xchg"
    /\ word' = 2
    /\ Goto(c, IF word # 2 THEN "held" ELSE "wait")
    /\ UNCHANGED looks

\* The exchange with 2, before the sleeping loop and at the end of each turn.
Exchange(c) ==
    /\ pc[c] = "xchg"
    /\ word' = 2
    /\ Goto(c, IF word = 0 THEN "held" ELSE "wait")
    /\ UNCHANGED looks

\* The environment's wait: it sleeps only while the word is still 2, checked
\* and enqueued in one step; it may also return at once (the word changed, or
\* the environment has no wait and the caller yields).
Wait(c) ==
    /\ pc[c] = "wait"
    /\ \/ word = 2 /\ Goto(c, "asleep")
       \/ Goto(c, "xchg")
    /\ UNCHANGED <<word, looks>>

\* A wait may end with nobody having woken it.
SpuriousWake(c) ==
    /\ pc[c] = "asleep"
    /\ Goto(c, "xchg")
    /\ UNCHANGED <<word, looks>>

\* okm_mutex_unlock: the exchange with 0.
Unlock(c) ==
    /\ pc[c] = "held"
    /\ word' = 0
    /\ Goto(c, IF word = 2 THEN "wake" ELSE "out")
    /\ UNCHANGED looks

\* Variant of Wake: the wake is left out.
WakeNobody(c) ==
    /\ pc[c] = "wake"
    /\ Goto(c, "out")
    /\ UNCHANGED <<word, looks>>

\* okm_mutex_unlock: the wake of one sleeper, of the environment's choosing.
Wake(c) ==
    /\ pc[c] = "wake"
    /\ UNCHANGED <<word, looks>>
    /\ \/ At("asleep") = {} /\ Goto(c, "out")
       \/ \E w \in At("asleep") : pc' = [pc EXCEPT ![c] = "out", ![w] = "xchg"]

Step(c) ==
    \/ Look(c) \/ Cas(c) \/ Exchange(c) \/ Wait(c) \/ Unlock(c) \/ Wake(c)

Next == \E c \in Contexts : TryFast(c) \/ Step(c) \/ SpuriousWake(c)

\* A context that is running goes on running, and a holder lets go: nothing
\* slow is done while the lock is held.  Asking for the lock, and a wait that
\* ends by itself, are never owed.
Fairness == \A c \in Contexts : WF_vars(Step(c))

Spec == Init /\ [][Next]_vars

FairSpec == Spec /\ Fairness

-----------------------------------------------------------------------------
\* Every variable keeps its type; in particular the loop of okm_mutex_lock
\* looks at the word at most Looks times.
TypeOK ==
    /\ word \in 0..2
    /\ pc \in [Contexts -> PC]
    /\ looks \in [Contexts -> 0..Looks]

\* At most one context is between the return of okm_mutex_lock and the
\* exchange of okm_mutex_unlock, whatever the interleaving of the compare and
\* exchange of one and the exchange with 2 of another.
MutualExclusion == \A c, d \in At("held") : c = d

\* The word is free exactly when nobody holds the lock.
WordTellsHeld == (word = 0) <=> (At("held") = {})

\* No wake-up is lost: while a context sleeps on the word, the word says it is
\* waited for, or an unlock is about to wake one sleeper, or a context already
\* awake is about to write the 2 back.
NoLostWakeup ==
    At("asleep") # {} =>
        \/ word = 2
        \/ At("wake") # {}
        \/ At("xchg") # {}

\* A look that saw the word free is one of the looks the loop still has.
LooksLeft == \A c \in At("cas") : looks[c] < Looks

\* The inductive invariant behind the three.
IInv == TypeOK /\ LooksLeft /\ MutualExclusion /\ WordTellsHeld /\ NoLostWakeup

-----------------------------------------------------------------------------
Holder == IF At("held") = {} THEN None ELSE CHOOSE c \in Contexts : pc[c] = "held"

Asking == {c \in Contexts : pc[c] \in {"look", "cas", "xchg", "wait", "asleep"}}

Lock == INSTANCE LockSpec WITH holder <- Holder, asking <- Asking

\* The word implements the lock its callers rely on, safety and liveness: a
\* free lock that is asked for is entered, although the wake is sent after the
\* word is freed and others may overtake the context it wakes.
ImplementsLock == Lock!LockLive

\* Once no context newly calls okm_mutex_lock, every context that called it
\* gets the lock and lets it go: no sleeper is left behind when the last
\* holder leaves.
ServesEverybody ==
    \/ []<><<\E c \in Contexts : TryFast(c)>>_vars
    \/ \A c \in Contexts : []<>(pc[c] = "out")
=============================================================================
