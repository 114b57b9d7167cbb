--------------------------- MODULE OkmMutexProofs ---------------------------
(***************************************************************************)
(* Proofs about okm_mutex_lock and okm_mutex_unlock, for any number of     *)
(* contexts and any number of looks.  The invariant is IInv of OkmMutex:   *)
(* mutual exclusion is not inductive without WordTellsHeld (an exchange    *)
(* that finds 0 must know that nobody is inside).                          *)
(***************************************************************************)
EXTENDS OkmMutex, TLAPS

\* The initial state, with the word free and nobody in the lock, satisfies
\* the inductive invariant.
LEMMA InitIInv == Init => IInv
BY LooksAssumption DEF Init, IInv, TypeOK, LooksLeft, MutualExclusion,
                       WordTellsHeld, NoLostWakeup, At, PC

\* Every access to the word, every wait and every wake keeps the types, and
\* the loop of okm_mutex_lock keeps within its looks.
LEMMA NextTypes == TypeOK /\ LooksLeft /\ [Next]_vars => TypeOK' /\ LooksLeft'
<1> SUFFICES ASSUME TypeOK, LooksLeft, [Next]_vars PROVE TypeOK' /\ LooksLeft'
  OBVIOUS
<1> USE LooksAssumption DEF TypeOK, LooksLeft, PC, At, Goto
<1>1. ASSUME NEW c \in Contexts, TryFast(c) PROVE TypeOK' /\ LooksLeft'
  BY <1>1 DEF TryFast
<1>2. ASSUME NEW c \in Contexts, Look(c) PROVE TypeOK' /\ LooksLeft'
  BY <1>2 DEF Look
<1>3. ASSUME NEW c \in Contexts, Cas(c) PROVE TypeOK' /\ LooksLeft'
  BY <1>3 DEF Cas
<1>4. ASSUME NEW c \in Contexts, Exchange(c) PROVE TypeOK' /\ LooksLeft'
  BY <1>4 DEF Exchange
<1>5. ASSUME NEW c \in Contexts, Wait(c) PROVE TypeOK' /\ LooksLeft'
  BY <1>5 DEF Wait
<1>6. ASSUME NEW c \in Contexts, SpuriousWake(c) PROVE TypeOK' /\ LooksLeft'
  BY <1>6 DEF SpuriousWake
<1>7. ASSUME NEW c \in Contexts, Unlock(c) PROVE TypeOK' /\ LooksLeft'
  BY <1>7 DEF Unlock
<1>8. ASSUME NEW c \in Contexts, Wake(c) PROVE TypeOK' /\ LooksLeft'
  BY <1>8 DEF Wake
<1>9. CASE UNCHANGED vars
  BY <1>9 DEF vars
<1> QED
  BY <1>1, <1>2, <1>3, <1>4, <1>5, <1>6, <1>7, <1>8, <1>9 DEF Next, Step

\* Who is inside, and what the word says of it: an access to the word lets a
\* context in only when it found 0, and only the holder writes 0.
LEMMA NextHeld ==
    TypeOK /\ MutualExclusion /\ WordTellsHeld /\ [Next]_vars
        => MutualExclusion' /\ WordTellsHeld'
<1> DEFINE Good == MutualExclusion /\ WordTellsHeld
<1> SUFFICES ASSUME TypeOK, Good, [Next]_vars PROVE Good'
  OBVIOUS
<1> USE DEF TypeOK, MutualExclusion, WordTellsHeld, PC, At, Goto
<1>1. ASSUME NEW c \in Contexts, TryFast(c) PROVE Good'
  BY <1>1 DEF TryFast
<1>2. ASSUME NEW c \in Contexts, Look(c) PROVE Good'
  BY <1>2 DEF Look
<1>3. ASSUME NEW c \in Contexts, Cas(c) PROVE Good'
  BY <1>3 DEF Cas
<1>4. ASSUME NEW c \in Contexts, Exchange(c) PROVE Good'
  BY <1>4 DEF Exchange
<1>5. ASSUME NEW c \in Contexts, Wait(c) PROVE Good'
  BY <1>5 DEF Wait
<1>6. ASSUME NEW c \in Contexts, SpuriousWake(c) PROVE Good'
  BY <1>6 DEF SpuriousWake
<1>7. ASSUME NEW c \in Contexts, Unlock(c) PROVE Good'
  BY <1>7 DEF Unlock
<1>8. ASSUME NEW c \in Contexts, Wake(c) PROVE Good'
  BY <1>8 DEF Wake
<1>9. CASE UNCHANGED vars
  BY <1>9 DEF vars
<1> QED
  BY <1>1, <1>2, <1>3, <1>4, <1>5, <1>6, <1>7, <1>8, <1>9 DEF Next, Step

\* A sleeper stays accounted for: the exchange writes the 2 back, the unlock
\* of a waited-for word owes a wake, and the wake turns a sleeper into a
\* context about to exchange.
LEMMA NextWakeup == TypeOK /\ NoLostWakeup /\ [Next]_vars => NoLostWakeup'
<1> SUFFICES ASSUME TypeOK, NoLostWakeup, [Next]_vars PROVE NoLostWakeup'
  OBVIOUS
<1> USE DEF TypeOK, NoLostWakeup, PC, At, Goto
<1>1. ASSUME NEW c \in Contexts, TryFast(c) PROVE NoLostWakeup'
  BY <1>1 DEF TryFast
<1>2. ASSUME NEW c \in Contexts, Look(c) PROVE NoLostWakeup'
  BY <1>2 DEF Look
<1>3. ASSUME NEW c \in Contexts, Cas(c) PROVE NoLostWakeup'
  BY <1>3 DEF Cas
<1>4. ASSUME NEW c \in Contexts, Exchange(c) PROVE NoLostWakeup'
  BY <1>4 DEF Exchange
<1>5. ASSUME NEW c \in Contexts, Wait(c) PROVE NoLostWakeup'
  BY <1>5 DEF Wait
<1>6. ASSUME NEW c \in Contexts, SpuriousWake(c) PROVE NoLostWakeup'
  BY <1>6 DEF SpuriousWake
<1>7. ASSUME NEW c \in Contexts, Unlock(c) PROVE NoLostWakeup'
  BY <1>7 DEF Unlock
<1>8. ASSUME NEW c \in Contexts, Wake(c) PROVE NoLostWakeup'
  BY <1>8 DEF Wake
<1>9. CASE UNCHANGED vars
  BY <1>9 DEF vars
<1> QED
  BY <1>1, <1>2, <1>3, <1>4, <1>5, <1>6, <1>7, <1>8, <1>9 DEF Next, Step

\* The inductive invariant holds in every state of the lock.
THEOREM Invariant == Spec => []IInv
<1>1. IInv /\ [Next]_vars => IInv'
  BY NextTypes, NextHeld, NextWakeup DEF IInv
<1> QED
  BY InitIInv, <1>1, PTL DEF Spec

\* Type correctness of the lock, with the bound on the looks of the loop.
THEOREM TypeCorrect == Spec => []TypeOK
BY Invariant, PTL DEF IInv

\* okm_mutex_lock returns to at most one context at a time.
THEOREM Exclusion == Spec => []MutualExclusion
BY Invariant, PTL DEF IInv

\* A context asleep in okm_mutex_lock is never forgotten by the unlocks.
THEOREM WakeupKept == Spec => []NoLostWakeup
BY Invariant, PTL DEF IInv

-----------------------------------------------------------------------------
\* The abstract lock's holder is the one context okm_mutex_lock returned to.
LEMMA HolderIs ==
    ASSUME MutualExclusion
    PROVE  /\ \A c \in Contexts : pc[c] = "held" => Holder = c
           /\ (\A c \in Contexts : pc[c] # "held") => Holder = None
BY DEF MutualExclusion, Holder, At

\* The same in the state after a step.
LEMMA HolderIsNext ==
    ASSUME MutualExclusion'
    PROVE  /\ \A c \in Contexts : pc'[c] = "held" => Holder' = c
           /\ (\A c \in Contexts : pc'[c] # "held") => Holder' = None
BY DEF MutualExclusion, Holder, At

\* Every access to the word is a step of the abstract lock, or is invisible:
\* the first failed compare and exchange asks, a successful one or an
\* exchange that found 0 acquires, the exchange with 0 releases.
LEMMA StepRefines ==
    ASSUME IInv, IInv', [Next]_vars
    PROVE  [Lock!LockNext]_<<Holder, Asking>>
<1> DEFINE Abs == [Lock!LockNext]_<<Holder, Asking>>
<1> SUFFICES Abs
  OBVIOUS
<1> USE HolderIs, HolderIsNext, NoneAssumption
<1> USE DEF IInv, TypeOK, WordTellsHeld, Asking, PC, At, Goto
<1>1. ASSUME NEW c \in Contexts, TryFast(c) PROVE Abs
  <2>1. CASE word = 0
    <3>1. Holder = None /\ Holder' = c /\ Asking' = Asking /\ c \notin Asking
      BY <1>1, <2>1 DEF TryFast
    <3> QED BY <3>1 DEF Lock!LockNext, Lock!AskAndAcquire
  <2>2. CASE word # 0
    <3>1. pc' = [pc EXCEPT ![c] = "look"]
      BY <1>1, <2>2 DEF TryFast
    <3>2. Holder' = Holder /\ Holder # c /\ c \notin Asking
      BY <1>1, <2>2, <3>1 DEF TryFast
    <3>3. Asking' = Asking \cup {c}
      BY <3>1
    <3> QED BY <3>2, <3>3 DEF Lock!LockNext, Lock!Ask
  <2> QED BY <2>1, <2>2
<1>2. ASSUME NEW c \in Contexts, Look(c) PROVE Abs
  <2>1. Asking' = Asking /\ Holder' = Holder
    BY <1>2 DEF Look
  <2> QED BY <2>1
<1>3. ASSUME NEW c \in Contexts, Cas(c) PROVE Abs
  <2>1. CASE word = 0
    <3>1. Holder = None /\ Holder' = c /\ c \in Asking /\ Asking' = Asking \ {c}
      BY <1>3, <2>1 DEF Cas
    <3> QED BY <3>1 DEF Lock!LockNext, Lock!Acquire
  <2>2. CASE word # 0
    <3>1. Holder' = Holder /\ Asking' = Asking
      BY <1>3, <2>2 DEF Cas
    <3> QED BY <3>1
  <2> QED BY <2>1, <2>2
<1>4. ASSUME NEW c \in Contexts, Exchange(c) PROVE Abs
  <2>1. CASE word = 0
    <3>1. Holder = None /\ Holder' = c /\ c \in Asking /\ Asking' = Asking \ {c}
      BY <1>4, <2>1 DEF Exchange
    <3> QED BY <3>1 DEF Lock!LockNext, Lock!Acquire
  <2>2. CASE word # 0
    <3>1. Holder' = Holder /\ Asking' = Asking
      BY <1>4, <2>2 DEF Exchange
    <3> QED BY <3>1
  <2> QED BY <2>1, <2>2
<1>5. ASSUME NEW c \in Contexts, Wait(c) PROVE Abs
  <2>1. Asking' = Asking /\ Holder' = Holder
    BY <1>5 DEF Wait
  <2> QED BY <2>1
<1>6. ASSUME NEW c \in Contexts, SpuriousWake(c) PROVE Abs
  <2>1. Asking' = Asking /\ Holder' = Holder
    BY <1>6 DEF SpuriousWake
  <2> QED BY <2>1
<1>7. ASSUME NEW c \in Contexts, Unlock(c) PROVE Abs
  <2>1. Holder = c /\ Holder' = None /\ Asking' = Asking
    BY <1>7 DEF Unlock
  <2> QED BY <2>1 DEF Lock!LockNext, Lock!Release
<1>8. ASSUME NEW c \in Contexts, Wake(c) PROVE Abs
  <2>1. Asking' = Asking /\ Holder' = Holder
    BY <1>8 DEF Wake
  <2> QED BY <2>1
<1>9. CASE UNCHANGED vars
  <2>1. Asking' = Asking /\ Holder' = Holder
    BY <1>9 DEF vars
  <2> QED BY <2>1
<1> QED
  BY <1>1, <1>2, <1>3, <1>4, <1>5, <1>6, <1>7, <1>8, <1>9 DEF Next, Step

\* The word implements the abstract lock (its safety part) for any number of
\* contexts: what a caller of okm_lock may rely on.
THEOREM RefinesLock == Spec => Lock!LockSafety
<1>1. Init => Lock!LockInit
  BY DEF Init, Lock!LockInit, Holder, Asking, At
<1>2. IInv /\ IInv' /\ [Next]_vars => [Lock!LockNext]_(Lock!lvars)
  BY StepRefines DEF Lock!lvars
<1> QED
  BY Invariant, <1>1, <1>2, PTL DEF Spec, Lock!LockSafety
=============================================================================
