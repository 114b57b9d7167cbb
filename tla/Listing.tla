------------------------------- MODULE Listing ------------------------------
(***************************************************************************)
(* A directory's entries, call by call (port/src/okm_syscall.c,            *)
(* do_getdents).  The environment's iterator gives an entry once and takes *)
(* none back, so the one that does not fit is held for the next call.      *)
(*                                                                         *)
(* An entry is its size as a record; one above MaxEntry has a name longer  *)
(* than this layer carries.  Failures of the environment come and go.      *)
(***************************************************************************)
EXTENDS Integers, Sequences

CONSTANTS
    Directories,    \* the directories to list, sequences of sizes
    MaxEntry,
    Buffers,        \* the room a caller may offer
    None

VARIABLES
    entries,        \* the directory, which does not change meanwhile
    iter,           \* where the environment's iterator stands; 0 is spent
    iter_open,      \* whether list_begin has been called
    pending,        \* the entry held back, or None
    call,           \* the call under way: room, and what of it is used
    listed,         \* what was delivered, in order
    told            \* what the last call returned

vars == <<entries, iter, iter_open, pending, call, listed, told>>

NoCall == [cap |-> 0, used |-> 0]

Init ==
    /\ entries \in Directories
    /\ iter = 0 /\ iter_open = 0 /\ pending = None
    /\ call = NoCall /\ listed = <<>> /\ told = "nothing"

Tell(t) == call' = NoCall /\ told' = t

\* What is used so far, or if nothing is, t.
Return(t) == Tell(IF call.used > 0 THEN "some" ELSE t)

\* list_begin at the first call; a spent iterator ends every later one.
Getdents(cap) ==
    /\ call = NoCall
    /\ \/ /\ iter_open = 1 /\ iter = 0
          /\ Tell("end") /\ UNCHANGED <<iter_open, iter>>
       \/ /\ iter_open = 0
          /\ Tell("error") /\ UNCHANGED <<iter_open, iter>>
       \/ /\ iter_open = 1 => iter # 0
          /\ iter_open' = 1
          /\ iter' = IF iter_open = 1 THEN iter ELSE 1
          /\ call' = [cap |-> cap, used |-> 0]
          /\ UNCHANGED told
    /\ UNCHANGED <<entries, pending, listed>>

\* Variant: an entry that does not fit is not held.
PlaceDrops(e) ==
    IF call.used + entries[e] > call.cap
    THEN /\ pending' = None
         /\ Return("small")
         /\ UNCHANGED listed
    ELSE /\ pending' = None
         /\ listed' = Append(listed, e)
         /\ call' = [call EXCEPT !.used = @ + entries[e]]
         /\ UNCHANGED told

Place(e) ==
    IF call.used + entries[e] > call.cap
    THEN /\ pending' = e
         /\ Return("small")
         /\ UNCHANGED listed
    ELSE /\ pending' = None
         /\ listed' = Append(listed, e)
         /\ call' = [call EXCEPT !.used = @ + entries[e]]
         /\ UNCHANGED told

Held ==
    /\ call # NoCall /\ pending # None
    /\ Place(pending)
    /\ UNCHANGED <<entries, iter, iter_open>>

\* list_next: an entry, one that is skipped, the end, or a failure.
Fetch ==
    /\ call # NoCall /\ pending = None
    /\ \/ /\ iter <= Len(entries)
          /\ iter' = iter + 1
          /\ IF entries[iter] > MaxEntry THEN UNCHANGED <<pending, call, listed, told>>
             ELSE Place(iter)
       \/ /\ iter > Len(entries)
          /\ iter' = 0
          /\ Return("end")
          /\ UNCHANGED <<pending, listed>>
       \/ Return("error") /\ UNCHANGED <<iter, pending, listed>>
    /\ UNCHANGED <<entries, iter_open>>

Next == (\E cap \in Buffers : Getdents(cap)) \/ Held \/ Fetch

Spec == Init /\ [][Next]_vars

-----------------------------------------------------------------------------
Carried(e) == entries[e] <= MaxEntry
Listed(e) == \E i \in DOMAIN listed : listed[i] = e

\* Whatever room each call offers and wherever the environment fails, only
\* entries whose name can be carried are delivered, each once and in order, none
\* before an earlier one, and the end is reported when all of them were.
ListedOnce ==
    /\ \A i, j \in DOMAIN listed : i < j => listed[i] < listed[j]
    /\ \A i \in DOMAIN listed :
           /\ listed[i] \in DOMAIN entries /\ Carried(listed[i])
           /\ \A e \in 1..listed[i] : Carried(e) => Listed(e)
    /\ told = "end" => \A e \in DOMAIN entries : Carried(e) => Listed(e)

-----------------------------------------------------------------------------
\* What the listing of every directory rests on.
Assumptions ==
    /\ Directories \subseteq Seq(Nat)
    /\ MaxEntry \in Nat /\ Buffers \subseteq Nat
    /\ None \notin Nat

\* The entries the iterator has given so far are those before this one.
Given == IF iter_open = 0 THEN 1 ELSE IF iter = 0 THEN Len(entries) + 1 ELSE iter

TypeOK ==
    /\ entries \in Seq(Nat)
    /\ iter \in 0..Len(entries)+1
    /\ iter_open \in {0, 1}
    /\ pending \in (1..Len(entries)) \cup {None}
    /\ listed \in Seq(Nat)

\* The entry held back is the last one given; of those given before it, and of
\* no others, all that can be carried have been delivered.
IInv ==
    /\ TypeOK
    /\ iter_open = 0 => iter = 0 /\ call = NoCall /\ told # "end"
    /\ call # NoCall => iter_open = 1 /\ iter # 0
    /\ iter = 0 => pending = None
    /\ pending # None => pending = Given - 1 /\ Carried(pending) /\ ~Listed(pending)
    /\ \A i, j \in DOMAIN listed : i < j => listed[i] < listed[j]
    /\ \A i \in DOMAIN listed :
           /\ listed[i] \in 1..Len(entries)
           /\ listed[i] < Given
           /\ Carried(listed[i])
    /\ \A e \in 1..Len(entries) : e < Given /\ Carried(e) /\ e # pending => Listed(e)
    /\ told = "end" => iter_open = 1 /\ iter = 0
=============================================================================
