----------------------------- MODULE PartsProofs ----------------------------
(***************************************************************************)
(* Proofs about two of the parts that MCParts puts side by side, for every *)
(* value of their constants.                                               *)
(*                                                                         *)
(* The table of contexts, for any size of it, any number of contexts and   *)
(* any placing of their keys.  No lock guards the table; what keeps it     *)
(* right is that only a context itself writes its own key, that a slot     *)
(* once used is never free again, and that a search for a place has passed *)
(* no free slot.                                                           *)
(*                                                                         *)
(* The listing of a directory (Ls), for every directory, every sequence of *)
(* buffers and failures anywhere.  ListedOnce says nothing of the entry    *)
(* held back or of where the iterator stands; IInv of Listing does.        *)
(***************************************************************************)
EXTENDS ContextTable, Sequences, TLAPS

CONSTANTS Directories, MaxEntry, Buffers, None

VARIABLES entries, iter, iter_open, pending, getdents, listed, told

Ls == INSTANCE Listing WITH call <- getdents

Types ==
    /\ key \in [Slots -> Keys \cup {Zero, Retired}]
    /\ tp \in [Slots -> Keys \cup {Zero}]
    /\ pc \in [Contexts -> {"unborn", "probe", "choose", "cas", "found", "absent",
                            "retire", "run"}]
    /\ op \in [Contexts -> Ops]
    /\ want \in [Contexts -> Keys]
    /\ n \in [Contexts -> 0..N] /\ free \in [Contexts -> 0..N]
    /\ seen \in [Contexts -> Keys \cup {Zero, Retired}]
    /\ carry \in [Contexts -> Keys \cup {Zero}]
    /\ mine \in [Contexts -> Keys \cup {Zero}]
    /\ got \in [Contexts -> Keys \cup {Zero}]

\* A snapshot's first context has not yet given up the entry it came with.
Unbinding == \E c \in Contexts : op[c] = "unbind"

\* The operations that look for a place, and those that look for their entry.
Placing(c) == op[c] \in {"set_tp", "rebind"}
Seeking(c) == op[c] \in {"set_self", "get", "release", "unbind"}

Control ==
    /\ \A c \in Contexts : pc[c] \in {"choose", "cas", "absent"} => Placing(c)
    /\ \A c \in Contexts : pc[c] \in {"probe", "found"} => Placing(c) \/ Seeking(c)
    /\ \A c \in Contexts : pc[c] = "retire" => op[c] \in {"release", "unbind"}
    /\ \A c \in Contexts : op[c] # "unbind" => want[c] = c
    /\ \A c \in Contexts : op[c] = "unbind" =>
           /\ c = First /\ want[c] = SnapContext /\ pc[c] \in {"probe", "found", "retire"}
           /\ \A d \in Contexts : d # c => pc[d] = "unborn"

\* No slot that a search for k looks at before its p-th turn is free.
Passed(k, p) == \A i \in 0..(p - 1) : key[ProbeAt(k, i)] # Zero

\* The entries: one a key, and reached by a search for it.
Entries ==
    /\ \A s, t \in Slots : key[s] = key[t] /\ key[s] \in Keys => s = t
    /\ \A s \in Slots : key[s] \in Keys =>
           \E p \in 0..(N - 1) : ProbeAt(key[s], p) = s /\ Passed(key[s], p)

\* c has no entry yet.
New(c) == pc[c] = "unborn" \/ (Placing(c) /\ pc[c] \in {"probe", "choose", "cas", "absent"})

Present ==
    /\ ~Unbinding => \A c \in Contexts : New(c) => \A s \in Slots : key[s] # c
    /\ Unbinding => \A s \in Slots : key[s] \in {Zero, SnapContext}
    /\ aborted = "no" => \A c \in Contexts : pc[c] = "run" => \E s \in Slots : key[s] = c

\* Where a search stands: its entry is ahead of it or found, or it passed no
\* free slot, its choice included.
SearchOf(c) ==
    /\ pc[c] = "probe" /\ Seeking(c) =>
           \E p \in n[c]..(N - 1) : key[ProbeAt(want[c], p)] = want[c] /\ Passed(want[c], p)
    /\ pc[c] \in {"found", "retire"} => n[c] < N /\ key[Here(c)] = want[c]
    /\ pc[c] \in {"probe", "choose", "cas"} /\ Placing(c) =>
           Passed(want[c], n[c]) /\ (free[c] = N \/ free[c] <= n[c])
    /\ pc[c] = "cas" => n[c] < N /\ seen[c] \in {Zero, Retired}

Searching == \A c \in Contexts : SearchOf(c)

\* What is in c's entry is what c recorded.
Settled(c) ==
    pc[c] = "run" \/ (pc[c] \in {"probe", "found"} /\ op[c] \in {"set_self", "get", "release"})

Own ==
    /\ \A c \in Contexts : Settled(c) => \A s \in Slots : key[s] = c => tp[s] = mine[c]
    /\ \A c \in Contexts : got[c] \in {Zero, mine[c]}
    /\ \A c \in Contexts : pc[c] = "unborn" \/ (pc[c] # "run" /\ ~Settled(c) /\ op[c] # "release") =>
           got[c] = Zero

IInv == Types /\ Control /\ Entries /\ Present /\ Searching /\ Own

-----------------------------------------------------------------------------
\* A search looks at slots of the table only.
LEMMA ProbeSlot == \A k \in Keys, p \in Nat : ProbeAt(k, p) \in Slots
<1> TAKE k \in Keys, p \in Nat
<1>1. N \in Nat /\ N > 0 /\ StartAt[k] + p \in Nat
  BY ContextsAssumption DEF Slots
<1>2. \A a \in Nat : a % N \in 0..(N - 1)
  BY <1>1
<1> QED
  BY <1>1, <1>2 DEF ProbeAt, Slots

\* An empty table, or one with the snapshot's entry where its search begins.
LEMMA InitIInv == Init => IInv
<1> SUFFICES ASSUME Init PROVE IInv
  OBVIOUS
<1> USE ContextsAssumption
<1>1. ProbeAt(SnapContext, 0) = StartAt[SnapContext] /\ StartAt[SnapContext] \in Slots
  <2>1. StartAt[SnapContext] \in 0..(N - 1)
    BY DEF Keys, Slots
  <2>2. \A a \in 0..(N - 1) : (a + 0) % N = a
    OBVIOUS
  <2> QED
    BY <2>1, <2>2 DEF ProbeAt, Slots
<1>2. Types
  BY DEF Init, InitFresh, InitSnapshot, Types, Keys, Ops
<1>3. CASE InitFresh
  <2>1. \A s \in Slots : key[s] = Zero
    BY <1>3 DEF InitFresh
  <2>2. \A c \in Contexts : pc[c] = "unborn" /\ op[c] = "none" /\ want[c] = c /\ got[c] = Zero
    BY <1>3, Zenon DEF Init, InitFresh
  <2>3. Zero \notin Keys /\ Contexts \subseteq Keys
    BY DEF Keys
  <2> QED
    BY <1>2, <2>1, <2>2, <2>3 DEF IInv, Control, Entries, Present, Searching, SearchOf, Own, New,
       Placing, Seeking, Unbinding, Settled
<1>4. CASE InitSnapshot
  <2> DEFINE at == StartAt[SnapContext]
  <2>1. at \in Slots /\ ProbeAt(SnapContext, 0) = at
    BY <1>1
  <2>2. key[at] = SnapContext /\ \A s \in Slots : s # at => key[s] = Zero
    BY <1>4, <2>1 DEF InitSnapshot
  <2>3. /\ pc[First] = "probe" /\ op[First] = "unbind" /\ want[First] = SnapContext
        /\ \A c \in Contexts : c # First => pc[c] = "unborn" /\ op[c] = "none" /\ want[c] = c
        /\ \A c \in Contexts : got[c] = Zero /\ n[c] = 0
    BY <1>4, Zenon DEF Init, InitSnapshot
  <2>4. Zero \notin Keys /\ Contexts \subseteq Keys /\ SnapContext \in Keys /\ First \in Contexts
    BY DEF Keys
  <2>5. 0 \in 0..(N - 1) /\ \A k : Passed(k, 0)
    BY DEF Passed
  <2> HIDE DEF at
  <2>6. Control
    BY <2>3 DEF Control, Placing, Seeking
  <2>7. Entries
    BY <2>1, <2>2, <2>4, <2>5 DEF Entries
  <2>8. Present
    BY <2>2, <2>3, <2>4 DEF Present, Unbinding, New, Placing
  <2>9. Searching
    BY <2>1, <2>2, <2>3, <2>5, Zenon DEF Searching, SearchOf, Placing, Seeking
  <2>10. Own
    BY <2>3 DEF Own, Settled
  <2> QED
    BY <1>2, <2>6, <2>7, <2>8, <2>9, <2>10 DEF IInv
<1> QED
  BY <1>3, <1>4 DEF Init

\* A step of c that writes no key leaves every other context's search alone.
LEMMA OthersSearch ==
    ASSUME Searching, UNCHANGED key, NEW c \in Contexts, NEW d \in Contexts, d # c,
           pc'[d] = pc[d], op'[d] = op[d], want'[d] = want[d], n'[d] = n[d], free'[d] = free[d],
           seen'[d] = seen[d]
    PROVE  SearchOf(d)'
BY DEF Searching, SearchOf, Seeking, Placing, Passed, Here

\* A context enters find: to record itself, or to look up or release its entry.
LEMMA EnterIInv ==
    ASSUME IInv, aborted = "no", NEW c \in Contexts, Start(c) \/ Get(c) \/ Release(c)
    PROVE  IInv'
<1>1. PICK o \in {"set_tp", "get", "release"} : Find(c, o, c)
  BY DEF Start, Get, Release
<1>2. /\ pc[c] = (IF o = "set_tp" THEN "unborn" ELSE "run")
      /\ UNCHANGED <<key, tp, aborted, carry, mine, got>>
  <2>1. CASE Start(c)
    BY <1>1, <2>1 DEF Start, Find, slots, IInv, Types
  <2>2. CASE Get(c)
    BY <1>1, <2>2 DEF Get, Find, slots, IInv, Types
  <2>3. CASE Release(c)
    BY <1>1, <2>3 DEF Release, Find, slots, IInv, Types
  <2> QED
    BY <2>1, <2>2, <2>3
<1>3. ~Unbinding
  <2>1. CASE Start(c)
    BY <2>1 DEF Start, Unbinding, IInv, Control
  <2>2. CASE pc[c] = "run"
    BY <2>2 DEF Unbinding, IInv, Control
  <2> QED
    BY <2>1, <2>2 DEF Get, Release
<1>4. /\ op' = [op EXCEPT ![c] = o] /\ want' = [want EXCEPT ![c] = c] /\ n' = [n EXCEPT ![c] = 0]
      /\ free' = [free EXCEPT ![c] = N] /\ seen' = [seen EXCEPT ![c] = Zero]
      /\ pc' = [pc EXCEPT ![c] = "probe"]
  BY <1>1 DEF Find, Goto
<1>5. o # "set_tp" => \E p \in 0..(N - 1) : key[ProbeAt(c, p)] = c /\ Passed(c, p)
  BY <1>2 DEF IInv, Present, Entries, Keys
<1>6. Types'
  BY <1>2, <1>4, ContextsAssumption DEF IInv, Types, Keys, Ops
<1>7. Control'
  BY <1>3, <1>4 DEF IInv, Types, Control, Placing, Seeking, Unbinding
<1>8. Entries'
  BY <1>2 DEF IInv, Entries, Passed
<1>9. Present'
  BY <1>2, <1>3, <1>4 DEF IInv, Types, Present, New, Placing, Unbinding
<1>10. Passed(c, 0)'
  BY DEF Passed
<1>11. Searching'
  <2>1. SearchOf(c)'
    BY <1>2, <1>4, <1>5, <1>10 DEF IInv, Types, SearchOf, Placing, Seeking, Passed
  <2>2. \A d \in Contexts : d # c => SearchOf(d)'
    BY <1>2, <1>4, OthersSearch DEF IInv, Types
  <2> QED
    BY <2>1, <2>2 DEF Searching
<1>12. Own'
  BY <1>2, <1>4 DEF IInv, Types, Own, Settled
<1> QED
  BY <1>6, <1>7, <1>8, <1>9, <1>11, <1>12 DEF IInv

\* A turn of the loop: it passes no free slot, and not the entry it looks for.
LEMMA ProbeIInv == ASSUME IInv, NEW c \in Contexts, Probe(c) PROVE IInv'
<1>1. pc[c] = "probe" /\ UNCHANGED <<key, tp, aborted, op, want, seen, carry, mine, got>>
  BY Zenon DEF Probe, slots
<1>2. N \in Nat /\ n[c] \in 0..N /\ want[c] \in Keys /\ (Placing(c) \/ Seeking(c))
      /\ (Create(c) <=> Placing(c) \/ op[c] = "set_self")
  BY <1>1, ContextsAssumption DEF IInv, Types, Control, Create, Placing
<1>3. Seeking(c) => \E p \in n[c]..(N - 1) : key[ProbeAt(want[c], p)] = want[c] /\ Passed(want[c], p)
  BY <1>1, Zenon DEF IInv, Searching, SearchOf
<1>4. Placing(c) => Passed(want[c], n[c]) /\ (free[c] = N \/ free[c] <= n[c])
  BY <1>1 DEF IInv, Searching, SearchOf
<1>5. ~(Placing(c) /\ Seeking(c))
  BY DEF Placing, Seeking
<1>6. Entries'
  BY <1>1 DEF IInv, Entries, Passed
<1>7. ASSUME Types', Control', Present', Searching', Own' PROVE IInv'
  BY <1>6, <1>7 DEF IInv
<1>8. CASE n[c] # N /\ key[Here(c)] = want[c] /\ Goto(c, "found") /\ UNCHANGED <<n, free>>
  <2>1. pc' = [pc EXCEPT ![c] = "found"]
    BY <1>8 DEF Goto
  <2>2. Types'
    BY <1>1, <1>8, <2>1, Zenon DEF IInv, Types
  <2>3. Control'
    BY <1>1, <1>8, <2>1 DEF IInv, Types, Control, Placing, Seeking
  <2>4. Present'
    BY <1>1, <1>8, <2>1 DEF IInv, Types, Present, New, Placing, Unbinding
  <2>5. Searching'
    <3>1. SearchOf(c)'
      BY <1>1, <1>2, <1>8, <2>1 DEF IInv, Types, SearchOf, Placing, Seeking, Passed, Here
    <3>2. \A d \in Contexts : d # c => SearchOf(d)'
      BY <1>1, <1>8, <2>1, OthersSearch, Zenon DEF IInv, Types
    <3> QED
      BY <3>1, <3>2 DEF Searching
  <2>6. Own'
    BY <1>1, <1>8, <2>1 DEF IInv, Types, Own, Settled
  <2> QED
    BY <1>7, <2>2, <2>3, <2>4, <2>5, <2>6
<1>9. ~(Seeking(c) /\ (n[c] = N \/ key[Here(c)] = Zero))
  <2> SUFFICES ASSUME Seeking(c), n[c] = N \/ key[Here(c)] = Zero PROVE FALSE
    OBVIOUS
  <2>1. PICK p \in n[c]..(N - 1) : key[ProbeAt(want[c], p)] = want[c] /\ Passed(want[c], p)
    BY <1>3, Zenon
  <2>2. key[ProbeAt(want[c], n[c])] = Zero
    BY <1>2, <2>1 DEF Here
  <2>3. p = n[c]
    BY <1>2, <2>1, <2>2 DEF Passed
  <2> QED
    BY <1>2, <2>1, <2>2, <2>3, ContextsAssumption, Zenon
<1>10. CASE /\ n[c] = N \/ key[Here(c)] = Zero
            /\ Placing(c)
            /\ free' = [free EXCEPT ![c] = IF n[c] # N /\ @ = N THEN n[c] ELSE @]
            /\ Goto(c, "choose") /\ UNCHANGED n
  <2>1. pc' = [pc EXCEPT ![c] = "choose"] /\ free'[c] \in 0..N /\ (free'[c] = N \/ free'[c] <= n[c])
    BY <1>2, <1>4, <1>10 DEF Goto, IInv, Types
  <2>2. Types'
    BY <1>1, <1>10, <2>1, Zenon DEF IInv, Types
  <2>3. Control'
    BY <1>1, <1>10, <2>1 DEF IInv, Types, Control, Placing, Seeking
  <2>4. Present'
    BY <1>1, <1>10, <2>1 DEF IInv, Types, Present, New, Placing, Unbinding
  <2>5. Searching'
    <3>1. SearchOf(c)'
      BY <1>1, <1>2, <1>4, <1>10, <2>1, Zenon DEF IInv, Types, SearchOf, Placing, Seeking, Passed,
         Here
    <3>2. \A d \in Contexts : d # c => SearchOf(d)'
      BY <1>1, <1>10, <2>1, OthersSearch, Zenon DEF IInv, Types
    <3> QED
      BY <3>1, <3>2 DEF Searching
  <2>6. Own'
    BY <1>1, <1>10, <2>1 DEF IInv, Types, Own, Settled, Placing
  <2> QED
    BY <1>7, <2>2, <2>3, <2>4, <2>5, <2>6
<1>11. CASE /\ n[c] # N /\ key[Here(c)] # Zero /\ key[Here(c)] # want[c]
            /\ n' = [n EXCEPT ![c] = @ + 1]
            /\ free' = [free EXCEPT ![c] = IF key[Here(c)] = Retired /\ @ = N THEN n[c] ELSE @]
            /\ UNCHANGED pc
  <2>1. /\ n'[c] = n[c] + 1 /\ n'[c] \in 0..N
        /\ free'[c] \in 0..N /\ (Placing(c) => free'[c] = N \/ free'[c] <= n'[c])
    BY <1>2, <1>4, <1>11 DEF IInv, Types
  <2>2. Types'
    BY <1>1, <1>11, <2>1, Zenon DEF IInv, Types
  <2>3. Control'
    BY <1>1, <1>11 DEF IInv, Types, Control, Placing, Seeking
  <2>4. Present'
    BY <1>1, <1>11 DEF IInv, Types, Present, New, Placing, Unbinding
  <2>5. Placing(c) => Passed(want[c], n[c] + 1)
    BY <1>2, <1>4, <1>11 DEF Passed, Here
  <2>6. Seeking(c) => \E p \in (n[c] + 1)..(N - 1) :
            key[ProbeAt(want[c], p)] = want[c] /\ Passed(want[c], p)
    BY <1>2, <1>3, <1>11 DEF Here
  <2>7. Searching'
    <3>1. SearchOf(c)'
      BY <1>1, <1>5, <1>11, <2>1, <2>5, <2>6 DEF IInv, Types, SearchOf, Placing, Seeking, Passed,
         Here
    <3>2. \A d \in Contexts : d # c => SearchOf(d)'
      BY <1>1, <1>11, OthersSearch DEF IInv, Types
    <3> QED
      BY <3>1, <3>2 DEF Searching
  <2>8. Own'
    BY <1>1, <1>11 DEF IInv, Types, Own, Settled
  <2> QED
    BY <1>7, <2>2, <2>3, <2>4, <2>7, <2>8
<1>12. CASE (n[c] = N \/ key[Here(c)] = Zero) /\ ~Create(c)
  BY <1>2, <1>9, <1>12, Zenon
<1> QED
  BY <1>2, <1>5, <1>8, <1>9, <1>10, <1>11, <1>12, Zenon DEF Probe, Seeking

\* A context looking for a place is not on a snapshot's entry, and has none.
LEMMA PlacingFacts ==
    ASSUME IInv, NEW c \in Contexts, pc[c] \in {"choose", "cas", "absent"}
    PROVE  /\ Placing(c) /\ ~Seeking(c) /\ ~Unbinding /\ want[c] = c /\ c \in Keys
           /\ \A s \in Slots : key[s] # c
<1>1. Placing(c) /\ op[c] # "unbind"
  BY Zenon DEF IInv, Control, Placing
<1>2. ~Unbinding /\ want[c] = c
  BY <1>1 DEF IInv, Control, Unbinding
<1> QED
  BY <1>1, <1>2, Zenon DEF IInv, Present, New, Placing, Seeking, Keys

\* The choice is one the search passed; another's key there is a refusal.
LEMMA ChooseIInv == ASSUME IInv, NEW c \in Contexts, Choose(c) PROVE IInv'
<1>1. pc[c] = "choose" /\ UNCHANGED <<key, tp, aborted, op, want, free, carry, mine, got>>
  BY DEF Choose, slots
<1>2. Placing(c) /\ ~Seeking(c) /\ ~Unbinding /\ want[c] = c /\ c \in Keys
  BY <1>1, PlacingFacts, Zenon
<1>3. /\ N \in Nat /\ n[c] \in 0..N /\ free[c] \in 0..N
      /\ Passed(c, n[c]) /\ (free[c] = N \/ free[c] <= n[c])
  BY <1>1, <1>2, ContextsAssumption, Zenon DEF IInv, Types, Searching, SearchOf
<1>4. free[c] # N => FreeSlot(c) \in Slots /\ key[FreeSlot(c)] # c
  BY <1>1, <1>2, <1>3, ProbeSlot, PlacingFacts DEF FreeSlot
<1>5. \E l \in {"cas", "absent"} :
          /\ pc' = [pc EXCEPT ![c] = l]
          /\ \/ l = "absent" /\ n' = n /\ seen' = seen
             \/ /\ free[c] # N /\ n' = [n EXCEPT ![c] = free[c]]
                /\ seen' = [seen EXCEPT ![c] = key[FreeSlot(c)]]
                /\ l = "cas" => key[FreeSlot(c)] \in {Zero, Retired}
  BY <1>2, <1>4 DEF Choose, Goto
<1>6. Types'
  <2>1. free[c] # N => key[FreeSlot(c)] \in Keys \cup {Zero, Retired}
    BY <1>4, Zenon DEF IInv, Types
  <2> QED
    BY <1>1, <1>3, <1>5, <2>1 DEF IInv, Types
<1>7. Control'
  BY <1>1, <1>2, <1>5 DEF IInv, Types, Control, Placing, Seeking
<1>8. Entries'
  BY <1>1 DEF IInv, Entries, Passed
<1>9. Present'
  BY <1>1, <1>2, <1>5 DEF IInv, Types, Present, New, Placing, Unbinding
<1>10. SearchOf(c)'
  <2>1. free[c] # N => free[c] < N /\ Passed(c, free[c])
    BY <1>3 DEF Passed
  <2> QED
    BY <1>1, <1>2, <1>3, <1>5, <2>1 DEF IInv, Types, SearchOf, Placing, Seeking, Passed
<1>11. \A d \in Contexts : d # c => SearchOf(d)'
  BY <1>1, <1>5, OthersSearch DEF IInv, Types
<1>12. Own'
  BY <1>1, <1>5 DEF IInv, Types, Own, Settled
<1> QED
  BY <1>6, <1>7, <1>8, <1>9, <1>10, <1>11, <1>12 DEF IInv, Searching

\* A key written over a slot that d does not seek leaves d's search right: no
\* slot becomes free.
LEMMA OthersSearchKey ==
    ASSUME Types, Searching, NEW c \in Contexts, NEW d \in Contexts, d # c, NEW s \in Slots,
           NEW v, v # Zero, key' = [key EXCEPT ![s] = v], pc[d] = "unborn" \/ key[s] # want[d],
           pc'[d] = pc[d], op'[d] = op[d], want'[d] = want[d], n'[d] = n[d], free'[d] = free[d],
           seen'[d] = seen[d]
    PROVE  SearchOf(d)'
<1>1. \A k \in Keys, i \in Nat : key[ProbeAt(k, i)] # Zero => key'[ProbeAt(k, i)] # Zero
  BY ProbeSlot, Zenon DEF Types
<1>2. want[d] \in Keys /\ n[d] \in 0..N /\ N \in Nat /\ SearchOf(d)
  BY ContextsAssumption, Zenon DEF Types, Searching
<1>3. \A i \in Nat : pc[d] # "unborn" /\ key[ProbeAt(want[d], i)] = want[d]
                           => key'[ProbeAt(want[d], i)] = want[d]
  BY <1>2, ProbeSlot, Zenon DEF Types
<1>4. \A p \in Nat : Passed(want[d], p) => \A i \in 0..(p - 1) : key'[ProbeAt(want[d], i)] # Zero
  <2>1. \A p \in Nat : 0..(p - 1) \subseteq Nat
    OBVIOUS
  <2> QED
    BY <1>1, <1>2, <2>1, Zenon DEF Passed
<1> n[d] \in Nat /\ n[d]..(N - 1) \subseteq Nat
  BY <1>2
<1>5. pc[d] = "probe" /\ Seeking(d) =>
          \E p \in n[d]..(N - 1) : /\ key'[ProbeAt(want[d], p)] = want[d]
                                   /\ \A i \in 0..(p - 1) : key'[ProbeAt(want[d], i)] # Zero
  BY <1>2, <1>3, <1>4, Zenon DEF SearchOf
<1>6. pc[d] \in {"found", "retire"} => n[d] < N /\ key'[Here(d)] = want[d]
  BY <1>2, <1>3, Zenon DEF SearchOf, Here
<1>7. pc[d] \in {"probe", "choose", "cas"} /\ Placing(d) =>
          /\ \A i \in 0..(n[d] - 1) : key'[ProbeAt(want[d], i)] # Zero
          /\ free[d] = N \/ free[d] <= n[d]
  BY <1>2, <1>4, Zenon DEF SearchOf
<1>8. pc[d] = "cas" => n[d] < N /\ seen[d] \in {Zero, Retired}
  BY <1>2, Zenon DEF SearchOf
<1> QED
  BY <1>5, <1>6, <1>7, <1>8 DEF SearchOf, Seeking, Placing, Passed, Here

\* The entries stay reachable when a slot is overwritten and none becomes free.
LEMMA StillReached ==
    ASSUME Types, Entries, NEW s \in Slots, NEW v, v # Zero, key' = [key EXCEPT ![s] = v],
           NEW t \in Slots, t # s, key[t] \in Keys
    PROVE  \E p \in 0..(N - 1) :
               ProbeAt(key[t], p) = t /\ \A i \in 0..(p - 1) : key'[ProbeAt(key[t], i)] # Zero
<1>1. PICK p \in 0..(N - 1) : ProbeAt(key[t], p) = t /\ Passed(key[t], p)
  BY Zenon DEF Entries
<1>2. \A i \in 0..(p - 1) : ProbeAt(key[t], i) \in Slots
  BY ProbeSlot
<1> QED
  BY <1>1, <1>2, Zenon DEF Passed, Types

\* The exchange writes c's own key, over a slot nobody has, behind no free one.
LEMMA ClaimIInv == ASSUME IInv, NEW c \in Contexts, Claim(c) PROVE IInv'
<1> DEFINE h == Here(c)
<1>1. /\ pc[c] = "cas"
      /\ UNCHANGED <<tp, aborted, op, want, n, free, seen, carry, mine, got>>
  BY Zenon DEF Claim, search
<1>2. /\ Placing(c) /\ ~Seeking(c) /\ ~Unbinding /\ want[c] = c /\ c \in Keys
      /\ \A s \in Slots : key[s] # c
  BY <1>1, PlacingFacts, Zenon
<1>3. /\ N \in Nat /\ n[c] \in 0..(N - 1) /\ Passed(c, n[c]) /\ seen[c] \in {Zero, Retired}
      /\ (free[c] = N \/ free[c] <= n[c])
  BY <1>1, <1>2, ContextsAssumption DEF IInv, Types, Searching, SearchOf
<1>4. h \in Slots /\ h = ProbeAt(c, n[c])
  BY <1>2, <1>3, ProbeSlot DEF Here
<1> HIDE DEF h
<1>5. CASE key[h] = seen[c] /\ key' = [key EXCEPT ![h] = c] /\ pc' = [pc EXCEPT ![c] = "found"]
  <2>1. key[h] \notin Keys /\ c # Zero
    BY <1>2, <1>3, <1>5, ContextsAssumption, Zenon
  <2>2. key'[h] = c /\ \A s \in Slots : s # h => key'[s] = key[s]
    BY <1>4, <1>5, Zenon DEF IInv, Types
  <2>3. Types'
    BY <1>1, <1>2, <1>4, <1>5, Zenon DEF IInv, Types
  <2>4. Control'
    BY <1>1, <1>2, <1>5 DEF IInv, Types, Control, Placing, Seeking
  <2>5. Entries'
    <3>1. \A s, t \in Slots : key'[s] = key'[t] /\ key'[s] \in Keys => s = t
      BY <1>2, <2>2 DEF IInv, Entries
    <3>2. \A i \in 0..(n[c] - 1) : key'[ProbeAt(c, i)] # Zero
      BY <1>2, <1>3, <1>4, <1>5, <2>1, ProbeSlot DEF Passed, IInv, Types
    <3>3. ASSUME NEW t \in Slots, key'[t] \in Keys
          PROVE  \E p \in 0..(N - 1) :
                     ProbeAt(key'[t], p) = t /\ \A i \in 0..(p - 1) : key'[ProbeAt(key'[t], i)] # Zero
      <4>1. CASE t = h
        BY <1>3, <1>4, <2>2, <3>2, <4>1
      <4>2. CASE t # h
        <5>1. key'[t] = key[t] /\ key[t] \in Keys
          BY <2>2, <3>3, <4>2, Zenon
        <5>2. \E p \in 0..(N - 1) :
                  ProbeAt(key[t], p) = t /\ \A i \in 0..(p - 1) : key'[ProbeAt(key[t], i)] # Zero
          BY <1>4, <1>5, <2>1, <4>2, <5>1, StillReached, Zenon DEF IInv
        <5> QED
          BY <5>1, <5>2, Zenon
      <4> QED
        BY <4>1, <4>2, Zenon
    <3> QED
      BY <3>1, <3>3, Zenon DEF Entries, Passed
  <2>6. Present'
    <3>1. ~Unbinding'
      BY <1>1, <1>2, Zenon DEF Unbinding
    <3>2. \A d \in Contexts : New(d)' => d # c /\ New(d)
      BY <1>1, <1>5, Zenon DEF New, Placing, IInv, Types
    <3>3. \A d \in Contexts : New(d)' => \A s \in Slots : key'[s] # d
      BY <1>2, <2>2, <3>2 DEF IInv, Present
    <3>4. \A d \in Contexts : pc'[d] = "run" /\ aborted = "no" => \E s \in Slots : key'[s] = d
      <4>1. \A d \in Contexts : pc'[d] = "run" => pc[d] = "run" /\ d \in Keys
        BY <1>5, Zenon DEF IInv, Types, Keys
      <4>2. ASSUME NEW d \in Contexts, pc'[d] = "run", aborted = "no" PROVE \E s \in Slots : key'[s] = d
        <5>1. PICK s \in Slots : key[s] = d
          BY <4>1, <4>2, Zenon DEF IInv, Present
        <5> QED
          BY <2>1, <2>2, <4>1, <4>2, <5>1, Zenon
      <4> QED
        BY <4>2, Zenon
    <3> QED
      BY <1>1, <3>1, <3>3, <3>4, Zenon DEF Present
  <2>7. SearchOf(c)'
    BY <1>1, <1>2, <1>3, <1>4, <1>5, <2>2 DEF IInv, Types, SearchOf, Here
  <2>8. \A d \in Contexts : d # c => SearchOf(d)'
    <3> SUFFICES ASSUME NEW d \in Contexts, d # c PROVE SearchOf(d)'
      OBVIOUS
    <3>1. key[h] # want[d]
      BY <2>1, Zenon DEF IInv, Types
    <3> QED
      BY <1>1, <1>4, <1>5, <2>1, <3>1, OthersSearchKey, Zenon DEF IInv, Types
  <2>9. Own'
    <3>1. ~Settled(c)' /\ \A d \in Contexts : Settled(d)' => Settled(d) /\ d # c
      BY <1>1, <1>2, <1>5, Zenon DEF Settled, Placing, IInv, Types
    <3>2. \A d \in Contexts : Settled(d)' => \A s \in Slots : key'[s] = d => tp'[s] = mine'[d]
      <4>1. tp' = tp /\ mine' = mine
        BY <1>1, Zenon
      <4>2. \A s \in Slots : key'[s] = c \/ key'[s] = key[s]
        BY <2>2, Zenon
      <4>3. \A d \in Contexts : Settled(d) => \A s \in Slots : key[s] = d => tp[s] = mine[d]
        BY Zenon DEF IInv, Own
      <4> QED
        BY <3>1, <4>1, <4>2, <4>3
    <3>3. got[c] = Zero
      BY <1>1, <1>2, Zenon DEF IInv, Own, Settled, Placing
    <3> QED
      BY <1>1, <1>5, <3>2, <3>3 DEF IInv, Own, Settled, Types
  <2> QED
    BY <2>3, <2>4, <2>5, <2>6, <2>7, <2>8, <2>9 DEF IInv, Searching
<1>6. CASE UNCHANGED key /\ pc' = [pc EXCEPT ![c] = "absent"]
  <2>1. Types'
    BY <1>1, <1>6, Zenon DEF IInv, Types
  <2>2. Control'
    BY <1>1, <1>2, <1>6 DEF IInv, Types, Control, Placing, Seeking
  <2>3. Entries'
    BY <1>6 DEF IInv, Entries, Passed
  <2>4. Present'
    BY <1>1, <1>2, <1>6 DEF IInv, Types, Present, New, Placing, Unbinding
  <2>5. SearchOf(c)'
    BY <1>6, Zenon DEF IInv, Types, SearchOf
  <2>6. \A d \in Contexts : d # c => SearchOf(d)'
    BY <1>1, <1>6, OthersSearch, Zenon DEF IInv, Types
  <2>7. Own'
    BY <1>1, <1>6 DEF IInv, Types, Own, Settled
  <2> QED
    BY <2>1, <2>2, <2>3, <2>4, <2>5, <2>6, <2>7 DEF IInv, Searching
<1> QED
  BY <1>2, <1>5, <1>6, Zenon DEF Claim, Goto, h

\* find returning none ends the program: only a context without an entry gets it.
LEMMA AbsentIInv == ASSUME IInv, NEW c \in Contexts, Absent(c) PROVE IInv'
<1>1. /\ pc[c] = "absent"
      /\ UNCHANGED <<key, tp, op, want, n, free, seen, carry, mine, got>>
  BY DEF Absent, slots, search
<1>2. Placing(c) /\ ~Unbinding /\ \A s \in Slots : key[s] # c
  BY <1>1, PlacingFacts
<1>3. aborted' = "full" /\ pc' = [pc EXCEPT ![c] = "run"]
  BY <1>2, Zenon DEF Absent, Placing, Goto
<1>4. Types'
  BY <1>1, <1>3, Zenon DEF IInv, Types
<1>5. Control'
  BY <1>1, <1>2, <1>3 DEF IInv, Types, Control, Placing, Seeking, Unbinding
<1>6. Entries'
  BY <1>1 DEF IInv, Entries, Passed
<1>7. Present'
  BY <1>1, <1>2, <1>3, SMTT(30) DEF IInv, Types, Present, New, Placing, Unbinding
<1>8. SearchOf(c)'
  BY <1>3 DEF IInv, Types, SearchOf
<1>9. \A d \in Contexts : d # c => SearchOf(d)'
  BY <1>1, <1>3, OthersSearch, Zenon DEF IInv, Types
<1>10. Own'
  <2>1. \A d \in Contexts : d # c => (Settled(d)' <=> Settled(d)) /\ pc'[d] = pc[d]
    BY <1>1, <1>3 DEF IInv, Types, Settled
  <2>2. pc'[c] = "run"
    BY <1>3 DEF IInv, Types
  <2> QED
    BY <1>1, <1>2, <2>1, <2>2 DEF IInv, Own
<1> QED
  BY <1>4, <1>5, <1>6, <1>7, <1>8, <1>9, <1>10 DEF IInv, Searching

\* What find returned is the entry of the key it was asked for.
LEMMA FoundFacts ==
    ASSUME IInv, NEW c \in Contexts, pc[c] \in {"found", "retire"}
    PROVE  /\ N \in Nat /\ n[c] \in 0..(N - 1) /\ Here(c) \in Slots /\ key[Here(c)] = want[c]
           /\ want[c] \in Keys
           /\ op[c] # "unbind" => want[c] = c /\ ~Unbinding
           /\ \A d \in Contexts : d # c => pc[d] = "unborn" \/ want[d] # want[c]
<1>1. N \in Nat /\ n[c] \in 0..(N - 1) /\ key[Here(c)] = want[c] /\ want[c] \in Keys
  <2>1. n[c] \in 0..N /\ n[c] < N /\ key[Here(c)] = want[c] /\ want[c] \in Keys
    BY Zenon DEF IInv, Types, Searching, SearchOf
  <2> QED
    BY <2>1, ContextsAssumption
<1>2. Here(c) \in Slots
  <2>1. n[c] \in Nat
    BY <1>1
  <2> QED
    BY <1>1, <2>1, ProbeSlot, Zenon DEF Here
<1>3. op[c] # "unbind" => want[c] = c /\ ~Unbinding
  BY DEF IInv, Control, Unbinding
<1>4. \A d \in Contexts : d # c => pc[d] = "unborn" \/ want[d] # want[c]
  BY DEF IInv, Control
<1> QED
  BY <1>1, <1>2, <1>3, <1>4

\* A context writes what it was given into the entry that has its key.
LEMMA RecordIInv == ASSUME IInv, NEW c \in Contexts, SetTp(c) \/ Rebind(c) PROVE IInv'
<1> DEFINE h == Here(c)
<1>1. pc[c] = "found" /\ Placing(c) /\ UNCHANGED <<key, aborted, carry, got>>
  BY DEF SetTp, Rebind, Placing
<1>2. op[c] # "unbind"
  BY <1>1 DEF Placing
<1>3. h \in Slots /\ key[h] = c /\ want[c] = c /\ c \in Keys /\ ~Unbinding
  BY <1>1, <1>2, FoundFacts
<1>4. PICK v \in Keys \cup {Zero} : tp' = [tp EXCEPT ![h] = v] /\ mine' = [mine EXCEPT ![c] = v]
  <2>1. CASE SetTp(c)
    BY <1>3, <2>1, Zenon DEF SetTp
  <2>2. CASE Rebind(c)
    <3>1. carry[c] \in Keys \cup {Zero}
      BY DEF IInv, Types
    <3> QED
      BY <2>2, <3>1, Zenon DEF Rebind
  <2> QED
    BY <2>1, <2>2
<1> HIDE DEF h
<1>5. \/ pc' = [pc EXCEPT ![c] = "run"] /\ UNCHANGED <<op, want, n, free, seen>>
      \/ /\ pc' = [pc EXCEPT ![c] = "probe"] /\ op' = [op EXCEPT ![c] = "set_self"]
         /\ want' = [want EXCEPT ![c] = c] /\ n' = [n EXCEPT ![c] = 0]
         /\ free' = [free EXCEPT ![c] = N] /\ seen' = [seen EXCEPT ![c] = Zero]
  BY Zenon DEF SetTp, Rebind, Find, Goto, search
<1>6. Types'
  BY <1>1, <1>3, <1>4, <1>5, ContextsAssumption DEF IInv, Types, Ops
<1>7. Control'
  BY <1>1, <1>3, <1>5 DEF IInv, Types, Control, Placing, Seeking, Unbinding
<1>8. Entries'
  BY <1>1 DEF IInv, Entries, Passed
<1>9. Present'
  BY <1>1, <1>3, <1>5 DEF IInv, Types, Present, New, Placing, Unbinding
<1>10. SearchOf(c)'
  <2>1. \E p \in 0..(N - 1) : key[ProbeAt(c, p)] = c /\ Passed(c, p)
    BY <1>3 DEF IInv, Entries
  <2> QED
    BY <1>1, <1>5, <2>1, SMTT(30) DEF IInv, Types, SearchOf, Placing, Seeking, Passed
<1>11. \A d \in Contexts : d # c => SearchOf(d)'
  BY <1>1, <1>5, OthersSearch, Zenon DEF IInv, Types
<1>12. Own'
  <2>1. \A d \in Contexts : d # c => /\ (Settled(d)' <=> Settled(d)) /\ pc'[d] = pc[d] /\ op'[d] = op[d]
                                      /\ mine'[d] = mine[d]
    BY <1>4, <1>5 DEF IInv, Types, Settled
  <2>2. got[c] = Zero /\ Settled(c)' /\ pc'[c] # "unborn"
    BY <1>1, <1>5 DEF IInv, Types, Own, Settled, Placing
  <2>3. \A s \in Slots : key[s] = c => tp'[s] = mine'[c]
    BY <1>3, <1>4, Zenon DEF IInv, Types, Entries
  <2>4. \A d \in Contexts : d # c => \A s \in Slots : key[s] = d => tp'[s] = tp[s]
    BY <1>3, <1>4, Zenon DEF IInv, Types
  <2> QED
    BY <1>1, <2>1, <2>2, <2>3, <2>4 DEF IInv, Own
<1> QED
  BY <1>6, <1>7, <1>8, <1>9, <1>10, <1>11, <1>12 DEF IInv, Searching

\* A context that reads its entry reads its own; its record goes there too.
LEMMA AnswerIInv == ASSUME IInv, NEW c \in Contexts, Answer(c) \/ SetSelf(c) PROVE IInv'
<1>1. /\ pc[c] = "found" /\ op[c] \in {"get", "set_self"} /\ pc' = [pc EXCEPT ![c] = "run"]
      /\ UNCHANGED <<key, tp, aborted, op, want, n, free, seen, carry, mine>>
  BY DEF Answer, SetSelf, slots, search, Goto
<1>2. Here(c) \in Slots /\ key[Here(c)] = c /\ ~Unbinding
  BY <1>1, FoundFacts, Zenon
<1>3. got' = got \/ got' = [got EXCEPT ![c] = mine[c]]
  <2>1. tp[Here(c)] = mine[c]
    BY <1>1, <1>2, Zenon DEF IInv, Own, Settled
  <2> QED
    BY <2>1 DEF Answer, SetSelf
<1>4. Types'
  BY <1>1, <1>3, Zenon DEF IInv, Types
<1>5. Control'
  BY <1>1, <1>2 DEF IInv, Types, Control, Placing, Seeking, Unbinding
<1>6. Entries'
  BY <1>1 DEF IInv, Entries, Passed
<1>7. Present'
  BY <1>1, <1>2 DEF IInv, Types, Present, New, Placing, Unbinding
<1>8. SearchOf(c)'
  BY <1>1 DEF IInv, Types, SearchOf
<1>9. \A d \in Contexts : d # c => SearchOf(d)'
  BY <1>1, OthersSearch DEF IInv, Types
<1>10. Own'
  BY <1>1, <1>3 DEF IInv, Types, Own, Settled
<1> QED
  BY <1>4, <1>5, <1>6, <1>7, <1>8, <1>9, <1>10 DEF IInv, Searching

\* The entry is emptied while it still has its context's key.
LEMMA ClearIInv == ASSUME IInv, NEW c \in Contexts, Clear(c) PROVE IInv'
<1> DEFINE h == Here(c)
<1>1. /\ pc[c] = "found" /\ op[c] \in {"release", "unbind"} /\ pc' = [pc EXCEPT ![c] = "retire"]
      /\ carry' = [carry EXCEPT ![c] = tp[h]] /\ tp' = [tp EXCEPT ![h] = Zero]
      /\ UNCHANGED <<key, aborted, op, want, n, free, seen, mine, got>>
  BY DEF Clear, search, Goto
<1>2. /\ h \in Slots /\ key[h] = want[c] /\ want[c] \in Keys /\ n[c] \in 0..(N - 1) /\ N \in Nat
      /\ \A d \in Contexts : d # c => pc[d] = "unborn" \/ want[d] # want[c]
  BY <1>1, FoundFacts, Zenon
<1> HIDE DEF h
<1>3. Types'
  BY <1>1, <1>2, Zenon DEF IInv, Types
<1>4. Control'
  BY <1>1 DEF IInv, Types, Control, Placing, Seeking
<1>5. Entries'
  BY <1>1 DEF IInv, Entries, Passed
<1>6. Present'
  <2>1. \A d \in Contexts : (New(d)' => New(d)) /\ (pc'[d] = "run" => pc[d] = "run")
    BY <1>1, Zenon DEF IInv, Types, New, Placing
  <2>2. Unbinding' <=> Unbinding
    BY <1>1, Zenon DEF IInv, Types, Unbinding
  <2> QED
    BY <1>1, <2>1, <2>2, Zenon DEF IInv, Present
<1>7. SearchOf(c)'
  BY <1>1, <1>2 DEF IInv, Types, SearchOf, Here, h
<1>8. \A d \in Contexts : d # c => SearchOf(d)'
  BY <1>1, OthersSearch, Zenon DEF IInv, Types
<1>9. Own'
  <2>1. ~Settled(c)' /\ pc'[c] = "retire" /\ (op[c] # "release" => got[c] = Zero)
    BY <1>1, Zenon DEF IInv, Types, Settled, Own
  <2>2. \A d \in Contexts : d # c => (Settled(d)' <=> Settled(d)) /\ pc'[d] = pc[d]
    BY <1>1 DEF IInv, Types, Settled
  <2>3. \A d \in Contexts : d # c /\ Settled(d) => \A s \in Slots : key[s] = d => tp'[s] = tp[s]
    <3>0. \A s \in Slots : s # h => tp'[s] = tp[s]
      BY <1>1, <1>2, Zenon DEF IInv, Types
    <3> SUFFICES ASSUME NEW d \in Contexts, d # c, Settled(d), NEW s \in Slots, key[s] = d, s = h
                 PROVE  FALSE
      BY <3>0, Zenon
    <3>1. op[c] = "release" => want[c] = c
      BY DEF IInv, Control
    <3>2. op[c] = "unbind" /\ pc[d] = "unborn"
      BY <1>1, <1>2, <3>1 DEF IInv, Control
    <3> QED
      BY <3>2 DEF Settled
  <2> QED
    BY <1>1, <2>1, <2>2, <2>3 DEF IInv, Own
<1> QED
  BY <1>3, <1>4, <1>5, <1>6, <1>7, <1>8, <1>9 DEF IInv, Searching

\* The key goes, and the slot is not free again: what lies beyond stays reached.
LEMMA RetireIInv == ASSUME IInv, NEW c \in Contexts, Retire(c) PROVE IInv'
<1> DEFINE h == Here(c)
<1>1. /\ pc[c] = "retire" /\ key' = [key EXCEPT ![h] = Retired] /\ UNCHANGED <<tp, aborted>>
      /\ \/ /\ op[c] = "release" /\ pc' = [pc EXCEPT ![c] = "unborn"]
            /\ mine' = [mine EXCEPT ![c] = Zero] /\ got' = [got EXCEPT ![c] = Zero]
            /\ carry' = [carry EXCEPT ![c] = Zero] /\ UNCHANGED <<op, want, n, free, seen>>
         \/ /\ op[c] = "unbind" /\ pc' = [pc EXCEPT ![c] = "probe"]
            /\ op' = [op EXCEPT ![c] = "rebind"] /\ want' = [want EXCEPT ![c] = c]
            /\ n' = [n EXCEPT ![c] = 0] /\ free' = [free EXCEPT ![c] = N]
            /\ seen' = [seen EXCEPT ![c] = Zero] /\ UNCHANGED <<carry, mine, got>>
  BY Zenon DEF Retire, Find, Goto, search
<1>2. /\ h \in Slots /\ key[h] = want[c] /\ want[c] \in Keys /\ N \in Nat
      /\ op[c] # "unbind" => want[c] = c /\ ~Unbinding
      /\ \A d \in Contexts : d # c => pc[d] = "unborn" \/ want[d] # want[c]
  BY <1>1, FoundFacts, Zenon
<1>3. Retired # Zero /\ Retired \notin Keys /\ Zero \notin Keys /\ Contexts \subseteq Keys
  BY ContextsAssumption DEF Keys
<1> HIDE DEF h
<1>4. key'[h] = Retired /\ \A s \in Slots : s # h => key'[s] = key[s] /\ key[s] # want[c]
  BY <1>1, <1>2 DEF IInv, Types, Entries
<1>5. Types'
  BY <1>1, <1>2, <1>3 DEF IInv, Types, Ops
<1>6. Control'
  BY <1>1 DEF IInv, Types, Control, Placing, Seeking
<1>7. Entries'
  <2>1. \A s, t \in Slots : key'[s] = key'[t] /\ key'[s] \in Keys => s = t
    BY <1>3, <1>4, Zenon DEF IInv, Entries
  <2>2. ASSUME NEW t \in Slots, key'[t] \in Keys
        PROVE  \E p \in 0..(N - 1) :
                   ProbeAt(key'[t], p) = t /\ \A i \in 0..(p - 1) : key'[ProbeAt(key'[t], i)] # Zero
    <3>1. t # h /\ key'[t] = key[t] /\ key[t] \in Keys
      BY <1>3, <1>4, <2>2, Zenon
    <3>2. \E p \in 0..(N - 1) :
              ProbeAt(key[t], p) = t /\ \A i \in 0..(p - 1) : key'[ProbeAt(key[t], i)] # Zero
      BY <1>1, <1>2, <1>3, <3>1, StillReached, Zenon DEF IInv
    <3> QED
      BY <3>1, <3>2, Zenon
  <2> QED
    BY <2>1, <2>2 DEF Entries, Passed
<1>8. Present'
  <2>1. CASE op[c] = "release"
    <3>1. want[c] = c /\ ~Unbinding /\ ~Unbinding'
      BY <1>1, <1>2, <2>1, Zenon DEF Unbinding
    <3>2. \A d \in Contexts : New(d)' => d = c \/ New(d)
      BY <1>1, <2>1, Zenon DEF New, Placing, IInv, Types
    <3>3. \A d \in Contexts : New(d)' => \A s \in Slots : key'[s] # d
      BY <1>3, <1>4, <3>1, <3>2 DEF IInv, Present
    <3>4. \A d \in Contexts : pc'[d] = "run" => pc[d] = "run" /\ d # c
      BY <1>1, <2>1 DEF IInv, Types
    <3>5. \A d \in Contexts : d # c => \A s \in Slots : key[s] = d => key'[s] = d
      BY <1>2, <1>4, <3>1, Zenon
    <3> QED
      BY <1>1, <3>1, <3>3, <3>4, <3>5 DEF IInv, Present
  <2>2. CASE op[c] = "unbind"
    <3>1. Unbinding /\ want[c] = SnapContext /\ \A d \in Contexts : d # c => pc[d] = "unborn" /\ op[d] # "unbind"
      BY <2>2, Zenon DEF Unbinding, IInv, Control
    <3>2. \A s \in Slots : key'[s] \in {Zero, Retired}
      BY <1>4, <3>1 DEF IInv, Present
    <3>3. ~Unbinding' /\ \A d \in Contexts : pc'[d] # "run"
      BY <1>1, <2>2, <3>1, SMTT(30) DEF Unbinding, IInv, Types
    <3> QED
      BY <1>3, <3>2, <3>3 DEF Present
  <2> QED
    BY <1>1, <2>1, <2>2, Zenon
<1>9. SearchOf(c)'
  <2>1. \A i \in 0..(0 - 1) : FALSE
    OBVIOUS
  <2> QED
    BY <1>1, <2>1 DEF IInv, Types, SearchOf, Placing, Seeking, Passed
<1>10. \A d \in Contexts : d # c => SearchOf(d)'
  <2> SUFFICES ASSUME NEW d \in Contexts, d # c PROVE SearchOf(d)'
    OBVIOUS
  <2>1. /\ pc'[d] = pc[d] /\ op'[d] = op[d] /\ want'[d] = want[d] /\ n'[d] = n[d] /\ free'[d] = free[d]
        /\ seen'[d] = seen[d]
    BY <1>1 DEF IInv, Types
  <2>2. pc[d] = "unborn" \/ key[h] # want[d]
    BY <1>2, SMTT(30)
  <2> QED
    BY <1>1, <1>2, <1>3, <2>1, <2>2, OthersSearchKey, Zenon DEF IInv
<1>11. Own'
  <2>1. ~Settled(c)' /\ got'[c] = Zero
    BY <1>1 DEF IInv, Types, Settled, Own
  <2>2. \A d \in Contexts : d # c => /\ (Settled(d)' <=> Settled(d)) /\ pc'[d] = pc[d] /\ op'[d] = op[d]
                                      /\ mine'[d] = mine[d] /\ got'[d] = got[d]
    BY <1>1 DEF IInv, Types, Settled
  <2>3. \A s \in Slots : key'[s] \in Keys => key'[s] = key[s]
    BY <1>3, <1>4, Zenon
  <2> QED
    <3>1. ASSUME NEW d \in Contexts, Settled(d)', NEW s \in Slots, key'[s] = d
          PROVE  tp'[s] = mine'[d]
      <4>1. d # c /\ Settled(d) /\ key[s] = d /\ tp' = tp
        BY <1>1, <1>3, <2>1, <2>2, <2>3, <3>1, Zenon
      <4> QED
        BY <2>2, <4>1, Zenon DEF IInv, Own
    <3>2. ASSUME NEW d \in Contexts PROVE got'[d] \in {Zero, mine'[d]}
      BY <2>1, <2>2, Zenon DEF IInv, Own
    <3>3. ASSUME NEW d \in Contexts,
                 pc'[d] = "unborn" \/ (pc'[d] # "run" /\ ~Settled(d)' /\ op'[d] # "release")
          PROVE  got'[d] = Zero
      BY <2>1, <2>2, <3>3, Zenon DEF IInv, Own
    <3> QED
      BY <3>1, <3>2, <3>3, Zenon DEF Own
<1> QED
  BY <1>5, <1>6, <1>7, <1>8, <1>9, <1>10, <1>11 DEF IInv, Searching

\* Every step of every context keeps the invariant.
LEMMA NextIInv == IInv /\ [Next]_vars => IInv'
<1> SUFFICES ASSUME IInv, [Next]_vars PROVE IInv'
  OBVIOUS
<1>1. CASE UNCHANGED vars
  <2>1. UNCHANGED <<key, tp, aborted, pc, op, want, n, free, seen, carry, mine, got>>
    BY <1>1 DEF vars, slots, search
  <2>2. Types' /\ Control'
    BY <2>1, Zenon DEF IInv, Types, Control, Placing, Seeking
  <2>3. Entries' /\ Searching'
    BY <2>1 DEF IInv, Entries, Passed, Searching, SearchOf, Placing, Seeking, Here
  <2>4. Present' /\ Own'
    BY <2>1, Zenon DEF IInv, Present, New, Placing, Unbinding, Own, Settled
  <2> QED
    BY <2>2, <2>3, <2>4 DEF IInv
<1> QED
  BY <1>1, EnterIInv, ProbeIInv, ChooseIInv, ClaimIInv, AbsentIInv, RecordIInv, AnswerIInv,
     ClearIInv, RetireIInv, Zenon DEF Next

-----------------------------------------------------------------------------
\* Without a lock, and whatever is claimed and retired on the way, a context
\* that recorded itself has one entry and its search reaches it.
THEOREM RegisteredIsFoundAlways == Spec => []RegisteredIsFound
<1>1. IInv => RegisteredIsFound
  BY Zenon DEF IInv, Control, Placing, Entries, Passed, RegisteredIsFound
<1> QED
  BY <1>1, InitIInv, NextIInv, PTL DEF Spec

\* A context is answered its own thread pointer, never another's.
THEOREM ReadsOwnAlways == Spec => []ReadsOwn
<1>1. IInv => ReadsOwn
  BY Zenon DEF IInv, Own, ReadsOwn
<1> QED
  BY <1>1, InitIInv, NextIInv, PTL DEF Spec

-----------------------------------------------------------------------------
\* Before the first call nothing was given, held back or delivered.
LEMMA ListInit == Ls!Assumptions /\ Ls!Init => Ls!IInv
<1> SUFFICES ASSUME Ls!Assumptions, Ls!Init PROVE Ls!IInv
  OBVIOUS
<1>1. Ls!TypeOK
  <2>1. entries \in Seq(Nat)
    BY DEF Ls!Assumptions, Ls!Init
  <2>2. Len(entries) \in Nat
    BY <2>1
  <2>3. iter \in 0..Len(entries)+1
    BY <2>2 DEF Ls!Init
  <2>4. iter_open \in {0, 1}
    BY DEF Ls!Init
  <2>5. pending \in (1..Len(entries)) \cup {None}
    BY DEF Ls!Init
  <2>6. listed \in Seq(Nat)
    BY DEF Ls!Init
  <2> QED
    BY <2>1, <2>3, <2>4, <2>5, <2>6 DEF Ls!TypeOK
<1>2. DOMAIN listed = {}
  BY DEF Ls!Init
<1>3. Ls!Given = 1
  BY DEF Ls!Init, Ls!Given
<1> QED
  BY <1>1, <1>2, <1>3 DEF Ls!Init, Ls!IInv

\* Placing an entry: it is delivered behind the others, or held.
LEMMA ListPlace ==
    ASSUME Ls!TypeOK, NEW e \in 1..Len(entries), Ls!Place(e)
    PROVE  /\ listed' \in Seq(Nat)
           /\ told' = "end" => told = "end"
           /\ \/ pending' = e /\ listed' = listed /\ getdents' = Ls!NoCall
              \/ pending' = None /\ listed' = Append(listed, e)
<1>1. CASE getdents.used + entries[e] > getdents.cap
  BY <1>1 DEF Ls!Place, Ls!TypeOK, Ls!Return, Ls!Tell
<1>2. CASE ~(getdents.used + entries[e] > getdents.cap)
  <2>1. listed' = Append(listed, e) /\ pending' = None /\ told' = told
    BY <1>2 DEF Ls!Place
  <2>2. listed' \in Seq(Nat)
    BY <2>1 DEF Ls!TypeOK
  <2> QED
    BY <2>1, <2>2
<1> QED
  BY <1>1, <1>2

\* Every step keeps the types.
LEMMA ListTypes == Ls!Assumptions /\ Ls!IInv /\ [Ls!Next]_(Ls!vars) => Ls!TypeOK'
<1> SUFFICES ASSUME Ls!Assumptions, Ls!IInv, [Ls!Next]_(Ls!vars) PROVE Ls!TypeOK'
  OBVIOUS
<1> USE DEF Ls!IInv, Ls!Assumptions
<1>1. ASSUME NEW cap \in Buffers, Ls!Getdents(cap) PROVE Ls!TypeOK'
  BY <1>1 DEF Ls!Getdents, Ls!TypeOK, Ls!Tell, Ls!NoCall
<1>2. CASE Ls!Held
  <2>1. pending \in 1..Len(entries)
    BY <1>2 DEF Ls!Held, Ls!TypeOK
  <2> QED
    BY <1>2, <2>1, ListPlace DEF Ls!Held, Ls!TypeOK
<1>3. CASE Ls!Fetch
  <2>1. CASE iter <= Len(entries) /\ iter' = iter + 1 /\ Ls!Place(iter)
    <3>1. iter \in 1..Len(entries)
      BY <1>3, <2>1 DEF Ls!Fetch, Ls!TypeOK
    <3> QED
      BY <1>3, <2>1, <3>1, ListPlace DEF Ls!Fetch, Ls!TypeOK
  <2>2. CASE ~Ls!Place(iter)
    BY <1>3, <2>2 DEF Ls!Fetch, Ls!TypeOK, Ls!Return, Ls!Tell, Ls!NoCall
  <2>3. CASE Ls!Place(iter) /\ ~(iter <= Len(entries) /\ iter' = iter + 1)
    BY <1>3, <2>3 DEF Ls!Fetch, Ls!TypeOK, Ls!Return, Ls!Tell, Ls!NoCall
  <2> QED
    BY <2>1, <2>2, <2>3
<1>4. CASE UNCHANGED Ls!vars
  BY <1>4 DEF Ls!vars, Ls!TypeOK
<1> QED
  BY <1>1, <1>2, <1>3, <1>4 DEF Ls!Next

\* The conjuncts of IInv about what was delivered and held back.
InOrder == /\ \A i, j \in DOMAIN listed : i < j => listed[i] < listed[j]
           /\ \A i \in DOMAIN listed :
                  /\ listed[i] \in 1..Len(entries)
                  /\ listed[i] < Ls!Given
                  /\ Ls!Carried(listed[i])
           /\ \A e \in 1..Len(entries) : e < Ls!Given /\ Ls!Carried(e) /\ e # pending => Ls!Listed(e)
           /\ pending # None => pending = Ls!Given - 1 /\ Ls!Carried(pending) /\ ~Ls!Listed(pending)

\* They hold after a step that delivers or holds back e, the last entry the
\* iterator gave, when all before it were dealt with.
LEMMA ListInOrder ==
    ASSUME Ls!Assumptions, Ls!TypeOK, NEW e \in 1..Len(entries), Ls!Place(e), Ls!Carried(e),
           UNCHANGED entries, Ls!Given' = e + 1,
           \A i, j \in DOMAIN listed : i < j => listed[i] < listed[j],
           \A i \in DOMAIN listed : listed[i] \in 1..Len(entries) /\ listed[i] < e /\ Ls!Carried(listed[i]),
           \A f \in 1..Len(entries) : f < e /\ Ls!Carried(f) => Ls!Listed(f)
    PROVE  InOrder'
<1>1. CASE pending' = e /\ listed' = listed
  <2>1. ~Ls!Listed(e)
    BY DEF Ls!Listed, Ls!TypeOK
  <2> QED
    BY <1>1, <2>1, SMTT(30) DEF InOrder, Ls!Carried, Ls!Listed, Ls!TypeOK, Ls!Assumptions
<1>2. CASE pending' = None /\ listed' = Append(listed, e)
  <2> DEFINE last == Len(listed)
  <2>1. last \in Nat /\ DOMAIN listed' = 1..last+1 /\ DOMAIN listed = 1..last
    BY <1>2 DEF Ls!TypeOK
  <2>2. \A i \in 1..last : listed'[i] = listed[i]
    BY <1>2 DEF Ls!TypeOK
  <2>3. listed'[last+1] = e
    BY <1>2 DEF Ls!TypeOK
  <2>4. \A i \in 1..last+1 : i \in 1..last \/ i = last+1
    BY <2>1
  <2> HIDE DEF last
  <2>5. \A f \in 1..Len(entries) : f = e \/ Ls!Listed(f) => Ls!Listed(f)'
    <3>1. last + 1 \in DOMAIN listed'
      BY <2>1
    <3> QED
      BY <2>1, <2>2, <2>3, <3>1 DEF Ls!Listed
  <2>6. \A i, j \in DOMAIN listed' : i < j => listed'[i] < listed'[j]
    <3> SUFFICES ASSUME NEW i \in 1..last+1, NEW j \in 1..last+1, i < j
                 PROVE  listed'[i] < listed'[j]
      BY <2>1
    <3>1. i \in 1..last
      BY <2>1
    <3>2. CASE j = last + 1
      BY <2>1, <2>2, <2>3, <3>1, <3>2
    <3>3. CASE j \in 1..last
      BY <2>1, <2>2, <3>1, <3>3, SMTT(30)
    <3> QED
      BY <2>4, <3>2, <3>3
  <2>7. ASSUME NEW i \in DOMAIN listed'
        PROVE  listed'[i] \in 1..Len(entries) /\ listed'[i] < e + 1 /\ Ls!Carried(listed'[i])
    <3>1. CASE i = last + 1
      BY <2>3, <3>1
    <3>2. CASE i \in 1..last
      BY <2>1, <2>2, <3>2
    <3> QED
      BY <2>1, <2>4, <3>1, <3>2
  <2>8. \A f \in 1..Len(entries) : f < e + 1 /\ Ls!Carried(f) => Ls!Listed(f)'
    <3>1. \A f \in 1..Len(entries) : f < e + 1 => f < e \/ f = e
      OBVIOUS
    <3> QED
      BY <2>5, <3>1
  <2> QED
    BY <1>2, <2>6, <2>7, <2>8 DEF InOrder, Ls!Carried
<1> QED
  BY <1>1, <1>2, ListPlace

\* Every step of do_getdents keeps the invariant.
LEMMA ListNext == Ls!Assumptions /\ Ls!IInv /\ [Ls!Next]_(Ls!vars) => Ls!IInv'
<1> SUFFICES ASSUME Ls!Assumptions, Ls!IInv, [Ls!Next]_(Ls!vars) PROVE Ls!IInv'
  OBVIOUS
<1>1. Ls!TypeOK /\ Ls!TypeOK' /\ InOrder
  BY ListTypes DEF Ls!IInv, InOrder
<1> DEFINE Rest == /\ iter_open = 0 => iter = 0 /\ getdents = Ls!NoCall /\ told # "end"
                   /\ getdents # Ls!NoCall => iter_open = 1 /\ iter # 0
                   /\ iter = 0 => pending = None
                   /\ told = "end" => iter_open = 1 /\ iter = 0
<1>2. Rest
  BY DEF Ls!IInv
<1>3. Len(entries) \in Nat
  BY <1>1 DEF Ls!TypeOK
<1>4. SUFFICES InOrder' /\ Rest'
  BY <1>1 DEF Ls!IInv, InOrder
<1>5. ASSUME NEW cap \in Buffers, Ls!Getdents(cap) PROVE InOrder' /\ Rest'
  <2>1. Rest'
    BY <1>1, <1>2, <1>5 DEF Ls!Getdents, Ls!Tell, Ls!TypeOK
  <2>2. Ls!Given' = Ls!Given
    BY <1>1, <1>2, <1>5 DEF Ls!Getdents, Ls!Given, Ls!TypeOK
  <2> QED
    BY <1>1, <1>5, <2>1, <2>2 DEF Ls!Getdents, InOrder, Ls!Carried, Ls!Listed
<1>6. CASE Ls!Held
  <2>1. pending \in 1..Len(entries) /\ iter \in 1..Len(entries)+1 /\ iter_open = 1
    BY <1>1, <1>2, <1>3, <1>6 DEF Ls!Held, Ls!TypeOK
  <2>2. Ls!Given = pending + 1 /\ Ls!Given' = Ls!Given
    BY <1>1, <1>6, <2>1 DEF Ls!Held, InOrder, Ls!Given
  <2>3. \A f \in 1..Len(entries) : f < pending /\ Ls!Carried(f) => Ls!Listed(f)
    BY <1>1, <2>1, <2>2 DEF InOrder
  <2>4. \A i \in DOMAIN listed : listed[i] < pending
    BY <1>1, <1>6, <2>1, <2>2, SMTT(30) DEF Ls!Held, InOrder, Ls!Listed
  <2>5. InOrder'
    BY <1>1, <1>6, <2>1, <2>2, <2>3, <2>4, ListInOrder DEF Ls!Held, InOrder
  <2>6. told' = "end" => told = "end"
    BY <1>1, <1>6, <2>1, ListPlace DEF Ls!Held
  <2> QED
    BY <1>2, <1>6, <2>1, <2>5, <2>6 DEF Ls!Held
<1>7. CASE Ls!Fetch
  <2>1. iter \in 1..Len(entries)+1 /\ iter_open = 1 /\ pending = None /\ Ls!Given = iter
    BY <1>1, <1>2, <1>3, <1>7 DEF Ls!Fetch, Ls!TypeOK, Ls!Given
  <2>2. CASE iter <= Len(entries) /\ iter' = iter + 1 /\ Ls!Place(iter) /\ Ls!Carried(iter)
    <3>1. Ls!Given' = iter + 1
      BY <1>7, <2>1, <2>2 DEF Ls!Fetch, Ls!Given
    <3>2. iter \in 1..Len(entries)
      BY <1>3, <2>1, <2>2
    <3>3. \A f \in 1..Len(entries) : f < iter /\ Ls!Carried(f) => Ls!Listed(f)
      <4>1. \A f \in 1..Len(entries) : f # pending
        BY <1>3, <2>1 DEF Ls!Assumptions
      <4> QED
        BY <1>1, <2>1, <4>1 DEF InOrder
    <3>4. /\ \A i, j \in DOMAIN listed : i < j => listed[i] < listed[j]
          /\ \A i \in DOMAIN listed : listed[i] \in 1..Len(entries) /\ listed[i] < iter /\ Ls!Carried(listed[i])
      BY <1>1, <2>1 DEF InOrder
    <3>5. InOrder'
      BY <1>1, <1>7, <2>2, <3>1, <3>2, <3>3, <3>4, ListInOrder DEF Ls!Fetch
    <3>6. told' = "end" => told = "end"
      BY <1>1, <2>2, <3>2, ListPlace
    <3> QED
      BY <1>2, <1>7, <2>1, <2>2, <3>5, <3>6 DEF Ls!Fetch
  <2>3. CASE iter <= Len(entries) /\ iter' = iter + 1 /\ ~Ls!Carried(iter)
             /\ UNCHANGED <<pending, getdents, listed, told>>
    <3>1. Ls!Given' = iter + 1
      BY <1>7, <2>1, <2>3, SMTT(30) DEF Ls!Fetch, Ls!Given
    <3>2. InOrder'
      BY <1>1, <1>7, <2>1, <2>3, <3>1, SMTT(30) DEF Ls!Fetch, InOrder, Ls!Carried, Ls!Listed, Ls!TypeOK
    <3> QED
      BY <1>2, <1>7, <2>1, <2>3, <3>2 DEF Ls!Fetch
  <2>4. CASE iter > Len(entries) /\ iter' = 0 /\ Ls!Return("end") /\ UNCHANGED <<pending, listed>>
    <3>1. Ls!Given' = Ls!Given
      BY <1>3, <1>7, <2>1, <2>4 DEF Ls!Fetch, Ls!Given
    <3>2. InOrder'
      BY <1>1, <1>7, <2>4, <3>1 DEF Ls!Fetch, InOrder, Ls!Carried, Ls!Listed
    <3> QED
      BY <1>7, <2>1, <2>4, <3>2 DEF Ls!Fetch, Ls!Return, Ls!Tell
  <2>5. CASE Ls!Return("error") /\ UNCHANGED <<iter, pending, listed>>
    <3>1. Ls!Given' = Ls!Given
      BY <1>7, <2>5 DEF Ls!Fetch, Ls!Given
    <3>2. InOrder'
      BY <1>1, <1>7, <2>5, <3>1 DEF Ls!Fetch, InOrder, Ls!Carried, Ls!Listed
    <3> QED
      BY <1>2, <1>7, <2>1, <2>5, <3>2 DEF Ls!Fetch, Ls!Return, Ls!Tell
  <2>6. iter <= Len(entries) => (entries[iter] > MaxEntry <=> ~Ls!Carried(iter))
    BY <1>1, <1>3, <2>1, SMTT(30) DEF Ls!TypeOK, Ls!Assumptions, Ls!Carried
  <2> QED
    BY <1>7, <2>2, <2>3, <2>4, <2>5, <2>6 DEF Ls!Fetch
<1>8. CASE UNCHANGED Ls!vars
  BY <1>1, <1>2, <1>8 DEF Ls!vars, InOrder, Ls!Carried, Ls!Listed, Ls!Given
<1> QED
  BY <1>5, <1>6, <1>7, <1>8 DEF Ls!Next

\* The invariant gives what a caller of getdents sees.
LEMMA ListInv == Ls!Assumptions /\ Ls!IInv => Ls!ListedOnce
<1> SUFFICES ASSUME Ls!Assumptions, Ls!IInv PROVE Ls!ListedOnce
  OBVIOUS
<1>1. Ls!TypeOK /\ Len(entries) \in Nat /\ DOMAIN entries = 1..Len(entries)
  BY DEF Ls!IInv, Ls!TypeOK
<1>2. \A i \in DOMAIN listed : \A e \in 1..listed[i] : Ls!Carried(e) => Ls!Listed(e)
  <2> SUFFICES ASSUME NEW i \in DOMAIN listed, NEW e \in 1..listed[i], Ls!Carried(e) PROVE Ls!Listed(e)
    OBVIOUS
  <2>1. e \in 1..Len(entries) /\ e < Ls!Given
    BY <1>1, SMTT(30) DEF Ls!IInv, Ls!Given, Ls!TypeOK
  <2>2. CASE e = pending
    <3>1. pending # None
      BY <2>1, <2>2 DEF Ls!Assumptions
    <3>2. e = Ls!Given - 1 /\ listed[i] < Ls!Given /\ listed[i] \in 1..Len(entries)
      BY <2>2, <3>1 DEF Ls!IInv
    <3>3. Ls!Given \in Nat
      BY <1>1 DEF Ls!Given, Ls!TypeOK
    <3>4. listed[i] = e
      BY <2>1, <3>2, <3>3, <1>1
    <3> QED
      BY <3>4 DEF Ls!Listed
  <2> QED
    BY <2>1, <2>2 DEF Ls!IInv
<1>3. told = "end" => \A e \in DOMAIN entries : Ls!Carried(e) => Ls!Listed(e)
  BY <1>1 DEF Ls!IInv, Ls!Given, Ls!Assumptions
<1> QED
  BY <1>1, <1>2, <1>3 DEF Ls!IInv, Ls!ListedOnce

\* Of every directory, whatever the buffers and wherever the environment fails:
\* every entry that can be carried once, in order, and the end when all were.
THEOREM EveryEntryOnce == Ls!Assumptions => (Ls!Spec => []Ls!ListedOnce)
<1> SUFFICES ASSUME Ls!Assumptions PROVE Ls!Spec => []Ls!ListedOnce
  OBVIOUS
<1>1. Ls!Init => Ls!IInv
  BY ListInit
<1>2. Ls!IInv /\ [Ls!Next]_(Ls!vars) => Ls!IInv'
  BY ListNext
<1>3. Ls!IInv => Ls!ListedOnce
  BY ListInv
<1> QED
  BY <1>1, <1>2, <1>3, PTL DEF Ls!Spec
=============================================================================
