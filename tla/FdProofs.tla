------------------------------- MODULE FdProofs ------------------------------
(***************************************************************************)
(* Proofs about the descriptor table, for any number of contexts,          *)
(* descriptors, descriptions and handles: the counts are exact, every open *)
(* handle has one keeper, a read without the lock sees an open one, and    *)
(* the table implements FdSpec, the table without counts, descriptions or  *)
(* a lock.                                                                 *)
(*                                                                         *)
(* The first three are shown together, by the invariant IInv.  The counts  *)
(* are what lets a description be retired (OneKeeper) and not beneath a    *)
(* reader (ReadSeesOpen); that a description nobody counts names nothing   *)
(* is what lets it be taken again; and that there is one, whenever there   *)
(* is a descriptor, is a pigeonhole argument over the counts.  For the     *)
(* last, every step of a call is mapped, under the invariant, to a step of *)
(* FdSpec or to no step at all: the store of a descriptor is no step,      *)
(* because the promise counts it as made when the description is counted.  *)
(***************************************************************************)
EXTENDS FdTable, FiniteSetTheorems, TLAPS

NamesOf(g, d) == {f \in Fds : g[f] = d}

Kinds == {"none", "open", "pipe", "null", "socket", "read", "close", "dup", "dup2", "exec"}

Types ==
    /\ holder \in Contexts \cup {None}
    /\ fd \in [Fds -> Descs \cup {Free}]
    /\ refs \in [Descs -> Nat]
    /\ held \in [Descs -> Handles \cup {None}]
    /\ slot \in [Descs -> Slots \cup {Free}]
    /\ slotUsed \subseteq Slots
    /\ opened \subseteq Owned
    /\ pc \in [Contexts -> {"idle", "lock", "body", "publish", "unlock",
                            "settle", "using", "gone"}]
    /\ own \in [Contexts -> SUBSET Late]
    /\ closing \in [Contexts -> SUBSET Late]
    /\ got \in [Contexts -> Descs \cup {Free}]

\* The call a context makes, and where it is in it.
Calling ==
    /\ op \in [Contexts -> [k : Kinds, fd : Fds \cup {Free}, to : Fds \cup {Free}]]
    /\ \A c \in Contexts :
           /\ op[c].k \in {"close", "dup", "dup2"} => op[c].fd \in Fds
           /\ op[c].k \in {"dup", "dup2"} => op[c].to \in Fds
           /\ pc[c] \in {"body", "publish", "unlock"} <=> holder = c
           /\ pc[c] \in {"idle", "using", "gone"} => own[c] = {}
           /\ pc[c] # "settle" => closing[c] = {}

\* The store about to be made: nobody's, or the lock holder's.
Publishing ==
    /\ pub = NoPub \/ \E c \in Contexts : pc[c] = "publish"
    /\ \A c \in Contexts :
           pc[c] = "publish" =>
               /\ pub.f \in Fds /\ pub.d \in Descs
               /\ op[c].k = "dup2" => pub.f = op[c].to
               /\ op[c].k # "dup2" => fd[pub.f] = Free
               /\ op[c].k = "open" => slot[pub.d] = Free

Counts ==
    \A d \in Descs :
        /\ refs[d] = Cardinality(NamesOf(Named, d))
        /\ refs[d] = 0 <=> held[d] = None
        /\ refs[d] = 0 => slot[d] = Free

Places ==
    /\ \A d \in Descs : slot[d] # Free => slot[d] \in slotUsed
    /\ \A s \in slotUsed : \E d \in Descs : slot[d] = s
    /\ \A d, e \in Descs : slot[d] = slot[e] /\ slot[d] # Free => d = e

\* What waits to be closed is the lock holder's.
Waiting == \A s \in settling : s.h \in Late /\ s.owner = holder /\ holder \in Contexts

Readers ==
    \A c \in Contexts :
        pc[c] = "using" =>
            /\ op[c].k = "read" /\ op[c].fd \in Fds /\ got[c] \in Descs
            /\ fd[op[c].fd] = got[c]
            /\ ~Going(op[c].fd)

\* OneKeeper, with what it rests on: what a context owes, it owes once.
Waits(c) == {s.h : s \in {x \in settling : x.owner = c}}

Keeping ==
    /\ \A d \in Descs : held[d] \in Owned => held[d] \in opened
    /\ \A c \in Contexts : Owes(c) \subseteq opened
    /\ \A h \in opened : (\E d \in Descs : held[d] = h) \/ (\E c \in Contexts : h \in Owes(c))
    /\ \A d, e \in Descs : held[d] = held[e] /\ held[d] \in Owned => d = e
    /\ \A b, c \in Contexts : \A h \in Owes(b) \cap Owes(c) : b = c
    /\ \A d \in Descs, c \in Contexts : held[d] \in Owned => held[d] \notin Owes(c)
    /\ \A c \in Contexts : own[c] \cap closing[c] = {} /\ own[c] \cap Waits(c) = {}

IInv == Types /\ Calling /\ Publishing /\ Counts /\ Places /\ Waiting /\ Keeping /\ Readers

-----------------------------------------------------------------------------
\* The first of a set of numbers is one of them; of none, there is none.
LEMMA FirstOfIn ==
    ASSUME NEW T \in SUBSET Nat
    PROVE  /\ T = {} => FirstOf(T) = Free
           /\ T # {} => FirstOf(T) \in T
           /\ FirstOf(T) # Free => FirstOf(T) \in T
<1>1. ASSUME T # {} PROVE \E x \in T : \A y \in T : x <= y
  <2>1. \E x \in T : \A y \in T : ~(<<y, x>> \in OpToRel(<, Nat))
    BY <1>1, NatLessThanWellFounded, WFMin, Zenon
  <2>2. PICK x \in T : \A y \in T : ~(<<y, x>> \in OpToRel(<, Nat)) BY <2>1, Zenon
  <2>3. ASSUME NEW y \in T PROVE x <= y
    <3>1. ~(y < x) BY <2>2, Zenon DEF OpToRel
    <3> QED BY <3>1
  <2> QED BY <2>3, Zenon
<1> QED BY <1>1, Zenon DEF FirstOf

\* There are as many descriptors as MaxFd.
LEMMA FdsFinite == IsFiniteSet(Fds) /\ Cardinality(Fds) = MaxFd
<1>1. 0 \in Int /\ MaxFd - 1 \in Int /\ MaxFd \in Nat \ {0} BY SizesAssumption
<1>2. IsFiniteSet(0..(MaxFd - 1)) /\ Cardinality(0..(MaxFd - 1)) = IF 0 > MaxFd - 1 THEN 0 ELSE (MaxFd - 1) - 0 + 1
  BY <1>1, FS_Interval, Zenon
<1> QED BY <1>1, <1>2 DEF Fds

\* And as many descriptions as MaxDesc.
LEMMA DescsFinite == IsFiniteSet(Descs) /\ Cardinality(Descs) = MaxDesc
<1>1. 0 \in Int /\ MaxDesc - 1 \in Int /\ MaxDesc \in Nat \ {0} BY SizesAssumption
<1>2. IsFiniteSet(0..(MaxDesc - 1)) /\ Cardinality(0..(MaxDesc - 1)) = IF 0 > MaxDesc - 1 THEN 0 ELSE (MaxDesc - 1) - 0 + 1
  BY <1>1, FS_Interval, Zenon
<1> QED BY <1>1, <1>2 DEF Descs

\* A set of names is finite, its number a natural, zero exactly when none names.
LEMMA NamesFinite ==
    ASSUME NEW g, NEW d
    PROVE  /\ IsFiniteSet(NamesOf(g, d))
           /\ Cardinality(NamesOf(g, d)) \in Nat
           /\ Cardinality(NamesOf(g, d)) = 0 <=> NamesOf(g, d) = {}
<1>1. NamesOf(g, d) \in SUBSET Fds BY Zenon DEF NamesOf
<1>2. IsFiniteSet(NamesOf(g, d)) BY <1>1, FdsFinite, FS_Subset, Zenon
<1> QED BY <1>2, FS_CardinalityType, FS_EmptySet, Zenon

\* A store to one descriptor changes the names of what it named and of what it
\* names, by one.
LEMMA StoreCounts ==
    ASSUME NEW g, NEW h, NEW f \in Fds, NEW e, NEW d,
           \A x \in Fds : h[x] = IF x = f THEN e ELSE g[x]
    PROVE  /\ (e = d <=> g[f] = d) => Cardinality(NamesOf(h, d)) = Cardinality(NamesOf(g, d))
           /\ e = d /\ g[f] # d => Cardinality(NamesOf(h, d)) = Cardinality(NamesOf(g, d)) + 1
           /\ e # d /\ g[f] = d => Cardinality(NamesOf(h, d)) = Cardinality(NamesOf(g, d)) - 1
<1>0. IsFiniteSet(NamesOf(g, d)) BY NamesFinite, Zenon
<1>1. CASE e = d
  <2>1. NamesOf(h, d) = NamesOf(g, d) \cup {f} BY <1>1, Zenon DEF NamesOf
  <2>2. f \in NamesOf(g, d) <=> g[f] = d BY Zenon DEF NamesOf
  <2> QED BY <1>0, <1>1, <2>1, <2>2, FS_AddElement, Zenon
<1>2. CASE e # d
  <2>1. NamesOf(h, d) = NamesOf(g, d) \ {f} BY <1>2, Zenon DEF NamesOf
  <2>2. f \in NamesOf(g, d) <=> g[f] = d BY Zenon DEF NamesOf
  <2> QED BY <1>0, <1>2, <2>1, <2>2, FS_RemoveElement, Zenon
<1> QED BY <1>1, <1>2, Zenon

\* Two descriptors that name one description are two of its names.
LEMMA TwoNames ==
    ASSUME NEW g, NEW d, NEW a \in Fds, NEW b \in Fds, a # b, g[a] = d, g[b] = d
    PROVE  Cardinality(NamesOf(g, d)) >= 2
<1>1. {a, b} \in SUBSET NamesOf(g, d) BY Zenon DEF NamesOf
<1>2. Cardinality({a, b}) = 2
  <2>1. IsFiniteSet({a}) /\ Cardinality({a}) = 1 BY FS_Singleton, Zenon
  <2>2. Cardinality({a} \cup {b}) = IF b \in {a} THEN Cardinality({a}) ELSE Cardinality({a}) + 1
    BY <2>1, FS_AddElement, Zenon
  <2>3. {a} \cup {b} = {a, b} OBVIOUS
  <2> QED BY <2>1, <2>2, <2>3
<1>3. Cardinality({a, b}) <= Cardinality(NamesOf(g, d)) BY <1>1, NamesFinite, FS_Subset, Zenon
<1> QED BY <1>2, <1>3, NamesFinite, Zenon

\* While some descriptor names nothing, some description has no name: there are
\* no fewer descriptions than descriptors.
LEMMA RoomForOne ==
    ASSUME NEW g \in [Fds -> Descs \cup {Free}], NEW f \in Fds, g[f] = Free
    PROVE  \E d \in Descs : Cardinality(NamesOf(g, d)) = 0
<1> SUFFICES ASSUME \A d \in Descs : NamesOf(g, d) # {} PROVE FALSE BY NamesFinite, Zenon
<1> DEFINE w == [d \in Descs |-> CHOOSE x \in Fds : g[x] = d]
<1>1. ASSUME NEW d \in Descs PROVE w[d] \in Fds /\ g[w[d]] = d
  <2>1. \E x \in Fds : g[x] = d BY Zenon DEF NamesOf
  <2> QED BY <2>1, Zenon
<1>2. ASSUME NEW d \in Descs PROVE w[d] \in Fds \ {f}
  <2>1. d # Free BY DEF Descs, Free
  <2> QED BY <1>1, <2>1, Zenon
<1>3. w \in [Descs -> Fds \ {f}] BY <1>2, Zenon
<1>4. IsFiniteSet(Fds \ {f}) /\ Cardinality(Fds \ {f}) = MaxFd - 1
  BY FdsFinite, FS_RemoveElement, Zenon
<1>5. Cardinality(Fds \ {f}) < Cardinality(Descs) BY <1>4, DescsFinite, SizesAssumption
<1>6. \E x, y \in Descs : x # y /\ w[x] = w[y]
  <2> HIDE DEF w
  <2> QED BY <1>3, <1>4, <1>5, DescsFinite, FS_PigeonHole
<1> QED BY <1>1, <1>6, Zenon

\* What a context owes, by where it is written down.
LEMMA OwesIs ==
    ASSUME NEW c
    PROVE  Owes(c) = own[c] \cup closing[c] \cup Waits(c)
BY Zenon DEF Owes, Waits

\* The table begins as the invariant says.
LEMMA InitIInv == Init => IInv
<1> SUFFICES ASSUME Init PROVE IInv OBVIOUS
<1>0. /\ Free = -1 /\ MaxFd \in Nat \ {0} /\ MaxDesc \in Nat /\ MaxDesc >= MaxFd
      /\ StdStreams \in 0..MaxFd
  BY SizesAssumption, Zenon DEF Free
<1>1. Types BY <1>0 DEF Init, Types, Fds, Descs, Slots, Handles
<1>2. Calling BY HandlesAssumption, Zenon DEF Init, Calling, NoOp, Kinds
<1>3. Publishing BY Zenon DEF Init, Publishing
<1>4. Counts
  <2> SUFFICES ASSUME NEW d \in Descs
               PROVE  /\ refs[d] = Cardinality(NamesOf(Named, d))
                      /\ refs[d] = 0 <=> held[d] = None
                      /\ refs[d] = 0 => slot[d] = Free
    BY Zenon DEF Counts
  <2>1. Named = fd BY Zenon DEF Init, Named, NoPub
  <2>2. refs[d] = IF d < StdStreams THEN 1 ELSE 0 BY Zenon DEF Init
  <2>3. CASE d < StdStreams
    <3>1. NamesOf(fd, d) = {d} BY <1>0, <2>3 DEF Init, NamesOf, Fds, Descs
    <3>2. Cardinality({d}) = 1 BY FS_Singleton, Zenon
    <3>3. held[d] # None BY <2>3, HandlesAssumption, Zenon DEF Init, Handles
    <3> QED BY <2>1, <2>2, <2>3, <3>1, <3>2, <3>3
  <2>4. CASE ~(d < StdStreams)
    <3>1. NamesOf(fd, d) = {} BY <1>0, <2>4 DEF Init, NamesOf, Fds, Descs
    <3> QED BY <2>1, <2>2, <2>4, <3>1, FS_EmptySet, Zenon DEF Init
  <2> QED BY <2>3, <2>4, Zenon
<1>5. Places BY Zenon DEF Init, Places
<1>6. Waiting BY Zenon DEF Init, Waiting
<1>7. Keeping
  <2>1. \A c \in Contexts : Waits(c) = {} /\ Owes(c) = {} BY Zenon DEF Init, Waits, Owes
  <2>2. \A d \in Descs : held[d] \notin Owned BY HandlesAssumption, Zenon DEF Init, Handles
  <2> QED BY <2>1, <2>2, Zenon DEF Init, Keeping
<1>8. Readers BY Zenon DEF Init, Readers
<1> QED BY <1>1, <1>2, <1>3, <1>4, <1>5, <1>6, <1>7, <1>8, Zenon DEF IInv

-----------------------------------------------------------------------------
\* What the holder of the lock finds in its body: no store pending.
LEMMA InBody ==
    ASSUME IInv, NEW c \in Contexts, pc[c] = "body"
    PROVE  /\ holder = c /\ pub = NoPub /\ Named = fd
           /\ \A x \in Contexts : pc[x] # "publish"
<1>1. holder = c BY Zenon DEF IInv, Calling
<1>2. \A x \in Contexts : pc[x] # "publish" BY <1>1, Zenon DEF IInv, Calling
<1>3. pub = NoPub BY <1>2, Zenon DEF IInv, Publishing
<1> QED BY <1>1, <1>2, <1>3, Zenon DEF Named, NoPub

\* The store pending, as a function; every description's count in terms of it.
LEMMA NamedType ==
    ASSUME IInv
    PROVE  Named \in [Fds -> Descs \cup {Free}]
<1>1. CASE pub = NoPub BY <1>1, Zenon DEF Named, NoPub, IInv, Types
<1>2. CASE pub # NoPub
  <2>1. pub.f \in Fds /\ pub.d \in Descs BY <1>2, Zenon DEF IInv, Publishing
  <2> QED BY <2>1, Zenon DEF Named, IInv, Types
<1> QED BY <1>1, <1>2, Zenon

\* What okm_fd_alloc and desc_alloc find: a descriptor that names nothing, and
\* then a description nobody counts.
LEMMA Allocated ==
    ASSUME IInv, NEW c \in Contexts, pc[c] = "body", NEW from \in Nat, FdAlloc(from) # Free
    PROVE  /\ FdAlloc(from) \in Fds /\ fd[FdAlloc(from)] = Free
           /\ DescAlloc \in Descs /\ refs[DescAlloc] = 0
<1>1. FdAlloc(from) \in {f \in Fds : f >= from /\ fd[f] = Free}
  BY FirstOfIn DEF FdAlloc, Fds
<1>2. Named = fd BY InBody, Zenon
<1>3. fd \in [Fds -> Descs \cup {Free}] BY Zenon DEF IInv, Types
<1>4. \E d \in Descs : Cardinality(NamesOf(fd, d)) = 0 BY <1>1, <1>3, RoomForOne, Zenon
<1>5. {d \in Descs : refs[d] = 0} # {} BY <1>2, <1>4, Zenon DEF IInv, Counts
<1>6. DescAlloc \in {d \in Descs : refs[d] = 0} BY <1>5, FirstOfIn DEF DescAlloc, Descs
<1> QED BY <1>1, <1>6, Zenon

-----------------------------------------------------------------------------
\* desc_release, where the count goes to zero and where it does not: the types.
LEMMA ReleaseTypes ==
    ASSUME IInv, NEW c \in Contexts, NEW d \in Descs, DescRelease(c, d)
    PROVE  /\ held' = IF refs[d] = 1 THEN [held EXCEPT ![d] = None] ELSE held
           /\ slot' = IF refs[d] = 1 THEN [slot EXCEPT ![d] = Free] ELSE slot
           /\ slotUsed' = IF refs[d] = 1 THEN slotUsed \ {slot[d]} ELSE slotUsed
           /\ held' \in [Descs -> Handles \cup {None}]
           /\ slot' \in [Descs -> Slots \cup {Free}]
           /\ slotUsed' \subseteq Slots
           /\ opened' \subseteq Owned
<1>1. Types BY Zenon DEF IInv
<1>2. CASE refs[d] = 1 BY <1>1, <1>2, Zenon DEF DescRelease, Retire, Types
<1>3. CASE refs[d] # 1 BY <1>1, <1>3, Zenon DEF DescRelease, Types
<1> QED BY <1>2, <1>3, Zenon

\* What each description names, and its place, after it.
LEMMA ReleaseHolds ==
    ASSUME IInv, NEW c \in Contexts, NEW d \in Descs, DescRelease(c, d)
    PROVE  \A x \in Descs : /\ held'[x] = IF x = d /\ refs[d] = 1 THEN None ELSE held[x]
                            /\ slot'[x] = IF x = d /\ refs[d] = 1 THEN Free ELSE slot[x]
<1>1. Types BY Zenon DEF IInv
<1>2. /\ held' = IF refs[d] = 1 THEN [held EXCEPT ![d] = None] ELSE held
      /\ slot' = IF refs[d] = 1 THEN [slot EXCEPT ![d] = Free] ELSE slot
  BY ReleaseTypes, Zenon
<1> QED BY <1>1, <1>2, Zenon DEF Types

\* It gives up the name's place with the description.
LEMMA ReleasePlaces ==
    ASSUME IInv, NEW c \in Contexts, NEW d \in Descs, DescRelease(c, d)
    PROVE  Places'
<1>1. Types /\ Places BY Zenon DEF IInv
<1>2. CASE refs[d] # 1
  <2>1. slot' = slot /\ slotUsed' = slotUsed BY <1>2, ReleaseTypes, Zenon
  <2> QED BY <1>1, <2>1, Zenon DEF Places
<1>3. CASE refs[d] = 1
  <2>1. slot' = [slot EXCEPT ![d] = Free] /\ slotUsed' = slotUsed \ {slot[d]}
    BY <1>3, ReleaseTypes, Zenon
  <2>2. \A e \in Descs : slot'[e] = IF e = d THEN Free ELSE slot[e]
    BY <1>1, <2>1, Zenon DEF Types
  <2>3. \A e \in Descs : slot'[e] # Free => slot'[e] \in slotUsed'
    BY <1>1, <2>1, <2>2 DEF Places
  <2>4. \A s \in slotUsed' : \E e \in Descs : slot'[e] = s
    BY <1>1, <2>1, <2>2, Zenon DEF Places
  <2>5. \A e, b \in Descs : slot'[e] = slot'[b] /\ slot'[e] # Free => e = b
    BY <1>1, <2>2, Zenon DEF Places
  <2> QED BY <2>3, <2>4, <2>5, Zenon DEF Places
<1> QED BY <1>2, <1>3, Zenon

\* What waits to be closed after it: what waited before, and what the
\* description named if it was put aside.
LEMMA ReleaseWaits ==
    ASSUME IInv, NEW c \in Contexts, NEW d \in Descs, DescRelease(c, d), holder = c, holder' = holder
    PROVE  /\ Waiting'
           /\ \A x \in Contexts \ {c} : Waits(x)' = Waits(x)
           /\ refs[d] # 1 => Waits(c)' = Waits(c) /\ opened' = opened
           /\ refs[d] = 1 =>
                  \/ held[d] \in Late /\ Waits(c)' = Waits(c) \cup {held[d]} /\ opened' = opened
                  \/ held[d] \in Owned /\ Waits(c)' = Waits(c) /\ opened' = opened \ {held[d]}
                  \/ held[d] \notin Owned /\ Waits(c)' = Waits(c) /\ opened' = opened
<1>1. Waiting BY Zenon DEF IInv
<1>2. CASE refs[d] # 1 BY <1>1, <1>2, Zenon DEF DescRelease, Waiting, Waits
<1>3. CASE refs[d] = 1
  <2>0. Retire(c, d) BY <1>3, Zenon DEF DescRelease
  <2>1. CASE held[d] \in Late /\ Cardinality(settling) < SettlingMax
    <3>1. settling' = settling \cup {[owner |-> c, h |-> held[d]]} /\ opened' = opened
      BY <2>0, <2>1, Zenon DEF Retire, Owned
    <3>2. Waiting' BY <1>1, <2>1, <3>1 DEF Waiting
    <3>3. \A x \in Contexts \ {c} : Waits(x)' = Waits(x) BY <3>1 DEF Waits
    <3>4. Waits(c)' = Waits(c) \cup {held[d]}
      <4> DEFINE new == [owner |-> c, h |-> held[d]]
      <4>1. new.owner = c /\ new.h = held[d] OBVIOUS
      <4> HIDE DEF new
      <4>2. settling' = settling \cup {new} BY <3>1, Zenon DEF new
      <4>3. {x \in settling' : x.owner = c} = {x \in settling : x.owner = c} \cup {new}
        BY <4>1, <4>2, Zenon
      <4> QED BY <4>1, <4>3, Zenon DEF Waits
    <3> QED BY <1>3, <2>1, <3>1, <3>2, <3>3, <3>4, Zenon
  <2>2. CASE ~(held[d] \in Late /\ Cardinality(settling) < SettlingMax)
    <3>1. settling' = settling /\ opened' = IF held[d] \in Owned THEN opened \ {held[d]} ELSE opened
      BY <2>0, <2>2, Zenon DEF Retire
    <3>2. Waiting' BY <1>1, <3>1, Zenon DEF Waiting
    <3>3. \A x \in Contexts : Waits(x)' = Waits(x) BY <3>1, Zenon DEF Waits
    <3> QED BY <1>3, <3>1, <3>2, <3>3, Zenon
  <2> QED BY <2>1, <2>2, Zenon
<1> QED BY <1>2, <1>3, Zenon

\* So every open handle keeps its one keeper through it.
LEMMA ReleaseKeeps ==
    ASSUME IInv, NEW c \in Contexts, NEW d \in Descs, DescRelease(c, d), holder = c, holder' = holder,
           own' = own, closing' = closing, held[d] # None
    PROVE  Keeping'
<1>0. Types /\ Keeping BY Zenon DEF IInv
<1>1. CASE refs[d] # 1
  <2>1. held' = held BY <1>1, ReleaseTypes, Zenon
  <2>2. \A x \in Contexts : Waits(x)' = Waits(x) BY <1>1, ReleaseWaits, Zenon
  <2>3. opened' = opened BY <1>1, ReleaseWaits, Zenon
  <2>4. \A x \in Contexts : Owes(x)' = Owes(x) BY <2>2, OwesIs, Zenon DEF Owes, Waits
  <2> QED BY <1>0, <2>1, <2>2, <2>3, <2>4 DEF Keeping
<1>2. CASE refs[d] = 1
  <2>1. \A e \in Descs : held'[e] = IF e = d THEN None ELSE held[e]
    BY <1>0, <1>2, ReleaseTypes DEF Types
  <2>2. None \notin Owned BY HandlesAssumption, Zenon DEF Handles
  <2>3. \A x \in Contexts \ {c} : Waits(x)' = Waits(x) /\ Owes(x)' = Owes(x)
    BY ReleaseWaits, Zenon DEF Owes, Waits
  <2>4. CASE held[d] \in Late /\ Waits(c)' = Waits(c) \cup {held[d]} /\ opened' = opened
    <3>1. Owes(c)' = Owes(c) \cup {held[d]} BY <2>4, Zenon DEF Owes, Waits
    <3>2. held[d] \in Owned BY <2>4, Zenon DEF Owned
    <3>3. held[d] \notin own[c] BY <1>0, <3>2, OwesIs, Zenon DEF Keeping
    <3>4. \A x \in Contexts : \A h : h \in Owes(x)' <=> h \in Owes(x) \/ (x = c /\ h = held[d])
      BY <2>3, <3>1, Zenon
    <3>5. \A x \in Contexts : held[d] \notin Owes(x) BY <1>0, <3>2, Zenon DEF Keeping
    <3>6. \A e \in Descs : held'[e] \in Owned => held'[e] \in opened' /\ held'[e] = held[e] /\ e # d
      BY <1>0, <2>1, <2>2, <2>4, Zenon DEF Keeping
    <3>7. \A x \in Contexts : Owes(x)' \subseteq opened' BY <1>0, <2>4, <3>2, <3>4 DEF Keeping
    <3>8. \A h \in opened' : (\E e \in Descs : held'[e] = h) \/ (\E x \in Contexts : h \in Owes(x)')
      <4> SUFFICES ASSUME NEW h \in opened, \A x \in Contexts : h \notin Owes(x)'
                   PROVE  \E e \in Descs : held'[e] = h
        BY <2>4, Zenon
      <4>1. PICK e \in Descs : held[e] = h BY <1>0, <3>4, Zenon DEF Keeping
      <4>2. e # d BY <3>4, <4>1, Zenon
      <4> QED BY <2>1, <4>1, <4>2, Zenon
    <3>9. \A e, b \in Descs : held'[e] = held'[b] /\ held'[e] \in Owned => e = b
      BY <1>0, <3>6, Zenon DEF Keeping
    <3>10. \A b, x \in Contexts : \A h \in Owes(b)' \cap Owes(x)' : b = x
      BY <1>0, <3>4, <3>5 DEF Keeping
    <3>11. \A e \in Descs, x \in Contexts : held'[e] \in Owned => held'[e] \notin Owes(x)'
      BY <1>0, <3>4, <3>6, <3>2, Zenon DEF Keeping
    <3>12. \A x \in Contexts : own'[x] \cap closing'[x] = {} /\ own'[x] \cap Waits(x)' = {}
      BY <1>0, <2>3, <2>4, <3>3 DEF Keeping
    <3> QED BY <3>6, <3>7, <3>8, <3>9, <3>10, <3>11, <3>12, Zenon DEF Keeping
  <2>5. CASE held[d] \in Owned /\ Waits(c)' = Waits(c) /\ opened' = opened \ {held[d]}
    <3>1. Owes(c)' = Owes(c) BY <2>5, Zenon DEF Owes, Waits
    <3> QED BY <1>0, <2>1, <2>2, <2>3, <2>5, <3>1 DEF Keeping
  <2>6. CASE held[d] \notin Owned /\ Waits(c)' = Waits(c) /\ opened' = opened
    <3>1. Owes(c)' = Owes(c) BY <2>6, Zenon DEF Owes, Waits
    <3>2. \A x \in Contexts : Owes(x)' = Owes(x) /\ Waits(x)' = Waits(x)
      BY <2>3, <2>6, <3>1, Zenon
    <3>3. \A h \in opened : h # held[d] BY <1>0, <2>6, Zenon DEF Types
    <3> QED BY <1>0, <2>1, <2>2, <2>6, <3>2, <3>3 DEF Keeping
  <2> QED BY <1>2, <2>4, <2>5, <2>6, ReleaseWaits, Zenon
<1> QED BY <1>1, <1>2, Zenon

-----------------------------------------------------------------------------
\* What a descriptor names is counted, and names something.
LEMMA NamedIsCounted ==
    ASSUME IInv, NEW f \in Fds, Named[f] # Free
    PROVE  /\ Named[f] \in Descs /\ refs[Named[f]] \in Nat \ {0}
           /\ held[Named[f]] \in Handles
<1>1. Named[f] \in Descs BY NamedType, Zenon
<1>2. f \in NamesOf(Named, Named[f]) BY Zenon DEF NamesOf
<1>3. refs[Named[f]] \in Nat /\ refs[Named[f]] # 0
  BY <1>1, <1>2, NamesFinite, Zenon DEF IInv, Counts, Types
<1>4. held[Named[f]] # None BY <1>1, <1>3, Zenon DEF IInv, Counts
<1> QED BY <1>1, <1>3, <1>4, Zenon DEF IInv, Types

\* The body of close, of a turn of exec, and of a descriptor that is replaced:
\* the description of f loses one name.
LEMMA InBodyCounted ==
    ASSUME IInv, NEW c \in Contexts, pc[c] = "body", NEW f \in Fds, fd[f] # Free
    PROVE  /\ fd[f] \in Descs /\ refs[fd[f]] \in Nat \ {0}
           /\ held[fd[f]] \in Handles /\ held[fd[f]] # None
BY InBody, NamedIsCounted, HandlesAssumption, Zenon

\* One description loses a name, and another gains one.
LEMMA MovedCount ==
    ASSUME NEW r \in [Descs -> Nat], NEW a \in Descs, NEW b \in Descs, r[a] # 0,
           NEW q, q = LET m == [r EXCEPT ![a] = @ - 1] IN [m EXCEPT ![b] = @ + 1]
    PROVE  /\ q \in [Descs -> Nat]
           /\ \A e \in Descs : q[e] = IF e = a THEN (IF a = b THEN r[e] ELSE r[e] - 1)
                                      ELSE IF e = b THEN r[e] + 1 ELSE r[e]
<1> DEFINE m == [r EXCEPT ![a] = r[a] - 1]
<1>1. r[a] - 1 \in Nat OBVIOUS
<1>2. m \in [Descs -> Nat] /\ \A e \in Descs : m[e] = IF e = a THEN r[a] - 1 ELSE r[e]
  BY <1>1, Zenon
<1>3. q = [m EXCEPT ![b] = m[b] + 1] OBVIOUS
<1> HIDE DEF m
<1>4. m[b] + 1 \in Nat BY <1>2
<1>5. q \in [Descs -> Nat] /\ \A e \in Descs : q[e] = IF e = b THEN m[b] + 1 ELSE m[e]
  BY <1>2, <1>3, <1>4, Zenon
<1> QED BY <1>2, <1>5

\* What the bodies of close and exec do to the table, if anything: one
\* descriptor, which the call was to take away, loses its description.
Loses(c, f) ==
    /\ fd[f] # Free
    /\ fd' = [fd EXCEPT ![f] = Free]
    /\ refs' = [refs EXCEPT ![fd[f]] = @ - 1]
    /\ DescRelease(c, fd[f])
    /\ pub' = pub

\* close and a turn of exec take a name away, or nothing.
LEMMA LosesOne ==
    ASSUME IInv, NEW c \in Contexts, CloseBody(c) \/ ExecBody(c)
    PROVE  /\ pc[c] = "body" /\ UNCHANGED <<holder, op, own, closing, got>>
           /\ pc' = pc \/ pc' = [pc EXCEPT ![c] = "unlock"]
           /\ \/ UNCHANGED <<fd, refs, held, slot, slotUsed, settling, pub, opened>>
              \/ \E f \in Fds : Loses(c, f) /\ Going(f)
<1>1. CASE CloseBody(c)
  <2>1. pc[c] = "body" /\ UNCHANGED <<holder, op, own, closing, got>>
    BY <1>1, Zenon DEF CloseBody, locals
  <2>2. pc' = [pc EXCEPT ![c] = "unlock"] BY <1>1, Zenon DEF CloseBody, Goto
  <2>3. op[c].k = "close" /\ op[c].fd \in Fds BY <1>1, Zenon DEF CloseBody, IInv, Calling
  <2>4. Going(op[c].fd) BY <2>3, Zenon DEF Going
  <2>5. UNCHANGED <<fd, refs, held, slot, slotUsed, settling, pub, opened>> \/ Loses(c, op[c].fd)
    BY <1>1, Zenon DEF CloseBody, Loses, table
  <2> QED BY <2>1, <2>2, <2>3, <2>4, <2>5, Zenon
<1>2. CASE ExecBody(c)
  <2> DEFINE bound == {f \in Fds : fd[f] # Free}
             f == FirstOf(bound)
  <2>1. pc[c] = "body" /\ op[c].k = "exec" /\ UNCHANGED <<holder, op, own, closing, got>>
    BY <1>2, Zenon DEF ExecBody, locals
  <2>2. CASE bound = {} BY <1>2, <2>1, <2>2, Zenon DEF ExecBody, Goto, table
  <2>3. CASE bound # {}
    <3>1. f \in bound BY <2>3, FirstOfIn DEF Fds
    <3>2. Loses(c, f) /\ pc' = pc BY <1>2, <2>3, <3>1, Zenon DEF ExecBody, Loses
    <3>3. Going(f) BY <2>1, Zenon DEF Going
    <3> QED BY <2>1, <3>1, <3>2, <3>3, Zenon
  <2> QED BY <2>2, <2>3, Zenon
<1> QED BY <1>1, <1>2, Zenon

\* What okm_fd_dup does to the table: descriptor t is to name description s,
\* and the description it named has lost it.
Gains(c, t, s) ==
    /\ t # op[c].fd /\ s = fd[op[c].fd] /\ s # Free
    /\ op[c].k = "dup2" => t = op[c].to
    /\ op[c].k = "dup" => fd[t] = Free
    /\ fd' = fd
    /\ pub' = [f |-> t, d |-> s]
    /\ \/ /\ fd[t] # Free
          /\ DescRelease(c, fd[t])
          /\ refs' = LET m == [refs EXCEPT ![fd[t]] = @ - 1] IN [m EXCEPT ![s] = @ + 1]
       \/ /\ fd[t] = Free
          /\ UNCHANGED <<held, settling, opened, slot, slotUsed>>
          /\ refs' = [refs EXCEPT ![s] = @ + 1]

\* dup and dup2 give a description a name, or do nothing.
LEMMA GainsOne ==
    ASSUME IInv, NEW c \in Contexts, DupBody(c)
    PROVE  /\ pc[c] = "body" /\ op[c].k \in {"dup", "dup2"} /\ op[c].fd \in Fds
           /\ UNCHANGED <<holder, op, own, closing, got>>
           /\ \/ /\ UNCHANGED <<fd, refs, held, slot, slotUsed, settling, pub, opened>>
                 /\ pc' = [pc EXCEPT ![c] = "unlock"]
              \/ /\ pc' = [pc EXCEPT ![c] = "publish"]
                 /\ \E t \in Fds, s \in Descs : Gains(c, t, s)
<1> DEFINE s == fd[op[c].fd]
           t == IF op[c].k = "dup" THEN FdAlloc(op[c].to) ELSE op[c].to
<1>0. pc[c] = "body" /\ op[c].k \in {"dup", "dup2"} /\ op[c].fd \in Fds /\ op[c].to \in Fds
  BY Zenon DEF DupBody, IInv, Calling
<1>1. UNCHANGED <<holder, op, own, closing, got>> BY Zenon DEF DupBody, locals
<1>2. CASE s = Free \/ t = Free \/ t = op[c].fd
  BY <1>0, <1>1, <1>2, Zenon DEF DupBody, Goto, table
<1>3. CASE s # Free /\ t # Free /\ t # op[c].fd
  <2>1. s \in Descs BY <1>0, <1>3, InBodyCounted, Zenon
  <2>2. t \in Fds /\ (op[c].k = "dup" => fd[t] = Free) BY <1>0, <1>3, Allocated DEF Fds
  <2>3. op[c].k = "dup2" => t = op[c].to OBVIOUS
  <2>4. pc' = [pc EXCEPT ![c] = "publish"] /\ fd' = fd /\ pub' = [f |-> t, d |-> s]
    BY <1>3, Zenon DEF DupBody, Goto
  <2>5. Gains(c, t, s) BY <1>3, <2>2, <2>3, <2>4, Zenon DEF DupBody, Gains
  <2> QED BY <1>0, <1>1, <2>1, <2>2, <2>4, <2>5, Zenon
<1> QED BY <1>2, <1>3, Zenon

\* Every variable keeps its type.
LEMMA NextTypes == IInv /\ [Next]_vars => Types'
<1> SUFFICES ASSUME IInv, [Next]_vars PROVE Types' OBVIOUS
<1> USE DEF Types, Goto
<1>t. Types BY Zenon DEF IInv
<1>1. CASE UNCHANGED vars BY <1>t, <1>1, Zenon DEF vars, table, locals
<1>2. ASSUME NEW c \in Contexts, NEW h \in Files \cup Dirs, Open(c, h) PROVE Types'
  BY <1>t, <1>2, Zenon DEF Open, Begin, table, Late, Owned
<1>3. ASSUME NEW c \in Contexts, NEW h1 \in Channels, NEW h2 \in Channels, Pipe(c, h1, h2) PROVE Types'
  BY <1>t, <1>3, Zenon DEF Pipe, Begin, table, Late, Owned
<1>4. ASSUME NEW c \in Contexts, NEW o \in Calls, Call(c, o) PROVE Types'
  BY <1>t, <1>4, Zenon DEF Call, Begin, table
<1>5. ASSUME NEW c \in Contexts, NEW f \in Fds, Read(c, f) PROVE Types'
  BY <1>t, <1>5, Zenon DEF Read, table
<1>6. ASSUME NEW c \in Contexts, Lock(c) PROVE Types'
  BY <1>t, <1>6, Zenon DEF Lock, table, locals
<1>7. ASSUME NEW c \in Contexts, BindNew(c) PROVE Types'
  <2>0. pc[c] = "body" /\ 0 \in Nat BY <1>7, Zenon DEF BindNew
  <2>1. CASE FdAlloc(0) # Free
    <3>1. DescAlloc \in Descs BY <2>0, <2>1, Allocated, Zenon
    <3>2. own[c] \subseteq Late /\ Late \subseteq Handles /\ Sockets \subseteq Handles /\ NullDev \in Handles
      BY <1>t, Zenon DEF Handles, Owned
    <3> QED BY <1>t, <1>7, <2>1, <3>1, <3>2 DEF BindNew, Owned
  <2>2. CASE FdAlloc(0) = Free BY <1>t, <1>7, <2>2, Zenon DEF BindNew
  <2> QED BY <2>1, <2>2, Zenon
<1>8. ASSUME NEW c \in Contexts, Publish(c) PROVE Types'
  <2>1. pub.f \in Fds /\ pub.d \in Descs BY <1>8, Zenon DEF Publish, IInv, Publishing
  <2>2. PathSlotAlloc # Free => PathSlotAlloc \in Slots
    BY <1>t, FirstOfIn DEF PathSlotAlloc, Slots
  <2> QED BY <1>t, <1>8, <2>1, <2>2 DEF Publish, locals
<1>9. ASSUME NEW c \in Contexts, CloseBody(c) \/ ExecBody(c) PROVE Types'
  <2>0. UNCHANGED <<holder, own, closing, got>> /\ pc[c] = "body"
        /\ (pc' = pc \/ pc' = [pc EXCEPT ![c] = "unlock"])
    BY <1>9, LosesOne, Zenon
  <2>1. CASE UNCHANGED <<fd, refs, held, slot, slotUsed, settling, pub, opened>>
    BY <1>t, <2>0, <2>1, Zenon
  <2>2. ASSUME NEW f \in Fds, Loses(c, f) PROVE Types'
    <3>1. fd[f] \in Descs /\ refs[fd[f]] \in Nat \ {0}
      BY <2>0, <2>2, InBodyCounted, Zenon DEF Loses
    <3>2. held' \in [Descs -> Handles \cup {None}] /\ slot' \in [Descs -> Slots \cup {Free}]
          /\ slotUsed' \subseteq Slots /\ opened' \subseteq Owned
      BY <2>2, <3>1, ReleaseTypes, Zenon DEF Loses
    <3>3. refs[fd[f]] - 1 \in Nat BY <3>1
    <3>4. refs' \in [Descs -> Nat] /\ fd' \in [Fds -> Descs \cup {Free}]
      BY <1>t, <2>2, <3>3, Zenon DEF Loses
    <3> QED BY <1>t, <2>0, <3>2, <3>4, Zenon
  <2> QED BY <1>9, <2>1, <2>2, LosesOne, Zenon
<1>10. ASSUME NEW c \in Contexts, DupBody(c) PROVE Types'
  <2>0. UNCHANGED <<holder, own, closing, got>> /\ pc[c] = "body" /\ op[c].fd \in Fds
        /\ (pc' = [pc EXCEPT ![c] = "publish"] \/ pc' = [pc EXCEPT ![c] = "unlock"])
    BY <1>10, GainsOne, Zenon
  <2>1. CASE UNCHANGED <<fd, refs, held, slot, slotUsed, settling, pub, opened>>
    BY <1>t, <2>0, <2>1, Zenon
  <2>2. ASSUME NEW t \in Fds, NEW s \in Descs, Gains(c, t, s) PROVE Types'
    <3>1. CASE fd[t] # Free
      <4>1. fd[t] \in Descs /\ refs[fd[t]] \in Nat \ {0} BY <2>0, <3>1, InBodyCounted, Zenon
      <4>2. held' \in [Descs -> Handles \cup {None}] /\ slot' \in [Descs -> Slots \cup {Free}]
            /\ slotUsed' \subseteq Slots /\ opened' \subseteq Owned
        BY <2>2, <3>1, <4>1, ReleaseTypes, Zenon DEF Gains
      <4>3. refs' = LET m == [refs EXCEPT ![fd[t]] = @ - 1] IN [m EXCEPT ![s] = @ + 1]
        BY <2>2, <3>1, Zenon DEF Gains
      <4>4. refs \in [Descs -> Nat] BY <1>t, Zenon
      <4>5. refs' \in [Descs -> Nat] BY <4>1, <4>3, <4>4, MovedCount
      <4>6. fd' = fd BY <2>2, Zenon DEF Gains
      <4> QED BY <1>t, <2>0, <4>2, <4>5, <4>6, Zenon
    <3>2. CASE fd[t] = Free
      <4>1. refs' = [refs EXCEPT ![s] = @ + 1] /\ UNCHANGED <<fd, held, opened, slot, slotUsed>>
        BY <2>2, <3>2, Zenon DEF Gains
      <4>2. refs' \in [Descs -> Nat] BY <1>t, <4>1
      <4> QED BY <1>t, <2>0, <4>1, <4>2, Zenon
    <3> QED BY <3>1, <3>2, Zenon
  <2> QED BY <1>10, <2>1, <2>2, GainsOne, Zenon
<1>11. ASSUME NEW c \in Contexts, Unlock(c) PROVE Types'
  <2>1. \A s \in settling : s.h \in Late BY Zenon DEF IInv, Waiting
  <2> QED BY <1>t, <1>11, <2>1 DEF Unlock
<1>12. ASSUME NEW c \in Contexts, Settle(c) \/ GiveBack(c) \/ Return(c) \/ EndRead(c) PROVE Types'
  BY <1>t, <1>12 DEF Settle, GiveBack, Return, EndRead, table
<1> QED
  BY <1>1, <1>2, <1>3, <1>4, <1>5, <1>6, <1>7, <1>8, <1>9, <1>10, <1>11, <1>12, Zenon DEF Next,
     Step

\* Every call, and where each context is in it, stays as it should.
LEMMA NextCalling == IInv /\ [Next]_vars => Calling'
<1> SUFFICES ASSUME IInv, [Next]_vars PROVE Calling' OBVIOUS
<1>t. Types /\ Calling BY Zenon DEF IInv
<1>n. None \notin Contexts BY HandlesAssumption, Zenon
<1>1. CASE UNCHANGED vars BY <1>t, <1>1, Zenon DEF vars, table, locals, Calling
<1>2. ASSUME NEW c \in Contexts, NEW o \in Calls \cup {[NoOp EXCEPT !.k = "open"], [NoOp EXCEPT !.k = "pipe"]},
             Begin(c, o), \A x \in Contexts \ {c} : own'[x] = own[x]
      PROVE  Calling'
  <2>1. /\ o \in [k : Kinds, fd : Fds \cup {Free}, to : Fds \cup {Free}]
        /\ o.k \in {"close", "dup", "dup2"} => o.fd \in Fds
        /\ o.k \in {"dup", "dup2"} => o.to \in Fds
    BY SizesAssumption DEF Calls, NoOp, Kinds, Fds
  <2>2. op' = [op EXCEPT ![c] = o] /\ pc' = [pc EXCEPT ![c] = "lock"] /\ UNCHANGED <<holder, closing>>
        /\ pc[c] = "idle"
    BY <1>2, Zenon DEF Begin, Goto
  <2>3. op' \in [Contexts -> [k : Kinds, fd : Fds \cup {Free}, to : Fds \cup {Free}]]
    BY <1>t, <2>1, <2>2, Zenon DEF Calling
  <2>4. \A x \in Contexts : /\ op'[x] = IF x = c THEN o ELSE op[x]
                            /\ pc'[x] = IF x = c THEN "lock" ELSE pc[x]
    BY <1>t, <2>2, Zenon DEF Types, Calling
  <2> QED BY <1>t, <1>2, <2>1, <2>2, <2>3, <2>4 DEF Calling
<1>3. ASSUME NEW c \in Contexts, NEW h \in Files \cup Dirs, Open(c, h) PROVE Calling'
  BY <1>t, <1>2, <1>3, Zenon DEF Open, Types
<1>4. ASSUME NEW c \in Contexts, NEW h1 \in Channels, NEW h2 \in Channels, Pipe(c, h1, h2) PROVE Calling'
  BY <1>t, <1>2, <1>4, Zenon DEF Pipe, Types
<1>5. ASSUME NEW c \in Contexts, NEW o \in Calls, Call(c, o) PROVE Calling'
  BY <1>2, <1>5, Zenon DEF Call
<1>6. ASSUME NEW c \in Contexts, NEW f \in Fds, Read(c, f) PROVE Calling'
  <2> DEFINE o == [k |-> "read", fd |-> f, to |-> Free]
  <2>1. o \in [k : Kinds, fd : Fds \cup {Free}, to : Fds \cup {Free}] /\ o.k = "read"
    BY Zenon DEF Kinds
  <2>2. op' = [op EXCEPT ![c] = o] /\ pc' = [pc EXCEPT ![c] = "using"] /\ UNCHANGED <<holder, closing, own>>
        /\ pc[c] = "idle"
    BY <1>6, Zenon DEF Read, Goto
  <2> HIDE DEF o
  <2> QED BY <1>t, <2>1, <2>2, Zenon DEF Calling, Types
<1>7. ASSUME NEW c \in Contexts, Lock(c) PROVE Calling'
  <2>1. pc' = [pc EXCEPT ![c] = "body"] /\ UNCHANGED <<op, own, closing>> /\ holder' = c /\ pc[c] = "lock"
        /\ holder = None
    BY <1>7, Zenon DEF Lock, locals, Goto
  <2> QED BY <1>t, <1>n, <2>1, Zenon DEF Calling, Types
<1>8. ASSUME NEW c \in Contexts, BindNew(c) PROVE Calling'
  <2>1. (pc' = [pc EXCEPT ![c] = "unlock"] \/ pc' = [pc EXCEPT ![c] = "publish"]) /\ UNCHANGED <<op, closing, holder>>
        /\ pc[c] = "body"
    BY <1>8, Zenon DEF BindNew, Goto
  <2>2. \A x \in Contexts \ {c} : own'[x] = own[x]
    BY <1>t, <1>8, Zenon DEF BindNew, Types
  <2>3. \A x \in Contexts : pc'[x] = IF x = c THEN pc'[c] ELSE pc[x]
    BY <1>t, <2>1, Zenon DEF Types
  <2>4. pc'[c] \in {"unlock", "publish"} BY <1>t, <2>1, Zenon DEF Types
  <2> QED BY <1>t, <2>1, <2>2, <2>3, <2>4, Zenon DEF Calling
<1>9. ASSUME NEW c \in Contexts, Publish(c) PROVE Calling'
  <2>1. (pc' = [pc EXCEPT ![c] = "body"] \/ pc' = [pc EXCEPT ![c] = "unlock"]) /\ UNCHANGED <<op, own, closing, holder>>
        /\ pc[c] = "publish"
    BY <1>9, Zenon DEF Publish, Goto, locals
  <2> QED BY <1>t, <2>1, Zenon DEF Calling, Types
<1>10. ASSUME NEW c \in Contexts, CloseBody(c) \/ ExecBody(c) \/ DupBody(c) PROVE Calling'
  <2>1. /\ pc' = pc \/ pc' = [pc EXCEPT ![c] = "publish"] \/ pc' = [pc EXCEPT ![c] = "unlock"]
        /\ UNCHANGED <<op, own, closing, holder>>
        /\ pc[c] = "body"
    BY <1>10, LosesOne, GainsOne, Zenon
  <2> QED BY <1>t, <2>1, Zenon DEF Calling, Types
<1>11. ASSUME NEW c \in Contexts, Unlock(c) PROVE Calling'
  <2>1. pc' = [pc EXCEPT ![c] = "settle"] /\ UNCHANGED <<op, own>> /\ holder' = None /\ pc[c] = "unlock"
    BY <1>11, Zenon DEF Unlock, Goto
  <2>2. \A x \in Contexts \ {c} : closing'[x] = closing[x]
    BY <1>t, <1>11, Zenon DEF Unlock, Types
  <2>3. holder = c BY <1>t, <2>1, Zenon DEF Calling
  <2> QED BY <1>t, <1>n, <2>1, <2>2, <2>3, Zenon DEF Calling, Types
<1>12. ASSUME NEW c \in Contexts, Settle(c) \/ GiveBack(c) PROVE Calling'
  <2>1. UNCHANGED <<op, pc, holder>> /\ pc[c] = "settle" BY <1>12, Zenon DEF Settle, GiveBack
  <2>2. \A x \in Contexts \ {c} : closing'[x] = closing[x] /\ own'[x] = own[x]
    BY <1>t, <1>12, Zenon DEF Settle, GiveBack, Types
  <2> QED BY <1>t, <2>1, <2>2, Zenon DEF Calling, Types
<1>13. ASSUME NEW c \in Contexts, Return(c) \/ EndRead(c) PROVE Calling'
  <2>1. /\ op' = [op EXCEPT ![c] = NoOp] /\ UNCHANGED <<holder, own, closing>> /\ own[c] = {} /\ closing[c] = {}
        /\ pc' = [pc EXCEPT ![c] = "gone"] \/ pc' = [pc EXCEPT ![c] = "idle"]
        /\ pc[c] \in {"settle", "using"}
    BY <1>t, <1>13, Zenon DEF Return, EndRead, Goto, Calling
  <2>2. NoOp \in [k : Kinds, fd : Fds \cup {Free}, to : Fds \cup {Free}] /\ NoOp.k = "none"
    BY Zenon DEF NoOp, Kinds
  <2> QED BY <1>t, <2>1, <2>2 DEF Calling, Types
<1> QED
  BY <1>1, <1>3, <1>4, <1>5, <1>6, <1>7, <1>8, <1>9, <1>10, <1>11, <1>12, <1>13, Zenon DEF
     Next, Step

\* The steps that leave the table alone.
LEMMA TableKept ==
    ASSUME IInv, NEW c \in Contexts,
           \/ UNCHANGED vars
           \/ \E h \in Files \cup Dirs : Open(c, h)
           \/ \E h1, h2 \in Channels : Pipe(c, h1, h2)
           \/ \E o \in Calls : Call(c, o)
           \/ \E f \in Fds : Read(c, f)
           \/ Lock(c) \/ Settle(c) \/ GiveBack(c) \/ Return(c) \/ EndRead(c)
    PROVE  /\ UNCHANGED <<fd, refs, held, slot, slotUsed, settling, pub>>
           /\ \A x \in Contexts : pc'[x] = "publish" <=> pc[x] = "publish"
           /\ \A x \in Contexts : pc[x] = "publish" => op'[x] = op[x]
<1>t. Types /\ Calling BY Zenon DEF IInv
<1>1. UNCHANGED <<fd, refs, held, slot, slotUsed, settling, pub>>
  BY Zenon DEF vars, table, Open, Pipe, Call, Begin, Read, Lock, Settle, GiveBack, Return,
     EndRead
<1>2. /\ pc' = pc \/ \E l \in {"idle", "lock", "body", "using", "gone"} : pc' = [pc EXCEPT ![c] = l]
      /\ pc' # pc => pc[c] # "publish"
  BY Zenon DEF vars, Open, Pipe, Call, Begin, Read, Lock, Settle, GiveBack, Return, EndRead,
     Goto
<1>3. op' = op \/ (pc[c] # "publish" /\ \E o : op' = [op EXCEPT ![c] = o])
  BY Zenon DEF vars, locals, Open, Pipe, Call, Begin, Read, Lock, Settle, GiveBack, Return,
     EndRead
<1> QED BY <1>t, <1>1, <1>2, <1>3, Zenon DEF Types, Calling

\* Next, with those steps together.
LEMMA NextCases ==
    ASSUME IInv, [Next]_vars
    PROVE  \/ UNCHANGED vars
           \/ \E c \in Contexts :
                 \/ \E h \in Files \cup Dirs : Open(c, h)
                 \/ \E h1, h2 \in Channels : Pipe(c, h1, h2)
                 \/ \E o \in Calls : Call(c, o)
                 \/ \E f \in Fds : Read(c, f)
                 \/ Lock(c) \/ Settle(c) \/ GiveBack(c) \/ Return(c) \/ EndRead(c)
                 \/ BindNew(c) \/ Publish(c) \/ CloseBody(c) \/ ExecBody(c) \/ DupBody(c) \/ Unlock(c)
BY Zenon DEF Next, Step

\* What a call binds: a handle it obtained, the null device or a socket, under
\* a descriptor that names nothing, in a description nobody counts.
Binds(c, f, d, h) ==
    /\ fd[f] = Free /\ refs[d] = 0
    /\ \/ h = NullDev /\ op[c].k = "null"
       \/ h \in Sockets \ opened
       \/ h \in own[c]
    /\ refs' = [refs EXCEPT ![d] = 1]
    /\ held' = [held EXCEPT ![d] = h]
    /\ own' = [own EXCEPT ![c] = @ \ {h}]
    /\ opened' = IF h \in Sockets THEN opened \cup {h} ELSE opened
    /\ pub' = [f |-> f, d |-> d]

\* open, pipe2 and socket bind one thing, or fail.
LEMMA BindsOne ==
    ASSUME IInv, NEW c \in Contexts, BindNew(c)
    PROVE  /\ pc[c] = "body" /\ op[c].k \in {"open", "pipe", "null", "socket"}
           /\ UNCHANGED <<holder, fd, slot, slotUsed, settling, op, closing, got>>
           /\ \/ /\ pc' = [pc EXCEPT ![c] = "unlock"]
                 /\ UNCHANGED <<refs, held, pub, own, opened>>
              \/ /\ pc' = [pc EXCEPT ![c] = "publish"]
                 /\ \E f \in Fds, d \in Descs, h \in Handles : Binds(c, f, d, h)
<1> DEFINE f == FdAlloc(0)
           d == DescAlloc
           src == CASE op[c].k = "null" -> {NullDev}
                    [] op[c].k = "socket" -> Sockets \ opened
                    [] OTHER -> own[c]
<1>0. pc[c] = "body" /\ op[c].k \in {"open", "pipe", "null", "socket"} /\ 0 \in Nat
  BY Zenon DEF BindNew
<1>1. UNCHANGED <<holder, fd, slot, slotUsed, settling, op, closing, got>> BY Zenon DEF BindNew
<1>2. CASE f = Free
  BY <1>0, <1>1, <1>2, Zenon DEF BindNew, Goto
<1>3. CASE f # Free
  <2>1. f \in Fds /\ d \in Descs /\ fd[f] = Free /\ refs[d] = 0 BY <1>0, <1>3, Allocated, Zenon
  <2>2. \/ pc' = [pc EXCEPT ![c] = "unlock"] /\ UNCHANGED <<refs, held, pub, own, opened>>
        \/ /\ pc' = [pc EXCEPT ![c] = "publish"]
           /\ \E h \in src : /\ refs' = [refs EXCEPT ![d] = 1]
                             /\ held' = [held EXCEPT ![d] = h]
                             /\ own' = [own EXCEPT ![c] = @ \ {h}]
                             /\ opened' = IF h \in Sockets THEN opened \cup {h} ELSE opened
           /\ pub' = [f |-> f, d |-> d]
    BY <1>3, Zenon DEF BindNew, Goto
  <2>3. \A h \in src : \/ h = NullDev /\ op[c].k = "null"
                       \/ h \in Sockets \ opened
                       \/ h \in own[c]
    BY <1>0, Zenon
  <2>4. \A h \in src : h \in Handles
    BY <2>3, Zenon DEF IInv, Types, Handles, Owned
  <2> HIDE DEF src, f, d
  <2> QED BY <1>0, <1>1, <2>1, <2>2, <2>3, <2>4, Zenon DEF Binds
<1> QED BY <1>2, <1>3, Zenon

\* The store about to be made stays the lock holder's.
LEMMA NextPublishing == IInv /\ [Next]_vars => Publishing'
<1> SUFFICES ASSUME IInv, [Next]_vars PROVE Publishing' OBVIOUS
<1>t. Types /\ Calling /\ Publishing BY Zenon DEF IInv
<1>1. ASSUME UNCHANGED <<slot, pub, fd>>,
             \A x \in Contexts : pc'[x] = "publish" <=> pc[x] = "publish",
             \A x \in Contexts : pc[x] = "publish" => op'[x] = op[x]
      PROVE  Publishing'
  BY <1>t, <1>1, Zenon DEF Publishing
<1>2. CASE UNCHANGED vars BY <1>1, <1>2, Zenon DEF vars, table, locals
<1>3. ASSUME NEW c \in Contexts, BindNew(c) PROVE Publishing'
  <2>0. /\ pc[c] = "body" /\ op[c].k \in {"open", "pipe", "null", "socket"}
        /\ UNCHANGED <<fd, slot, op>>
        /\ \A x \in Contexts : pc[x] # "publish"
    BY <1>3, BindsOne, InBody, Zenon
  <2>1. CASE pc' = [pc EXCEPT ![c] = "unlock"] /\ UNCHANGED <<refs, held, pub, own, opened>>
    BY <1>1, <1>t, <2>0, <2>1, Zenon DEF Types
  <2>2. ASSUME NEW f \in Fds, NEW d \in Descs, NEW h \in Handles, Binds(c, f, d, h),
               pc' = [pc EXCEPT ![c] = "publish"]
        PROVE  Publishing'
    <3>1. \A x \in Contexts : pc'[x] = "publish" <=> x = c BY <1>t, <2>0, <2>2, Zenon DEF Types
    <3>2. pub' = [f |-> f, d |-> d] /\ fd[f] = Free /\ refs[d] = 0 BY <2>2, Zenon DEF Binds
    <3>3. slot[d] = Free BY <3>2, Zenon DEF IInv, Counts
    <3>4. pub'.f = f /\ pub'.d = d BY <3>2, Zenon
    <3> QED BY <2>0, <3>1, <3>2, <3>3, <3>4, Zenon DEF Publishing
  <2> QED BY <1>3, <2>1, <2>2, BindsOne, Zenon
<1>4. ASSUME NEW c \in Contexts, Publish(c) PROVE Publishing'
  <2>1. pub' = NoPub BY <1>4, Zenon DEF Publish
  <2>2. \A x \in Contexts : pc'[x] # "publish"
    <3>1. \A x \in Contexts \ {c} : pc[x] # "publish" BY <1>t, <1>4 DEF Publish, Calling
    <3> QED BY <1>t, <1>4, <3>1, Zenon DEF Publish, Goto, Types
  <2> QED BY <2>1, <2>2, Zenon DEF Publishing
<1>5. ASSUME NEW c \in Contexts, CloseBody(c) \/ ExecBody(c) PROVE Publishing'
  <2>1. pub' = pub /\ (pc' = pc \/ pc' = [pc EXCEPT ![c] = "unlock"]) /\ pc[c] = "body"
    BY <1>5, LosesOne, Zenon DEF Loses
  <2>2. \A x \in Contexts : pc'[x] # "publish" BY <1>5, <1>t, <2>1, InBody, Zenon DEF Types
  <2>3. pub' = NoPub BY <2>1, InBody, Zenon
  <2> QED BY <2>2, <2>3, Zenon DEF Publishing
<1>6. ASSUME NEW c \in Contexts, DupBody(c) PROVE Publishing'
  <2>0. /\ pc[c] = "body" /\ op[c].k \in {"dup", "dup2"} /\ op' = op
        /\ \A x \in Contexts : pc[x] # "publish"
    BY <1>6, GainsOne, InBody, Zenon
  <2>1. CASE UNCHANGED <<fd, refs, held, slot, slotUsed, settling, pub, opened>> /\ pc' = [pc EXCEPT ![c] = "unlock"]
    BY <1>1, <1>t, <2>0, <2>1, Zenon DEF Types
  <2>2. ASSUME NEW t \in Fds, NEW s \in Descs, Gains(c, t, s), pc' = [pc EXCEPT ![c] = "publish"]
        PROVE  Publishing'
    <3>1. \A x \in Contexts : pc'[x] = "publish" <=> x = c BY <1>t, <2>0, <2>2, Zenon DEF Types
    <3>2. pub' = [f |-> t, d |-> s] /\ fd' = fd BY <2>2, Zenon DEF Gains
    <3>3. (op[c].k = "dup2" => t = op[c].to) /\ (op[c].k = "dup" => fd[t] = Free)
      BY <2>2, Zenon DEF Gains
    <3>4. pub'.f = t /\ pub'.d = s BY <3>2, Zenon
    <3> QED BY <2>0, <3>1, <3>2, <3>3, <3>4, Zenon DEF Publishing
  <2> QED BY <1>6, <2>1, <2>2, GainsOne, Zenon
<1>7. ASSUME NEW c \in Contexts, Unlock(c) PROVE Publishing'
  <2>1. \A x \in Contexts : pc'[x] = "publish" <=> pc[x] = "publish"
    BY <1>t, <1>7, Zenon DEF Unlock, Goto, Types
  <2> QED BY <1>1, <1>7, <2>1, Zenon DEF Unlock
<1> QED BY <1>1, <1>2, <1>3, <1>4, <1>5, <1>6, <1>7, NextCases, TableKept, Zenon

\* A directory's name keeps a place of its own.
LEMMA NextPlaces == IInv /\ [Next]_vars => Places'
<1> SUFFICES ASSUME IInv, [Next]_vars PROVE Places' OBVIOUS
<1>t. Types /\ Places BY Zenon DEF IInv
<1>1. ASSUME UNCHANGED <<slot, slotUsed>> PROVE Places' BY <1>t, <1>1, Zenon DEF Places
<1>2. CASE UNCHANGED vars BY <1>1, <1>2, Zenon DEF vars, table
<1>3. ASSUME NEW c \in Contexts, BindNew(c) \/ Unlock(c) PROVE Places'
  BY <1>1, <1>3, Zenon DEF BindNew, Unlock
<1>4. ASSUME NEW c \in Contexts, Publish(c) PROVE Places'
  <2> DEFINE p == PathSlotAlloc
             d == pub.d
  <2>1. CASE UNCHANGED <<slot, slotUsed>> BY <1>1, <2>1, Zenon
  <2>2. CASE ~UNCHANGED <<slot, slotUsed>>
    <3>1. op[c].k = "open" /\ p # Free /\ slot' = [slot EXCEPT ![d] = p] /\ slotUsed' = slotUsed \cup {p}
      BY <1>4, <2>2, Zenon DEF Publish
    <3>2. d \in Descs /\ slot[d] = Free BY <1>4, <3>1, Zenon DEF Publish, IInv, Publishing
    <3>3. p \in Slots \ slotUsed BY <3>1, FirstOfIn DEF PathSlotAlloc, Slots
    <3> HIDE DEF p, d
    <3>4. \A e \in Descs : slot'[e] = IF e = d THEN p ELSE slot[e]
      BY <1>t, <3>1, Zenon DEF Types
    <3>5. \A e \in Descs : slot'[e] # Free => slot'[e] \in slotUsed'
      BY <1>t, <3>1, <3>4 DEF Places
    <3>6. \A x \in slotUsed' : \E e \in Descs : slot'[e] = x
      <4>1. ASSUME NEW x \in slotUsed PROVE \E e \in Descs : slot'[e] = x
        <5>1. PICK e \in Descs : slot[e] = x BY <1>t, Zenon DEF Places
        <5>2. x # Free BY <1>t DEF Types, Slots, Free
        <5> QED BY <3>2, <3>4, <5>1, <5>2, Zenon
      <4> QED BY <3>1, <3>2, <3>4, <4>1, Zenon
    <3>7. \A a, e \in Descs : slot'[a] = slot'[e] /\ slot'[a] # Free => a = e
      BY <1>t, <3>3, <3>4 DEF Places
    <3> QED BY <3>5, <3>6, <3>7, Zenon DEF Places
  <2> QED BY <2>1, <2>2, Zenon
<1>5. ASSUME NEW c \in Contexts, CloseBody(c) \/ ExecBody(c) PROVE Places'
  <2>1. ASSUME NEW f \in Fds, Loses(c, f) PROVE Places'
    BY <1>5, <2>1, LosesOne, InBodyCounted, ReleasePlaces, Zenon DEF Loses
  <2> QED BY <1>1, <1>5, <2>1, LosesOne, Zenon
<1>6. ASSUME NEW c \in Contexts, DupBody(c) PROVE Places'
  <2>1. ASSUME NEW t \in Fds, NEW s \in Descs, Gains(c, t, s) PROVE Places'
    BY <1>1, <1>6, <2>1, GainsOne, InBodyCounted, ReleasePlaces, Zenon DEF Gains
  <2> QED BY <1>1, <1>6, <2>1, GainsOne, Zenon
<1> QED BY <1>1, <1>2, <1>3, <1>4, <1>5, <1>6, NextCases, TableKept, Zenon

\* What waits to be closed stays the lock holder's.
LEMMA NextWaiting == IInv /\ [Next]_vars => Waiting'
<1> SUFFICES ASSUME IInv, [Next]_vars PROVE Waiting' OBVIOUS
<1>t. Waiting /\ Calling BY Zenon DEF IInv
<1>1. ASSUME UNCHANGED <<settling, holder>> PROVE Waiting' BY <1>t, <1>1, Zenon DEF Waiting
<1>2. CASE UNCHANGED vars BY <1>1, <1>2, Zenon DEF vars, table
<1>3. ASSUME NEW c \in Contexts, Lock(c) PROVE Waiting'
  <2>1. settling = {} BY <1>3, <1>t, HandlesAssumption, Zenon DEF Lock, Waiting
  <2> QED BY <1>3, <2>1, Zenon DEF Lock, table, Waiting
<1>4. ASSUME NEW c \in Contexts, BindNew(c) \/ Publish(c) PROVE Waiting'
  BY <1>1, <1>4, Zenon DEF BindNew, Publish
<1>5. ASSUME NEW c \in Contexts, CloseBody(c) \/ ExecBody(c) PROVE Waiting'
  <2>0. pc[c] = "body" /\ holder' = holder BY <1>5, LosesOne, Zenon
  <2>1. ASSUME NEW f \in Fds, Loses(c, f) PROVE Waiting'
    BY <2>0, <2>1, InBody, InBodyCounted, ReleaseWaits, Zenon DEF Loses
  <2> QED BY <1>1, <1>5, <2>0, <2>1, LosesOne, Zenon
<1>6. ASSUME NEW c \in Contexts, DupBody(c) PROVE Waiting'
  <2>0. pc[c] = "body" /\ holder' = holder BY <1>6, GainsOne, Zenon
  <2>1. ASSUME NEW t \in Fds, NEW s \in Descs, Gains(c, t, s) PROVE Waiting'
    BY <1>1, <2>0, <2>1, InBody, InBodyCounted, ReleaseWaits, Zenon DEF Gains
  <2> QED BY <1>1, <1>6, <2>0, <2>1, GainsOne, Zenon
<1>7. ASSUME NEW c \in Contexts, Unlock(c) PROVE Waiting'
  <2>1. holder = c BY <1>7, <1>t, Zenon DEF Unlock, Calling
  <2>2. settling' = {} BY <1>7, <1>t, <2>1, Zenon DEF Unlock, Waiting
  <2> QED BY <2>2, Zenon DEF Waiting
<1>8. ASSUME NEW c \in Contexts,
             \/ \E h \in Files \cup Dirs : Open(c, h)
             \/ \E h1, h2 \in Channels : Pipe(c, h1, h2)
             \/ \E o \in Calls : Call(c, o)
             \/ \E f \in Fds : Read(c, f)
             \/ Settle(c) \/ GiveBack(c) \/ Return(c) \/ EndRead(c)
      PROVE  Waiting'
  <2>1. UNCHANGED <<settling, holder>>
    BY <1>8, Zenon DEF Open, Pipe, Call, Begin, Read, Settle, GiveBack, Return, EndRead, table
  <2> QED BY <1>1, <2>1, Zenon
<1> QED BY <1>2, <1>3, <1>4, <1>5, <1>6, <1>7, <1>8, NextCases, Zenon

\* A call that is not to take a descriptor away takes none away from a reader.
LEMMA NotGoing ==
    ASSUME NEW c \in Contexts, NEW o, NEW f, Calling,
           op' = [op EXCEPT ![c] = o], ~Going(f),
           o.k = "close" => o.fd # f, o.k = "dup2" => o.to # f, o.k # "exec"
    PROVE  ~Going(f)'
<1>1. \A x \in Contexts : op'[x] = IF x = c THEN o ELSE op[x] BY Zenon DEF Calling
<1> QED BY <1>1, Zenon DEF Going

\* A read keeps the description it found.
LEMMA NextReaders == IInv /\ [Next]_vars => Readers'
<1> SUFFICES ASSUME IInv, [Next]_vars PROVE Readers' OBVIOUS
<1>t. Types /\ Calling /\ Readers BY Zenon DEF IInv
<1>1. ASSUME UNCHANGED <<fd, got, op>>, \A x \in Contexts : pc'[x] = "using" => pc[x] = "using"
      PROVE  Readers'
  <2>1. \A f : Going(f)' <=> Going(f) BY <1>1, Zenon DEF Going
  <2> QED BY <1>t, <1>1, <2>1, Zenon DEF Readers
<1>2. CASE UNCHANGED vars BY <1>1, <1>2, Zenon DEF vars, table, locals
<1>3. ASSUME NEW c \in Contexts, NEW o, op' = [op EXCEPT ![c] = o], UNCHANGED <<fd, got>>,
             \A x \in Contexts : pc'[x] = "using" => x # c /\ pc[x] = "using",
             o.k # "exec" \/ \A f \in Fds : ~Reading(f),
             o.k = "close" => ~Reading(o.fd), o.k = "dup2" => ~Reading(o.to)
      PROVE  Readers'
  <2>1. ASSUME NEW g \in Fds, Reading(g), ~Going(g) PROVE ~Going(g)'
    <3>1. o.k # "exec" /\ (o.k = "close" => o.fd # g) /\ (o.k = "dup2" => o.to # g)
      BY <1>3, <2>1, Zenon
    <3> QED BY <1>3, <1>t, <2>1, <3>1, NotGoing, Zenon
  <2>2. \A x \in Contexts : pc'[x] = "using" => pc[x] = "using" /\ op'[x] = op[x] /\ Reading(op[x].fd)
    BY <1>t, <1>3, Zenon DEF Calling, Reading
  <2> QED BY <1>t, <1>3, <2>1, <2>2 DEF Readers
<1>4. ASSUME NEW c \in Contexts, NEW h \in Files \cup Dirs, Open(c, h) PROVE Readers'
  <2> DEFINE o == [NoOp EXCEPT !.k = "open"]
  <2>1. o.k = "open" BY Zenon DEF NoOp
  <2>2. op' = [op EXCEPT ![c] = o] /\ UNCHANGED <<fd, got>> /\ pc' = [pc EXCEPT ![c] = "lock"]
    BY <1>4, Zenon DEF Open, Begin, Goto, table
  <2> HIDE DEF o
  <2> QED BY <1>3, <1>t, <2>1, <2>2, Zenon DEF Types
<1>5. ASSUME NEW c \in Contexts, NEW h1 \in Channels, NEW h2 \in Channels, Pipe(c, h1, h2) PROVE Readers'
  <2> DEFINE o == [NoOp EXCEPT !.k = "pipe"]
  <2>1. o.k = "pipe" BY Zenon DEF NoOp
  <2>2. op' = [op EXCEPT ![c] = o] /\ UNCHANGED <<fd, got>> /\ pc' = [pc EXCEPT ![c] = "lock"]
    BY <1>5, Zenon DEF Pipe, Begin, Goto, table
  <2> HIDE DEF o
  <2> QED BY <1>3, <1>t, <2>1, <2>2, Zenon DEF Types
<1>6. ASSUME NEW c \in Contexts, NEW o \in Calls, Call(c, o) PROVE Readers'
  <2>1. op' = [op EXCEPT ![c] = o] /\ UNCHANGED <<fd, got>> /\ pc' = [pc EXCEPT ![c] = "lock"]
    BY <1>6, Zenon DEF Call, Begin, Goto, table
  <2>2. /\ o.k # "exec" \/ \A f \in Fds : ~Reading(f)
        /\ o.k = "close" => ~Reading(o.fd)
        /\ o.k = "dup2" => ~Reading(o.to)
    BY <1>6, Zenon DEF Call
  <2> QED BY <1>3, <1>t, <2>1, <2>2, Zenon DEF Types
<1>7. ASSUME NEW c \in Contexts, NEW f \in Fds, Read(c, f) PROVE Readers'
  <2> DEFINE o == [k |-> "read", fd |-> f, to |-> Free]
  <2>1. o.k = "read" /\ o.fd = f OBVIOUS
  <2>2. op' = [op EXCEPT ![c] = o] /\ got' = [got EXCEPT ![c] = fd[f]] /\ pc' = [pc EXCEPT ![c] = "using"]
        /\ fd' = fd /\ fd[f] # Free /\ ~Going(f)
    BY <1>7, Zenon DEF Read, Goto, table
  <2> HIDE DEF o
  <2>3. \A g : ~Going(g) => ~Going(g)' BY <1>t, <2>1, <2>2, NotGoing, Zenon
  <2>4. \A x \in Contexts : /\ pc'[x] = IF x = c THEN "using" ELSE pc[x]
                            /\ op'[x] = IF x = c THEN o ELSE op[x]
                            /\ got'[x] = IF x = c THEN fd[f] ELSE got[x]
    BY <1>t, <2>2, Zenon DEF Types, Calling
  <2>5. fd[f] \in Descs BY <1>t, <2>2, Zenon DEF Types
  <2> QED BY <1>t, <2>1, <2>2, <2>3, <2>4, <2>5 DEF Readers
<1>8. ASSUME NEW c \in Contexts, Lock(c) \/ Settle(c) \/ GiveBack(c) \/ BindNew(c) \/ Unlock(c) PROVE Readers'
  <2>1. UNCHANGED <<fd, got, op>>
    BY <1>8, Zenon DEF Lock, Settle, GiveBack, BindNew, Unlock, table, locals
  <2>2. \A x \in Contexts : pc'[x] = "using" => pc[x] = "using"
    BY <1>8, <1>t, Zenon DEF Lock, Settle, GiveBack, BindNew, Unlock, Goto, Types
  <2> QED BY <1>1, <2>1, <2>2, Zenon
<1>9. ASSUME NEW c \in Contexts, Return(c) PROVE Readers'
  <2>1. op' = [op EXCEPT ![c] = NoOp] /\ UNCHANGED <<fd, got>> /\ NoOp.k = "none"
    BY <1>9, Zenon DEF Return, table, NoOp
  <2>2. \A x \in Contexts : pc'[x] = "using" => x # c /\ pc[x] = "using"
    BY <1>9, <1>t, Zenon DEF Return, Goto, Types
  <2> QED BY <1>3, <2>1, <2>2, Zenon
<1>10. ASSUME NEW c \in Contexts, EndRead(c) PROVE Readers'
  <2>1. op' = [op EXCEPT ![c] = NoOp] /\ fd' = fd /\ NoOp.k = "none" /\ got' = [got EXCEPT ![c] = Free]
    BY <1>10, Zenon DEF EndRead, table, NoOp
  <2>2. \A x \in Contexts : pc'[x] = "using" => x # c /\ pc[x] = "using"
    BY <1>10, <1>t, Zenon DEF EndRead, Goto, Types
  <2>3. \A g : ~Going(g) => ~Going(g)' BY <1>t, <2>1, NotGoing, Zenon
  <2>4. \A x \in Contexts \ {c} : op'[x] = op[x] /\ got'[x] = got[x]
    BY <1>t, <2>1, Zenon DEF Types, Calling
  <2> QED BY <1>t, <2>1, <2>2, <2>3, <2>4 DEF Readers
<1>11. ASSUME NEW f \in Fds, NEW e, fd' = [fd EXCEPT ![f] = e], UNCHANGED <<got, op>>,
              \A x \in Contexts : pc'[x] = "using" => pc[x] = "using",
              \A x \in Contexts : pc[x] = "using" => op[x].fd # f
       PROVE  Readers'
  <2>1. \A g : Going(g)' <=> Going(g) BY <1>11, Zenon DEF Going
  <2>2. \A g \in Fds \ {f} : fd'[g] = fd[g] BY <1>t, <1>11, Zenon DEF Types
  <2> QED BY <1>t, <1>11, <2>1, <2>2, Zenon DEF Readers
<1>12. ASSUME NEW c \in Contexts, Publish(c) PROVE Readers'
  <2>1. pub.f \in Fds /\ (op[c].k = "dup2" => pub.f = op[c].to) /\ (op[c].k # "dup2" => fd[pub.f] = Free)
    BY <1>12, Zenon DEF Publish, IInv, Publishing
  <2>2. \A x \in Contexts : pc[x] = "using" => op[x].fd # pub.f
    <3>1. CASE op[c].k = "dup2"
      <4>1. Going(pub.f) BY <2>1, <3>1, Zenon DEF Going
      <4> QED BY <1>t, <4>1, Zenon DEF Readers
    <3>2. CASE op[c].k # "dup2"
      <4>1. fd[pub.f] \notin Descs BY <2>1, <3>2 DEF Descs, Free
      <4> QED BY <1>t, <4>1, Zenon DEF Readers
    <3> QED BY <3>1, <3>2, Zenon
  <2>3. fd' = [fd EXCEPT ![pub.f] = pub.d] /\ UNCHANGED <<got, op>>
    BY <1>12, Zenon DEF Publish, locals
  <2>4. \A x \in Contexts : pc'[x] = "using" => pc[x] = "using"
    BY <1>12, <1>t, Zenon DEF Publish, Goto, Types
  <2> QED BY <1>11, <2>1, <2>2, <2>3, <2>4, Zenon
<1>13. ASSUME NEW c \in Contexts, CloseBody(c) \/ ExecBody(c) PROVE Readers'
  <2>1. UNCHANGED <<got, op>> /\ (pc' = pc \/ pc' = [pc EXCEPT ![c] = "unlock"])
    BY <1>13, LosesOne, Zenon
  <2>2. \A x \in Contexts : pc'[x] = "using" => pc[x] = "using" BY <1>t, <2>1, Zenon DEF Types
  <2>3. ASSUME NEW f \in Fds, Loses(c, f), Going(f) PROVE Readers'
    <3>1. \A x \in Contexts : pc[x] = "using" => op[x].fd # f BY <1>t, <2>3, Zenon DEF Readers
    <3>2. fd' = [fd EXCEPT ![f] = Free] BY <2>3, Zenon DEF Loses
    <3> QED BY <1>11, <2>1, <2>2, <3>1, <3>2, Zenon
  <2> QED BY <1>1, <1>13, <2>1, <2>2, <2>3, LosesOne, Zenon
<1>14. ASSUME NEW c \in Contexts, DupBody(c) PROVE Readers'
  <2>1. UNCHANGED <<fd, got, op>> /\ (pc' = [pc EXCEPT ![c] = "publish"] \/ pc' = [pc EXCEPT ![c] = "unlock"])
    BY <1>14, GainsOne, Zenon DEF Gains
  <2>2. \A x \in Contexts : pc'[x] = "using" => pc[x] = "using" BY <1>t, <2>1, Zenon DEF Types
  <2> QED BY <1>1, <2>1, <2>2, Zenon
<1> QED BY <1>2, <1>4, <1>5, <1>6, <1>7, <1>8, <1>9, <1>10, <1>12, <1>13, <1>14, NextCases,
           Zenon

\* The counts stay exact.
LEMMA NextCounts == IInv /\ [Next]_vars => Counts'
<1> SUFFICES ASSUME IInv, [Next]_vars PROVE Counts' OBVIOUS
<1>t. Types /\ Counts BY Zenon DEF IInv
<1>f. Free \notin Fds /\ Free \notin Descs BY DEF Fds, Descs, Free
<1>n. None \notin Handles BY HandlesAssumption, Zenon
<1>1. ASSUME UNCHANGED <<fd, refs, held, slot, pub>> PROVE Counts'
  <2>1. Named' = Named BY <1>1, Zenon DEF Named
  <2> QED BY <1>t, <1>1, <2>1, Zenon DEF Counts
<1>2. CASE UNCHANGED vars BY <1>1, <1>2, Zenon DEF vars, table
<1>3. ASSUME NEW c \in Contexts, Unlock(c) PROVE Counts' BY <1>1, <1>3, Zenon DEF Unlock
<1>4. ASSUME NEW c \in Contexts, BindNew(c) PROVE Counts'
  <2>0. pc[c] = "body" /\ UNCHANGED <<fd, slot>> BY <1>4, BindsOne, Zenon
  <2>1. Named = fd BY <2>0, InBody, Zenon
  <2>2. ASSUME NEW f \in Fds, NEW d \in Descs, NEW h \in Handles, Binds(c, f, d, h) PROVE Counts'
    <3>1. pub' = [f |-> f, d |-> d] /\ fd[f] = Free /\ refs[d] = 0
          /\ refs' = [refs EXCEPT ![d] = 1] /\ held' = [held EXCEPT ![d] = h]
      BY <2>2, Zenon DEF Binds
    <3>2. Named' = [fd EXCEPT ![f] = d] BY <1>f, <2>0, <3>1, Zenon DEF Named
    <3>3. ASSUME NEW x \in Descs
          PROVE  Cardinality(NamesOf(Named', x)) = IF x = d THEN refs[x] + 1 ELSE refs[x]
      <4>1. refs[x] = Cardinality(NamesOf(fd, x)) BY <1>t, <2>1, Zenon DEF Counts
      <4>2. fd[f] # x BY <1>f, <3>1, Zenon
      <4>3. fd \in [Fds -> Descs \cup {Free}] /\ d \in Descs \cup {Free}
        BY <1>t, Zenon DEF Types
      <4>a. \A z \in Fds : Named'[z] = IF z = f THEN d ELSE fd[z] BY <3>2, <4>3, Zenon
      <4>4. /\ (d = x <=> fd[f] = x) => Cardinality(NamesOf(Named', x)) = Cardinality(NamesOf(fd, x))
            /\ d = x /\ fd[f] # x => Cardinality(NamesOf(Named', x)) = Cardinality(NamesOf(fd, x)) + 1
            /\ d # x /\ fd[f] = x => Cardinality(NamesOf(Named', x)) = Cardinality(NamesOf(fd, x)) - 1
        BY <4>a, StoreCounts
      <4> QED BY <4>1, <4>2, <4>4, Zenon
    <3>4. \A x \in Descs : /\ refs'[x] = IF x = d THEN 1 ELSE refs[x]
                           /\ held'[x] = IF x = d THEN h ELSE held[x]
      BY <1>t, <3>1, Zenon DEF Types
    <3> QED BY <1>t, <1>n, <2>0, <3>1, <3>3, <3>4 DEF Counts
  <2> QED BY <1>1, <1>4, <2>0, <2>2, BindsOne, Zenon
<1>5. ASSUME NEW c \in Contexts, Publish(c) PROVE Counts'
  <2>1. pub.f \in Fds /\ pub.d \in Descs BY <1>5, Zenon DEF Publish, IInv, Publishing
  <2>2. pub' = NoPub /\ fd' = [fd EXCEPT ![pub.f] = pub.d] /\ UNCHANGED <<refs, held>>
    BY <1>5, Zenon DEF Publish
  <2>3. Named' = Named BY <1>f, <2>1, <2>2, Zenon DEF Named, NoPub
  <2>4. Named[pub.f] = pub.d BY <1>f, <1>t, <2>1, Zenon DEF Named, Types
  <2>5. refs[pub.d] # 0 BY <1>f, <2>1, <2>4, NamedIsCounted, Zenon
  <2>6. \A x \in Descs \ {pub.d} : slot'[x] = slot[x] BY <1>5, <1>t, Zenon DEF Publish, Types
  <2> QED BY <1>t, <2>2, <2>3, <2>5, <2>6, Zenon DEF Counts
<1>6. ASSUME NEW c \in Contexts, CloseBody(c) \/ ExecBody(c) PROVE Counts'
  <2>0. pc[c] = "body" BY <1>6, LosesOne, Zenon
  <2>1. Named = fd /\ pub = NoPub BY <2>0, InBody, Zenon
  <2>2. ASSUME NEW f \in Fds, Loses(c, f) PROVE Counts'
    <3> DEFINE d == fd[f]
    <3>0. d \in Descs /\ refs[d] \in Nat \ {0} /\ held[d] # None
      BY <2>0, <2>2, InBodyCounted, Zenon DEF Loses
    <3>1. fd' = [fd EXCEPT ![f] = Free] /\ refs' = [refs EXCEPT ![d] = @ - 1] /\ pub' = NoPub /\ DescRelease(c, d)
      BY <2>1, <2>2, Zenon DEF Loses
    <3>2. Named' = [fd EXCEPT ![f] = Free] BY <3>1, Zenon DEF Named, NoPub
    <3>3. ASSUME NEW x \in Descs
          PROVE  Cardinality(NamesOf(Named', x)) = IF x = d THEN refs[x] - 1 ELSE refs[x]
      <4>1. refs[x] = Cardinality(NamesOf(fd, x)) BY <1>t, <2>1, Zenon DEF Counts
      <4>2. fd \in [Fds -> Descs \cup {Free}] /\ Free # x /\ Free \in Descs \cup {Free}
        BY <1>t, <1>f, Zenon DEF Types
      <4>a. \A z \in Fds : Named'[z] = IF z = f THEN Free ELSE fd[z] BY <3>2, <4>2, Zenon
      <4>3. /\ (Free = x <=> fd[f] = x) => Cardinality(NamesOf(Named', x)) = Cardinality(NamesOf(fd, x))
            /\ Free = x /\ fd[f] # x => Cardinality(NamesOf(Named', x)) = Cardinality(NamesOf(fd, x)) + 1
            /\ Free # x /\ fd[f] = x => Cardinality(NamesOf(Named', x)) = Cardinality(NamesOf(fd, x)) - 1
        BY <4>a, StoreCounts
      <4> QED BY <4>1, <4>2, <4>3, Zenon
    <3> HIDE DEF d
    <3>4. \A x \in Descs : refs'[x] = IF x = d THEN refs[x] - 1 ELSE refs[x]
      BY <1>t, <3>1, Zenon DEF Types
    <3>5. \A x \in Descs : /\ held'[x] = IF x = d /\ refs[d] = 1 THEN None ELSE held[x]
                           /\ slot'[x] = IF x = d /\ refs[d] = 1 THEN Free ELSE slot[x]
      BY <3>0, <3>1, ReleaseHolds, Zenon
    <3>6. \A x \in Descs : refs[x] \in Nat BY <1>t, Zenon DEF Types
    <3> QED BY <1>t, <3>0, <3>3, <3>4, <3>5, <3>6 DEF Counts
  <2> QED BY <1>1, <1>6, <2>2, LosesOne, Zenon
<1>7. ASSUME NEW c \in Contexts, DupBody(c) PROVE Counts'
  <2>0. pc[c] = "body" /\ op[c].fd \in Fds BY <1>7, GainsOne, Zenon
  <2>1. Named = fd BY <2>0, InBody, Zenon
  <2>2. ASSUME NEW t \in Fds, NEW s \in Descs, Gains(c, t, s) PROVE Counts'
    <3>0. refs[s] \in Nat \ {0} /\ held[s] # None BY <2>0, <2>2, InBodyCounted, Zenon DEF Gains
    <3>1. fd' = fd /\ pub' = [f |-> t, d |-> s] /\ t # op[c].fd /\ s = fd[op[c].fd]
      BY <2>2, Zenon DEF Gains
    <3>2. Named' = [fd EXCEPT ![t] = s] BY <1>f, <3>1, Zenon DEF Named
    <3>3. ASSUME NEW x \in Descs
          PROVE  Cardinality(NamesOf(Named', x)) =
                     IF x = s THEN (IF fd[t] = x THEN refs[x] ELSE refs[x] + 1)
                     ELSE IF fd[t] = x THEN refs[x] - 1 ELSE refs[x]
      <4>1. refs[x] = Cardinality(NamesOf(fd, x)) BY <1>t, <2>1, Zenon DEF Counts
      <4>2. fd \in [Fds -> Descs \cup {Free}] BY <1>t, Zenon DEF Types
      <4>3. s \in Descs \cup {Free} OBVIOUS
      <4>a. \A z \in Fds : Named'[z] = IF z = t THEN s ELSE fd[z] BY <3>2, <4>2, <4>3, Zenon
      <4>4. /\ (s = x <=> fd[t] = x) => Cardinality(NamesOf(Named', x)) = Cardinality(NamesOf(fd, x))
            /\ s = x /\ fd[t] # x => Cardinality(NamesOf(Named', x)) = Cardinality(NamesOf(fd, x)) + 1
            /\ s # x /\ fd[t] = x => Cardinality(NamesOf(Named', x)) = Cardinality(NamesOf(fd, x)) - 1
        BY <4>a, StoreCounts
      <4> QED BY <4>1, <4>4, Zenon
    <3>4. \A x \in Descs : refs[x] \in Nat BY <1>t, Zenon DEF Types
    <3>5. CASE fd[t] = Free
      <4>1. refs' = [refs EXCEPT ![s] = @ + 1] /\ UNCHANGED <<held, slot>>
        BY <2>2, <3>5, Zenon DEF Gains
      <4>2. \A x \in Descs : refs'[x] = IF x = s THEN refs[x] + 1 ELSE refs[x]
        BY <1>t, <4>1, Zenon DEF Types
      <4>3. \A x \in Descs : fd[t] # x BY <1>f, <3>5, Zenon
      <4> QED BY <1>t, <3>0, <3>3, <3>4, <4>1, <4>2, <4>3 DEF Counts
    <3>6. CASE fd[t] # Free
      <4> DEFINE d == fd[t]
      <4>1. d \in Descs /\ refs[d] \in Nat \ {0} /\ held[d] # None
        BY <2>0, <3>6, InBodyCounted, Zenon
      <4>2. DescRelease(c, d) /\ refs' = LET m == [refs EXCEPT ![d] = @ - 1] IN [m EXCEPT ![s] = @ + 1]
        BY <2>2, <3>6, Zenon DEF Gains
      <4>3. d = s => refs[d] # 1
        <5> SUFFICES ASSUME d = s PROVE refs[d] # 1 OBVIOUS
        <5>1. Cardinality(NamesOf(fd, d)) >= 2 BY <2>0, <3>1, TwoNames, Zenon
        <5>2. refs[d] = Cardinality(NamesOf(fd, d)) BY <1>t, <2>1, <4>1, Zenon DEF Counts
        <5> QED BY <4>1, <5>1, <5>2
      <4>4. \A x \in Descs : (fd[t] = x) <=> (x = d) OBVIOUS
      <4> HIDE DEF d
      <4>5. \A x \in Descs : refs'[x] = IF x = d THEN (IF d = s THEN refs[x] ELSE refs[x] - 1)
                                        ELSE IF x = s THEN refs[x] + 1 ELSE refs[x]
        BY <1>t, <4>1, <4>2, MovedCount DEF Types
      <4>6. \A x \in Descs : /\ held'[x] = IF x = d /\ refs[d] = 1 THEN None ELSE held[x]
                             /\ slot'[x] = IF x = d /\ refs[d] = 1 THEN Free ELSE slot[x]
        BY <4>1, <4>2, ReleaseHolds, Zenon
      <4>7. ASSUME NEW x \in Descs
            PROVE  /\ refs'[x] = Cardinality(NamesOf(Named', x))
                   /\ refs'[x] = 0 <=> held'[x] = None
                   /\ refs'[x] = 0 => slot'[x] = Free
        <5>1. refs'[x] = Cardinality(NamesOf(Named', x)) BY <3>3, <4>4, <4>5, Zenon
        <5>2. (refs[x] = 0 <=> held[x] = None) /\ (refs[x] = 0 => slot[x] = Free)
          BY <1>t, Zenon DEF Counts
        <5> QED BY <3>0, <3>4, <4>1, <4>3, <4>5, <4>6, <5>1, <5>2
      <4> QED BY <4>7, Zenon DEF Counts
    <3> QED BY <3>5, <3>6, Zenon
  <2> QED BY <1>1, <1>7, <2>2, GainsOne, Zenon
<1> QED BY <1>1, <1>2, <1>3, <1>4, <1>5, <1>6, <1>7, NextCases, TableKept, Zenon

\* A call obtains something nobody held open.
LEMMA ObtainKeeps ==
    ASSUME IInv, NEW c \in Contexts, NEW H \in SUBSET Late, H \cap opened = {},
           own[c] = {}, closing[c] = {}, own' = [own EXCEPT ![c] = H], opened' = opened \cup H,
           UNCHANGED <<closing, settling, held>>
    PROVE  Keeping'
<1>t. Types /\ Keeping BY Zenon DEF IInv
<1>1. \A x \in Contexts : Waits(x)' = Waits(x) BY Zenon DEF Waits
<1>2. \A x \in Contexts : own'[x] = IF x = c THEN H ELSE own[x] BY <1>t, Zenon DEF Types
<1>3. \A x \in Contexts : Owes(x)' = IF x = c THEN Owes(x) \cup H ELSE Owes(x)
  BY <1>2, Zenon DEF Owes
<1>4. \A d \in Descs : held[d] \in Owned => held[d] \notin H BY <1>t, Zenon DEF Keeping
<1>5. \A x \in Contexts : Owes(x) \cap H = {} BY <1>t, Zenon DEF Keeping
<1>6. \A d \in Descs : held'[d] \in Owned => held'[d] \in opened' BY <1>t, Zenon DEF Keeping
<1>7. \A x \in Contexts : Owes(x)' \subseteq opened' BY <1>t, <1>3 DEF Keeping
<1>8. \A h \in opened' : (\E d \in Descs : held'[d] = h) \/ (\E x \in Contexts : h \in Owes(x)')
  BY <1>t, <1>3 DEF Keeping
<1>9. \A d, e \in Descs : held'[d] = held'[e] /\ held'[d] \in Owned => d = e
  BY <1>t, Zenon DEF Keeping
<1>10. \A b, x \in Contexts : \A h \in Owes(b)' \cap Owes(x)' : b = x
  BY <1>t, <1>3, <1>5 DEF Keeping
<1>11. \A d \in Descs, x \in Contexts : held'[d] \in Owned => held'[d] \notin Owes(x)'
  BY <1>t, <1>3, <1>4 DEF Keeping
<1>12. \A x \in Contexts : own'[x] \cap closing'[x] = {} /\ own'[x] \cap Waits(x)' = {}
  <2>1. Waits(c) \cap H = {} BY <1>5, OwesIs, Zenon
  <2> QED BY <1>t, <1>1, <1>2, <2>1 DEF Keeping
<1> QED BY <1>6, <1>7, <1>8, <1>9, <1>10, <1>11, <1>12, Zenon DEF Keeping

\* A context closes a handle it owes.
LEMMA DropKeeps ==
    ASSUME IInv, NEW c \in Contexts, NEW h \in Owes(c), opened' = opened \ {h}, held' = held,
           \A x \in Contexts : Owes(x)' = IF x = c THEN Owes(x) \ {h} ELSE Owes(x),
           \A x \in Contexts : own'[x] \cap closing'[x] = {} /\ own'[x] \cap Waits(x)' = {}
    PROVE  Keeping'
<1>t. Keeping BY Zenon DEF IInv
<1>1. \A x \in Contexts \ {c} : h \notin Owes(x) BY <1>t, Zenon DEF Keeping
<1>2. \A d \in Descs : held[d] \in Owned => held[d] # h BY <1>t DEF Keeping
<1>6. \A d \in Descs : held'[d] \in Owned => held'[d] \in opened'
  BY <1>t, <1>2, Zenon DEF Keeping
<1>7. \A x \in Contexts : Owes(x)' \subseteq opened' BY <1>t, <1>1 DEF Keeping
<1>8. \A g \in opened' : (\E d \in Descs : held'[d] = g) \/ (\E x \in Contexts : g \in Owes(x)')
  BY <1>t DEF Keeping
<1>9. \A d, e \in Descs : held'[d] = held'[e] /\ held'[d] \in Owned => d = e
  BY <1>t, Zenon DEF Keeping
<1>10. \A b, x \in Contexts : \A g \in Owes(b)' \cap Owes(x)' : b = x BY <1>t DEF Keeping
<1>11. \A d \in Descs, x \in Contexts : held'[d] \in Owned => held'[d] \notin Owes(x)'
  BY <1>t DEF Keeping
<1> QED BY <1>6, <1>7, <1>8, <1>9, <1>10, <1>11, Zenon DEF Keeping

\* What a call that binds still owes, and what is open then.
LEMMA BindOwes ==
    ASSUME IInv, NEW c \in Contexts, NEW f \in Fds, NEW d \in Descs, NEW h \in Handles,
           Binds(c, f, d, h), UNCHANGED <<closing, settling>>
    PROVE  /\ h \in own[c] => /\ h \in Owned /\ h \in Owes(c) /\ opened' = opened
                              /\ \A x \in Contexts : Owes(x)' = IF x = c THEN Owes(x) \ {h} ELSE Owes(x)
           /\ h \notin own[c] => /\ \A x \in Contexts : Owes(x)' = Owes(x)
                                 /\ \/ h = NullDev /\ h \notin Owned /\ opened' = opened
                                    \/ h \in Owned /\ h \notin opened /\ opened' = opened \cup {h}
           /\ \A x \in Contexts : own'[x] \cap closing'[x] = {} /\ own'[x] \cap Waits(x)' = {}
<1>t. Types /\ Keeping BY Zenon DEF IInv
<1>n. NullDev \notin Owned /\ Sockets \subseteq Owned /\ Late \subseteq Owned /\ Sockets \cap Late = {}
  BY HandlesAssumption, Zenon DEF Handles, Owned
<1>2. \A x \in Contexts : own'[x] = IF x = c THEN own[x] \ {h} ELSE own[x]
  BY <1>t, Zenon DEF Binds, Types
<1>3. \A x \in Contexts : Waits(x)' = Waits(x) /\ closing'[x] = closing[x] BY Zenon DEF Waits
<1>4. \A x \in Contexts : Owes(x)' = own'[x] \cup closing[x] \cup Waits(x)
  <2>1. \A x \in Contexts : Owes(x)' = own'[x] \cup closing'[x] \cup Waits(x)'
    BY Zenon DEF Owes, Waits
  <2> QED BY <1>3, <2>1, Zenon
<1>5. \A x \in Contexts : own'[x] \cap closing'[x] = {} /\ own'[x] \cap Waits(x)' = {}
  <2> SUFFICES ASSUME NEW x \in Contexts
               PROVE  own'[x] \cap closing'[x] = {} /\ own'[x] \cap Waits(x)' = {}
    OBVIOUS
  <2>1. own'[x] \subseteq own[x] /\ closing'[x] = closing[x] /\ Waits(x)' = Waits(x)
    BY <1>2, <1>3, Zenon
  <2>2. own[x] \cap closing[x] = {} /\ own[x] \cap Waits(x) = {} BY <1>t, Zenon DEF Keeping
  <2> QED BY <2>1, <2>2, Zenon
<1>6. CASE h \in own[c]
  <2>1. h \in Owned /\ opened' = opened BY <1>t, <1>n, <1>6, Zenon DEF Binds, Types
  <2>2. h \notin closing[c] /\ h \notin Waits(c) BY <1>t, <1>6, Zenon DEF Keeping
  <2>3. h \in Owes(c) BY <1>6, OwesIs, Zenon
  <2>4. \A x \in Contexts : Owes(x)' = IF x = c THEN Owes(x) \ {h} ELSE Owes(x)
    BY <1>2, <1>4, <2>2, OwesIs, Zenon
  <2> QED BY <1>5, <1>6, <2>1, <2>3, <2>4, Zenon
<1>7. CASE h \notin own[c]
  <2>1. \A x \in Contexts : Owes(x)' = Owes(x) BY <1>2, <1>4, <1>7, OwesIs, Zenon
  <2>2. \/ h = NullDev /\ h \notin Owned /\ opened' = opened
        \/ h \in Owned /\ h \notin opened /\ opened' = opened \cup {h}
    BY <1>7, <1>n, Zenon DEF Binds
  <2> QED BY <1>5, <1>7, <2>1, <2>2, Zenon
<1> QED BY <1>6, <1>7, Zenon

\* A description nobody counts takes a handle over from the call that obtained
\* it, or names the null device or a new socket.
LEMMA BindKeeps ==
    ASSUME IInv, NEW c \in Contexts, NEW f \in Fds, NEW d \in Descs, NEW h \in Handles,
           Binds(c, f, d, h), UNCHANGED <<closing, settling>>
    PROVE  Keeping'
<1>t. Types /\ Keeping BY Zenon DEF IInv
<1>0. held[d] = None BY Zenon DEF Binds, IInv, Counts
<1>n. None \notin Owned BY HandlesAssumption, Zenon DEF Handles, Owned
<1>1. \A x \in Descs : held'[x] = IF x = d THEN h ELSE held[x] BY <1>t, Zenon DEF Binds, Types
<1>5. \A x \in Contexts : own'[x] \cap closing'[x] = {} /\ own'[x] \cap Waits(x)' = {}
  BY BindOwes, Zenon
<1>6. CASE h \in own[c]
  <2>1. h \in Owned /\ opened' = opened BY <1>6, BindOwes, Zenon
  <2>3. h \in Owes(c) BY <1>6, BindOwes, Zenon
  <2>4. \A x \in Contexts : Owes(x)' = IF x = c THEN Owes(x) \ {h} ELSE Owes(x)
    BY <1>6, BindOwes, Zenon
  <2>5. \A x \in Contexts \ {c} : h \notin Owes(x) BY <1>t, <2>3, Zenon DEF Keeping
  <2>6. \A x \in Descs : held[x] # h BY <1>t, <2>1, <2>3 DEF Keeping
  <2>7. h \in opened BY <1>t, <2>3, Zenon DEF Keeping
  <2>8. \A x \in Descs : held'[x] \in Owned => held'[x] \in opened'
    BY <1>t, <1>1, <2>1, <2>7, Zenon DEF Keeping
  <2>9. \A x \in Contexts : Owes(x)' \subseteq opened' BY <1>t, <2>1, <2>4 DEF Keeping
  <2>10. \A g \in opened' : (\E x \in Descs : held'[x] = g) \/ (\E x \in Contexts : g \in Owes(x)')
    <3> SUFFICES ASSUME NEW g \in opened PROVE (\E x \in Descs : held'[x] = g) \/ (\E x \in Contexts : g \in Owes(x)')
      BY <2>1, Zenon
    <3>1. CASE g = h BY <1>1, <3>1, Zenon
    <3>2. CASE g # h
      <4>1. CASE \E x \in Descs : held[x] = g
        <5>1. PICK x \in Descs : held[x] = g BY <4>1, Zenon
        <5>2. g # None BY <1>n, <1>t, Zenon DEF Types
        <5> QED BY <1>0, <1>1, <5>1, <5>2, Zenon
      <4>2. CASE \E x \in Contexts : g \in Owes(x) BY <2>4, <3>2, <4>2, Zenon
      <4> QED BY <1>t, <4>1, <4>2, Zenon DEF Keeping
    <3> QED BY <3>1, <3>2, Zenon
  <2>11. \A x, e \in Descs : held'[x] = held'[e] /\ held'[x] \in Owned => x = e
    BY <1>t, <1>1, <2>6, Zenon DEF Keeping
  <2>12. \A b, x \in Contexts : \A g \in Owes(b)' \cap Owes(x)' : b = x
    BY <1>t, <2>4 DEF Keeping
  <2>13. \A e \in Descs, x \in Contexts : held'[e] \in Owned => held'[e] \notin Owes(x)'
    BY <1>t, <1>1, <2>4, <2>5 DEF Keeping
  <2> QED BY <1>5, <2>8, <2>9, <2>10, <2>11, <2>12, <2>13, Zenon DEF Keeping
<1>7. CASE h \notin own[c]
  <2>1. \A x \in Contexts : Owes(x)' = Owes(x) BY <1>7, BindOwes, Zenon
  <2>2. \/ h \notin Owned /\ opened' = opened
        \/ h \in Owned /\ h \notin opened /\ opened' = opened \cup {h}
    BY <1>7, BindOwes, Zenon
  <2>3. \A x \in Descs : h \in Owned => held[x] # h BY <1>t, <2>2 DEF Keeping
  <2>4. \A x \in Contexts : h \in Owned => h \notin Owes(x) BY <1>t, <2>2, Zenon DEF Keeping
  <2>8. \A x \in Descs : held'[x] \in Owned => held'[x] \in opened'
    BY <1>t, <1>1, <2>2, Zenon DEF Keeping
  <2>9. \A x \in Contexts : Owes(x)' \subseteq opened' BY <1>t, <2>1, <2>2 DEF Keeping
  <2>10. \A g \in opened' : (\E x \in Descs : held'[x] = g) \/ (\E x \in Contexts : g \in Owes(x)')
    <3>1. ASSUME NEW g \in opened PROVE (\E x \in Descs : held'[x] = g) \/ (\E x \in Contexts : g \in Owes(x)')
      <4>1. CASE \E x \in Descs : held[x] = g
        <5>1. PICK x \in Descs : held[x] = g BY <4>1, Zenon
        <5>2. g # None BY <1>n, <1>t, Zenon DEF Types
        <5> QED BY <1>0, <1>1, <5>1, <5>2, Zenon
      <4>2. CASE \E x \in Contexts : g \in Owes(x) BY <2>1, <4>2, Zenon
      <4> QED BY <1>t, <4>1, <4>2, Zenon DEF Keeping
    <3> QED BY <1>1, <2>2, <3>1, Zenon
  <2>11. \A x, e \in Descs : held'[x] = held'[e] /\ held'[x] \in Owned => x = e
    BY <1>t, <1>1, <2>3 DEF Keeping
  <2>12. \A b, x \in Contexts : \A g \in Owes(b)' \cap Owes(x)' : b = x
    BY <1>t, <2>1, Zenon DEF Keeping
  <2>13. \A e \in Descs, x \in Contexts : held'[e] \in Owned => held'[e] \notin Owes(x)'
    BY <1>t, <1>1, <2>1, <2>4 DEF Keeping
  <2> QED BY <1>5, <2>8, <2>9, <2>10, <2>11, <2>12, <2>13, Zenon DEF Keeping
<1> QED BY <1>6, <1>7, Zenon

\* What an unlock takes out of g_settling, and leaves there.
LEMMA UnlockMoves ==
    ASSUME IInv, NEW c \in Contexts, Unlock(c)
    PROVE  /\ \A x \in Contexts : closing'[x] = IF x = c THEN Waits(x) ELSE closing[x]
           /\ \A x \in Contexts : Waits(x)' = IF x = c THEN {} ELSE Waits(x)
           /\ closing[c] = {} /\ UNCHANGED <<held, opened, own>>
<1>t. Types /\ Calling BY Zenon DEF IInv
<1>1. closing[c] = {} /\ UNCHANGED <<held, opened, own>> BY <1>t, Zenon DEF Unlock, Calling
<1>2. \A x \in Contexts : closing'[x] = IF x = c THEN Waits(x) ELSE closing[x]
  BY <1>t, Zenon DEF Unlock, Waits, Types
<1>3. settling' = settling \ {s \in settling : s.owner = c} BY Zenon DEF Unlock
<1>4. \A x \in Contexts : Waits(x)' = IF x = c THEN {} ELSE Waits(x)
  <2>1. {s \in settling' : s.owner = c} = {} BY <1>3, Zenon
  <2>2. \A x \in Contexts \ {c} : {s \in settling' : s.owner = x} = {s \in settling : s.owner = x}
    BY <1>3, Zenon
  <2> QED BY <2>1, <2>2, Zenon DEF Waits
<1> QED BY <1>1, <1>2, <1>4, Zenon

\* A context closes one handle of those it owes.
LEMMA SettlesOne ==
    ASSUME IInv, NEW c \in Contexts, Settle(c) \/ GiveBack(c)
    PROVE  /\ UNCHANGED <<fd, pub, held>>
           /\ \A x \in Contexts : own'[x] \cap closing'[x] = {} /\ own'[x] \cap Waits(x)' = {}
           /\ \E h \in Owes(c) :
                  /\ opened' = opened \ {h}
                  /\ \A x \in Contexts : Owes(x)' = IF x = c THEN Owes(x) \ {h} ELSE Owes(x)
<1>t. Types /\ Keeping /\ Calling BY Zenon DEF IInv
<1>0. pc[c] = "settle" /\ UNCHANGED <<fd, pub, held, settling>>
  BY Zenon DEF Settle, GiveBack, table
<1>1. Waits(c) = {}
  <2>1. holder # c BY <1>t, <1>0, Zenon DEF Calling
  <2> QED BY <2>1, Zenon DEF IInv, Waiting, Waits
<1>2. \A x \in Contexts : Waits(x)' = Waits(x) BY <1>0, Zenon DEF Waits
<1>3. \A x \in Contexts : Owes(x)' = own'[x] \cup closing'[x] \cup Waits(x)
  BY <1>2, Zenon DEF Owes, Waits
<1>4. PICK h \in own[c] \cup closing[c] :
          /\ opened' = opened \ {h}
          /\ \A x \in Contexts : /\ own'[x] = IF x = c THEN own[x] \ {h} ELSE own[x]
                                 /\ closing'[x] = IF x = c THEN closing[x] \ {h} ELSE closing[x]
  <2>1. CASE Settle(c)
    <3>1. PICK h \in closing[c] : closing' = [closing EXCEPT ![c] = @ \ {h}] /\ opened' = opened \ {h}
      BY <2>1, Zenon DEF Settle
    <3>2. own' = own /\ h \notin own[c] BY <2>1, <1>t, Zenon DEF Settle, Keeping
    <3> QED BY <1>t, <3>1, <3>2, Zenon DEF Types
  <2>2. CASE GiveBack(c)
    <3>1. PICK h \in own[c] : own' = [own EXCEPT ![c] = @ \ {h}] /\ opened' = opened \ {h}
      BY <2>2, Zenon DEF GiveBack
    <3>2. closing' = closing /\ closing[c] \ {h} = closing[c]
      BY <2>2, <1>t, Zenon DEF GiveBack, Keeping
    <3>3. \A x \in Contexts : own'[x] = IF x = c THEN own[x] \ {h} ELSE own[x]
      BY <1>t, <3>1, Zenon DEF Types
    <3>4. \A x \in Contexts : closing'[x] = IF x = c THEN closing[x] \ {h} ELSE closing[x]
      BY <3>2, Zenon
    <3> QED BY <3>1, <3>3, <3>4, Zenon
  <2> QED BY <2>1, <2>2, Zenon
<1>5. h \in Owes(c) BY OwesIs, Zenon
<1>6. \A x \in Contexts : Owes(x)' = IF x = c THEN Owes(x) \ {h} ELSE Owes(x)
  BY <1>1, <1>3, <1>4, OwesIs, Zenon
<1>7. \A x \in Contexts : own'[x] \cap closing'[x] = {} /\ own'[x] \cap Waits(x)' = {}
  <2> SUFFICES ASSUME NEW x \in Contexts
               PROVE  own'[x] \cap closing'[x] = {} /\ own'[x] \cap Waits(x)' = {}
    OBVIOUS
  <2>1. own'[x] \subseteq own[x] /\ closing'[x] \subseteq closing[x] /\ Waits(x)' = Waits(x)
    BY <1>2, <1>4, Zenon
  <2>2. own[x] \cap closing[x] = {} /\ own[x] \cap Waits(x) = {} BY <1>t, Zenon DEF Keeping
  <2> QED BY <2>1, <2>2, Zenon
<1> QED BY <1>0, <1>4, <1>5, <1>6, <1>7, Zenon

\* Every open handle keeps its one keeper.
LEMMA NextKeeping == IInv /\ [Next]_vars => Keeping'
<1> SUFFICES ASSUME IInv, [Next]_vars PROVE Keeping' OBVIOUS
<1>t. Types /\ Keeping /\ Calling BY Zenon DEF IInv
<1>1. ASSUME UNCHANGED <<held, settling, opened, own, closing>> PROVE Keeping'
  <2>1. \A x : Owes(x)' = Owes(x) /\ Waits(x)' = Waits(x) BY <1>1, Zenon DEF Owes, Waits
  <2> QED BY <1>t, <1>1, <2>1, Zenon DEF Keeping
<1>2. CASE UNCHANGED vars BY <1>1, <1>2, Zenon DEF vars, table, locals
<1>3. ASSUME NEW c \in Contexts, NEW h \in Files \cup Dirs, Open(c, h) PROVE Keeping'
  <2>1. pc[c] = "idle" /\ h \notin opened /\ opened' = opened \cup {h} /\ own' = [own EXCEPT ![c] = {h}]
        /\ UNCHANGED <<closing, settling, held>>
    BY <1>3, Zenon DEF Open, Begin, table
  <2>2. own[c] = {} /\ closing[c] = {} BY <1>t, <2>1, Zenon DEF Calling
  <2>3. {h} \in SUBSET Late /\ {h} \cap opened = {} BY <2>1, Zenon DEF Late
  <2> QED BY <2>1, <2>2, <2>3, ObtainKeeps, Zenon
<1>4. ASSUME NEW c \in Contexts, NEW h1 \in Channels, NEW h2 \in Channels, Pipe(c, h1, h2) PROVE Keeping'
  <2>1. pc[c] = "idle" /\ {h1, h2} \subseteq Channels \ opened /\ opened' = opened \cup {h1, h2}
        /\ own' = [own EXCEPT ![c] = {h1, h2}] /\ UNCHANGED <<closing, settling, held>>
    BY <1>4, Zenon DEF Pipe, Begin, table
  <2>2. own[c] = {} /\ closing[c] = {} BY <1>t, <2>1, Zenon DEF Calling
  <2>3. {h1, h2} \in SUBSET Late /\ {h1, h2} \cap opened = {} BY <2>1, Zenon DEF Late
  <2> QED BY <2>1, <2>2, <2>3, ObtainKeeps, Zenon
<1>5. ASSUME NEW c \in Contexts,
             \/ \E o \in Calls : Call(c, o)
             \/ \E f \in Fds : Read(c, f)
             \/ Lock(c) \/ Publish(c) \/ Return(c) \/ EndRead(c)
      PROVE  Keeping'
  <2>1. UNCHANGED <<held, settling, opened, own, closing>>
    BY <1>5, Zenon DEF Call, Begin, Read, Lock, Publish, Return, EndRead, table, locals
  <2> QED BY <1>1, <2>1, Zenon
<1>6. ASSUME NEW c \in Contexts, BindNew(c) PROVE Keeping'
  <2>1. UNCHANGED <<closing, settling>> BY <1>6, BindsOne, Zenon
  <2>2. ASSUME NEW f \in Fds, NEW d \in Descs, NEW h \in Handles, Binds(c, f, d, h) PROVE Keeping'
    BY <2>1, <2>2, BindKeeps, Zenon
  <2> QED BY <1>1, <1>6, <2>1, <2>2, BindsOne, Zenon
<1>7. ASSUME NEW c \in Contexts, CloseBody(c) \/ ExecBody(c) PROVE Keeping'
  <2>0. pc[c] = "body" /\ UNCHANGED <<holder, own, closing>> BY <1>7, LosesOne, Zenon
  <2>1. ASSUME NEW f \in Fds, Loses(c, f) PROVE Keeping'
    <3>1. fd[f] \in Descs /\ held[fd[f]] # None /\ DescRelease(c, fd[f])
      BY <2>0, <2>1, InBodyCounted, Zenon DEF Loses
    <3> QED BY <2>0, <3>1, InBody, ReleaseKeeps, Zenon
  <2> QED BY <1>1, <1>7, <2>0, <2>1, LosesOne, Zenon
<1>8. ASSUME NEW c \in Contexts, DupBody(c) PROVE Keeping'
  <2>0. pc[c] = "body" /\ UNCHANGED <<holder, own, closing>> BY <1>8, GainsOne, Zenon
  <2>1. ASSUME NEW t \in Fds, NEW s \in Descs, Gains(c, t, s) PROVE Keeping'
    <3>1. CASE fd[t] # Free
      <4>1. fd[t] \in Descs /\ held[fd[t]] # None /\ DescRelease(c, fd[t])
        BY <2>0, <2>1, <3>1, InBodyCounted, Zenon DEF Gains
      <4> QED BY <2>0, <4>1, InBody, ReleaseKeeps, Zenon
    <3>2. CASE fd[t] = Free BY <1>1, <2>0, <2>1, <3>2, Zenon DEF Gains
    <3> QED BY <3>1, <3>2, Zenon
  <2> QED BY <1>1, <1>8, <2>0, <2>1, GainsOne, Zenon
<1>9. ASSUME NEW c \in Contexts, Unlock(c) PROVE Keeping'
  <2>1. /\ \A x \in Contexts : closing'[x] = IF x = c THEN Waits(x) ELSE closing[x]
        /\ \A x \in Contexts : Waits(x)' = IF x = c THEN {} ELSE Waits(x)
        /\ closing[c] = {} /\ UNCHANGED <<held, opened, own>>
    BY <1>9, UnlockMoves, Zenon
  <2>2. \A x \in Contexts : Owes(x)' = own'[x] \cup closing'[x] \cup Waits(x)'
    BY Zenon DEF Owes, Waits
  <2>3. \A x \in Contexts : Owes(x)' = Owes(x) BY <2>1, <2>2, OwesIs, Zenon
  <2>4. \A x \in Contexts : own'[x] \cap closing'[x] = {} /\ own'[x] \cap Waits(x)' = {}
    BY <1>t, <2>1, Zenon DEF Keeping
  <2> QED BY <1>t, <2>1, <2>3, <2>4 DEF Keeping
<1>10. ASSUME NEW c \in Contexts, Settle(c) \/ GiveBack(c) PROVE Keeping'
  BY <1>10, SettlesOne, DropKeeps, Zenon
<1> QED BY <1>2, <1>3, <1>4, <1>5, <1>6, <1>7, <1>8, <1>9, <1>10, NextCases, Zenon

-----------------------------------------------------------------------------
\* The invariant is inductive.
LEMMA Inductive == Spec => []IInv
<1>1. IInv /\ [Next]_vars => IInv'
  BY NextTypes, NextCalling, NextPublishing, NextCounts, NextPlaces, NextWaiting, NextKeeping,
     NextReaders, Zenon DEF IInv
<1> QED BY InitIInv, <1>1, PTL DEF Spec

\* For every number of contexts, descriptors, descriptions and places: the count
\* of a description is exactly the number of descriptors that name it, a
\* descriptor found free has a description to be had, and no two directories
\* share the place of a name (okm_fd_bind, okm_fd_dup, desc_release).
THEOREM RefsExactAlways == Spec => []RefsExact
<1>1. IInv => RefsExact
  <2> SUFFICES ASSUME IInv PROVE RefsExact OBVIOUS
  <2>1. \A d \in Descs : /\ refs[d] = Cardinality({f \in Fds : Named[f] = d})
                         /\ refs[d] = 0 <=> held[d] = None
    BY Zenon DEF IInv, Counts, NamesOf
  <2>2. ASSUME NEW c \in Contexts, pc[c] = "body", FdAlloc(0) # Free PROVE DescAlloc # Free
    <3>1. DescAlloc \in Descs BY <2>2, Allocated, Zenon
    <3> QED BY <3>1 DEF Descs, Free
  <2>3. slotUsed = {slot[d] : d \in Descs} \ {Free}
    <3>1. Free \notin slotUsed BY DEF IInv, Types, Slots, Free
    <3> QED BY <3>1 DEF IInv, Places
  <2>4. \A d, e \in Descs : slot[d] = slot[e] /\ slot[d] # Free => d = e
    BY Zenon DEF IInv, Places
  <2> QED BY <2>1, <2>2, <2>3, <2>4, Zenon DEF RefsExact
<1> QED BY Inductive, <1>1, PTL

\* For every number of contexts and handles: every handle the environment holds
\* open has exactly one keeper, a description or a context, so none leaks and
\* none is closed twice (desc_release, okm_unlock, close_owned, and the paths of
\* do_openat and pipe2 that find no descriptor).
THEOREM OneKeeperAlways == Spec => []OneKeeper
<1>1. IInv => OneKeeper
  <2> SUFFICES ASSUME IInv PROVE OneKeeper OBVIOUS
  <2>1. opened = {h \in Owned : \/ \E d \in Descs : held[d] = h
                                \/ \E c \in Contexts : h \in Owes(c)}
    BY DEF IInv, Keeping, Types
  <2>2. ASSUME NEW h \in opened
        PROVE  /\ \A d, e \in Descs : held[d] = h /\ held[e] = h => d = e
               /\ \A b, c \in Contexts : h \in Owes(b) /\ h \in Owes(c) => b = c
               /\ \A d \in Descs, c \in Contexts : held[d] = h => h \notin Owes(c)
    <3>1. h \in Owned BY Zenon DEF IInv, Types
    <3> QED BY <3>1 DEF IInv, Keeping
  <2>3. \A s \in settling : s.owner = holder BY Zenon DEF IInv, Waiting
  <2> QED BY <2>1, <2>2, <2>3, Zenon DEF OneKeeper
<1> QED BY Inductive, <1>1, PTL

\* For every number of contexts: a read that found its description without the
\* lock uses a live description of an open handle (okm_desc_of), however many
\* others open, close and duplicate other descriptors meanwhile.
THEOREM ReadSeesOpenAlways == Spec => []ReadSeesOpen
<1>1. IInv => ReadSeesOpen
  <2> SUFFICES ASSUME IInv, NEW c \in Contexts, pc[c] = "using"
               PROVE  fd[op[c].fd] = got[c] /\ held[got[c]] \in opened \cup {NullDev}
    BY Zenon DEF ReadSeesOpen
  <2> DEFINE f == op[c].fd
  <2>1. f \in Fds /\ got[c] \in Descs /\ fd[f] = got[c] /\ ~Going(f) BY Zenon DEF IInv, Readers
  <2>2. Named[f] = fd[f]
    <3>1. CASE pub = NoPub BY <3>1, Zenon DEF Named, NoPub
    <3>2. CASE pub # NoPub
      <4>1. PICK x \in Contexts : pc[x] = "publish" BY <3>2, Zenon DEF IInv, Publishing
      <4>2. pub.f \in Fds /\ (op[x].k = "dup2" => pub.f = op[x].to) /\ (op[x].k # "dup2" => fd[pub.f] = Free)
        BY <4>1, Zenon DEF IInv, Publishing
      <4>3. pub.f # f
        <5>1. CASE op[x].k = "dup2" BY <2>1, <4>2, <5>1, Zenon DEF Going
        <5>2. CASE op[x].k # "dup2" BY <2>1, <4>2, <5>2 DEF Descs, Free
        <5> QED BY <5>1, <5>2, Zenon
      <4> QED BY <2>1, <4>2, <4>3, Zenon DEF Named, IInv, Types
    <3> QED BY <3>1, <3>2, Zenon
  <2>3. Named[f] # Free BY <2>1, <2>2 DEF Descs, Free
  <2>4. held[got[c]] \in Handles BY <2>1, <2>2, <2>3, NamedIsCounted, Zenon
  <2>5. held[got[c]] \in Owned => held[got[c]] \in opened BY <2>1, Zenon DEF IInv, Keeping
  <2> QED BY <2>1, <2>4, <2>5, Zenon DEF Handles
<1> QED BY Inductive, <1>1, PTL

-----------------------------------------------------------------------------
\* What FdSpec's variables are: the mapping in FdTable.
NamesNow == [f \in Fds |-> IF Named[f] = Free THEN None ELSE held[Named[f]]]
OwesNow == [c \in Contexts |-> Owes(c)]

\* What a descriptor names, by its description.
LEMMA NameIs ==
    ASSUME IInv, NEW f \in Fds
    PROVE  /\ Named[f] = Free => NamesNow[f] = None
           /\ Named[f] # Free => /\ Named[f] \in Descs /\ NamesNow[f] = held[Named[f]]
                                 /\ NamesNow[f] \in Handles /\ NamesNow[f] # None
BY NamedIsCounted, HandlesAssumption, Zenon DEF NamesNow

\* The table begins with the program's streams, and nothing owed.
LEMMA InitRefines == Init => Fd!FdInit
<1> SUFFICES ASSUME Init PROVE Fd!FdInit OBVIOUS
<1>0. IInv BY InitIInv, Zenon
<1>1. NamesNow \in [Fds -> {NullDev} \cup {None}]
  <2> SUFFICES ASSUME NEW f \in Fds PROVE NamesNow[f] \in {NullDev, None} BY Zenon DEF NamesNow
  <2>1. CASE Named[f] = Free BY <1>0, <2>1, NameIs, Zenon
  <2>2. CASE Named[f] # Free
    <3>1. NamesNow[f] = held[Named[f]] /\ Named[f] \in Descs BY <1>0, <2>2, NameIs, Zenon
    <3> QED BY <3>1, Zenon DEF Init
  <2> QED BY <2>1, <2>2, Zenon
<1>2. OwesNow = [c \in Contexts |-> {}]
  <2>1. \A c \in Contexts : Owes(c) = {} BY Zenon DEF Init, Owes
  <2> QED BY <2>1, Zenon DEF OwesNow
<1>3. opened = {} BY Zenon DEF Init
<1> QED BY <1>1, <1>2, <1>3, Zenon DEF Fd!FdInit, NamesNow, OwesNow

\* A step that changes neither names nor debts nor what is open.
LEMMA KeptRefines ==
    ASSUME Named' = Named, UNCHANGED <<held, opened>>, \A c \in Contexts : Owes(c)' = Owes(c)
    PROVE  UNCHANGED Fd!fvars
<1>1. NamesNow' = NamesNow BY Zenon DEF NamesNow
<1>2. OwesNow' = OwesNow BY Zenon DEF OwesNow
<1> QED BY <1>1, <1>2, Zenon DEF Fd!fvars, NamesNow, OwesNow

\* A call obtains what nobody held open.
LEMMA ObtainRefines ==
    ASSUME IInv, NEW c \in Contexts, NEW H \in SUBSET Late, H \cap opened = {},
           pc[c] = "idle", own' = [own EXCEPT ![c] = H], opened' = opened \cup H,
           UNCHANGED <<closing, settling, held, fd, pub>>
    PROVE  Fd!FdNext
<1>t. Types /\ Calling BY Zenon DEF IInv
<1>1. own[c] = {} /\ closing[c] = {} /\ holder # c BY <1>t, Zenon DEF Calling
<1>2. Waits(c) = {} BY <1>1, Zenon DEF IInv, Waiting, Waits
<1>3. OwesNow[c] = {} BY <1>1, <1>2, OwesIs, Zenon DEF OwesNow
<1>4. \A x \in Contexts : Waits(x)' = Waits(x) BY Zenon DEF Waits
<1>5. \A x \in Contexts : Owes(x)' = own'[x] \cup closing[x] \cup Waits(x)
  <2>1. \A x \in Contexts : Owes(x)' = own'[x] \cup closing'[x] \cup Waits(x)'
    BY Zenon DEF Owes, Waits
  <2> QED BY <1>4, <2>1, Zenon
<1>6. \A x \in Contexts : own'[x] = IF x = c THEN H ELSE own[x] BY <1>t, Zenon DEF Types
<1>7. \A x \in Contexts : Owes(x)' = IF x = c THEN H ELSE Owes(x)
  BY <1>1, <1>2, <1>5, <1>6, OwesIs, Zenon
<1>8. OwesNow' = [OwesNow EXCEPT ![c] = H] BY <1>7, Zenon DEF OwesNow
<1>9. NamesNow' = NamesNow BY DEF NamesNow, Named
<1>10. Fd!Obtain(c, H) BY <1>3, <1>8, <1>9, Zenon DEF Fd!Obtain, OwesNow, NamesNow
<1>11. H \in SUBSET Owned BY Zenon DEF Owned
<1> QED BY <1>10, <1>11, Zenon DEF Fd!FdNext

\* A context closes what it owes.
LEMMA CloseRefines ==
    ASSUME IInv, NEW c \in Contexts, NEW h \in Owes(c), opened' = opened \ {h}, UNCHANGED <<held, fd, pub>>,
           \A x \in Contexts : Owes(x)' = IF x = c THEN Owes(x) \ {h} ELSE Owes(x)
    PROVE  Fd!FdNext
<1>1. h \in Owned BY Zenon DEF IInv, Keeping, Types
<1>2. OwesNow' = [OwesNow EXCEPT ![c] = @ \ {h}] /\ h \in OwesNow[c] BY Zenon DEF OwesNow
<1>3. NamesNow' = NamesNow BY DEF NamesNow, Named
<1>4. Fd!Close(c, h) BY <1>2, <1>3, Zenon DEF Fd!Close, OwesNow, NamesNow
<1> QED BY <1>1, <1>4, Zenon DEF Fd!FdNext

\* A descriptor that named nothing is given a handle.
LEMMA BindRefines ==
    ASSUME IInv, NEW c \in Contexts, pc[c] = "body", NEW f \in Fds, NEW d \in Descs, NEW h \in Handles,
           Binds(c, f, d, h), UNCHANGED <<fd, closing, settling>>
    PROVE  Fd!FdNext
<1>t. Types BY Zenon DEF IInv
<1>f. Free \notin Fds /\ Free \notin Descs BY DEF Fds, Descs, Free
<1>1. Named = fd BY InBody, Zenon
<1>2. Named' = [fd EXCEPT ![f] = d] /\ fd[f] = Free /\ refs[d] = 0
  BY <1>f, Zenon DEF Named, Binds
<1>3. \A z \in Fds : fd[z] # d
  <2>1. NamesOf(fd, d) = {} BY <1>1, <1>2, NamesFinite, Zenon DEF IInv, Counts
  <2> QED BY <2>1, Zenon DEF NamesOf
<1>4. \A x \in Descs : held'[x] = IF x = d THEN h ELSE held[x] BY <1>t, Zenon DEF Binds, Types
<1>5. \A z \in Fds : NamesNow'[z] = IF z = f THEN h ELSE NamesNow[z]
  <2>1. \A z \in Fds : Named'[z] = IF z = f THEN d ELSE fd[z] BY <1>t, <1>2, Zenon DEF Types
  <2>2. \A z \in Fds : fd[z] \in Descs \cup {Free} BY <1>t, Zenon DEF Types
  <2>3. \A z \in Fds : NamesNow'[z] = IF Named'[z] = Free THEN None ELSE held'[Named'[z]]
    BY Zenon DEF NamesNow
  <2>4. \A z \in Fds : NamesNow[z] = IF fd[z] = Free THEN None ELSE held[fd[z]]
    BY <1>1, Zenon DEF NamesNow
  <2> QED BY <1>f, <1>3, <1>4, <2>1, <2>2, <2>3, <2>4
<1>6. NamesNow' = [NamesNow EXCEPT ![f] = h] BY <1>5, Zenon DEF NamesNow
<1>7. NamesNow[f] = None BY <1>1, <1>2, NameIs, Zenon
<1>8. \/ h \in OwesNow[c] /\ OwesNow' = [OwesNow EXCEPT ![c] = @ \ {h}] /\ UNCHANGED opened
      \/ h \in Owned \ opened /\ opened' = opened \cup {h} /\ OwesNow' = OwesNow
      \/ h \in {NullDev} /\ opened' = opened /\ OwesNow' = OwesNow
  <2>1. CASE h \in own[c]
    <3>1. h \in Owes(c) /\ opened' = opened BY <2>1, BindOwes, Zenon
    <3>2. \A x \in Contexts : Owes(x)' = IF x = c THEN Owes(x) \ {h} ELSE Owes(x)
      BY <2>1, BindOwes, Zenon
    <3> QED BY <3>1, <3>2, Zenon DEF OwesNow
  <2>2. CASE h \notin own[c]
    <3>1. \A x \in Contexts : Owes(x)' = Owes(x) BY <2>2, BindOwes, Zenon
    <3>2. OwesNow' = OwesNow BY <3>1, Zenon DEF OwesNow
    <3>3. \/ h = NullDev /\ opened' = opened
          \/ h \in Owned /\ h \notin opened /\ opened' = opened \cup {h}
      BY <2>2, BindOwes, Zenon
    <3> QED BY <3>2, <3>3, Zenon
  <2> QED BY <2>1, <2>2, Zenon
<1>9. Fd!Bind(c, f, h) BY <1>6, <1>7, <1>8, Zenon DEF Fd!Bind, NamesNow, OwesNow
<1>10. h \in Owned \cup {NullDev} BY Zenon DEF Handles
<1> QED BY <1>9, <1>10, Zenon DEF Fd!FdNext

\* A description counted more than once has a name besides any given one.
LEMMA AnotherName ==
    ASSUME NEW g, NEW d, NEW f \in Fds, g[f] = d, Cardinality(NamesOf(g, d)) # 1
    PROVE  \E z \in Fds \ {f} : g[z] = d
<1> SUFFICES ASSUME \A z \in Fds \ {f} : g[z] # d PROVE FALSE OBVIOUS
<1>1. NamesOf(g, d) = {f} BY Zenon DEF NamesOf
<1> QED BY <1>1, FS_Singleton, Zenon

\* What FdSpec's Rename says of a step, besides what the names become.
Released(c) ==
    LET gone == {h \in Owned : /\ \E f \in Fds : NamesNow[f] = h
                               /\ \A f \in Fds : NamesNow'[f] # h}
    IN  \E later \in SUBSET gone :
            /\ OwesNow' = [OwesNow EXCEPT ![c] = @ \cup later]
            /\ opened' = opened \ (gone \ later)

\* Where the names change and a description is released, what lost its last
\* name is closed, or owed by the context that released it.
LEMMA ReleaseRefines ==
    ASSUME IInv, NEW c \in Contexts, NEW d \in Descs, DescRelease(c, d), holder = c,
           UNCHANGED <<holder, own, closing>>,
           \E f \in Fds : NamesNow[f] = held[d],
           refs[d] = 1 /\ held[d] \in Owned => \A f \in Fds : NamesNow'[f] # held[d],
           \A h \in Owned : (h # held[d] \/ refs[d] # 1) /\ (\E f \in Fds : NamesNow[f] = h)
                               => \E f \in Fds : NamesNow'[f] = h
    PROVE  Released(c)
<1> DEFINE gone == {h \in Owned : /\ \E f \in Fds : NamesNow[f] = h
                                  /\ \A f \in Fds : NamesNow'[f] # h}
<1>1. \A x \in Contexts \ {c} : Owes(x)' = Owes(x)
  <2>1. \A x \in Contexts \ {c} : Waits(x)' = Waits(x) BY ReleaseWaits, Zenon
  <2>2. \A x \in Contexts : Owes(x)' = own'[x] \cup closing'[x] \cup Waits(x)'
    BY Zenon DEF Owes, Waits
  <2> QED BY <2>1, <2>2, OwesIs, Zenon
<1>2. Owes(c)' = own[c] \cup closing[c] \cup Waits(c)' BY Zenon DEF Owes, Waits
<1>3. \E later \in SUBSET gone : Owes(c)' = Owes(c) \cup later /\ opened' = opened \ (gone \ later)
  <2>1. CASE refs[d] # 1
    <3>1. gone = {} BY <2>1, Zenon
    <3>2. Waits(c)' = Waits(c) /\ opened' = opened BY <2>1, ReleaseWaits, Zenon
    <3>3. Owes(c)' = Owes(c) BY <1>2, <3>2, OwesIs, Zenon
    <3> HIDE DEF gone
    <3> QED BY <3>1, <3>2, <3>3, Zenon
  <2>2. CASE refs[d] = 1 /\ held[d] \notin Owned
    <3>1. gone = {} BY <2>2, Zenon
    <3>2. Waits(c)' = Waits(c) /\ opened' = opened BY <2>2, ReleaseWaits, Zenon DEF Owned
    <3>3. Owes(c)' = Owes(c) BY <1>2, <3>2, OwesIs, Zenon
    <3> HIDE DEF gone
    <3> QED BY <3>1, <3>2, <3>3, Zenon
  <2>3. CASE refs[d] = 1 /\ held[d] \in Owned
    <3>1. gone = {held[d]} BY <2>3, Zenon
    <3>2. \/ Waits(c)' = Waits(c) \cup {held[d]} /\ opened' = opened
          \/ Waits(c)' = Waits(c) /\ opened' = opened \ {held[d]}
      BY <2>3, ReleaseWaits, Zenon
    <3> HIDE DEF gone
    <3>3. CASE Waits(c)' = Waits(c) \cup {held[d]} /\ opened' = opened
      <4>1. Owes(c)' = Owes(c) \cup gone BY <1>2, <3>1, <3>3, OwesIs, Zenon
      <4>2. opened' = opened \ (gone \ gone) BY <3>3, Zenon
      <4> QED BY <4>1, <4>2, Zenon
    <3>4. CASE Waits(c)' = Waits(c) /\ opened' = opened \ {held[d]}
      <4>1. Owes(c)' = Owes(c) \cup {} BY <1>2, <3>4, OwesIs, Zenon
      <4>2. opened' = opened \ (gone \ {}) BY <3>1, <3>4, Zenon
      <4> QED BY <4>1, <4>2, Zenon
    <3> QED BY <3>2, <3>3, <3>4, Zenon
  <2> QED BY <2>1, <2>2, <2>3, Zenon
<1>4. PICK later \in SUBSET gone : Owes(c)' = Owes(c) \cup later /\ opened' = opened \ (gone \ later)
  BY <1>3, Zenon
<1>5. OwesNow' = [OwesNow EXCEPT ![c] = @ \cup later] BY <1>1, <1>4, Zenon DEF OwesNow
<1> QED BY <1>4, <1>5, Zenon DEF Released

\* close, and a turn of exec, drop a name.
LEMMA LoseRefines ==
    ASSUME IInv, NEW c \in Contexts, pc[c] = "body", NEW f \in Fds, Loses(c, f),
           UNCHANGED <<holder, own, closing>>
    PROVE  Fd!FdNext
<1>t. Types BY Zenon DEF IInv
<1> DEFINE d == fd[f]
<1>f. Free \notin Descs BY DEF Descs, Free
<1>1. Named = fd /\ pub = NoPub /\ holder = c BY InBody, Zenon
<1>2. Named' = [fd EXCEPT ![f] = Free] BY <1>1, Zenon DEF Named, NoPub, Loses
<1>3. d \in Descs /\ held[d] # None /\ DescRelease(c, d) /\ d # Free
  BY InBodyCounted, Zenon DEF Loses
<1>4. refs[d] = Cardinality(NamesOf(fd, d)) BY <1>1, <1>3, Zenon DEF IInv, Counts
<1>5. ASSUME NEW z \in Fds \ {f}, fd[z] = d PROVE refs[d] # 1
  <2>1. Cardinality(NamesOf(fd, d)) >= 2 BY <1>5, TwoNames, Zenon
  <2> QED BY <1>4, <2>1
<1>6. NamesNow[f] = held[d] BY <1>1, <1>3, NameIs, Zenon
<1> HIDE DEF d
<1>7. \A x \in Descs : held'[x] = IF x = d /\ refs[d] = 1 THEN None ELSE held[x]
  BY <1>3, ReleaseHolds, Zenon
<1>8. \A z \in Fds : NamesNow'[z] = IF z = f THEN None ELSE NamesNow[z]
  <2>1. \A z \in Fds : Named'[z] = IF z = f THEN Free ELSE fd[z] BY <1>t, <1>2, Zenon DEF Types
  <2>2. \A z \in Fds : fd[z] \in Descs \cup {Free} BY <1>t, Zenon DEF Types
  <2>3. \A z \in Fds : NamesNow'[z] = IF Named'[z] = Free THEN None ELSE held'[Named'[z]]
    BY Zenon DEF NamesNow
  <2>4. \A z \in Fds : NamesNow[z] = IF fd[z] = Free THEN None ELSE held[fd[z]]
    BY <1>1, Zenon DEF NamesNow
  <2> QED BY <1>5, <1>7, <2>1, <2>2, <2>3, <2>4
<1>9. NamesNow' = [NamesNow EXCEPT ![f] = None] BY <1>8, Zenon DEF NamesNow
<1>10. refs[d] = 1 /\ held[d] \in Owned => \A z \in Fds : NamesNow'[z] # held[d]
  <2> SUFFICES ASSUME refs[d] = 1, held[d] \in Owned, NEW z \in Fds \ {f}, NamesNow[z] = held[d]
               PROVE  FALSE
    BY <1>3, <1>8, Zenon
  <2>1. fd[z] \in Descs /\ held[fd[z]] = held[d] BY <1>1, <1>3, NameIs, Zenon
  <2>2. fd[z] = d BY <1>3, <2>1, Zenon DEF IInv, Keeping
  <2> QED BY <1>5, <2>2, Zenon
<1>11. ASSUME NEW h \in Owned, h # held[d] \/ refs[d] # 1, NEW z \in Fds, NamesNow[z] = h
       PROVE  \E y \in Fds : NamesNow'[y] = h
  <2>1. CASE z # f BY <1>8, <1>11, <2>1, Zenon
  <2>2. CASE z = f
    <3>1. refs[d] # 1 /\ h = held[d] BY <1>6, <1>11, <2>2, Zenon
    <3>2. PICK y \in Fds \ {f} : fd[y] = d BY <1>4, <3>1, AnotherName DEF d
    <3>3. NamesNow[y] = held[d] BY <1>1, <1>3, <3>2, NameIs, Zenon
    <3> QED BY <1>8, <3>1, <3>2, <3>3, Zenon
  <2> QED BY <2>1, <2>2, Zenon
<1>12. \A h \in Owned : (h # held[d] \/ refs[d] # 1) /\ (\E z \in Fds : NamesNow[z] = h)
                           => \E z \in Fds : NamesNow'[z] = h
  BY <1>11, Zenon
<1>13. Released(c)
  <2>1. \E z \in Fds : NamesNow[z] = held[d] BY <1>6, Zenon
  <2> QED BY <1>1, <1>3, <1>10, <1>12, <2>1, ReleaseRefines, Zenon
<1>14. Fd!Drop(c, f)
  <2> DEFINE N == [NamesNow EXCEPT ![f] = None]
  <2>1. N = NamesNow' BY <1>9, Zenon
  <2>2. Fd!Drop(c, f) <=> NamesNow[f] # None /\ Fd!Rename(c, N) BY Zenon DEF Fd!Drop, NamesNow
  <2> HIDE DEF N
  <2> DEFINE gone == {h \in Owned : (\E z \in Fds : NamesNow[z] = h) /\ \A z \in Fds : N[z] # h}
             left == {h \in Owned : (\E z \in Fds : NamesNow[z] = h) /\ \A z \in Fds : NamesNow'[z] # h}
  <2>3. Fd!Rename(c, N) <=>
            /\ NamesNow' = N
            /\ \E later \in SUBSET gone :
                   /\ OwesNow' = [OwesNow EXCEPT ![c] = @ \cup later]
                   /\ opened' = opened \ (gone \ later)
    BY Zenon DEF Fd!Rename, NamesNow, OwesNow
  <2>4. gone = left BY <2>1, Zenon
  <2>5. PICK later \in SUBSET left : /\ OwesNow' = [OwesNow EXCEPT ![c] = @ \cup later]
                                     /\ opened' = opened \ (left \ later)
    BY <1>13, Zenon DEF Released
  <2> HIDE DEF gone, left
  <2>6. Fd!Rename(c, N) BY <2>1, <2>3, <2>4, <2>5, Zenon
  <2> QED BY <1>3, <1>6, <2>2, <2>6, Zenon
<1> QED BY <1>14, Zenon DEF Fd!FdNext

\* dup and dup2 give a handle another name, and take away the one that was there.
LEMMA GainRefines ==
    ASSUME IInv, NEW c \in Contexts, pc[c] = "body", op[c].fd \in Fds, NEW t \in Fds, NEW s \in Descs,
           Gains(c, t, s), UNCHANGED <<holder, own, closing>>
    PROVE  Fd!FdNext
<1>t. Types BY Zenon DEF IInv
<1> DEFINE f == op[c].fd
           d == fd[t]
<1>f. Free \notin Fds /\ Free \notin Descs BY DEF Fds, Descs, Free
<1>1. Named = fd /\ holder = c BY InBody, Zenon
<1>2. fd[f] = s /\ t # f BY Zenon DEF Gains
<1>3. Named' = [fd EXCEPT ![t] = s] BY <1>f, Zenon DEF Named, Gains
<1>4. NamesNow[f] = held[s] /\ held[s] # None BY <1>1, <1>2, <1>f, NameIs, Zenon
<1>5. \A z \in Fds : Named'[z] = IF z = t THEN s ELSE fd[z] BY <1>t, <1>3, Zenon DEF Types
<1>6. \A z \in Fds : fd[z] \in Descs \cup {Free} BY <1>t, Zenon DEF Types
<1>7. \A z \in Fds : NamesNow'[z] = IF Named'[z] = Free THEN None ELSE held'[Named'[z]]
  BY Zenon DEF NamesNow
<1>8. \A z \in Fds : NamesNow[z] = IF fd[z] = Free THEN None ELSE held[fd[z]]
  BY <1>1, Zenon DEF NamesNow
<1>9. Released(c) /\ \A z \in Fds : NamesNow'[z] = IF z = t THEN NamesNow[f] ELSE NamesNow[z]
  <2>1. CASE d = Free
    <3>1. UNCHANGED <<held, settling, opened>> BY <2>1, Zenon DEF Gains
    <3>2. \A z \in Fds : NamesNow'[z] = IF z = t THEN NamesNow[f] ELSE NamesNow[z]
      BY <1>f, <1>4, <1>5, <1>7, <1>8, <3>1
    <3>3. {h \in Owned : (\E z \in Fds : NamesNow[z] = h) /\ \A z \in Fds : NamesNow'[z] # h} = {}
      <4> SUFFICES ASSUME NEW h \in Owned, NEW z \in Fds, NamesNow[z] = h, NamesNow'[z] # h PROVE FALSE
        OBVIOUS
      <4>1. z = t BY <3>2, Zenon
      <4>2. h = None BY <1>8, <2>1, <4>1, Zenon
      <4> QED BY <4>2, HandlesAssumption, Zenon DEF Handles
    <3>4. \A x \in Contexts : Owes(x)' = Owes(x) BY <3>1, Zenon DEF Owes
    <3>5. OwesNow' = [OwesNow EXCEPT ![c] = @ \cup {}] BY <3>4, Zenon DEF OwesNow
    <3>6. opened' = opened \ ({} \ {}) BY <3>1, Zenon
    <3> QED BY <3>2, <3>3, <3>5, <3>6, Zenon DEF Released
  <2>2. CASE d # Free
    <3>1. d \in Descs /\ held[d] # None BY <2>2, InBodyCounted, Zenon
    <3>2. DescRelease(c, d) BY <2>2, Zenon DEF Gains
    <3>3. refs[d] = Cardinality(NamesOf(fd, d)) BY <1>1, <3>1, Zenon DEF IInv, Counts
    <3>4. ASSUME NEW z \in Fds \ {t}, fd[z] = d PROVE refs[d] # 1
      <4>1. Cardinality(NamesOf(fd, d)) >= 2 BY <3>4, TwoNames, Zenon
      <4> QED BY <3>3, <4>1
    <3>5. d = s => refs[d] # 1 BY <1>2, <3>4, Zenon
    <3>6. NamesNow[t] = held[d] BY <1>8, <2>2, Zenon
    <3>7. refs[d] # 1 => \E y \in Fds \ {t} : fd[y] = d BY <3>3, AnotherName
    <3> HIDE DEF d, f
    <3>8. \A x \in Descs : held'[x] = IF x = d /\ refs[d] = 1 THEN None ELSE held[x]
      BY <3>1, <3>2, ReleaseHolds, Zenon
    <3>9. \A z \in Fds : NamesNow'[z] = IF z = t THEN NamesNow[f] ELSE NamesNow[z]
      <4>1. held'[s] = held[s] BY <3>5, <3>8, Zenon
      <4> QED BY <1>f, <1>4, <1>5, <1>6, <1>7, <1>8, <3>4, <3>8, <4>1
    <3>10. refs[d] = 1 /\ held[d] \in Owned => \A z \in Fds : NamesNow'[z] # held[d]
      <4> SUFFICES ASSUME refs[d] = 1, held[d] \in Owned, NEW z \in Fds, NamesNow'[z] = held[d]
                   PROVE  FALSE
        OBVIOUS
      <4>1. CASE z = t
        <5>1. held[s] = held[d] BY <1>4, <3>9, <4>1, Zenon
        <5>2. s = d BY <3>1, <5>1, Zenon DEF IInv, Keeping
        <5> QED BY <3>5, <5>2, Zenon
      <4>2. CASE z # t
        <5>1. NamesNow[z] = held[d] BY <3>9, <4>2, Zenon
        <5>2. fd[z] \in Descs /\ held[fd[z]] = held[d] BY <1>6, <1>8, <3>1, <5>1, Zenon
        <5>3. fd[z] = d BY <3>1, <5>2, Zenon DEF IInv, Keeping
        <5> QED BY <3>4, <4>2, <5>3, Zenon
      <4> QED BY <4>1, <4>2, Zenon
    <3>11. ASSUME NEW h \in Owned, h # held[d] \/ refs[d] # 1, NEW z \in Fds, NamesNow[z] = h
           PROVE  \E y \in Fds : NamesNow'[y] = h
      <4>1. CASE z # t BY <3>9, <3>11, <4>1, Zenon
      <4>2. CASE z = t
        <5>1. refs[d] # 1 /\ h = held[d] BY <3>6, <3>11, <4>2, Zenon
        <5>2. PICK y \in Fds \ {t} : fd[y] = d BY <3>7, <5>1, Zenon
        <5>3. NamesNow[y] = held[d] BY <1>8, <1>f, <3>1, <5>2, Zenon
        <5> QED BY <3>9, <5>1, <5>2, <5>3, Zenon
      <4> QED BY <4>1, <4>2, Zenon
    <3>12. \A h \in Owned : (h # held[d] \/ refs[d] # 1) /\ (\E z \in Fds : NamesNow[z] = h)
                               => \E z \in Fds : NamesNow'[z] = h
      BY <3>11, Zenon
    <3>13. \E z \in Fds : NamesNow[z] = held[d] BY <3>6, Zenon
    <3>14. Released(c) BY <1>1, <3>1, <3>2, <3>10, <3>12, <3>13, ReleaseRefines, Zenon
    <3> QED BY <3>9, <3>14, Zenon
  <2> QED BY <2>1, <2>2, Zenon
<1>10. NamesNow' = [NamesNow EXCEPT ![t] = NamesNow[f]] BY <1>9, Zenon DEF NamesNow
<1>11. Fd!Dup(c, f, t)
  <2> DEFINE N == [NamesNow EXCEPT ![t] = NamesNow[f]]
  <2>1. N = NamesNow' BY <1>10, Zenon
  <2>2. Fd!Dup(c, f, t) <=> NamesNow[f] # None /\ Fd!Rename(c, N) BY Zenon DEF Fd!Dup, NamesNow
  <2> HIDE DEF N, f
  <2> DEFINE gone == {h \in Owned : (\E z \in Fds : NamesNow[z] = h) /\ \A z \in Fds : N[z] # h}
             left == {h \in Owned : (\E z \in Fds : NamesNow[z] = h) /\ \A z \in Fds : NamesNow'[z] # h}
  <2>3. Fd!Rename(c, N) <=>
            /\ NamesNow' = N
            /\ \E later \in SUBSET gone :
                   /\ OwesNow' = [OwesNow EXCEPT ![c] = @ \cup later]
                   /\ opened' = opened \ (gone \ later)
    BY Zenon DEF Fd!Rename, NamesNow, OwesNow
  <2>4. gone = left BY <2>1, Zenon
  <2>5. PICK later \in SUBSET left : /\ OwesNow' = [OwesNow EXCEPT ![c] = @ \cup later]
                                     /\ opened' = opened \ (left \ later)
    BY <1>9, Zenon DEF Released
  <2> HIDE DEF gone, left
  <2>6. Fd!Rename(c, N) BY <2>1, <2>3, <2>4, <2>5, Zenon
  <2> QED BY <1>4, <2>2, <2>6, Zenon
<1> QED BY <1>11, Zenon DEF Fd!FdNext

\* Every step is one of FdSpec's, or none.
LEMMA StepRefines == IInv /\ [Next]_vars => [Fd!FdNext]_(Fd!fvars)
<1> SUFFICES ASSUME IInv, [Next]_vars PROVE Fd!FdNext \/ UNCHANGED Fd!fvars OBVIOUS
<1>t. Types /\ Calling BY Zenon DEF IInv
<1>1. ASSUME UNCHANGED <<fd, pub, held, opened, own, closing, settling>> PROVE UNCHANGED Fd!fvars
  <2>1. Named' = Named /\ \A x \in Contexts : Owes(x)' = Owes(x) BY <1>1, Zenon DEF Named, Owes
  <2> QED BY <1>1, <2>1, KeptRefines, Zenon
<1>2. CASE UNCHANGED vars BY <1>1, <1>2, Zenon DEF vars, table, locals
<1>3. ASSUME NEW c \in Contexts, NEW h \in Files \cup Dirs, Open(c, h) PROVE Fd!FdNext
  <2>1. pc[c] = "idle" /\ h \notin opened /\ opened' = opened \cup {h} /\ own' = [own EXCEPT ![c] = {h}]
        /\ UNCHANGED <<closing, settling, held, fd, pub>>
    BY <1>3, Zenon DEF Open, Begin, table
  <2>2. {h} \in SUBSET Late /\ {h} \cap opened = {} BY <2>1, Zenon DEF Late
  <2> QED BY <2>1, <2>2, ObtainRefines, Zenon
<1>4. ASSUME NEW c \in Contexts, NEW h1 \in Channels, NEW h2 \in Channels, Pipe(c, h1, h2) PROVE Fd!FdNext
  <2>1. pc[c] = "idle" /\ {h1, h2} \subseteq Channels \ opened /\ opened' = opened \cup {h1, h2}
        /\ own' = [own EXCEPT ![c] = {h1, h2}] /\ UNCHANGED <<closing, settling, held, fd, pub>>
    BY <1>4, Zenon DEF Pipe, Begin, table
  <2>2. {h1, h2} \in SUBSET Late /\ {h1, h2} \cap opened = {} BY <2>1, Zenon DEF Late
  <2> QED BY <2>1, <2>2, ObtainRefines, Zenon
<1>5. ASSUME NEW c \in Contexts,
             \/ \E o \in Calls : Call(c, o)
             \/ \E f \in Fds : Read(c, f)
             \/ Lock(c) \/ Return(c) \/ EndRead(c)
      PROVE  UNCHANGED Fd!fvars
  <2>1. UNCHANGED <<fd, pub, held, settling, opened, own, closing>>
    BY <1>5, Zenon DEF Call, Begin, Read, Lock, Return, EndRead, table, locals
  <2> QED BY <1>1, <2>1, Zenon
<1>6. ASSUME NEW c \in Contexts, Publish(c) PROVE UNCHANGED Fd!fvars
  <2>1. pub.f \in Fds /\ pub.d \in Descs BY <1>6, Zenon DEF Publish, IInv, Publishing
  <2>2. pub' = NoPub /\ fd' = [fd EXCEPT ![pub.f] = pub.d] /\ UNCHANGED <<held, opened, own, closing, settling>>
    BY <1>6, Zenon DEF Publish, locals
  <2>3. Named' = Named BY <2>1, <2>2 DEF Named, NoPub, Fds, Free
  <2>4. \A x \in Contexts : Owes(x)' = Owes(x) BY <2>2, Zenon DEF Owes
  <2> QED BY <2>2, <2>3, <2>4, KeptRefines, Zenon
<1>7. ASSUME NEW c \in Contexts, BindNew(c) PROVE Fd!FdNext \/ UNCHANGED Fd!fvars
  <2>1. pc[c] = "body" /\ UNCHANGED <<fd, closing, settling>> BY <1>7, BindsOne, Zenon
  <2>2. ASSUME NEW f \in Fds, NEW d \in Descs, NEW h \in Handles, Binds(c, f, d, h) PROVE Fd!FdNext
    BY <2>1, <2>2, BindRefines, Zenon
  <2> QED BY <1>1, <1>7, <2>1, <2>2, BindsOne, Zenon
<1>8. ASSUME NEW c \in Contexts, CloseBody(c) \/ ExecBody(c) PROVE Fd!FdNext \/ UNCHANGED Fd!fvars
  <2>1. pc[c] = "body" /\ UNCHANGED <<holder, own, closing>> BY <1>8, LosesOne, Zenon
  <2>2. ASSUME NEW f \in Fds, Loses(c, f) PROVE Fd!FdNext BY <2>1, <2>2, LoseRefines, Zenon
  <2> QED BY <1>1, <1>8, <2>1, <2>2, LosesOne, Zenon
<1>9. ASSUME NEW c \in Contexts, DupBody(c) PROVE Fd!FdNext \/ UNCHANGED Fd!fvars
  <2>1. pc[c] = "body" /\ op[c].fd \in Fds /\ UNCHANGED <<holder, own, closing>>
    BY <1>9, GainsOne, Zenon
  <2>2. ASSUME NEW t \in Fds, NEW s \in Descs, Gains(c, t, s) PROVE Fd!FdNext
    BY <2>1, <2>2, GainRefines, Zenon
  <2> QED BY <1>1, <1>9, <2>1, <2>2, GainsOne, Zenon
<1>10. ASSUME NEW c \in Contexts, Unlock(c) PROVE UNCHANGED Fd!fvars
  <2>1. /\ \A x \in Contexts : closing'[x] = IF x = c THEN Waits(x) ELSE closing[x]
        /\ \A x \in Contexts : Waits(x)' = IF x = c THEN {} ELSE Waits(x)
        /\ closing[c] = {} /\ UNCHANGED <<held, opened, own>>
    BY <1>10, UnlockMoves, Zenon
  <2>2. \A x \in Contexts : Owes(x)' = own'[x] \cup closing'[x] \cup Waits(x)'
    BY Zenon DEF Owes, Waits
  <2>3. \A x \in Contexts : Owes(x)' = Owes(x) BY <2>1, <2>2, OwesIs, Zenon
  <2>4. Named' = Named BY <1>10, Zenon DEF Unlock, Named
  <2> QED BY <2>1, <2>3, <2>4, KeptRefines, Zenon
<1>11. ASSUME NEW c \in Contexts, Settle(c) \/ GiveBack(c) PROVE Fd!FdNext
  BY <1>11, SettlesOne, CloseRefines, Zenon
<1> QED BY <1>2, <1>3, <1>4, <1>5, <1>6, <1>7, <1>8, <1>9, <1>10, <1>11, NextCases, Zenon

\* For every number of contexts, descriptors and handles: the table with counts,
\* a lock and a list of what waits to be closed (okm_fd.c) does what the table
\* without them does.  A handle is closed only once no descriptor names it, only
\* once, and by the context that took its last name away.
THEOREM TableImplementsFds == Spec => ImplementsFds
BY InitRefines, StepRefines, Inductive, PTL DEF Spec, ImplementsFds, Fd!FdSafety
==============================================================================
