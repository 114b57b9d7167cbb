---------------------------- MODULE ContextTable ----------------------------
(***************************************************************************)
(* The table of per-context state (port/src/okm_context.c): an open-       *)
(* addressed table keyed by the identity the environment gives a context,  *)
(* in which a context records its thread pointer and its own record, looks *)
(* them up, and retires its entry as the last thing it does.  No lock      *)
(* guards it; an action is one access to a key, or the stores that follow. *)
(***************************************************************************)
EXTENDS Integers

CONSTANTS
    Contexts,       \* the identities of the program's contexts (keys)
    First,          \* the context the program starts on
    SnapContext,    \* the context a snapshot's initialisers ran on
    N,              \* OKM_CONTEXTS
    StartAt,        \* start_at: where the search for a key begins
    Zero,           \* the key of an entry never used
    Retired         \* OKM_RETIRED

Keys == Contexts \cup {SnapContext}
Slots == 0..(N - 1)

ASSUME ContextsAssumption ==
    /\ N \in Nat \ {0}
    /\ StartAt \in [Keys -> Slots]
    /\ First \in Contexts
    /\ Zero \notin Keys
    /\ Retired \notin Keys
    /\ Zero # Retired

VARIABLES
    key, tp, self,  \* g_slots
    recorded,       \* g_recorded
    aborted,        \* why kal_abort was called, or "no"
    pc,             \* where each context is
    op,             \* the operation it is in
    want,           \* the key it searches for
    n,              \* the loop counter of find
    free,           \* the probe number of free_slot, or N for none
    seen,           \* what the reload of free_slot's key gave
    carry,          \* rebind: the state taken from the entry it retired
    mine,           \* the thread pointer the context was given (history)
    got             \* what its last __okm_get_tp answered

slots == <<key, tp, self>>
search == <<want, n, free, seen>>
vars == <<slots, recorded, aborted, pc, op, search, carry, mine, got>>

\* The slot the search for a key looks at in its p-th turn.
ProbeAt(k, p) == (StartAt[k] + p) % N

Here(c) == ProbeAt(want[c], n[c])
FreeSlot(c) == ProbeAt(want[c], free[c])

Goto(c, l) == pc' = [pc EXCEPT ![c] = l]

\* find(key, create) is entered.
Find(c, o, k) ==
    /\ op' = [op EXCEPT ![c] = o]
    /\ want' = [want EXCEPT ![c] = k]
    /\ n' = [n EXCEPT ![c] = 0]
    /\ free' = [free EXCEPT ![c] = N]
    /\ seen' = [seen EXCEPT ![c] = Zero]
    /\ Goto(c, "probe")

Create(c) == op[c] \in {"set_tp", "set_self", "rebind"}

\* A program that starts afresh, or from a snapshot whose initialisers
\* recorded the context they ran on; the latter begins by rebinding it.
InitFresh ==
    /\ key = [s \in Slots |-> Zero]
    /\ tp = [s \in Slots |-> Zero]
    /\ recorded = FALSE
    /\ pc = [c \in Contexts |-> "unborn"]
    /\ op = [c \in Contexts |-> "none"]
    /\ want = [c \in Contexts |-> c]

InitSnapshot ==
    /\ key = [s \in Slots |-> IF s = StartAt[SnapContext] THEN SnapContext ELSE Zero]
    /\ tp = key
    /\ recorded = TRUE
    /\ pc = [c \in Contexts |-> IF c = First THEN "probe" ELSE "unborn"]
    /\ op = [c \in Contexts |-> IF c = First THEN "unbind" ELSE "none"]
    /\ want = [c \in Contexts |-> IF c = First THEN SnapContext ELSE c]

Init ==
    /\ InitFresh \/ InitSnapshot
    /\ self = tp
    /\ aborted = "no"
    /\ n = [c \in Contexts |-> 0]
    /\ free = [c \in Contexts |-> N]
    /\ seen = [c \in Contexts |-> Zero]
    /\ carry = [c \in Contexts |-> Zero]
    /\ mine = [c \in Contexts |-> Zero]
    /\ got = [c \in Contexts |-> Zero]

-----------------------------------------------------------------------------
(***************************************************************************)
(* What a context does, in order: it is started by a running one (or is    *)
(* the first), records its thread pointer and, unless it is the first, its *)
(* record, looks itself up any number of times, and, unless it is the      *)
(* first, releases its entry.  Its identity may then be given to another.  *)
(***************************************************************************)
Start(c) ==
    /\ pc[c] = "unborn"
    /\ (c = First /\ ~recorded) \/ \E x \in Contexts : pc[x] = "run"
    /\ Find(c, "set_tp", c)
    /\ UNCHANGED <<slots, recorded, aborted, carry, mine, got>>

Get(c) ==
    /\ pc[c] = "run"
    /\ Find(c, "get", c)
    /\ UNCHANGED <<slots, recorded, aborted, carry, mine, got>>

Release(c) ==
    /\ pc[c] = "run"
    /\ c # First
    /\ Find(c, "release", c)
    /\ UNCHANGED <<slots, recorded, aborted, carry, mine, got>>

-----------------------------------------------------------------------------
\* One turn of find's loop: a load of one key.
Probe(c) ==
    LET k == key[Here(c)]
        over == n[c] = N
        stop == over \/ k = Zero
    IN  /\ pc[c] = "probe"
        /\ \/ /\ ~over /\ k = want[c]
              /\ Goto(c, "found")
              /\ UNCHANGED <<n, free>>
           \/ /\ stop /\ ~Create(c)
              /\ Goto(c, "absent")
              /\ UNCHANGED <<n, free>>
           \/ /\ stop /\ Create(c)
              /\ free' = [free EXCEPT ![c] = IF ~over /\ @ = N THEN n[c] ELSE @]
              /\ Goto(c, "choose")
              /\ UNCHANGED n
           \/ /\ ~stop /\ k # want[c]
              /\ n' = [n EXCEPT ![c] = @ + 1]
              /\ free' = [free EXCEPT ![c] = IF k = Retired /\ @ = N THEN n[c] ELSE @]
              /\ UNCHANGED pc
        /\ UNCHANGED <<slots, recorded, aborted, op, want, seen, carry, mine, got>>

\* The reload of the chosen slot's key, which another context may have taken.
Choose(c) ==
    LET k == key[FreeSlot(c)]
    IN  /\ pc[c] = "choose"
        /\ \/ /\ free[c] = N
              /\ Goto(c, "absent")
              /\ UNCHANGED <<n, seen>>
           \/ /\ free[c] # N
              /\ n' = [n EXCEPT ![c] = free[c]]
              /\ seen' = [seen EXCEPT ![c] = k]
              /\ Goto(c, CASE k = want[c] -> "found"
                           [] k \in {Zero, Retired} -> "cas"
                           [] OTHER -> "absent")
        /\ UNCHANGED <<slots, recorded, aborted, op, want, free, carry, mine, got>>

\* Variant of Claim: a store instead of the compare and exchange.
ClaimBlind(c) ==
    /\ pc[c] = "cas"
    /\ key' = [key EXCEPT ![Here(c)] = want[c]]
    /\ Goto(c, "found")
    /\ UNCHANGED <<tp, self, recorded, aborted, op, search, carry, mine, got>>

\* The compare and exchange that claims the slot, or finds it claimed.
Claim(c) ==
    /\ pc[c] = "cas"
    /\ \/ /\ key[Here(c)] = seen[c]
          /\ key' = [key EXCEPT ![Here(c)] = want[c]]
          /\ Goto(c, "found")
       \/ /\ key[Here(c)] # seen[c]
          /\ Goto(c, "absent")
          /\ UNCHANGED key
    /\ UNCHANGED <<tp, self, recorded, aborted, op, search, carry, mine, got>>

\* The caller goes on with the entry find returned.
SetTp(c) ==
    /\ pc[c] = "found"
    /\ op[c] = "set_tp"
    /\ tp' = [tp EXCEPT ![Here(c)] = c]
    /\ recorded' = TRUE
    /\ mine' = [mine EXCEPT ![c] = c]
    /\ IF c = First THEN Goto(c, "run") /\ UNCHANGED <<op, search>>
                    ELSE Find(c, "set_self", c)
    /\ UNCHANGED <<key, self, aborted, carry, got>>

SetSelf(c) ==
    /\ pc[c] = "found"
    /\ op[c] = "set_self"
    /\ self' = [self EXCEPT ![Here(c)] = c]
    /\ Goto(c, "run")
    /\ UNCHANGED <<key, tp, recorded, aborted, op, search, carry, mine, got>>

Answer(c) ==
    /\ pc[c] = "found"
    /\ op[c] = "get"
    /\ got' = [got EXCEPT ![c] = tp[Here(c)]]
    /\ Goto(c, "run")
    /\ UNCHANGED <<slots, recorded, aborted, op, search, carry, mine>>

\* __okm_release_context and the first half of __okm_rebind_context: the
\* entry is emptied before its key says so.
Clear(c) ==
    /\ pc[c] = "found"
    /\ op[c] \in {"release", "unbind"}
    /\ carry' = [carry EXCEPT ![c] = tp[Here(c)]]
    /\ tp' = [tp EXCEPT ![Here(c)] = Zero]
    /\ self' = [self EXCEPT ![Here(c)] = Zero]
    /\ Goto(c, "retire")
    /\ UNCHANGED <<key, recorded, aborted, op, search, mine, got>>

\* Variant of Retire: the entry is freed, as if nobody had been placed beyond.
RetireFrees(c) ==
    /\ pc[c] = "retire"
    /\ key' = [key EXCEPT ![Here(c)] = Zero]
    /\ op[c] = "release"
    /\ mine' = [mine EXCEPT ![c] = Zero]
    /\ got' = [got EXCEPT ![c] = Zero]
    /\ carry' = [carry EXCEPT ![c] = Zero]
    /\ Goto(c, "unborn")
    /\ UNCHANGED <<tp, self, recorded, aborted, op, search>>

Retire(c) ==
    /\ pc[c] = "retire"
    /\ key' = [key EXCEPT ![Here(c)] = Retired]
    /\ \/ /\ op[c] = "release"
          /\ mine' = [mine EXCEPT ![c] = Zero]
          /\ got' = [got EXCEPT ![c] = Zero]
          /\ carry' = [carry EXCEPT ![c] = Zero]
          /\ Goto(c, "unborn")
          /\ UNCHANGED <<op, search>>
       \/ /\ op[c] = "unbind"
          /\ Find(c, "rebind", c)
          /\ UNCHANGED <<carry, mine, got>>
    /\ UNCHANGED <<tp, self, recorded, aborted>>

\* The second half of __okm_rebind_context.
Rebind(c) ==
    /\ pc[c] = "found"
    /\ op[c] = "rebind"
    /\ tp' = [tp EXCEPT ![Here(c)] = carry[c]]
    /\ self' = [self EXCEPT ![Here(c)] = carry[c]]
    /\ mine' = [mine EXCEPT ![c] = carry[c]]
    /\ recorded' = TRUE
    /\ Goto(c, "run")
    /\ UNCHANGED <<key, aborted, op, search, carry, got>>

\* find returned 0: recording a thread pointer then ends the program, as does
\* looking one up after any was recorded; the other callers go on.
Absent(c) ==
    /\ pc[c] = "absent"
    /\ aborted' = CASE op[c] \in {"set_tp", "rebind"} -> "full"
                    [] op[c] = "get" /\ recorded -> "absent"
                    [] OTHER -> "no"
    /\ Goto(c, IF op[c] = "release" THEN "unborn" ELSE "run")
    /\ UNCHANGED <<slots, recorded, op, search, carry, mine, got>>

Next ==
    /\ aborted = "no"
    /\ \E c \in Contexts :
           \/ Start(c) \/ Get(c) \/ Release(c)
           \/ Probe(c) \/ Choose(c) \/ Claim(c) \/ Absent(c)
           \/ SetTp(c) \/ SetSelf(c) \/ Answer(c) \/ Clear(c) \/ Retire(c) \/ Rebind(c)

Spec == Init /\ [][Next]_vars

-----------------------------------------------------------------------------
Ops == {"none", "set_tp", "set_self", "get", "release", "unbind", "rebind"}

\* Every variable keeps its type; a search makes at most N turns.
TypeOK ==
    /\ key \in [Slots -> Keys \cup {Zero, Retired}]
    /\ tp \in [Slots -> Keys \cup {Zero}]
    /\ self \in [Slots -> Keys \cup {Zero}]
    /\ recorded \in BOOLEAN
    /\ aborted \in {"no", "full", "absent"}
    /\ pc \in [Contexts -> {"unborn", "probe", "choose", "cas", "found", "absent",
                            "retire", "run"}]
    /\ op \in [Contexts -> Ops]
    /\ want \in [Contexts -> Keys]
    /\ n \in [Contexts -> 0..N]
    /\ free \in [Contexts -> 0..N]
    /\ seen \in [Contexts -> Keys \cup {Zero, Retired}]
    /\ carry \in [Contexts -> Keys \cup {Zero}]
    /\ mine \in [Contexts -> Keys \cup {Zero}]
    /\ got \in [Contexts -> Keys \cup {Zero}]

\* A context that recorded its thread pointer finds its entry whenever it looks
\* for it, until it releases it; only recording the first time may find no
\* place.  (An answer of none ends the program, or loses its record silently.)
\* For that a context has one entry, although a search for a place prefers a
\* retired one to the one it may have further on, and nothing on the way to it
\* is free, whatever was claimed and released there meanwhile.
RegisteredIsFound ==
    /\ \A c \in Contexts : pc[c] = "absent" => op[c] \in {"set_tp", "rebind"}
    /\ \A s, t \in Slots : key[s] = key[t] /\ key[s] \in Keys => s = t
    /\ \A s \in Slots :
           key[s] \in Keys =>
               \E p \in 0..(N - 1) :
                   /\ ProbeAt(key[s], p) = s
                   /\ \A q \in 0..(p - 1) : key[ProbeAt(key[s], q)] # Zero

\* What a context is answered is what it recorded itself, never another's
\* thread pointer and never the emptied one of an entry being retired.
ReadsOwn == \A c \in Contexts : got[c] \in {Zero, mine[c]}

\* "More execution contexts than this port can record": recording fails only
\* when every entry belongs to a context.
RefusedOnlyWhenFull == aborted = "full" => \A s \in Slots : key[s] \in Keys
=============================================================================
