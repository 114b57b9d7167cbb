------------------------------ MODULE AllocCache ----------------------------
(***************************************************************************)
(* The threads' caches of small allocations                                *)
(* (port/src/mallocng/okm_malloc_tc.c) over mallocng's groups of slots     *)
(* (musl/src/malloc/mallocng/malloc.c, free.c, meta.h), for one size class *)
(* of a program with several threads.                                      *)
(*                                                                         *)
(* What is done under the allocator's lock is one step: available slots    *)
(* change only under it, and a set of freed slots only grows without it,   *)
(* never from the empty set, and by none while the group is being          *)
(* released, since no slot of it is out.  Giving a slot back without the   *)
(* lock is three: the two masks are read one after the other, then the     *)
(* first is compared and swapped.                                          *)
(***************************************************************************)
EXTENDS Integers, Sequences, FiniteSets

CONSTANTS
    Threads, None,
    Groups,         \* bound: the groups there can be at once
    N,              \* the slots of a group, at least two
    TcMax,          \* TC_MAX
    TcBatch         \* TC_BATCH

VARIABLES
    ring,           \* the groups of the class on its list, from ctx.active
    grp,            \* of each: how many slots are activated, and the two masks
    field,          \* the thread's malloc_tc: "none", "off" or "on"
    cache,          \* the slots it keeps, the next to be taken last
    used,           \* the slots the program has
    call,           \* what the thread is doing
    asserted        \* an assertion has failed

vars == <<ring, grp, field, cache, used, call, asserted>>

All == 0..N-1
Dead == [act |-> 0, avail |-> {}, freed |-> {}]
Idle == [pc |-> "idle", slot |-> None, freed |-> {}, flush |-> FALSE]

Init ==
    /\ ring = <<>> /\ grp = [g \in Groups |-> Dead]
    /\ field = [t \in Threads |-> "none"]
    /\ cache = [t \in Threads |-> <<>>]
    /\ used = {}
    /\ call = [t \in Threads |-> Idle]
    /\ asserted = FALSE

At(t, l) == call[t].pc = l
OnRing(g) == \E i \in DOMAIN ring : ring[i] = g
Turn(r) == Tail(r) \o <<Head(r)>>

\* The k least of a mask, lowest bit first.
LowestFirst(mask, k) ==
    LET few == {i \in mask : Cardinality({j \in mask : j < i}) < k}
    IN  [n \in 1..Cardinality(few) |-> CHOOSE i \in few : Cardinality({j \in few : j < i}) = n - 1]
FirstOf(mask) == LowestFirst(mask, 1)[1]

\* activate_group: what is freed and activated becomes available.
Activated(m) ==
    LET mask == m.freed \cap (0..m.act-1)
    IN  [m EXCEPT !.avail = mask, !.freed = @ \ mask]

-----------------------------------------------------------------------------
\* A few more slots of the active group, for the thread's cache.
Fill(t, r, G) ==
    LET h == Head(r)
        few == IF field[t] # "on" THEN <<>> ELSE LowestFirst(G[h].avail, TcBatch - Len(cache[t]))
    IN  /\ cache' = [cache EXCEPT ![t] = @ \o [i \in DOMAIN few |-> <<h, few[i]>>]]
        /\ grp' = [G EXCEPT ![h].avail = @ \ {few[i] : i \in DOMAIN few}]

\* The class's list is r and its groups G; the program gets slot i of the first.
Serve(t, r, G, i) ==
    /\ ring' = r
    /\ used' = used \cup {<<Head(r), i>>}
    /\ Fill(t, r, [G EXCEPT ![Head(r)].avail = @ \ {i}])

OwnCache(t) ==
    /\ At(t, "idle") /\ field[t] = "none"
    /\ \E f \in {"on", "off"} : field' = [field EXCEPT ![t] = f]
    /\ UNCHANGED <<ring, grp, cache, used, call, asserted>>

Take(t) ==
    LET n == Len(cache[t])
    IN  /\ At(t, "idle") /\ field[t] = "on" /\ n > 0
        /\ used' = used \cup {cache[t][n]}
        /\ cache' = [cache EXCEPT ![t] = SubSeq(@, 1, n - 1)]
        /\ UNCHANGED <<ring, grp, field, call, asserted>>

Locked(t) == At(t, "idle") /\ field[t] # "none" /\ cache[t] = <<>>

MallocAvail(t) ==
    /\ Locked(t) /\ ring # <<>> /\ grp[Head(ring)].avail # {}
    /\ Serve(t, ring, grp, FirstOf(grp[Head(ring)].avail))
    /\ UNCHANGED <<field, call, asserted>>

\* The list once a first group with nothing available is passed: left off when
\* nothing of it is freed either.
Passed == IF grp[Head(ring)].freed = {} THEN Tail(ring) ELSE Turn(ring)

\* No group of the class has a free slot.
Exhausted == ring # <<>> => (grp[Head(ring)].avail = {} /\ Passed = <<>>)

\* Another group is activated.  One that is wholly free is passed over too, and
\* one of which nothing activated is freed; the only one is activated further.
MallocActivate(t) ==
    /\ Locked(t) /\ ring # <<>> /\ grp[Head(ring)].avail = {} /\ Passed # <<>>
    /\ LET r == IF grp[Head(Passed)].freed = All THEN Turn(Passed) ELSE Passed
           m == grp[Head(r)]
           lacks == m.freed \cap (0..m.act-1) = {}
           last == IF lacks THEN Turn(r) ELSE r
       IN  \E k \in IF lacks /\ Len(r) = 1 THEN (IF m.act < N THEN m.act+1..N ELSE {N})
                    ELSE {grp[Head(last)].act} :
               LET G == [grp EXCEPT ![Head(last)] = Activated([@ EXCEPT !.act = k])]
                   mask == G[Head(last)].avail
               IN  IF mask = {} THEN asserted' = TRUE /\ UNCHANGED <<ring, grp, cache, used>>
                   ELSE Serve(t, last, G, FirstOf(mask)) /\ UNCHANGED asserted
    /\ UNCHANGED <<field, call>>

\* The list is empty: a new group, k of its slots activated and the first taken.
MallocGroup(t) ==
    /\ Locked(t) /\ Exhausted
    /\ \E g \in Groups, k \in 1..N :
           /\ grp[g] = Dead
           /\ Serve(t, <<g>>, [grp EXCEPT ![g] = [act |-> k, avail |-> 0..k-1, freed |-> k..N-1]], 0)
    /\ UNCHANGED <<field, call, asserted>>

\* None can be had; the list has lost a first group that is exhausted.
MallocFails(t) ==
    /\ Locked(t) /\ Exhausted
    /\ ring' = <<>>
    /\ UNCHANGED <<grp, field, cache, used, call, asserted>>

-----------------------------------------------------------------------------
Release(t, s, flush) ==
    call' = [call EXCEPT ![t] = [pc |-> "freed", slot |-> s, freed |-> {}, flush |-> flush]]

\* Any thread may free a slot: it keeps it, or releases it.
Free(t) ==
    /\ At(t, "idle")
    /\ \E s \in used :
           /\ used' = used \ {s}
           /\ IF field[t] = "on" /\ Len(cache[t]) < TcMax
              THEN cache' = [cache EXCEPT ![t] = Append(@, s)] /\ UNCHANGED call
              ELSE Release(t, s, FALSE) /\ UNCHANGED cache
    /\ UNCHANGED <<ring, grp, field, asserted>>

\* After a slot is released: the next of the cache that is being emptied.
Done(t) ==
    LET n == Len(cache[t])
    IN  IF call[t].flush /\ n > 0
        THEN Release(t, cache[t][n], TRUE) /\ cache' = [cache EXCEPT ![t] = SubSeq(@, 1, n - 1)]
        ELSE call' = [call EXCEPT ![t] = Idle] /\ UNCHANGED cache

\* The thread ends: its cache is off, and emptied.
Flush(t) ==
    LET n == Len(cache[t])
    IN  /\ At(t, "idle") /\ field[t] # "off"
        /\ field' = [field EXCEPT ![t] = "off"]
        /\ IF n = 0 THEN UNCHANGED <<call, cache>>
           ELSE Release(t, cache[t][n], TRUE) /\ cache' = [cache EXCEPT ![t] = SubSeq(@, 1, n - 1)]
        /\ UNCHANGED <<ring, grp, used, asserted>>

ReadFreed(t) ==
    /\ At(t, "freed")
    /\ call' = [call EXCEPT ![t].freed = grp[call[t].slot[1]].freed, ![t].pc = "avail"]
    /\ UNCHANGED <<ring, grp, field, cache, used, asserted>>

\* The first and the last slot of a group are given back under the lock.
ReadAvail(t) ==
    LET c == call[t]
        mask == c.freed \cup grp[c.slot[1]].avail
    IN  /\ At(t, "avail")
        /\ asserted' = (asserted \/ c.slot[2] \in mask)
        /\ call' = [call EXCEPT ![t].pc =
               IF c.freed = {} \/ mask \cup {c.slot[2]} = All THEN "lock" ELSE "cas"]
        /\ UNCHANGED <<ring, grp, field, cache, used>>

\* Variant: the mask is stored without comparing.
Store(t) ==
    LET c == call[t]
    IN  /\ At(t, "cas")
        /\ grp' = [grp EXCEPT ![c.slot[1]].freed = c.freed \cup {c.slot[2]}]
        /\ Done(t)
        /\ UNCHANGED <<ring, field, used, asserted>>

Cas(t) ==
    LET c == call[t]
        g == c.slot[1]
    IN  /\ At(t, "cas")
        /\ IF grp[g].freed = c.freed
           THEN grp' = [grp EXCEPT ![g].freed = @ \cup {c.slot[2]}] /\ Done(t)
           ELSE call' = [call EXCEPT ![t].pc = "freed"] /\ UNCHANGED <<grp, cache>>
        /\ UNCHANGED <<ring, field, used, asserted>>

\* okay_to_free: the last group of a class may be kept; which, is left open.
OkayToFree(g) == IF \E i \in DOMAIN ring : ring[i] # g THEN {TRUE} ELSE BOOLEAN

FreeGroup(g) ==
    LET r == SelectSeq(ring, LAMBDA h : h # g)
        G == [grp EXCEPT ![g] = Dead]
        new == ring[1] = g /\ r # <<>>
    IN  /\ ring' = r
        /\ grp' = IF new THEN [G EXCEPT ![r[1]] = Activated(@)] ELSE G
        /\ asserted' = (asserted \/ (new /\ G[r[1]].avail # {}))

\* The first slot to come back puts the group on the list, unless it is first
\* there still.  queue asserts that it is nowhere on it.
GiveBack(g, i) ==
    LET lists == grp[g].freed \cup grp[g].avail = {} /\ (ring = <<>> \/ ring[1] # g)
    IN  /\ ring' = IF lists THEN Append(ring, g) ELSE ring
        /\ asserted' = (asserted \/ (lists /\ OnRing(g)))
        /\ grp' = [grp EXCEPT ![g].freed = @ \cup {i}]

NontrivialFree(t) ==
    LET g == call[t].slot[1]
        i == call[t].slot[2]
    IN  /\ At(t, "lock")
        /\ IF (grp[g].freed \cup grp[g].avail) \cup {i} = All
           THEN \E okay \in OkayToFree(g) : IF okay THEN FreeGroup(g) ELSE GiveBack(g, i)
           ELSE GiveBack(g, i)
        /\ Done(t)
        /\ UNCHANGED <<field, used>>

Next ==
    \E t \in Threads :
        \/ OwnCache(t) \/ Take(t) \/ MallocAvail(t) \/ MallocActivate(t) \/ MallocGroup(t)
        \/ MallocFails(t) \/ Free(t) \/ Flush(t)
        \/ ReadFreed(t) \/ ReadAvail(t) \/ Cas(t) \/ NontrivialFree(t)

Spec == Init /\ [][Next]_vars

-----------------------------------------------------------------------------
\* Where a slot is.  What an ended thread's cache held has left it, or is lost.
Places(s) ==
    {p \in {"avail", "freed"} : s[2] \in IF p = "avail" THEN grp[s[1]].avail ELSE grp[s[1]].freed}
        \cup {p \in {"used"} : s \in used}
        \cup {<<t, i>> \in Threads \X (1..TcMax) :
                 (field[t] = "on" \/ call[t].flush) /\ i <= Len(cache[t]) /\ cache[t][i] = s}
        \cup {t \in Threads : call[t].slot = s}

\* A slot of a group is in one place: free in mallocng's masks, with the
\* program, in one thread's cache, or on its way back; and a group is released
\* only when none of its slots is out.
SlotsInOnePlace ==
    \A g \in Groups, i \in All :
        Cardinality(Places(<<g, i>>)) = IF grp[g].act = 0 THEN 0 ELSE 1

\* No assertion of mallocng fails: a slot given back was not free, a group put on
\* the list was not on it, the group that becomes active had nothing available,
\* and an allocation that activates a group finds a slot in it.
AssertsHold == ~asserted
=============================================================================
