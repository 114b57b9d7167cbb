------------------------------- MODULE Memory -------------------------------
(***************************************************************************)
(* Mappings: anonymous memory over ranges of the address space             *)
(* (port/src/okm_region.c), parts of a file (port/src/okm_map.c), and the  *)
(* calls that meet both tables (SYS_mmap, SYS_munmap, SYS_madvise).  Each  *)
(* table has its lock, held only while the table is searched or changed;   *)
(* what the environment is then asked to do, it is asked outside.  An      *)
(* action is one critical section or one call of the environment.          *)
(* Addresses and lengths are in pages.                                     *)
(***************************************************************************)
EXTENDS Integers, Sequences, FiniteSetsExt

CONSTANTS
    Contexts,
    P,              \* pages of the address space
    Lens,           \* lengths the program maps
    FileLen,        \* length of the file it maps
    Offsets,        \* offsets it maps the file from; {} for none
    Align,          \* KAL_MAP_ALIGNMENT
    Programs,       \* what each program does besides mapping and unmapping
                    \* anonymous memory: advise "dontneed" or "free"; map a
                    \* "file", "past_end" too, unmap a "leading_part" of it
    Cap             \* entries either table is first given

Pages == 0..(P - 1)
Span(a, n) == a..(a + n - 1)

VARIABLES
    does,           \* the program this is, one of Programs
    ranges, cap,    \* g_ranges, in order of address, and g_cap
    regions,        \* g_regions, in no order
    resv,           \* what the environment holds for the program
    content,        \* of each page: "none" (not backed), "zero", "dirty", "file"
    mine,           \* the mappings each context has and has not unmapped
    expect,         \* what the program may rely on finding in a page: "any"
                    \* if nothing, "gone" if the page is not its own
    loc             \* where each context is, and its locals

vars == <<does, ranges, cap, regions, resv, content, mine, expect, loc>>

Idle == [pc |-> "idle", m |-> [kind |-> "none"], a |-> 0, n |-> 0]
Anon(b, n) == [kind |-> "anon", base |-> b, size |-> n, user |-> b, len |-> n]
View(b, want, lead, n) == [kind |-> "file", base |-> b, size |-> want, user |-> b + lead, len |-> n]

Init ==
    /\ does \in Programs
    /\ ranges = <<>> /\ cap = 0
    /\ regions = <<>>
    /\ resv = {}
    /\ content = [p \in Pages |-> "none"]
    /\ mine = [c \in Contexts |-> {}]
    /\ expect = [p \in Pages |-> "gone"]
    /\ loc = [c \in Contexts |-> Idle]

Goto(c, l) == loc' = [loc EXCEPT ![c].pc = l]
Return(c) == loc' = [loc EXCEPT ![c] = Idle]
Fill(s, v) == content' = [p \in Pages |-> IF p \in s THEN v ELSE content[p]]
Expect(s, v) == expect' = [p \in Pages |-> IF p \in s THEN v ELSE expect[p]]

-----------------------------------------------------------------------------
(***************************************************************************)
(* The environment: it gives pages nobody has, backed; it takes a          *)
(* reservation back whole; it takes and gives the backing of pages.        *)
(***************************************************************************)
Unreserved == Pages \ UNION {Span(v.base, v.size) : v \in resv}
Reserve(v, what) ==
    /\ Span(v.base, v.size) \subseteq Unreserved
    /\ resv' = resv \cup {v}
    /\ Fill(Span(v.base, v.size), what)
GiveUp(v) ==
    /\ resv' = resv \ {v}
    /\ Fill(Span(v.base, v.size), "none")

-----------------------------------------------------------------------------
(***************************************************************************)
(* The record of the ranges.                                               *)
(***************************************************************************)
\* The search by halves for the first range whose end is above a.
Lower(s, a) ==
    LET half[lo \in 0..Len(s), hi \in 0..Len(s)] ==
            LET mid == lo + (hi - lo) \div 2
            IN  IF lo >= hi THEN lo
                ELSE IF s[mid + 1].base + s[mid + 1].size <= a THEN half[mid + 1, hi]
                ELSE half[lo, mid]
    IN  half[0, Len(s)]

\* The place, from 1, of the range that holds a; 0 for none.
FindRange(a) ==
    LET i == Lower(ranges, a) + 1
    IN  IF i <= Len(ranges) /\ ranges[i].base <= a THEN i ELSE 0

InsertAt(s, i, x) == SubSeq(s, 1, i) \o <<x>> \o SubSeq(s, i + 1, Len(s))
RemoveAt(s, i) == SubSeq(s, 1, i - 1) \o SubSeq(s, i + 1, Len(s))

\* okm_region_map, up to the reservation.
MapAnon(c) ==
    /\ loc[c].pc = "idle"
    /\ \E b \in Pages, n \in Lens :
           LET v == Anon(b, n)
           IN  /\ Reserve(v, "zero")
               /\ loc' = [loc EXCEPT ![c] = [Idle EXCEPT !.pc = "record", !.m = v]]
    /\ UNCHANGED <<does, ranges, cap, regions, mine, expect>>

\* The mapping is the program's: it finds in it what a new mapping holds.
Hand(c, v) ==
    /\ mine' = [mine EXCEPT ![c] = @ \cup {v}]
    /\ Expect(Span(v.user, v.len) \cap Span(v.base, v.size),
              IF v.kind = "anon" THEN "zero" ELSE "file")
    /\ Return(c)

\* record, under the lock: the table grows by doubling, if it can.  In the
\* variants a range is put at the end; one that cannot be recorded is kept.
RecordForgets(c) ==
    LET v == loc[c].m
    IN  /\ loc[c].pc = "record"
        /\ \/ /\ cap' = IF Len(ranges) = cap THEN (IF cap = 0 THEN Cap ELSE 2 * cap) ELSE cap
              /\ ranges' = InsertAt(ranges, Lower(ranges, v.base), [base |-> v.base, size |-> v.size])
              /\ Hand(c, v)
           \/ Len(ranges) = cap /\ Return(c) /\ UNCHANGED <<ranges, cap, mine, expect>>
        /\ UNCHANGED <<does, regions, resv, content>>

RecordAtEnd(c) ==
    LET v == loc[c].m
    IN  /\ loc[c].pc = "record"
        /\ cap' = IF Len(ranges) = cap THEN (IF cap = 0 THEN Cap ELSE 2 * cap) ELSE cap
        /\ ranges' = Append(ranges, [base |-> v.base, size |-> v.size])
        /\ Hand(c, v)
        /\ UNCHANGED <<does, regions, resv, content>>

Record(c) ==
    LET v == loc[c].m
    IN  /\ loc[c].pc = "record"
        /\ \/ /\ cap' = IF Len(ranges) = cap THEN (IF cap = 0 THEN Cap ELSE 2 * cap) ELSE cap
              /\ ranges' = InsertAt(ranges, Lower(ranges, v.base), [base |-> v.base, size |-> v.size])
              /\ Hand(c, v)
           \/ /\ Len(ranges) = cap
              /\ Goto(c, "release")
              /\ UNCHANGED <<ranges, cap, mine, expect>>
        /\ UNCHANGED <<does, regions, resv, content>>

\* The range is given back: it could not be recorded, or it was unmapped.
Release(c) ==
    /\ loc[c].pc = "release"
    /\ GiveUp(loc[c].m)
    /\ Return(c)
    /\ UNCHANGED <<does, ranges, cap, regions, mine, expect>>

-----------------------------------------------------------------------------
(***************************************************************************)
(* Parts of a file.  The environment maps from an aligned offset and no    *)
(* further than the file goes; the record keeps what the caller asked for. *)
(***************************************************************************)
MapFile(c) ==
    /\ loc[c].pc = "idle"
    /\ "file" \in does
    /\ \E b \in Pages, n \in Lens, off \in Offsets :
           LET lead == off % Align
               start == off - lead
               want == Min({lead + n, FileLen - start})
               v == View(b, want, lead, n)
           IN  /\ off < FileLen
               /\ lead + n <= want \/ "past_end" \in does
               /\ Reserve(v, "file")
               /\ loc' = [loc EXCEPT ![c] = [Idle EXCEPT !.pc = "record_file", !.m = v]]
    /\ UNCHANGED <<does, ranges, cap, regions, mine, expect>>

\* The table of regions grows as the other does; Cap bounds both.
RecordFile(c) ==
    /\ loc[c].pc = "record_file"
    /\ \/ regions' = Append(regions, loc[c].m) /\ Hand(c, loc[c].m)
       \/ Goto(c, "release") /\ UNCHANGED <<regions, mine, expect>>
    /\ UNCHANGED <<does, ranges, cap, resv, content>>

\* The first region that holds a, of the length the caller asked for; 0 for none.
FindRegion(a) ==
    LET is == {i \in DOMAIN regions : a \in Span(regions[i].user, regions[i].len)}
    IN  IF is = {} THEN 0 ELSE Min(is)

-----------------------------------------------------------------------------
(***************************************************************************)
(* SYS_munmap: of one of the context's mappings, or a part of one.  The    *)
(* program gives the pages up when it calls.                               *)
(***************************************************************************)
Whole(m, a, n) == a = m.user /\ n = m.len

Unmap(c) ==
    /\ loc[c].pc = "idle"
    /\ \E m \in mine[c] :
       \E a \in Span(m.user, m.len) :
       \E n \in 1..(m.user + m.len - a) :
           /\ m.kind = "anon" \/ Whole(m, a, n) \/ a # m.user \/ "leading_part" \in does
           /\ loc' = [loc EXCEPT ![c] = [pc |-> "unmap", m |-> m, a |-> a, n |-> n]]
           /\ mine' = [mine EXCEPT ![c] = IF Whole(m, a, n) THEN @ \ {m} ELSE @]
           /\ Expect(Span(a, n), "gone")
    /\ UNCHANGED <<does, ranges, cap, regions, resv, content>>

\* okm_map_unmap: a region is only unmapped whole, whatever the length.
UnmapFile(c) ==
    LET a == loc[c].a
        i == FindRegion(a)
        last == Len(regions)
    IN  /\ loc[c].pc = "unmap"
        /\ \/ /\ i = 0
              /\ Goto(c, "unmap_range")
              /\ UNCHANGED regions
           \/ /\ i # 0 /\ regions[i].user # a
              /\ Return(c)
              /\ UNCHANGED regions
           \/ /\ i # 0 /\ regions[i].user = a
              /\ regions' = SubSeq([regions EXCEPT ![i] = regions[last]], 1, last - 1)
              /\ loc' = [loc EXCEPT ![c].pc = "release", ![c].m = regions[i]]
        /\ UNCHANGED <<does, ranges, cap, resv, content, mine, expect>>

\* okm_region_unmap up to its unlock: a range unmapped whole leaves the record
\* before it is released; of a part the backing goes.  In the variants the
\* range stays recorded; a leading part is taken for the whole.
UnmapKeepsRecord(c) ==
    LET r == ranges[FindRange(loc[c].a)]
    IN  /\ loc[c].pc = "unmap_range"
        /\ IF Whole(Anon(r.base, r.size), loc[c].a, loc[c].n)
           THEN loc' = [loc EXCEPT ![c].pc = "release", ![c].m = Anon(r.base, r.size)]
           ELSE Goto(c, "decommit")
        /\ UNCHANGED <<does, ranges, cap, regions, resv, content, mine, expect>>

UnmapLeadingWhole(c) ==
    LET i == FindRange(loc[c].a)
        r == ranges[i]
    IN  /\ loc[c].pc = "unmap_range"
        /\ \/ /\ loc[c].a = r.base
              /\ ranges' = RemoveAt(ranges, i)
              /\ loc' = [loc EXCEPT ![c].pc = "release", ![c].m = Anon(r.base, r.size)]
           \/ loc[c].a # r.base /\ Goto(c, "decommit") /\ UNCHANGED ranges
        /\ UNCHANGED <<does, cap, regions, resv, content, mine, expect>>

UnmapRange(c) ==
    LET a == loc[c].a
        i == FindRange(a)
        r == ranges[i]
        hi == Min({a + loc[c].n, r.base + r.size})
        whole == i # 0 /\ a = r.base /\ hi = r.base + r.size
    IN  /\ loc[c].pc = "unmap_range"
        /\ \/ /\ whole
              /\ ranges' = RemoveAt(ranges, i)
              /\ loc' = [loc EXCEPT ![c].pc = "release", ![c].m = Anon(r.base, r.size)]
           \/ /\ ~whole
              /\ loc' = [loc EXCEPT ![c].pc = IF i = 0 THEN "kal_free" ELSE "decommit",
                                    ![c].n = IF i = 0 THEN @ ELSE hi - a]
              /\ UNCHANGED ranges
        /\ UNCHANGED <<does, cap, regions, resv, content, mine, expect>>

Decommit(c) ==
    /\ loc[c].pc = "decommit"
    /\ Fill(Span(loc[c].a, loc[c].n), "none")
    /\ Return(c)
    /\ UNCHANGED <<does, ranges, cap, regions, resv, mine, expect>>

-----------------------------------------------------------------------------
(***************************************************************************)
(* SYS_madvise of pages the context has, and its writing to them.          *)
(***************************************************************************)
Owns(c, s) == \E m \in mine[c] : m.kind = "anon" /\ s \subseteq Span(m.user, m.len)

Advise(c) ==
    /\ loc[c].pc = "idle"
    /\ \E a \in Pages, n \in 1..P, how \in does \cap {"dontneed", "free"} :
           /\ Owns(c, Span(a, n))
           /\ \A p \in Span(a, n) : expect[p] # "gone"
           /\ loc' = [loc EXCEPT ![c] = [Idle EXCEPT !.pc = how, !.a = a, !.n = n]]
           /\ Expect(Span(a, n), "any")
    /\ UNCHANGED <<does, ranges, cap, regions, resv, content, mine>>

\* okm_region_advise up to its unlock: advice on memory it has no record of is
\* accepted and not taken.
AdviseFind(c) ==
    LET i == FindRange(loc[c].a)
        r == ranges[i]
    IN  /\ loc[c].pc \in {"dontneed", "free"}
        /\ IF i = 0 THEN Return(c)
           ELSE loc' = [loc EXCEPT ![c].pc = IF @ = "free" THEN "discard" ELSE "drop",
                                   ![c].n = Min({loc[c].a + @, r.base + r.size}) - loc[c].a]
        /\ UNCHANGED <<does, ranges, cap, regions, resv, content, mine, expect>>

\* MADV_FREE: the contents may go.
Discard(c) ==
    /\ loc[c].pc = "discard"
    /\ \E s \in {{}, Span(loc[c].a, loc[c].n)} : Fill(s, "zero")
    /\ Return(c)
    /\ UNCHANGED <<does, ranges, cap, regions, resv, mine, expect>>

\* MADV_DONTNEED: the backing goes and comes back; the pages then read as zero.
Drop(c) ==
    /\ loc[c].pc = "drop"
    /\ Fill(Span(loc[c].a, loc[c].n), "none")
    /\ Goto(c, "back")
    /\ UNCHANGED <<does, ranges, cap, regions, resv, mine, expect>>

Back(c) ==
    /\ loc[c].pc = "back"
    /\ Fill(Span(loc[c].a, loc[c].n), "zero")
    /\ Expect(Span(loc[c].a, loc[c].n), "zero")
    /\ Return(c)
    /\ UNCHANGED <<does, ranges, cap, regions, resv, mine>>

Write(c) ==
    /\ loc[c].pc = "idle"
    /\ \E p \in Pages :
           /\ Owns(c, {p})
           /\ expect[p] # "gone"
           /\ Fill({p}, "dirty")
           /\ Expect({p}, "dirty")
    /\ UNCHANGED <<does, ranges, cap, regions, resv, mine, loc>>

Next == \E c \in Contexts :
    \/ MapAnon(c) \/ Record(c) \/ Release(c) \/ MapFile(c) \/ RecordFile(c)
    \/ Unmap(c) \/ UnmapFile(c) \/ UnmapRange(c) \/ Decommit(c)
    \/ Advise(c) \/ AdviseFind(c) \/ Discard(c) \/ Drop(c) \/ Back(c)
    \/ Write(c)

Spec == Init /\ [][Next]_vars

-----------------------------------------------------------------------------
Mappings ==
    [kind : {"anon", "file"}, base : Pages, size : 1..P, user : Pages, len : Lens]

\* Every variable keeps its type.
TypeOK ==
    /\ does \in Programs
    /\ \A i \in DOMAIN ranges : ranges[i] \in [base : Pages, size : Lens]
    /\ cap \in Nat
    /\ \A i \in DOMAIN regions : regions[i] \in Mappings
    /\ \A v \in resv : v \in Mappings
    /\ content \in [Pages -> {"none", "zero", "dirty", "file"}]
    /\ \A c \in Contexts : \A v \in mine[c] : v \in Mappings
    /\ expect \in [Pages -> {"any", "gone", "zero", "dirty", "file"}]
    /\ \A c \in Contexts : loc[c].m = Idle.m \/ loc[c].m \in Mappings

\* The search finds the range an address lies in, whatever was mapped and
\* unmapped: the record stays in order and no two ranges meet.  So munmap never
\* hands memory of the record to kal_free.
SearchFinds ==
    /\ \A a \in Pages :
           LET is == {i \in DOMAIN ranges : a \in Span(ranges[i].base, ranges[i].size)}
           IN  is = {FindRange(a)} \ {0}
    /\ \A c \in Contexts : loc[c].pc # "kal_free"

Recorded == {Anon(ranges[i].base, ranges[i].size) : i \in DOMAIN ranges}
    \cup {regions[i] : i \in DOMAIN regions}
Carried == {loc[c].m : c \in {x \in Contexts : loc[x].pc \in {"record", "record_file", "release"}}}

\* What the environment holds is what the tables record and what a call in
\* progress is about to record or release, never both: nothing recorded was
\* released, nothing is released twice, nothing is forgotten.
RecordMatches == resv = Recorded \cup Carried /\ Recorded \cap Carried = {}

\* No call of a context changes memory another context, or the same one, still
\* relies on: a page holds what was written to it, or zero if nothing was since
\* it was mapped or given back by MADV_DONTNEED.
MemoryAsExpected ==
    \A p \in Pages : expect[p] \in {"zero", "dirty", "file"} => content[p] = expect[p]

\* munmap of a whole mapping releases it: what the environment holds for the
\* program is a mapping a context still has, or one a call is about.
WholeUnmapReleases ==
    \A v \in resv : \E c \in Contexts : v \in mine[c] \/ loc[c].m = v
=============================================================================
