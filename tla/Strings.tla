------------------------------ MODULE Strings ------------------------------
(***************************************************************************)
(* The vector string and memory functions (port/src/okm_string.c): memcpy  *)
(* and memmove, memset, memcmp, memchr, strchr, strlen and strcmp, with    *)
(* vectors of sixteen bytes and, where the processor has them, of          *)
(* thirty-two.  A behaviour is one call; a step is the loads one branch or *)
(* one turn of a loop makes, and the stores that follow them.              *)
(*                                                                         *)
(* call.h is the narrow vector (sixteen) and call.w the vector the loops   *)
(* use (sixteen or thirty-two): the two families differ where h = w and    *)
(* w = 2h differ, and the model keeps the proportions, not the sizes.  A   *)
(* byte is the address it was at when the call began, or Fill; for the     *)
(* functions that look for something, call.stop is where it is.            *)
(***************************************************************************)
EXTENDS Integers, FiniteSetsExt, SequencesExt

CONSTANTS
    Families,     \* families of calls
    Calls(_),     \* the calls of a family: [fn, h, w, n, s, d, stop, nul]
    PageVectors,  \* vectors in the smallest page
    Space         \* addresses there are

VARIABLES
    call,   \* the call and its arguments
    pc,     \* the part of the function being executed
    at,     \* how far it is: an address (scans), or an offset
    room,   \* bytes to the nearer page's end (strcmp)
    mem,    \* the bytes around both ranges (memmove, memset)
    kept,   \* the bytes loaded before the loop and stored after it
    loads,  \* what the last step loaded: <<address, bytes>>
    ans     \* what was found: an address or an offset, or Nothing

vars == <<call, pc, at, room, mem, kept, loads, ans>>

Nothing == -1
Fill == -2

H == call.h
W == call.w
N == call.n
S == call.s
D == call.d
Wide == W # H

Page == PageVectors * W
ToPageEnd(a) == Page - (a % Page)
Nearer(i) == Min({ToPageEnd(S + i), ToPageEnd(D + i)})

(***************************************************************************)
(* A piece <<i, k>> is k bytes at offset i.                                *)
(***************************************************************************)
Bytes(piece) == piece[1] .. (piece[1] + piece[2] - 1)
Ends(z) == << <<0, z>>, <<N - z, z>> >>
Four(z) == << <<0, z>>, <<z, z>>, <<N - 2 * z, z>>, <<N - z, z>> >>
Eight(z) == [j \in 1 .. 8 |-> IF j <= 4 THEN <<(j - 1) * z, z>> ELSE <<N - (9 - j) * z, z>>]

CopySmall ==
    IF N = 0 THEN <<>> ELSE Ends(Max({z \in {H \div 2, H \div 4, H \div 8, 1} : z <= N}))

SetSmall ==
    IF N >= H \div 2 THEN Ends(H \div 2)
    ELSE IF N >= H \div 4 THEN Ends(H \div 4)
    ELSE IF N = 0 THEN <<>> ELSE << <<0, 1>>, <<N \div 2, 1>>, <<N - 1, 1>> >>

MoveShort ==
    LET k == (N + H - 1) \div H
    IN  [j \in 1 .. k |-> IF j < k THEN <<H * (j - 1), H>> ELSE <<N - H, H>>]

CmpSmall ==
    IF N >= H \div 2 THEN Ends(H \div 2)
    ELSE IF N >= H \div 4 THEN Ends(H \div 4)
    ELSE [j \in 1 .. N |-> <<j - 1, 1>>]

(***************************************************************************)
(* memcpy, memmove, memset.  The destination begins inside the source when *)
(* the difference, as unsigned, is below the length.                       *)
(***************************************************************************)
Moving == call.fn \in {"memmove", "memset"}
\* Variant: the difference taken as signed.
BackwardSigned == call.fn = "memmove" /\ D - S < N

Backward == call.fn = "memmove" /\ (D - S) % Space < N
Long == N > 4 * W

ShortPieces ==
    IF call.fn = "memset" /\ N < H THEN SetSmall
    ELSE IF call.fn = "memmove" /\ N <= H THEN CopySmall
    ELSE IF Backward /\ N <= 4 * H THEN MoveShort
    ELSE IF N <= 2 * H THEN Ends(H)
    ELSE IF ~Backward /\ N <= 2 * W THEN Ends(W)
    ELSE Four(W)

Source(I) == [i \in I |-> IF call.fn = "memset" THEN Fill ELSE mem[S + i]]

Stored(bytes) == [x \in DOMAIN mem |-> IF x - D \in DOMAIN bytes THEN bytes[x - D] ELSE mem[x]]

Loaded(pieces) == IF call.fn = "memset" THEN {} ELSE {<<S + p[1], p[2]>> : p \in pieces}

\* Every load before any store, and no loop.
MoveShortly ==
    /\ Moving /\ pc = "call" /\ ~Long
    /\ mem' = Stored(Source(UNION {Bytes(p) : p \in Range(ShortPieces)}))
    /\ loads' = Loaded(Range(ShortPieces))
    /\ pc' = "done"
    /\ UNCHANGED <<call, at, room, kept, ans>>

\* Forward: the first vector and the last four are loaded before the loop,
\* whose stores are aligned.
MoveHead ==
    /\ Moving /\ pc = "call" /\ Long /\ ~Backward
    /\ kept' = Source(Bytes(<<0, W>>) \cup Bytes(<<N - 4 * W, 4 * W>>))
    /\ loads' = Loaded({<<0, W>>, <<N - 4 * W, 4 * W>>})
    /\ at' = W - (D % W)
    /\ pc' = "forward"
    /\ UNCHANGED <<call, room, mem, ans>>

MoveBlock ==
    /\ pc = "forward" /\ at < N - 4 * W
    /\ mem' = Stored(Source(Bytes(<<at, 4 * W>>)))
    /\ loads' = Loaded({<<at, 4 * W>>})
    /\ at' = at + 4 * W
    /\ UNCHANGED <<call, pc, room, kept, ans>>

\* Backward: the first four vectors are loaded before the loop.
BackHead ==
    /\ pc = "call" /\ Long /\ Backward
    /\ kept' = Source(Bytes(<<0, 4 * W>>))
    /\ loads' = Loaded({<<0, 4 * W>>})
    /\ at' = N
    /\ pc' = "backward"
    /\ UNCHANGED <<call, room, mem, ans>>

BackBlock ==
    /\ pc = "backward" /\ at > 4 * W
    /\ mem' = Stored(Source(Bytes(<<at - 4 * W, 4 * W>>)))
    /\ loads' = Loaded({<<at - 4 * W, 4 * W>>})
    /\ at' = at - 4 * W
    /\ UNCHANGED <<call, pc, room, kept, ans>>

StoreKept ==
    /\ \/ pc = "forward" /\ at >= N - 4 * W
       \/ pc = "backward" /\ at <= 4 * W
    /\ mem' = Stored(kept)
    /\ loads' = {}
    /\ pc' = "done"
    /\ UNCHANGED <<call, at, room, kept, ans>>

(***************************************************************************)
(* memcmp and strcmp.  call.stop holds the offsets at which the two differ *)
(* (or, for strcmp, at which the first ends); the first of them answers.   *)
(***************************************************************************)
Both(pieces) == UNION {{<<S + p[1], p[2]>>, <<D + p[1], p[2]>>} : p \in pieces}

Conclude(q) == ans' = q /\ pc' = "done" /\ UNCHANGED <<at, room>>

\* The offset the pieces answer with, taken in order.
FirstIn(pieces) ==
    LET hit == SelectSeq(pieces, LAMBDA p : Bytes(p) \cap call.stop # {})
    IN  IF hit = <<>> THEN Nothing ELSE Min(Bytes(hit[1]) \cap call.stop)

CmpPieces ==
    IF N < H THEN CmpSmall
    ELSE IF N <= 2 * H THEN Ends(H)
    ELSE IF N <= 2 * W THEN Ends(W)
    ELSE IF N <= 4 * W THEN Four(W)
    ELSE Eight(W)

CmpLoops == N > (IF Wide THEN 8 * W ELSE 2 * H)

CmpShortly ==
    /\ call.fn = "memcmp" /\ pc = "call" /\ ~CmpLoops
    /\ loads' = Both(Range(CmpPieces))
    /\ Conclude(FirstIn(CmpPieces))
    /\ UNCHANGED <<call, mem, kept>>

\* One turn of a loop over k bytes: the answer is among them, or go on past.
Turn(k, on) ==
    /\ loads' = Both({<<at, k>>})
    /\ LET q == FirstIn(<< <<at, k>> >>)
       IN  IF q # Nothing THEN Conclude(q) ELSE on
    /\ UNCHANGED <<call, mem, kept>>

CmpEntry ==
    /\ call.fn = "memcmp" /\ pc = "call" /\ CmpLoops
    /\ at' = 0 /\ pc' = "cmp" /\ loads' = {}
    /\ UNCHANGED <<call, room, mem, kept, ans>>

CmpTurn ==
    /\ pc = "cmp" /\ at + W <= N
    /\ LET k == IF at + 4 * W <= N THEN 4 * W ELSE W
       IN  Turn(k, at' = at + k /\ UNCHANGED <<pc, room, ans>>)

CmpTail ==
    /\ pc = "cmp" /\ at + W > N
    /\ LET tail == IF at < N THEN << <<N - W, W>> >> ELSE <<>>
       IN  loads' = Both(Range(tail)) /\ Conclude(FirstIn(tail))
    /\ UNCHANGED <<call, mem, kept>>

\* strcmp: four vectors where they are, when both pages hold them.
StrcmpEntry ==
    /\ call.fn = "strcmp" /\ pc = "call"
    /\ at' = 0 /\ loads' = {}
    /\ pc' = IF Nearer(0) >= 4 * W THEN "first" ELSE "align"
    /\ UNCHANGED <<call, room, mem, kept, ans>>

StrcmpFirst ==
    /\ call.fn = "strcmp" /\ pc = "first"
    /\ Turn(W, /\ at' = at + W
               /\ pc' = IF at + W < 4 * W THEN "first" ELSE "align"
               /\ UNCHANGED <<room, ans>>)

\* The wider one brings its first string to a multiple of the vector.
StrcmpAlign ==
    /\ pc = "align"
    /\ IF Wide /\ (S + at) % W # 0 /\ Nearer(at) >= W
       THEN Turn(W, /\ at' = at + W - ((S + at) % W)
                    /\ pc' = "page" /\ room' = Nearer(at') /\ UNCHANGED ans)
       ELSE /\ pc' = "page" /\ room' = Nearer(at) /\ loads' = {}
            /\ UNCHANGED <<call, at, mem, kept, ans>>

Pass(k) == at' = at + k /\ room' = room - k /\ UNCHANGED <<pc, ans>>

StrcmpVectors ==
    /\ pc = "page" /\ room >= W
    /\ LET k == IF room >= 4 * W THEN 4 * W ELSE W IN Turn(k, Pass(k))

\* A word at a time in the wider one; one that answers is gone through again.
StrcmpWord ==
    /\ pc = "page" /\ Wide /\ room < W /\ room >= H \div 2
    /\ loads' = Both({<<at, H \div 2>>})
    /\ IF FirstIn(<< <<at, H \div 2>> >>) # Nothing
       THEN pc' = "bytes" /\ UNCHANGED <<at, room, ans>>
       ELSE Pass(H \div 2)
    /\ UNCHANGED <<call, mem, kept>>

StrcmpByte ==
    /\ \/ pc = "page" /\ room < (IF Wide THEN H \div 2 ELSE W)
       \/ pc = "bytes"
    /\ room > 0
    /\ Turn(1, Pass(1))

StrcmpPage ==
    /\ pc \in {"page", "bytes"} /\ room = 0
    /\ room' = Nearer(at) /\ pc' = "page" /\ loads' = {}
    /\ UNCHANGED <<call, at, mem, kept, ans>>

(***************************************************************************)
(* memchr, strchr, strlen.  call.stop holds the addresses of the byte      *)
(* looked for (for strchr, of the terminator too, which call.nul tells     *)
(* apart).  The search ends below End.                                     *)
(***************************************************************************)
Scanning == call.fn \in {"memchr", "strchr", "strlen"}
End == IF call.fn # "memchr" \/ N > Space - 1 - S THEN Space - 1 ELSE S + N

\* The answer among the k bytes at a, counted from the address b, or go on.
Look(a, b, k, on) ==
    LET hits == {x \in call.stop : x >= b /\ x < a + k}
    IN  /\ loads' = {<<a, k>>}
        /\ IF hits = {} THEN on
           ELSE Conclude(IF Min(hits) < End /\ Min(hits) \notin call.nul THEN Min(hits) ELSE Nothing)
        /\ UNCHANGED <<call, mem, kept>>

\* Variant: the first four vectors are read wherever they are.
ScanEntryAnywhere ==
    /\ Scanning /\ pc = "call"
    /\ loads' = {}
    /\ IF call.fn = "memchr" /\ N = 0 THEN Conclude(Nothing)
       ELSE at' = S /\ pc' = "first" /\ UNCHANGED <<room, ans>>
    /\ UNCHANGED <<call, mem, kept>>

ScanEntry ==
    /\ Scanning /\ pc = "call"
    /\ loads' = {}
    /\ IF call.fn = "memchr" /\ N = 0 THEN Conclude(Nothing)
       ELSE /\ at' = S
            /\ pc' = IF ToPageEnd(S) >= 4 * W THEN "first" ELSE "scan"
            /\ UNCHANGED <<room, ans>>
    /\ UNCHANGED <<call, mem, kept>>

AfterFirst ==
    IF call.fn = "strlen" /\ Wide THEN "three" ELSE IF at + W < S + 4 * W THEN "first" ELSE "scan"

ScanFirst ==
    /\ Scanning /\ pc = "first"
    /\ Look(at, at, W, IF call.fn = "memchr" /\ N <= at - S + W THEN Conclude(Nothing)
                       ELSE at' = at + W /\ pc' = AfterFirst /\ UNCHANGED <<room, ans>>)

\* The wider strlen: three vectors together, then blocks from a boundary.
StrlenThree ==
    /\ pc = "three"
    /\ Look(at, at, 3 * W, /\ at' = S + 4 * W - ((S + 4 * W) % (4 * W))
                           /\ pc' = "loop" /\ UNCHANGED <<room, ans>>)

\* The vector the address lies in; what comes before the address is ignored.
ScanAligned ==
    /\ pc = "scan"
    /\ Look(at - (at % W), at, W, at' = at - (at % W) + W /\ pc' = "loop" /\ UNCHANGED <<room, ans>>)

ScanLoop ==
    /\ pc = "loop"
    /\ IF at >= End THEN loads' = {} /\ Conclude(Nothing) /\ UNCHANGED <<call, mem, kept>>
       ELSE LET k == IF at % (4 * W) # 0 THEN W ELSE 4 * W
            IN  Look(at, at, k, at' = at + k /\ UNCHANGED <<pc, room, ans>>)

Init ==
    /\ \E f \in Families : call \in Calls(f)
    /\ pc = "call" /\ at = 0 /\ room = 0 /\ kept = <<>> /\ loads = {} /\ ans = Nothing
    /\ mem = IF ~Moving THEN <<>>
             ELSE [x \in (Min({S, D}) - W) .. (Max({S, D}) + N + W) |-> x]

Next ==
    \/ MoveShortly \/ MoveHead \/ MoveBlock \/ BackHead \/ BackBlock \/ StoreKept
    \/ CmpShortly \/ CmpEntry \/ CmpTurn \/ CmpTail
    \/ StrcmpEntry \/ StrcmpFirst \/ StrcmpAlign \/ StrcmpVectors \/ StrcmpWord
    \/ StrcmpByte \/ StrcmpPage
    \/ ScanEntry \/ ScanFirst \/ StrlenThree \/ ScanAligned \/ ScanLoop

Spec == Init /\ [][Next]_vars

(***************************************************************************)
(* Properties.                                                             *)
(***************************************************************************)
Firsts(from, below) == LET hits == {x \in call.stop : x >= from /\ x < below}
                       IN  IF hits = {} THEN Nothing ELSE Min(hits)

\* What the C standard says each function does, whatever the lengths, the
\* alignments and the overlap: memmove leaves the source's old bytes in the
\* destination and touches nothing else; memset likewise; the comparisons
\* answer with the first difference, and the searches with the first match
\* within the length or before the terminator.
AnswersAsDefined ==
    pc = "done" =>
        CASE Moving ->
               \A x \in DOMAIN mem :
                   mem[x] = IF x - D \notin 0 .. N - 1 THEN x
                            ELSE IF call.fn = "memset" THEN Fill ELSE S + (x - D)
          [] call.fn = "memcmp" -> ans = Firsts(0, N)
          [] call.fn = "strcmp" -> ans = Firsts(0, Space)
          [] call.fn = "memchr" -> ans = Firsts(S, S + N)
          [] OTHER -> ans = LET q == Firsts(S, Space) IN IF q \in call.nul THEN Nothing ELSE q

\* "NO LOAD CROSSES INTO A PAGE THE ARGUMENTS DO NOT REACH": memmove and
\* memcmp load only bytes within the length, and the searches and strcmp only
\* from pages that hold a byte up to the one that answers.
ReadsWithinReach ==
    LET PagesOf(a, b) == {x \div Page : x \in a .. b}
        first(from, below) == IF Firsts(from, below) = Nothing THEN below - 1 ELSE Firsts(from, below)
    IN  \A ld \in loads :
          LET last == ld[1] + ld[2] - 1
          IN  CASE call.fn \in {"memmove", "memcmp"} ->
                     \E b \in {S} \cup (IF call.fn = "memcmp" THEN {D} ELSE {}) : ld[1] >= b /\ last < b + N
                [] call.fn = "strcmp" ->
                     \E b \in {S, D} : PagesOf(ld[1], last) \subseteq PagesOf(b, b + first(0, Space))
                [] OTHER -> PagesOf(ld[1], last) \subseteq PagesOf(S, first(S, End))
=============================================================================
