---------------------------- MODULE StringCalls ----------------------------
(***************************************************************************)
(* The calls the string and memory functions are checked over: every       *)
(* length past two turns of the longest loop, every overlap, every         *)
(* alignment that a branch or a loop looks at, every position in a page.   *)
(***************************************************************************)
EXTENDS Integers

Widths == {<<4, 4>>, <<4, 8>>}
RealWidth == <<16, 16>>   \* for the lengths below one vector

Entry(fn, v, n, s, d, stop, nul) ==
    [fn |-> fn, h |-> v[1], w |-> v[2], n |-> n, s |-> s, d |-> d, stop |-> stop, nul |-> nul]

\* memmove over every overlap; alignments matter to the loop alone.
Moves(v, n) ==
    LET base == 16 * v[2]
        ds == IF n > 4 * v[2] THEN {base, base + 1, base + v[2] - 1} ELSE {base}
    IN  {Entry("memmove", v, n, d + k, d, {}, {}) : d \in ds, k \in (- n - 1) .. (n + 1)}
        \cup {Entry("memset", v, n, d, d, {}, {}) : d \in ds}

Compares(v, n) ==
    {Entry("memcmp", v, n, 0, 32 * v[2], {i, j}, {}) :
        i \in 0 .. n, j \in {0, n \div 2, n - 1, n} \cap (0 .. n)}

\* Where a string may begin: anywhere in a page, for the wider vectors on
\* either side of the boundaries.
Begins(v) ==
    {8 * v[2] + o : o \in IF v[1] = v[2] THEN 0 .. 8 * v[2] - 1
                          ELSE {b * v[2] + e : b \in {0, 3, 4, 7}, e \in {0, 1, v[2] - 1}}}

Searches(v) ==
    {Entry("memchr", v, i + m, s, 0, {s - 1, s + i, s + i + j}, {}) :
        s \in Begins(v), i \in 0 .. 13 * v[2], j \in {1, v[2]}, m \in {0, 1, 3, 600}}
    \cup {Entry("strlen", v, 0, s, 0, {s - 1, s + i, s + i + j}, {}) :
        s \in Begins(v), i \in 0 .. 13 * v[2], j \in {1, v[2]}}
    \cup {Entry("strchr", v, 0, s, 0, {s - 1, s + i, s + i + 1}, {s + i + j}) :
        s \in Begins(v), i \in 0 .. 13 * v[2], j \in {0, 1}}

StrCompares(v) ==
    {Entry("strcmp", v, 0, s, 32 * v[2] + r, {i, i + j}, {}) :
        s \in Begins(v), r \in {0, 1, 3 * v[2] + 2, 4 * v[2], 6 * v[2] + 1, 8 * v[2] - 1},
        i \in 0 .. 13 * v[2], j \in {1}}

SomeFamilies ==
    {<<fn, v, 0>> : fn \in {"search", "strcmp"}, v \in Widths}
    \cup UNION {{<<"move", v, n>> : n \in 0 .. 9 * v[2] + 1} : v \in Widths}
    \cup UNION {{<<"memcmp", v, n>> : n \in 0 .. 14 * v[2]} : v \in Widths}
    \cup {<<fn, RealWidth, n>> : fn \in {"move", "memcmp"}, n \in 0 .. 17}

SomeCalls(f) ==
    CASE f[1] = "search" -> Searches(f[2])
      [] f[1] = "strcmp" -> StrCompares(f[2])
      [] f[1] = "move" -> Moves(f[2], f[3])
      [] f[1] = "memcmp" -> Compares(f[2], f[3])
=============================================================================
