-------------------------- MODULE ReadinessProofs --------------------------
(***************************************************************************)
(* Proofs for Readiness, for any number of contexts that use separate      *)
(* descriptors: what poll takes is delivered once and in order (InOrder),  *)
(* and what it reports is still true when the read comes                   *)
(* (ReportStaysTrue).                                                      *)
(***************************************************************************)
EXTENDS Readiness, TLAPS

\* An enquiry has taken an item and has not kept it yet.
InHand(l, d) == l.pc \in {"keep", "kept"} /\ About(l) = d
Mid(d) == \E c \in Contexts : InHand(loc[c], d)

\* What the environment holds, q, after n items and e ends were taken from the
\* sz items and g ends it was sent: all others, in order, items one by one.
Between(q, n, e, sz, g) ==
    \A j \in DOMAIN q : \/ n < q[j] /\ q[j] <= sz
                        \/ q[j] < 0 /\ e < -q[j] /\ -q[j] <= g
Complete(q, n, sz) == \A x \in (n + 1)..sz : \E j \in DOMAIN q : q[j] = x
Rising(q) == \A j, k \in DOMAIN q : j < k /\ q[j] > 0 /\ q[k] > 0 => q[j] < q[k]
Falling(q) == \A j, k \in DOMAIN q : j < k /\ q[j] < 0 /\ q[k] < 0 => q[k] < q[j]
Runs(q) ==
    \A j, k \in DOMAIN q : j <= k /\ (\A i \in j..k : q[i] > 0) => q[k] = q[j] + (k - j)
Rest(q, n, e, sz, g) ==
    /\ n <= sz
    /\ Between(q, n, e, sz, g) /\ Complete(q, n, sz)
    /\ Rising(q) /\ Falling(q) /\ Runs(q)

\* The items taken from the environment: delivered, kept, or in hand.
Taken(d) == Len(out[d]) + Flag(held[d] \/ Mid(d))

\* The ends of input of a terminal that were reported or are marked to be.
EndsHere(d) == IF d \in Terminals THEN EndsTold(d) ELSE 0

\* A descriptor: what is kept of it is the next item or an end, not both.
KeptOK(d) ==
    /\ ~(held[d] /\ eof[d])
    /\ held[d] /\ ~Mid(d) => byte[d] = Len(out[d]) + 1
    /\ closed[d] => d \in Channels
    /\ out[d] = [j \in 1..Len(out[d]) |-> j]
    /\ Rest(queue[d], Taken(d), EndsHere(d), came[d], given[d])
    /\ d \in Terminals => EndsTold(d) <= given[d]
    /\ d \notin Terminals => \A j \in DOMAIN queue[d] : queue[d][j] > 0
    /\ d \in told => held[d] \/ eof[d]

\* A context in a call: it lists descriptors it uses, and what it reported so
\* far is still true; what is kept of the descriptor it is about is as its place
\* in the call says.
Listed(c, l) ==
    \A j \in DOMAIN l.fds :
        /\ l.fds[j].d \in uses[c]
        /\ <<j, "in">> \in l.rev /\ l.fds[j].d \in Inputs => held[l.fds[j].d] \/ eof[l.fds[j].d]
Placed(l, d) ==
    /\ l.pc \notin {"idle", "scan"} => l.i \in DOMAIN l.fds /\ d \in Inputs
    /\ l.pc \in {"take", "clear", "more", "read"} => l.rev = {} /\ d \notin told
    /\ l.pc \in {"wait", "keep", "more", "read"} => ~held[d] /\ ~eof[d]
    /\ l.pc \in {"keep", "kept"} => l.item = Len(out[d]) + 1
    /\ l.pc = "kept" => /\ ~eof[d]
                        /\ d \in Messages => ~held[d] /\ byte[d] = l.item
                        /\ d \notin Messages => held[d]
    /\ l.pc = "clear" => held[d] /\ l.item = byte[d]
CallOK(c) == Listed(c, loc[c]) /\ Placed(loc[c], About(loc[c]))

IInv ==
    /\ TypeOK
    /\ \A c \in Contexts : CallOK(c)
    /\ \A d \in Inputs : KeptOK(d)

\* A step leaves a descriptor alone.
Same(d) ==
    /\ queue'[d] = queue[d] /\ came'[d] = came[d] /\ given'[d] = given[d] /\ closed'[d] = closed[d]
    /\ held'[d] = held[d] /\ byte'[d] = byte[d] /\ eof'[d] = eof[d]
    /\ out'[d] = out[d] /\ ends'[d] = ends[d]

-----------------------------------------------------------------------------
(***************************************************************************)
(* What the environment holds.                                             *)
(***************************************************************************)
\* A sequence with one more at its end.
LEMMA AppendIs ==
    ASSUME NEW q \in Seq(Int), NEW x \in Int
    PROVE  /\ Append(q, x) \in Seq(Int)
           /\ DOMAIN q = 1..Len(q) /\ Len(q) \in Nat
           /\ DOMAIN Append(q, x) = 1..(Len(q) + 1)
           /\ \A j \in 1..Len(q) : Append(q, x)[j] = q[j]
           /\ Append(q, x)[Len(q) + 1] = x
OBVIOUS

\* Where only items came, another leaves only items.
LEMMA AppendItem ==
    ASSUME NEW q \in Seq(Int), NEW x \in Int, x > 0, \A j \in DOMAIN q : q[j] > 0
    PROVE  \A j \in DOMAIN Append(q, x) : Append(q, x)[j] > 0
OBVIOUS

\* A new item goes behind the others.
LEMMA RestItem ==
    ASSUME NEW q \in Seq(Int), NEW n \in Nat, NEW e \in Nat, NEW sz \in Nat, NEW g \in Nat,
           Rest(q, n, e, sz, g)
    PROVE  Rest(Append(q, sz + 1), n, e, sz + 1, g)
<1> DEFINE p == Append(q, sz + 1)
           z == Len(q)
<1>0. /\ DOMAIN q = 1..z /\ z \in Nat /\ DOMAIN p = 1..(z + 1)
      /\ \A j \in 1..z : p[j] = q[j] /\ q[j] \in Int
      /\ p[z + 1] = sz + 1
  BY AppendIs
<1>r. /\ n <= sz /\ Between(q, n, e, sz, g) /\ Complete(q, n, sz)
      /\ Rising(q) /\ Falling(q) /\ Runs(q)
  BY Zenon DEF Rest
<1> HIDE DEF p, z
<1>1. Between(p, n, e, sz + 1, g) BY <1>0, <1>r DEF Between
<1>2. Complete(p, n, sz + 1)
  <2> SUFFICES ASSUME NEW x \in (n + 1)..(sz + 1) PROVE \E j \in DOMAIN p : p[j] = x
    BY DEF Complete
  <2>1. CASE x = sz + 1 BY <1>0, <2>1
  <2>2. CASE x # sz + 1
    <3>1. x \in (n + 1)..sz BY <2>2
    <3>2. PICK j \in DOMAIN q : q[j] = x BY <1>r, <3>1, Zenon DEF Complete
    <3> QED BY <1>0, <3>2, SMTT(30)
  <2> QED BY <2>1, <2>2, Zenon
<1>3. Rising(p)
  <2> SUFFICES ASSUME NEW j \in DOMAIN p, NEW k \in DOMAIN p, j < k, p[j] > 0, p[k] > 0
               PROVE  p[j] < p[k]
    BY DEF Rising
  <2>1. j \in DOMAIN q /\ p[j] = q[j] /\ q[j] \in Int BY <1>0
  <2>2. CASE k \in DOMAIN q BY <1>0, <1>r, <2>1, <2>2 DEF Rising
  <2>3. CASE k = z + 1
    <3>1. q[j] <= sz BY <1>r, <2>1 DEF Between
    <3> QED BY <1>0, <2>1, <2>3, <3>1
  <2> QED BY <1>0, <2>2, <2>3
<1>4. Falling(p) BY <1>0, <1>r, SMTT(30) DEF Falling
<1>5. z > 0 /\ q[z] > 0 => q[z] = sz
  <2> SUFFICES ASSUME z > 0, q[z] > 0 PROVE q[z] = sz OBVIOUS
  <2>1. z \in DOMAIN q /\ q[z] \in Int BY <1>0
  <2>2. n < q[z] /\ q[z] <= sz BY <1>r, <2>1 DEF Between
  <2>3. sz \in (n + 1)..sz BY <2>1, <2>2
  <2>4. PICK j \in DOMAIN q : q[j] = sz BY <1>r, <2>3, Zenon DEF Complete
  <2>5. j < z /\ q[j] > 0 => q[j] < q[z] BY <1>r, <2>1, Zenon DEF Rising
  <2> QED BY <1>0, <2>2, <2>4, <2>5, SMTT(30)
<1>6. Runs(p)
  <2> SUFFICES ASSUME NEW j \in DOMAIN p, NEW k \in DOMAIN p, j <= k, \A i \in j..k : p[i] > 0
               PROVE  p[k] = p[j] + (k - j)
    BY Zenon DEF Runs
  <2>1. CASE k <= z
    <3>1. \A i \in j..k : q[i] > 0 BY <1>0, <2>1
    <3>2. j \in DOMAIN q /\ k \in DOMAIN q BY <1>0, <2>1
    <3>3. q[k] = q[j] + (k - j) BY <1>r, <3>1, <3>2, Zenon DEF Runs
    <3> QED BY <1>0, <3>2, <3>3
  <2>2. CASE k = z + 1 /\ j = z + 1 BY <1>0, <2>2
  <2>3. CASE k = z + 1 /\ j <= z
    <3>1. \A i \in j..z : q[i] > 0 BY <1>0, <2>3
    <3>2. j \in DOMAIN q /\ z \in DOMAIN q /\ z \in j..z /\ j <= z /\ z > 0 BY <1>0, <2>3
    <3>3. q[z] = q[j] + (z - j) BY <1>r, <3>1, <3>2, Zenon DEF Runs
    <3>4. q[z] = sz BY <1>5, <3>1, <3>2, Zenon
    <3> QED BY <1>0, <2>3, <3>2, <3>3, <3>4, SMTT(30)
  <2>4. j \in 1..(z + 1) /\ k \in 1..(z + 1) /\ z \in Nat BY <1>0, Zenon
  <2>5. k <= z \/ (k = z + 1 /\ j = z + 1) \/ (k = z + 1 /\ j <= z) BY <2>4, SMTT(30)
  <2> QED BY <2>1, <2>2, <2>3, <2>5, Zenon
<1>7. n <= sz + 1 BY <1>r
<1> QED BY <1>1, <1>2, <1>3, <1>4, <1>6, <1>7, Zenon DEF Rest, p

\* So does an end of input.
LEMMA RestTyped ==
    ASSUME NEW q \in Seq(Int), NEW n \in Nat, NEW e \in Nat, NEW sz \in Nat, NEW g \in Nat,
           Rest(q, n, e, sz, g), e <= g
    PROVE  Rest(Append(q, -(g + 1)), n, e, sz, g + 1)
<1> DEFINE p == Append(q, -(g + 1))
           z == Len(q)
<1>0. /\ DOMAIN q = 1..z /\ z \in Nat /\ DOMAIN p = 1..(z + 1)
      /\ \A j \in 1..z : p[j] = q[j] /\ q[j] \in Int
      /\ p[z + 1] = -(g + 1)
  BY AppendIs
<1>r. /\ n <= sz /\ Between(q, n, e, sz, g) /\ Complete(q, n, sz)
      /\ Rising(q) /\ Falling(q) /\ Runs(q)
  BY Zenon DEF Rest
<1> HIDE DEF p, z
<1>1. Between(p, n, e, sz, g + 1) BY <1>0, <1>r, SMTT(30) DEF Between
<1>2. Complete(p, n, sz)
  <2> SUFFICES ASSUME NEW x \in (n + 1)..sz PROVE \E j \in DOMAIN p : p[j] = x
    BY DEF Complete
  <2>1. PICK j \in DOMAIN q : q[j] = x BY <1>r, Zenon DEF Complete
  <2> QED BY <1>0, <2>1
<1>3. Rising(p) BY <1>0, <1>r, SMTT(30) DEF Rising
<1>4. Falling(p)
  <2> SUFFICES ASSUME NEW j \in DOMAIN p, NEW k \in DOMAIN p, j < k, p[j] < 0, p[k] < 0
               PROVE  p[k] < p[j]
    BY DEF Falling
  <2>1. j \in DOMAIN q /\ p[j] = q[j] /\ q[j] \in Int BY <1>0
  <2>2. CASE k \in DOMAIN q BY <1>0, <1>r, <2>1, <2>2 DEF Falling
  <2>3. CASE k = z + 1
    <3>1. -q[j] <= g BY <1>r, <2>1 DEF Between
    <3> QED BY <1>0, <2>1, <2>3, <3>1
  <2> QED BY <1>0, <2>2, <2>3
<1>5. Runs(p)
  <2> SUFFICES ASSUME NEW j \in DOMAIN p, NEW k \in DOMAIN p, j <= k, \A i \in j..k : p[i] > 0
               PROVE  p[k] = p[j] + (k - j)
    BY Zenon DEF Runs
  <2>1. k <= z
    <3>1. k \in j..k /\ k \in 1..(z + 1) BY <1>0
    <3>2. p[k] > 0 BY <3>1, Zenon
    <3> QED BY <1>0, <3>1, <3>2
  <2>2. \A i \in j..k : q[i] > 0 BY <1>0, <2>1
  <2>3. j \in DOMAIN q /\ k \in DOMAIN q BY <1>0, <2>1
  <2>4. q[k] = q[j] + (k - j) BY <1>r, <2>2, <2>3, Zenon DEF Runs
  <2> QED BY <1>0, <2>3, <2>4
<1> QED BY <1>r, <1>1, <1>2, <1>3, <1>4, <1>5, Zenon DEF Rest, p

\* Positions counted from m on.
LEMMA Shifted ==
    ASSUME NEW z \in Nat, NEW m \in Nat, NEW j \in 1..z, NEW k \in 1..z
    PROVE  /\ j < k => m + j < m + k
           /\ j <= k => m + j <= m + k
           /\ (m + k) - (m + j) = k - j
OBVIOUS

\* And back.
LEMMA ShiftedBack ==
    ASSUME NEW z \in Nat, NEW m \in Nat, NEW j \in 1..z, NEW k \in 1..z, NEW i \in (m + j)..(m + k)
    PROVE  i - m \in j..k /\ i - m \in 1..z /\ m + (i - m) = i
OBVIOUS

\* What stays behind the first m keeps its order, and its runs.
LEMMA Behind ==
    ASSUME NEW q \in Seq(Int), NEW p \in Seq(Int), NEW m \in Nat, Rising(q), Falling(q), Runs(q),
           \A j \in DOMAIN p : p[j] = q[m + j] /\ m + j \in DOMAIN q
    PROVE  Rising(p) /\ Falling(p) /\ Runs(p)
<1>0. DOMAIN p = 1..Len(p) /\ Len(p) \in Nat OBVIOUS
<1>1. \A j, k \in DOMAIN p : j < k => m + j < m + k BY <1>0, Shifted
<1>2. \A j, k \in DOMAIN p : j <= k => m + j <= m + k /\ (m + k) - (m + j) = k - j BY <1>0, Shifted, SMTT(30)
<1>3. \A j, k \in 1..Len(p) : \A i \in (m + j)..(m + k) :
          i - m \in j..k /\ i - m \in 1..Len(p) /\ m + (i - m) = i
  BY <1>0, ShiftedBack
<1>4. Rising(p) BY <1>1, Zenon DEF Rising
<1>5. Falling(p) BY <1>1, Zenon DEF Falling
<1>6. Runs(p)
  <2> SUFFICES ASSUME NEW j \in DOMAIN p, NEW k \in DOMAIN p, j <= k, \A i \in j..k : p[i] > 0
               PROVE  p[k] = p[j] + (k - j)
    BY Zenon DEF Runs
  <2>1. \A i \in (m + j)..(m + k) : q[i] > 0
    <3> SUFFICES ASSUME NEW i \in (m + j)..(m + k) PROVE q[i] > 0 OBVIOUS
    <3>1. i - m \in j..k /\ i - m \in DOMAIN p /\ m + (i - m) = i BY <1>0, <1>3, Zenon
    <3>2. p[i - m] > 0 /\ p[i - m] = q[m + (i - m)] BY <3>1, Zenon
    <3> QED BY <3>1, <3>2, Zenon
  <2>2. m + j <= m + k /\ (m + k) - (m + j) = k - j BY <1>2, Zenon
  <2>3. q[m + k] = q[m + j] + ((m + k) - (m + j)) BY <2>1, <2>2, Zenon DEF Runs
  <2>4. p[k] = q[m + k] /\ p[j] = q[m + j] OBVIOUS
  <2> QED BY <2>2, <2>3, <2>4, Zenon
<1> QED BY <1>4, <1>5, <1>6, Zenon

\* The first m, when they are items, are the next m; the others stay.
LEMMA RestDrop ==
    ASSUME NEW q \in Seq(Int), NEW n \in Nat, NEW e \in Nat, NEW sz \in Nat, NEW g \in Nat,
           Rest(q, n, e, sz, g), NEW m \in 0..Len(q), \A j \in 1..m : q[j] > 0
    PROVE  /\ Rest(SubSeq(q, m + 1, Len(q)), n + m, e, sz, g)
           /\ \A j \in 1..m : q[j] = n + j
<1> DEFINE p == SubSeq(q, m + 1, Len(q))
           z == Len(q)
<1>0. /\ DOMAIN q = 1..z /\ z \in Nat /\ DOMAIN p = 1..(z - m) /\ m \in 0..z /\ m \in Nat
      /\ \A j \in 1..(z - m) : p[j] = q[m + j] /\ m + j \in 1..z
      /\ \A j \in 1..z : q[j] \in Int
  OBVIOUS
<1>p. p \in Seq(Int) OBVIOUS
<1>r. /\ n <= sz /\ Between(q, n, e, sz, g) /\ Complete(q, n, sz)
      /\ Rising(q) /\ Falling(q) /\ Runs(q)
  BY Zenon DEF Rest
<1> HIDE DEF p, z
<1>1. m > 0 => q[1] = n + 1
  <2> SUFFICES ASSUME m > 0 PROVE q[1] = n + 1 OBVIOUS
  <2>1. 1 \in DOMAIN q /\ 1 \in 1..m /\ q[1] \in Int BY <1>0
  <2>2. q[1] > 0 BY <2>1, Zenon
  <2>3. n < q[1] /\ q[1] <= sz BY <1>r, <2>1, <2>2 DEF Between
  <2>4. n + 1 \in (n + 1)..sz BY <2>1, <2>3
  <2>5. PICK j \in DOMAIN q : q[j] = n + 1 BY <1>r, <2>4, Zenon DEF Complete
  <2>6. 1 < j /\ q[j] > 0 => q[1] < q[j] BY <1>r, <2>1, <2>2, Zenon DEF Rising
  <2> QED BY <1>0, <2>1, <2>3, <2>5, <2>6, SMTT(30)
<1>2. ASSUME NEW j \in 1..m PROVE q[j] = n + j
  <2>1. \A i \in 1..j : i \in 1..m BY <1>0
  <2>2. \A i \in 1..j : q[i] > 0 BY <2>1, Zenon
  <2>3. 1 \in DOMAIN q /\ j \in DOMAIN q /\ 1 <= j BY <1>0
  <2>4. q[j] = q[1] + (j - 1) BY <1>r, <2>2, <2>3, Zenon DEF Runs
  <2> QED BY <1>0, <1>1, <2>3, <2>4
<1>3. m > 0 => m \in DOMAIN q /\ q[m] > 0 /\ q[m] = n + m BY <1>0, <1>2
<1>4. n + m <= sz
  <2>1. CASE m = 0 BY <1>r, <2>1
  <2>2. CASE m > 0
    <3>1. \/ n < q[m] /\ q[m] <= sz
          \/ q[m] < 0 /\ e < -q[m] /\ -q[m] <= g
      BY <1>3, <1>r, <2>2, Zenon DEF Between
    <3> QED BY <1>3, <2>2, <3>1
  <2> QED BY <1>0, <2>1, <2>2
<1>5. Between(p, n + m, e, sz, g)
  <2> SUFFICES ASSUME NEW j \in DOMAIN p
               PROVE  \/ n + m < p[j] /\ p[j] <= sz
                      \/ p[j] < 0 /\ e < -p[j] /\ -p[j] <= g
    BY Zenon DEF Between
  <2>1. p[j] = q[m + j] /\ m + j \in DOMAIN q /\ q[m + j] \in Int /\ m < m + j BY <1>0, SMTT(30)
  <2>2. \/ n < q[m + j] /\ q[m + j] <= sz
        \/ q[m + j] < 0 /\ e < -q[m + j] /\ -q[m + j] <= g
    BY <1>r, <2>1, Zenon DEF Between
  <2>3. m > 0 /\ q[m + j] > 0 => q[m] < q[m + j] BY <1>3, <1>r, <2>1, Zenon DEF Rising
  <2>4. m \in Nat BY <1>0, Zenon
  <2> QED BY <1>3, <2>1, <2>2, <2>3, <2>4
<1>6. Complete(p, n + m, sz)
  <2> SUFFICES ASSUME NEW x \in (n + m + 1)..sz PROVE \E j \in DOMAIN p : p[j] = x
    BY DEF Complete
  <2>1. x \in (n + 1)..sz BY <1>0
  <2>2. PICK j \in DOMAIN q : q[j] = x BY <1>r, <2>1, Zenon DEF Complete
  <2>3. j > m BY <1>0, <1>2, <2>2
  <2>4. j - m \in DOMAIN p /\ m + (j - m) = j BY <1>0, <2>3
  <2> QED BY <1>0, <2>2, <2>4
<1>7. Rising(p) /\ Falling(p) /\ Runs(p) BY <1>0, <1>p, <1>r, Behind, Zenon
<1>8. Rest(p, n + m, e, sz, g) BY <1>4, <1>5, <1>6, <1>7, Zenon DEF Rest
<1> QED BY <1>2, <1>8, Zenon DEF p, z

\* An end that comes first is the next end that can be reported.
LEMMA RestEnd ==
    ASSUME NEW q \in Seq(Int), NEW n \in Nat, NEW e \in Nat, NEW sz \in Nat, NEW g \in Nat,
           Rest(q, n, e, sz, g), q # <<>>, ~(q[1] > 0)
    PROVE  /\ Rest(Tail(q), n, e, sz, g)
           /\ Rest(Tail(q), n, e + 1, sz, g)
           /\ e + 1 <= g
<1> DEFINE p == Tail(q)
           z == Len(q)
<1>0. /\ DOMAIN q = 1..z /\ z \in Nat \ {0} /\ DOMAIN p = 1..(z - 1)
      /\ \A j \in 1..(z - 1) : p[j] = q[1 + j] /\ 1 + j \in 1..z
      /\ \A j \in 1..z : q[j] \in Int
  OBVIOUS
<1>p. p \in Seq(Int) OBVIOUS
<1>r. /\ n <= sz /\ Between(q, n, e, sz, g) /\ Complete(q, n, sz)
      /\ Rising(q) /\ Falling(q) /\ Runs(q)
  BY Zenon DEF Rest
<1> HIDE DEF p, z
<1>1. 1 \in DOMAIN q /\ q[1] \in Int BY <1>0
<1>2. q[1] < 0 /\ e < -q[1] /\ -q[1] <= g BY <1>1, <1>r DEF Between
<1>3. ASSUME NEW j \in DOMAIN p
      PROVE  \/ n < p[j] /\ p[j] <= sz
             \/ p[j] < 0 /\ e + 1 < -p[j] /\ -p[j] <= g
  <2>1. p[j] = q[1 + j] /\ 1 + j \in DOMAIN q /\ q[1 + j] \in Int /\ 1 < 1 + j BY <1>0, SMTT(30)
  <2>2. \/ n < q[1 + j] /\ q[1 + j] <= sz
        \/ q[1 + j] < 0 /\ e < -q[1 + j] /\ -q[1 + j] <= g
    BY <1>r, <2>1, Zenon DEF Between
  <2>3. q[1 + j] < 0 => q[1 + j] < q[1] BY <1>1, <1>2, <1>r, <2>1, Zenon DEF Falling
  <2> QED BY <1>1, <1>2, <2>1, <2>2, <2>3
<1>4. Between(p, n, e + 1, sz, g) BY <1>3, Zenon DEF Between
<1>5. Between(p, n, e, sz, g)
  <2> SUFFICES ASSUME NEW j \in DOMAIN p
               PROVE  \/ n < p[j] /\ p[j] <= sz
                      \/ p[j] < 0 /\ e < -p[j] /\ -p[j] <= g
    BY Zenon DEF Between
  <2>1. p[j] \in Int BY <1>0
  <2>2. \/ n < p[j] /\ p[j] <= sz
        \/ p[j] < 0 /\ e + 1 < -p[j] /\ -p[j] <= g
    BY <1>3, Zenon
  <2> QED BY <2>1, <2>2
<1>6. Complete(p, n, sz)
  <2> SUFFICES ASSUME NEW x \in (n + 1)..sz PROVE \E j \in DOMAIN p : p[j] = x
    BY DEF Complete
  <2>1. PICK j \in DOMAIN q : q[j] = x BY <1>r, Zenon DEF Complete
  <2>2. j # 1 BY <1>1, <1>2, <2>1
  <2>3. j - 1 \in DOMAIN p /\ 1 + (j - 1) = j BY <1>0, <2>2
  <2> QED BY <1>0, <2>1, <2>3
<1>7. \A j \in DOMAIN p : p[j] = q[1 + j] /\ 1 + j \in DOMAIN q BY <1>0, Zenon
<1>8. Rising(p) /\ Falling(p) /\ Runs(p) BY <1>7, <1>p, <1>r, Behind
<1>9. Rest(p, n, e, sz, g) /\ Rest(p, n, e + 1, sz, g)
  BY <1>4, <1>5, <1>6, <1>8, <1>r, Zenon DEF Rest
<1>10. e + 1 <= g BY <1>1, <1>2
<1> QED BY <1>9, <1>10, Zenon DEF p

-----------------------------------------------------------------------------
(***************************************************************************)
(* A step of a context is about descriptors of its own.                    *)
(***************************************************************************)
\* The elements of a sequence.
LEMMA SeqIs ==
    ASSUME NEW S, NEW s \in Seq(S)
    PROVE  DOMAIN s = 1..Len(s) /\ Len(s) \in Nat /\ \A j \in DOMAIN s : s[j] \in S
OBVIOUS

\* What a context's call lists is a sequence of entries.
LEMMA FdsAre ==
    ASSUME NEW l \in Locals
    PROVE  /\ DOMAIN l.fds = 1..Len(l.fds) /\ Len(l.fds) \in Nat
           /\ \A j \in DOMAIN l.fds : l.fds[j].ev \subseteq {"in", "out"}
<1>1. l.fds \in PollSets \cup {<<>>} \cup {<<[d |-> d, ev |-> {}]>> : d \in Inputs} BY DEF Locals
<1>2. CASE l.fds \in PollSets
  <2>1. l.fds \in Seq([d : {l.fds[j].d : j \in DOMAIN l.fds}, ev : SUBSET {"in", "out"}])
    BY <1>2, ReadinessAssumption, Zenon
  <2>2. /\ DOMAIN l.fds = 1..Len(l.fds) /\ Len(l.fds) \in Nat
        /\ \A j \in DOMAIN l.fds : l.fds[j] \in [d : {l.fds[i].d : i \in DOMAIN l.fds}, ev : SUBSET {"in", "out"}]
    BY <2>1, SeqIs, Zenon
  <2> QED BY <2>2, Zenon
<1>3. CASE l.fds = <<>> BY <1>3
<1>4. CASE l.fds \in {<<[d |-> d, ev |-> {}]>> : d \in Inputs}
  <2>1. PICK d \in Inputs : l.fds = <<[d |-> d, ev |-> {}]>> BY <1>4, Zenon
  <2> QED BY <2>1
<1> QED BY <1>1, <1>2, <1>3, <1>4, Zenon

\* Contexts have no descriptor in common.
LEMMA Apart ==
    ASSUME IInv, NEW c \in Contexts, NEW x \in Contexts, c # x, NEW d \in uses[c]
    PROVE  d \notin uses[x]
<1>1. uses \in Programs BY Zenon DEF IInv, TypeOK
<1>2. uses[c] \cap uses[x] = {} BY <1>1, ReadinessAssumption, Zenon
<1> QED BY <1>2, Zenon

\* What a call is about is one of its context's own.
LEMMA AboutOwn ==
    ASSUME IInv, NEW c \in Contexts, loc[c].pc \notin {"idle", "scan"}
    PROVE  /\ About(loc[c]) \in uses[c] /\ About(loc[c]) \in Inputs
           /\ loc[c].i \in DOMAIN loc[c].fds
BY Zenon DEF IInv, CallOK, Listed, Placed, About

\* So only that context can have an item of it in hand, before a step or after.
LEMMA MidOwn ==
    ASSUME IInv, NEW c \in Contexts, NEW d \in uses[c], NEW l, loc' = [loc EXCEPT ![c] = l]
    PROVE  /\ Mid(d) <=> InHand(loc[c], d)
           /\ Mid(d)' <=> InHand(l, d)
<1>1. ASSUME NEW x \in Contexts \ {c} PROVE ~InHand(loc[x], d)
  <2> SUFFICES ASSUME InHand(loc[x], d) PROVE FALSE OBVIOUS
  <2>1. loc[x].pc \notin {"idle", "scan"} /\ About(loc[x]) = d BY Zenon DEF InHand
  <2>2. d \in uses[x] BY <2>1, AboutOwn, Zenon
  <2> QED BY <2>2, Apart, Zenon
<1>2. loc'[c] = l /\ \A x \in Contexts \ {c} : loc'[x] = loc[x] BY Zenon DEF IInv, TypeOK
<1>3. Mid(d) <=> InHand(loc[c], d) BY <1>1, Zenon DEF Mid
<1>4. \A x \in Contexts \ {c} : ~InHand(loc'[x], d) BY <1>1, <1>2, Zenon
<1>5. Mid(d)' <=> \E x \in Contexts : InHand(loc'[x], d) BY Zenon DEF Mid, InHand, About
<1>6. Mid(d)' <=> InHand(l, d) BY <1>2, <1>4, <1>5, Zenon
<1> QED BY <1>3, <1>6, Zenon

\* A descriptor that is left alone, and is not reported anew, stays as it was.
LEMMA SameKept ==
    ASSUME NEW d \in Inputs, KeptOK(d), Same(d), Mid(d)' <=> Mid(d),
           d \in told' => d \in told \/ held[d] \/ eof[d]
    PROVE  KeptOK(d)'
<1>1. Taken(d)' = Taken(d) /\ EndsHere(d)' = EndsHere(d) BY Zenon DEF Taken, EndsHere, EndsTold, Same
<1>2. EndsTold(d)' = EndsTold(d) BY Zenon DEF EndsTold, Same
<1> QED BY <1>1, <1>2, Zenon DEF KeptOK, Same

\* So does the place of a call about it.
LEMMA SamePlaced ==
    ASSUME NEW l, NEW d, Placed(l, d), held'[d] = held[d], eof'[d] = eof[d], byte'[d] = byte[d],
           out'[d] = out[d], d \notin told => d \notin told'
    PROVE  Placed(l, d)'
<1>1. l.pc \in {"take", "clear", "more", "read"} => l.rev = {} /\ d \notin told' BY Zenon DEF Placed
<1>2. l.pc \in {"keep", "kept"} => l.item = Len(out'[d]) + 1 BY Zenon DEF Placed
<1> QED BY <1>1, <1>2, Zenon DEF Placed

\* A step of context c that changes descriptors of its own only, the ones in D:
\* the invariant holds after it if it does of c and of these.
LEMMA OwnStep ==
    ASSUME IInv, NEW c \in Contexts, NEW D, D \subseteq uses[c], NEW l,
           uses' = uses, loc' = [loc EXCEPT ![c] = l], TypeOK',
           \A d \in Inputs \ D : Same(d) /\ (InHand(l, d) <=> InHand(loc[c], d)),
           \A d \in told' : d \in told \/ (d \in uses[c] /\ (d \in Inputs => held[d] \/ eof[d])),
           Listed(c, l)', Placed(l, About(l))',
           \A d \in D \cap Inputs : KeptOK(d)'
    PROVE  IInv'
<1>1. loc'[c] = l /\ \A x \in Contexts \ {c} : loc'[x] = loc[x] BY Zenon DEF IInv, TypeOK
<1>2. CallOK(c)' BY <1>1, Zenon DEF CallOK
<1>3. ASSUME NEW x \in Contexts \ {c} PROVE CallOK(x)'
  <2>1. loc'[x] = loc[x] /\ CallOK(x) BY <1>1, Zenon DEF IInv
  <2>2. \A d \in uses[x] : d \notin uses[c] BY Apart, Zenon
  <2>3. \A d \in uses[x] \cap Inputs :
            /\ held'[d] = held[d] /\ eof'[d] = eof[d] /\ byte'[d] = byte[d] /\ out'[d] = out[d]
            /\ d \notin told => d \notin told'
    BY <2>2, Zenon DEF Same
  <2>4. Listed(x, loc[x])' BY <2>1, <2>3, Zenon DEF CallOK, Listed
  <2>5. Placed(loc[x], About(loc[x]))'
    <3>1. CASE loc[x].pc \in {"idle", "scan"} BY <2>1, <3>1, Zenon DEF Placed
    <3>2. CASE loc[x].pc \notin {"idle", "scan"}
      <4>1. About(loc[x]) \in uses[x] /\ About(loc[x]) \in Inputs BY <3>2, AboutOwn, Zenon
      <4>2. PICK d \in uses[x] \cap Inputs : d = About(loc[x]) BY <4>1, Zenon
      <4>3. PICK k : k = loc[x] OBVIOUS
      <4>4. Placed(k, d) BY <2>1, <4>2, <4>3, Zenon DEF CallOK
      <4>5. Placed(k, d)' BY <2>3, <4>4, SamePlaced, Zenon
      <4>6. loc'[x] = k /\ About(loc'[x]) = d BY <2>1, <4>2, <4>3, Zenon
      <4>7. About(loc[x])' = About(loc'[x]) BY Zenon DEF About
      <4> QED BY <4>5, <4>6, <4>7, Zenon
    <3> QED BY <3>1, <3>2, Zenon
  <2> QED BY <2>4, <2>5, Zenon DEF CallOK
<1>4. ASSUME NEW d \in Inputs \ D PROVE KeptOK(d)'
  <2>1. Mid(d)' <=> \E x \in Contexts : InHand(loc'[x], d) BY Zenon DEF Mid, InHand, About
  <2>2. Mid(d)' <=> Mid(d) BY <1>1, <2>1, Zenon DEF Mid
  <2>3. KeptOK(d) /\ Same(d) BY Zenon DEF IInv
  <2> QED BY <2>2, <2>3, SameKept, Zenon
<1> QED BY <1>2, <1>3, <1>4, Zenon DEF IInv

-----------------------------------------------------------------------------
(***************************************************************************)
(* The initial state and the environment.                                  *)
(***************************************************************************)
\* Nothing was sent, nothing is kept, no call is made.
LEMMA InitIInv == Init => IInv
<1> SUFFICES ASSUME Init PROVE IInv OBVIOUS
<1>1. Idle \in Locals
  <2>1. /\ {} \in SUBSET (Nat \X {"in", "out", "hup", "nval"})
        /\ 0 \in Nat /\ 0 \in Nat \cup {Forever} /\ 1 \in Nat \ {0}
        /\ <<>> \in PollSets \cup {<<>>} \cup {<<[d |-> d, ev |-> {}]>> : d \in Inputs}
    OBVIOUS
  <2> QED BY <2>1, Zenon DEF Idle, Locals
<1>2. TypeOK
  <2>1. <<>> \in Seq(Int) /\ 0 \in Nat OBVIOUS
  <2> QED BY <1>1, <2>1, Zenon DEF Init, TypeOK
<1>3. Idle.pc = "idle" /\ Idle.fds = <<>> /\ DOMAIN <<>> = {} BY DEF Idle
<1>4. ASSUME NEW c \in Contexts PROVE CallOK(c)
  <2>1. loc[c] = Idle BY Zenon DEF Init
  <2>2. Listed(c, Idle) BY <1>3, Zenon DEF Listed
  <2>3. Placed(Idle, About(Idle)) BY <1>3, Zenon DEF Placed
  <2> QED BY <2>1, <2>2, <2>3, Zenon DEF CallOK
<1>5. ASSUME NEW d \in Inputs PROVE KeptOK(d)
  <2>1. ~Mid(d) BY <1>3, Zenon DEF Init, Mid, InHand
  <2>2. /\ queue[d] = <<>> /\ came[d] = 0 /\ given[d] = 0 /\ closed[d] = FALSE /\ held[d] = FALSE
        /\ eof[d] = FALSE /\ out[d] = <<>> /\ ends[d] = 0 /\ told = {}
    BY Zenon DEF Init
  <2>3. Taken(d) = 0 /\ EndsTold(d) = 0 /\ EndsHere(d) = 0
    BY <2>1, <2>2 DEF Taken, EndsHere, EndsTold, Flag
  <2>4. Rest(<<>>, 0, 0, 0, 0) BY DEF Rest, Between, Complete, Rising, Falling, Runs
  <2>5. <<>> = [j \in 1..Len(<<>>) |-> j] OBVIOUS
  <2> QED BY <1>3, <2>2, <2>3, <2>4, <2>5 DEF KeptOK
<1> QED BY <1>2, <1>4, <1>5, Zenon DEF IInv

\* What is taken of a descriptor and what was told of it are numbers.
LEMMA Numbers ==
    ASSUME IInv, NEW d \in Inputs
    PROVE  /\ queue[d] \in Seq(Int) /\ out[d] \in Seq(Int) /\ Len(out[d]) \in Nat
           /\ Taken(d) \in Nat /\ EndsTold(d) \in Nat /\ EndsHere(d) \in Nat /\ came[d] \in Nat /\ given[d] \in Nat
           /\ ends[d] \in Nat /\ byte[d] \in Nat
<1>1. /\ queue[d] \in Seq(Int) /\ out[d] \in Seq(Int) /\ came[d] \in Nat /\ given[d] \in Nat
      /\ ends[d] \in Nat /\ byte[d] \in Nat
  BY Zenon DEF IInv, TypeOK
<1>2. Len(out[d]) \in Nat BY <1>1
<1>3. Flag(held[d] \/ Mid(d)) \in Nat /\ Flag(eof[d]) \in Nat BY DEF Flag
<1> QED BY <1>1, <1>2, <1>3 DEF Taken, EndsHere, EndsTold

\* No call is disturbed by what arrives.
LEMMA ArrivalIInv ==
    ASSUME IInv, NEW d \in Inputs, UNCHANGED <<uses, kept, loc, out, ends, told>>, TypeOK',
           \A e \in Inputs \ {d} : Same(e), KeptOK(d)'
    PROVE  IInv'
<1>0. UNCHANGED <<uses, held, byte, eof, loc, out, ends, told>> BY Zenon DEF kept
<1>1. ASSUME NEW c \in Contexts PROVE CallOK(c)'
  BY <1>0, Zenon DEF IInv, CallOK, Listed, Placed, About
<1>2. ASSUME NEW e \in Inputs \ {d} PROVE KeptOK(e)'
  <2>1. Mid(e)' <=> Mid(e) BY <1>0, Zenon DEF Mid, InHand, About
  <2>2. KeptOK(e) /\ Same(e) BY Zenon DEF IInv
  <2> QED BY <1>0, <2>1, <2>2, SameKept, Zenon
<1> QED BY <1>1, <1>2, Zenon DEF IInv

\* An item arrives.
LEMMA ArriveIInv == ASSUME IInv, NEW d \in Inputs, Arrive(d) PROVE IInv'
<1>0. /\ came' = [came EXCEPT ![d] = @ + 1]
      /\ queue' = [queue EXCEPT ![d] = Append(@, came[d] + 1)]
      /\ UNCHANGED <<uses, given, closed, kept, loc, out, ends, told>>
      /\ UNCHANGED <<held, byte, eof>>
  BY Zenon DEF Arrive, kept
<1>t. TypeOK BY Zenon DEF IInv
<1>1. came'[d] = came[d] + 1 /\ queue'[d] = Append(queue[d], came[d] + 1) BY <1>0, <1>t, Zenon DEF TypeOK
<1>2. came[d] \in Nat /\ came[d] + 1 \in Nat /\ came[d] + 1 \in Int BY Numbers
<1>3. Append(queue[d], came[d] + 1) \in Seq(Int) BY <1>2, AppendIs, Numbers, Zenon
<1>4. TypeOK' BY <1>0, <1>2, <1>3, <1>t, Zenon DEF TypeOK
<1>5. \A e \in Inputs \ {d} : Same(e) BY <1>0, <1>t, Zenon DEF TypeOK, Same
<1>6. KeptOK(d)'
  <2>1. KeptOK(d) BY Zenon DEF IInv
  <2>2. Mid(d)' <=> Mid(d) BY <1>0, Zenon DEF Mid, InHand, About
  <2>3. Taken(d)' = Taken(d) /\ EndsTold(d)' = EndsTold(d) /\ EndsHere(d)' = EndsHere(d)
    BY <1>0, <2>2, Zenon DEF Taken, EndsHere, EndsTold
  <2>4. Rest(queue[d], Taken(d), EndsHere(d), came[d], given[d]) BY <2>1, Zenon DEF KeptOK
  <2>5. Rest(Append(queue[d], came[d] + 1), Taken(d), EndsHere(d), came[d] + 1, given[d])
    BY <2>4, Numbers, RestItem, Zenon
  <2>6. Rest(queue[d], Taken(d), EndsHere(d), came[d], given[d])' BY <1>0, <1>1, <2>3, <2>5, Zenon
  <2>7. d \notin Terminals => \A j \in DOMAIN queue'[d] : queue'[d][j] > 0
    <3>1. d \notin Terminals => \A j \in DOMAIN queue[d] : queue[d][j] > 0 BY <2>1, Zenon DEF KeptOK
    <3>2. came[d] + 1 > 0 BY <1>2
    <3> QED BY <1>1, <1>2, <3>1, <3>2, AppendItem, Numbers, Zenon
  <2> QED BY <1>0, <2>1, <2>2, <2>3, <2>6, <2>7, Zenon DEF KeptOK
<1> QED BY <1>0, <1>4, <1>5, <1>6, ArrivalIInv, Zenon

\* An end of input is typed at a terminal.
LEMMA TypeEndIInv == ASSUME IInv, NEW d \in Inputs, TypeEnd(d) PROVE IInv'
<1>0. /\ given' = [given EXCEPT ![d] = @ + 1]
      /\ queue' = [queue EXCEPT ![d] = Append(@, -(given[d] + 1))]
      /\ UNCHANGED <<uses, came, closed, kept, loc, out, ends, told>>
      /\ UNCHANGED <<held, byte, eof>> /\ d \in Terminals
  BY Zenon DEF TypeEnd, kept
<1>t. TypeOK BY Zenon DEF IInv
<1>1. given'[d] = given[d] + 1 /\ queue'[d] = Append(queue[d], -(given[d] + 1))
  BY <1>0, <1>t, Zenon DEF TypeOK
<1>2. given[d] \in Nat /\ given[d] + 1 \in Nat /\ -(given[d] + 1) \in Int BY Numbers
<1>3. Append(queue[d], -(given[d] + 1)) \in Seq(Int) BY <1>2, AppendIs, Numbers, Zenon
<1>4. TypeOK' BY <1>0, <1>2, <1>3, <1>t, Zenon DEF TypeOK
<1>5. \A e \in Inputs \ {d} : Same(e) BY <1>0, <1>t, Zenon DEF TypeOK, Same
<1>6. KeptOK(d)'
  <2>1. KeptOK(d) BY Zenon DEF IInv
  <2>2. Mid(d)' <=> Mid(d) BY <1>0, Zenon DEF Mid, InHand, About
  <2>3. Taken(d)' = Taken(d) /\ EndsTold(d)' = EndsTold(d) /\ EndsHere(d)' = EndsHere(d)
    BY <1>0, <2>2, Zenon DEF Taken, EndsHere, EndsTold
  <2>4. /\ Rest(queue[d], Taken(d), EndsHere(d), came[d], given[d])
        /\ EndsHere(d) = EndsTold(d) /\ EndsTold(d) <= given[d]
    BY <1>0, <2>1, Zenon DEF KeptOK, EndsHere
  <2>5. Rest(Append(queue[d], -(given[d] + 1)), Taken(d), EndsHere(d), came[d], given[d] + 1)
    BY <2>4, Numbers, RestTyped, Zenon
  <2>6. Rest(queue[d], Taken(d), EndsHere(d), came[d], given[d])' BY <1>0, <1>1, <2>3, <2>5, Zenon
  <2>7. EndsTold(d) \in Nat BY Numbers, Zenon
  <2>8. EndsTold(d) <= given[d] + 1 BY <1>2, <2>4, <2>7
  <2>9. EndsTold(d)' <= given'[d] BY <1>1, <2>3, <2>8, Zenon
  <2> QED BY <1>0, <2>1, <2>2, <2>6, <2>9, Zenon DEF KeptOK
<1> QED BY <1>0, <1>4, <1>5, <1>6, ArrivalIInv, Zenon

\* The far end of a channel is closed.
LEMMA CloseIInv == ASSUME IInv, NEW d \in Inputs, CloseFarEnd(d) PROVE IInv'
<1>0. /\ closed' = [closed EXCEPT ![d] = TRUE] /\ d \in Channels
      /\ UNCHANGED <<uses, queue, came, given, kept, loc, out, ends, told>>
      /\ UNCHANGED <<held, byte, eof>>
  BY Zenon DEF CloseFarEnd, kept
<1>t. TypeOK BY Zenon DEF IInv
<1>1. TypeOK' BY <1>0, <1>t, Zenon DEF TypeOK
<1>2. \A e \in Inputs \ {d} : Same(e) BY <1>0, <1>t, Zenon DEF TypeOK, Same
<1>3. KeptOK(d)'
  <2>1. KeptOK(d) BY Zenon DEF IInv
  <2>2. Mid(d)' <=> Mid(d) BY <1>0, Zenon DEF Mid, InHand, About
  <2>3. Taken(d)' = Taken(d) /\ EndsTold(d)' = EndsTold(d) /\ EndsHere(d)' = EndsHere(d)
    BY <1>0, <2>2, Zenon DEF Taken, EndsHere, EndsTold
  <2> QED BY <1>0, <2>1, <2>2, <2>3, Zenon DEF KeptOK
<1> QED BY <1>0, <1>1, <1>2, <1>3, ArrivalIInv, Zenon

-----------------------------------------------------------------------------
(***************************************************************************)
(* Steps of a call that change nothing but its locals.                     *)
(***************************************************************************)
\* The entries of a call after a step: it reported no more than is true.
LEMMA ListedAfter ==
    ASSUME NEW c, NEW l, NEW k, Listed(c, l), uses' = uses, k.fds = l.fds,
           \A j \in DOMAIN l.fds :
               <<j, "in">> \in k.rev => \/ <<j, "in">> \in l.rev
                                        \/ l.fds[j].d \in Inputs => held'[l.fds[j].d] \/ eof'[l.fds[j].d],
           \A d \in Inputs : held[d] \/ eof[d] => held'[d] \/ eof'[d]
    PROVE  Listed(c, k)'
BY Zenon DEF Listed

\* What adds an entry's report does to the locals.
LEMMA ReportedIs ==
    ASSUME NEW l \in Locals, l.i \in DOMAIN l.fds, NEW rs \in SUBSET {"in", "hup"}
    PROVE  /\ Reported(l, rs) \in Locals /\ Reported(l, rs).pc = "scan" /\ Reported(l, rs).fds = l.fds
           /\ \A j : <<j, "in">> \in Reported(l, rs).rev =>
                         <<j, "in">> \in l.rev \/ (j = l.i /\ "in" \in rs)
<1> DEFINE e == l.fds[l.i]
           w == IF e.d \in ReadOnly THEN {} ELSE e.ev \cap {"out"}
           new == {<<l.i, r>> : r \in rs \cup w}
<1>1. Reported(l, rs) = [l EXCEPT !.pc = "scan", !.i = @ + 1, !.item = 0, !.rev = @ \cup new]
  BY Zenon DEF Reported
<1>2. w \subseteq {"out"} OBVIOUS
<1>3. l.i \in Nat \ {0} /\ l.rev \in SUBSET (Nat \X {"in", "out", "hup", "nval"}) BY Zenon DEF Locals
<1>4. l.i + 1 \in Nat \ {0} BY <1>3
<1> HIDE DEF w
<1>5. new \in SUBSET (Nat \X {"in", "out", "hup", "nval"}) BY <1>2, <1>3
<1>6. \A j : <<j, "in">> \in new => j = l.i /\ "in" \in rs BY <1>2
<1> HIDE DEF new
<1>7. l.rev \cup new \in SUBSET (Nat \X {"in", "out", "hup", "nval"}) BY <1>3, <1>5, Zenon
<1>8. 0 \in Nat OBVIOUS
<1>9. Reported(l, rs) \in Locals
  <2>1. PICK i \in Nat \ {0} : i = l.i + 1 BY <1>4, Zenon
  <2>2. PICK v \in SUBSET (Nat \X {"in", "out", "hup", "nval"}) : v = l.rev \cup new BY <1>7, Zenon
  <2>3. [l EXCEPT !.pc = "scan", !.i = i, !.item = 0, !.rev = v] \in Locals BY <1>8, Zenon DEF Locals
  <2> QED BY <1>1, <2>1, <2>2, <2>3, Zenon
<1>10. /\ Reported(l, rs).pc = "scan" /\ Reported(l, rs).fds = l.fds
       /\ Reported(l, rs).rev = l.rev \cup new
  BY <1>1 DEF Locals
<1> QED BY <1>6, <1>9, <1>10, Zenon

\* The call of a context, as the types and the invariant give it.
LEMMA CallIs ==
    ASSUME IInv, NEW c \in Contexts
    PROVE  /\ loc[c] \in Locals /\ Listed(c, loc[c]) /\ Placed(loc[c], About(loc[c]))
           /\ DOMAIN loc[c].fds = 1..Len(loc[c].fds) /\ Len(loc[c].fds) \in Nat
<1>1. loc[c] \in Locals BY Zenon DEF IInv, TypeOK
<1> QED BY <1>1, FdsAre, Zenon DEF IInv, CallOK

\* Such a step of a context that has no item in hand before it or after.
LEMMA QuietStep ==
    ASSUME IInv, NEW c \in Contexts, NEW l \in Locals, Put(c, l), UNCHANGED <<env, kept, out, ends>>,
           loc[c].pc \notin {"keep", "kept"}, l.pc \notin {"keep", "kept"},
           \A d \in told' : d \in told \/ (d \in uses[c] /\ (d \in Inputs => held[d] \/ eof[d])),
           Listed(c, l)', Placed(l, About(l))'
    PROVE  IInv'
<1>0. /\ UNCHANGED <<uses, queue, came, given, closed, held, byte, eof, out, ends>>
      /\ loc' = [loc EXCEPT ![c] = l]
  BY Zenon DEF env, kept, Put
<1>1. TypeOK' BY <1>0, Zenon DEF IInv, TypeOK
<1>2. \A d \in Inputs : Same(d) /\ (InHand(l, d) <=> InHand(loc[c], d)) BY <1>0, Zenon DEF Same, InHand
<1>3. PICK D : D = {} BY Zenon
<1>4. /\ D \subseteq uses[c] /\ \A d \in D \cap Inputs : KeptOK(d)'
      /\ \A d \in Inputs \ D : Same(d) /\ (InHand(l, d) <=> InHand(loc[c], d))
  BY <1>2, <1>3, Zenon
<1> QED BY <1>0, <1>1, <1>4, OwnStep, Zenon

\* Idle is a state of the locals in which nothing is listed.
LEMMA IdleIs ==
    /\ Idle \in Locals /\ Idle.pc = "idle" /\ Idle.fds = <<>> /\ Idle.rev = {}
    /\ DOMAIN <<>> = {}
<1>1. /\ {} \in SUBSET (Nat \X {"in", "out", "hup", "nval"})
      /\ 0 \in Nat /\ 0 \in Nat \cup {Forever} /\ 1 \in Nat \ {0}
      /\ <<>> \in PollSets \cup {<<>>} \cup {<<[d |-> d, ev |-> {}]>> : d \in Inputs}
  OBVIOUS
<1>2. Idle \in Locals BY <1>1, Zenon DEF Idle, Locals
<1> QED BY <1>2 DEF Idle

\* A call returns.
LEMMA IdleFits ==
    ASSUME NEW c
    PROVE  Listed(c, Idle)' /\ Placed(Idle, About(Idle))' /\ \A d : ~InHand(Idle, d)
BY IdleIs, Zenon DEF Listed, Placed, InHand

\* poll is called.
LEMMA PollIInv == ASSUME IInv, NEW c \in Contexts, Poll(c) PROVE IInv'
<1>1. PICK fs \in PollSets, t \in Timeouts :
          /\ \A j \in DOMAIN fs : fs[j].d \in uses[c]
          /\ Put(c, [Idle EXCEPT !.pc = "scan", !.fds = fs, !.left = t])
  BY Zenon DEF Poll
<1>2. PICK l : l = [Idle EXCEPT !.pc = "scan", !.fds = fs, !.left = t] OBVIOUS
<1>3. t \in Nat \cup {Forever} BY ReadinessAssumption, Zenon
<1>4. l \in Locals /\ l.pc = "scan" /\ l.fds = fs /\ l.rev = {}
  BY <1>2, <1>3, IdleIs, Zenon DEF Locals
<1>5. UNCHANGED <<env, kept, out, ends, told>> /\ uses' = uses /\ loc[c].pc = "idle" BY Zenon DEF Poll, env
<1>6. Listed(c, l)' BY <1>1, <1>4, <1>5, Zenon DEF Listed
<1>7. Placed(l, About(l))' BY <1>4, Zenon DEF Placed
<1> QED BY <1>1, <1>2, <1>4, <1>5, <1>6, <1>7, QuietStep, Zenon

\* An entry is finished without a change of what is kept, and what it reports is
\* true.
LEMMA EntryDone ==
    ASSUME IInv, NEW c \in Contexts, NEW k \in Locals, Put(c, k), UNCHANGED <<env, kept, out, ends, told>>,
           loc[c].pc \notin {"keep", "kept"}, k.pc = "scan", k.fds = loc[c].fds,
           \A j \in DOMAIN loc[c].fds :
               <<j, "in">> \in k.rev =>
                   \/ <<j, "in">> \in loc[c].rev
                   \/ loc[c].fds[j].d \in Inputs => held[loc[c].fds[j].d] \/ eof[loc[c].fds[j].d]
    PROVE  IInv'
<1>1. uses' = uses /\ held' = held /\ eof' = eof /\ told' = told BY Zenon DEF env, kept
<1>2. Listed(c, loc[c]) BY CallIs, Zenon
<1>3. PICK l : l = loc[c] OBVIOUS
<1>4. Listed(c, k)' BY <1>1, <1>2, <1>3, ListedAfter, Zenon
<1>5. Placed(k, About(k))' BY Zenon DEF Placed
<1> QED BY <1>1, <1>4, <1>5, QuietStep, Zenon

\* poll's round passes an entry, or goes to ask the environment about it.
LEMMA ScanIInv == ASSUME IInv, NEW c \in Contexts, Scan(c) PROVE IInv'
<1>0. PICK l : l = loc[c] OBVIOUS
<1>1. /\ l \in Locals /\ Listed(c, l) /\ DOMAIN l.fds = 1..Len(l.fds) /\ Len(l.fds) \in Nat
      /\ l.pc = "scan" /\ l.i <= Len(l.fds) /\ UNCHANGED <<env, kept, out, ends, told>>
  BY <1>0, CallIs, Zenon DEF Scan
<1>2. l.i \in Nat \ {0} /\ l.rev \in SUBSET (Nat \X {"in", "out", "hup", "nval"})
  BY <1>1, Zenon DEF Locals
<1>3. l.i \in DOMAIN l.fds /\ l.i + 1 \in Nat \ {0} BY <1>1, <1>2
<1>4. l.fds[l.i].ev \subseteq {"in", "out"} BY <1>1, <1>3, FdsAre, Zenon
<1>5. PICK e : e = l.fds[l.i] OBVIOUS
<1>6. CASE e.d \notin Open /\ Put(c, [l EXCEPT !.i = @ + 1, !.rev = @ \cup {<<l.i, "nval">>}])
  <2>1. PICK k : k = [l EXCEPT !.i = @ + 1, !.rev = @ \cup {<<l.i, "nval">>}] OBVIOUS
  <2>2. l.rev \cup {<<l.i, "nval">>} \in SUBSET (Nat \X {"in", "out", "hup", "nval"}) BY <1>2
  <2>3. k \in Locals /\ k.pc = "scan" /\ k.fds = l.fds /\ k.rev = l.rev \cup {<<l.i, "nval">>}
    BY <1>1, <1>3, <2>1, <2>2, Zenon DEF Locals
  <2>4. \A j : <<j, "in">> \in k.rev => <<j, "in">> \in l.rev BY <2>3
  <2> QED BY <1>0, <1>1, <1>6, <2>1, <2>3, <2>4, EntryDone, Zenon
<1>7. CASE e.d \in Plain /\ Put(c, [l EXCEPT !.i = @ + 1, !.rev = @ \cup {<<l.i, r>> : r \in e.ev}])
  <2> DEFINE new == {<<l.i, r>> : r \in e.ev}
  <2>1. PICK k : k = [l EXCEPT !.i = @ + 1, !.rev = @ \cup new] BY Zenon
  <2>2. new \in SUBSET (Nat \X {"in", "out", "hup", "nval"}) BY <1>2, <1>4, <1>5
  <2>3. \A j : <<j, "in">> \in new => j = l.i OBVIOUS
  <2> HIDE DEF new
  <2>4. l.rev \cup new \in SUBSET (Nat \X {"in", "out", "hup", "nval"}) BY <1>2, <2>2, Zenon
  <2>5. k \in Locals /\ k.pc = "scan" /\ k.fds = l.fds /\ k.rev = l.rev \cup new
    BY <1>1, <1>3, <2>1, <2>4, Zenon DEF Locals
  <2>6. l.fds[l.i].d \notin Inputs BY <1>5, <1>7, ReadinessAssumption, Zenon DEF Inputs, Streams
  <2>7. Put(c, k) BY <1>7, <2>1, Zenon DEF new
  <2> QED BY <1>0, <1>1, <2>3, <2>5, <2>6, <2>7, EntryDone, Zenon
<1>8. CASE /\ e.d \in Inputs
           /\ LET w == [l EXCEPT !.waited = TRUE]
              IN  Put(c, IF held[e.d] \/ eof[e.d] THEN Reported(w, {"in"} \cup Hup(e.d))
                                                  ELSE [w EXCEPT !.pc = "wait"])
  <2>1. PICK w : w = [l EXCEPT !.waited = TRUE] BY Zenon
  <2>2. w \in Locals /\ w.fds = l.fds /\ w.i = l.i /\ w.rev = l.rev BY <1>1, <2>1, Zenon DEF Locals
  <2>3. CASE held[e.d] \/ eof[e.d]
    <3>1. PICK rs \in SUBSET {"in", "hup"} : rs = {"in"} \cup Hup(e.d) BY Zenon DEF Hup
    <3>2. PICK k : k = Reported(w, rs) OBVIOUS
    <3>3. /\ k \in Locals /\ k.pc = "scan" /\ k.fds = l.fds
          /\ \A j : <<j, "in">> \in k.rev => <<j, "in">> \in l.rev \/ j = l.i
      <4>1. w.i \in DOMAIN w.fds BY <1>3, <2>2, Zenon
      <4>2. /\ Reported(w, rs) \in Locals /\ Reported(w, rs).pc = "scan" /\ Reported(w, rs).fds = w.fds
            /\ \A j : <<j, "in">> \in Reported(w, rs).rev => <<j, "in">> \in w.rev \/ (j = w.i /\ "in" \in rs)
        BY <2>2, <4>1, ReportedIs, Zenon
      <4> QED BY <2>2, <3>2, <4>2, Zenon
    <3>4. Put(c, k) BY <1>8, <2>1, <2>3, <3>1, <3>2, Zenon
    <3> QED BY <1>0, <1>1, <1>5, <2>3, <3>3, <3>4, EntryDone, Zenon
  <2>4. CASE ~(held[e.d] \/ eof[e.d])
    <3>1. PICK k : k = [w EXCEPT !.pc = "wait"] BY Zenon
    <3>2. k \in Locals /\ k.pc = "wait" /\ k.fds = l.fds /\ k.i = l.i /\ k.rev = l.rev
      BY <2>2, <3>1, Zenon DEF Locals
    <3>3. Put(c, k) BY <1>8, <2>1, <2>4, <3>1, Zenon
    <3>4. uses' = uses /\ held' = held /\ eof' = eof /\ told' = told BY <1>1, Zenon DEF env, kept
    <3>5. Listed(c, k)' BY <1>1, <3>2, <3>4, ListedAfter, Zenon
    <3>6. About(k) = e.d BY <1>5, <3>2, Zenon DEF About
    <3>7. Placed(k, e.d)' BY <1>3, <1>8, <2>4, <3>2, <3>4, Zenon DEF Placed
    <3>8. Placed(k, About(k))' BY <3>6, <3>7, Zenon
    <3> QED BY <1>0, <1>1, <3>2, <3>3, <3>4, <3>5, <3>8, QuietStep, Zenon
  <2> QED BY <2>3, <2>4, Zenon
<1>9. CASE Put(c, Reported(l, {}))
  <2>1. PICK k : k = Reported(l, {}) OBVIOUS
  <2>2. /\ k \in Locals /\ k.pc = "scan" /\ k.fds = l.fds
        /\ \A j : <<j, "in">> \in k.rev => <<j, "in">> \in l.rev
    BY <1>1, <1>3, <2>1, ReportedIs, Zenon
  <2> QED BY <1>0, <1>1, <1>9, <2>1, <2>2, EntryDone, Zenon
<1> QED BY <1>0, <1>5, <1>6, <1>7, <1>8, <1>9, Zenon DEF Scan

\* The enquiry finds nothing, or is refused.
LEMMA WaitNothingIInv == ASSUME IInv, NEW c \in Contexts, WaitExpires(c) \/ WaitFails(c) PROVE IInv'
<1>0. PICK l : l = loc[c] OBVIOUS
<1>1. /\ l \in Locals /\ l.pc = "wait" /\ UNCHANGED <<env, kept, out, ends, told>>
      /\ l.i \in DOMAIN l.fds
      /\ Put(c, Reported(l, {})) \/ Put(c, [Reported(l, {}) EXCEPT !.failed = TRUE])
  BY <1>0, CallIs, AboutOwn, Zenon DEF WaitExpires, WaitFails
<1>2. PICK r : r = Reported(l, {}) OBVIOUS
<1>3. /\ r \in Locals /\ r.pc = "scan" /\ r.fds = l.fds
      /\ \A j : <<j, "in">> \in r.rev => <<j, "in">> \in l.rev
  BY <1>1, <1>2, ReportedIs, Zenon
<1>4. PICK f : f = [r EXCEPT !.failed = TRUE] BY Zenon
<1>5. f \in Locals /\ f.pc = "scan" /\ f.fds = l.fds /\ f.rev = r.rev BY <1>3, <1>4, Zenon DEF Locals
<1>6. PICK k \in {r, f} : Put(c, k) BY <1>1, <1>2, <1>4, Zenon
<1>7. /\ k \in Locals /\ k.pc = "scan" /\ k.fds = l.fds
      /\ \A j : <<j, "in">> \in k.rev => <<j, "in">> \in l.rev
  BY <1>3, <1>5, <1>6, Zenon
<1> QED BY <1>0, <1>1, <1>6, <1>7, EntryDone, Zenon

\* The end of a round: what was reported is told, or the call returns without a
\* report, or another round begins.
LEMMA EndRoundIInv == ASSUME IInv, NEW c \in Contexts, EndRound(c) PROVE IInv'
<1>0. PICK l : l = loc[c] OBVIOUS
<1>1. /\ l \in Locals /\ Listed(c, l) /\ l.pc = "scan" /\ UNCHANGED <<env, kept, out, ends>>
  BY <1>0, CallIs, Zenon DEF EndRound
<1>2. Idle \in Locals /\ Idle.pc = "idle" /\ Listed(c, Idle)' /\ Placed(Idle, About(Idle))'
  BY IdleIs, IdleFits, Zenon
<1>3. CASE /\ told' = told \cup {l.fds[j].d : j \in {k \in DOMAIN l.fds : <<k, "in">> \in l.rev}}
           /\ Put(c, Idle)
  <2>1. \A d \in told' : d \in told \/ (d \in uses[c] /\ (d \in Inputs => held[d] \/ eof[d]))
    BY <1>1, <1>3, Zenon DEF Listed
  <2> QED BY <1>0, <1>1, <1>2, <1>3, <2>1, QuietStep, Zenon
<1>4. CASE told' = told /\ Put(c, Idle) BY <1>0, <1>1, <1>2, <1>4, QuietStep, Zenon
<1>5. PICK n : n = NextRound(l) OBVIOUS
<1>6. n \in Locals /\ n.pc = "scan" /\ n.fds = l.fds /\ n.rev = {} /\ n.left = l.left
  <2>1. {} \in SUBSET (Nat \X {"in", "out", "hup", "nval"}) /\ 1 \in Nat \ {0} OBVIOUS
  <2> QED BY <1>1, <1>5, <2>1, Zenon DEF NextRound, Locals
<1>7. CASE told' = told /\ Put(c, n) BY <1>0, <1>1, <1>6, <1>7, EntryDone, Zenon
<1>8. CASE told' = told /\ Put(c, [n EXCEPT !.left = @ - 1]) /\ l.left \notin {Forever, 0}
  <2>1. PICK k : k = [n EXCEPT !.left = @ - 1] BY Zenon
  <2>2. l.left \in Nat \cup {Forever} BY <1>1, Zenon DEF Locals
  <2>3. n.left - 1 \in Nat BY <1>6, <1>8, <2>2
  <2>4. k \in Locals /\ k.pc = "scan" /\ k.fds = l.fds /\ k.rev = {}
    BY <1>6, <2>1, <2>3, Zenon DEF Locals
  <2> QED BY <1>0, <1>1, <1>8, <2>1, <2>4, EntryDone, Zenon
<1> QED BY <1>0, <1>3, <1>4, <1>5, <1>7, <1>8, Zenon DEF EndRound

\* read, recv or accept is called: from here on the report counts as answered.
LEMMA ReadIInv == ASSUME IInv, NEW c \in Contexts, Read(c) PROVE IInv'
<1>1. PICK d \in uses[c] \cap Inputs, n \in Lens :
          /\ Put(c, [Idle EXCEPT !.pc = "take", !.fds = <<[d |-> d, ev |-> {}]>>, !.len = n])
          /\ told' = told \ {d}
  BY Zenon DEF Read
<1>2. PICK fs : fs = <<[d |-> d, ev |-> {}]>> BY Zenon
<1>3. fs \in {<<[d |-> x, ev |-> {}]>> : x \in Inputs} /\ DOMAIN fs = {1} /\ fs[1].d = d BY <1>2
<1>4. PICK l : l = [Idle EXCEPT !.pc = "take", !.fds = fs, !.len = n] OBVIOUS
<1>5. n \in Nat BY ReadinessAssumption, Zenon
<1>6. l \in Locals /\ l.pc = "take" /\ l.fds = fs /\ l.rev = {} /\ l.i = 1
  <2>1. fs \in PollSets \cup {<<>>} \cup {<<[d |-> x, ev |-> {}]>> : x \in Inputs} BY <1>3, Zenon
  <2>2. Idle.i = 1 BY DEF Idle
  <2> QED BY <1>4, <1>5, <2>1, <2>2, IdleIs, Zenon DEF Locals
<1>7. UNCHANGED <<env, kept, out, ends>> /\ uses' = uses /\ loc[c].pc = "idle" BY Zenon DEF Read, env
<1>8. Listed(c, l)' BY <1>1, <1>3, <1>6, <1>7, Zenon DEF Listed
<1>9. About(l) = d BY <1>3, <1>6, Zenon DEF About
<1>10. Placed(l, d)' BY <1>1, <1>3, <1>6, Zenon DEF Placed
<1>11. Placed(l, About(l))' BY <1>9, <1>10, Zenon
<1>12. Put(c, l) BY <1>1, <1>2, <1>4, Zenon
<1>13. \A x \in told' : x \in told BY <1>1, Zenon
<1> QED BY <1>6, <1>7, <1>8, <1>11, <1>12, <1>13, QuietStep, Zenon

-----------------------------------------------------------------------------
(***************************************************************************)
(* Steps of a call that change what is kept, or taken from the             *)
(* environment.                                                            *)
(***************************************************************************)
\* They are about one descriptor.
LEMMA AboutStep ==
    ASSUME IInv, NEW c \in Contexts, loc[c].pc \notin {"idle", "scan"}, NEW d, d = About(loc[c]),
           NEW l, Put(c, l), uses' = uses, told' = told, TypeOK',
           l.pc \in {"keep", "kept"} => About(l) = d,
           \A e \in Inputs \ {d} : Same(e), Listed(c, l)', Placed(l, About(l))', KeptOK(d)'
    PROVE  IInv'
<1>1. d \in uses[c] BY AboutOwn, Zenon
<1>2. PICK D : D = {d} BY Zenon
<1>3. D \subseteq uses[c] /\ \A e \in D \cap Inputs : KeptOK(e)' BY <1>1, <1>2, Zenon
<1>4. \A e \in Inputs \ D : Same(e) /\ (InHand(l, e) <=> InHand(loc[c], e)) BY <1>2, Zenon DEF InHand
<1>5. loc' = [loc EXCEPT ![c] = l] BY Zenon DEF Put
<1> QED BY <1>3, <1>4, <1>5, OwnStep, Zenon

\* The first of a sequence.
LEMMA HeadIs ==
    ASSUME NEW q \in Seq(Int), q # <<>>
    PROVE  /\ 1 \in DOMAIN q /\ Head(q) = q[1] /\ Tail(q) \in Seq(Int)
           /\ 1 \in 0..Len(q) /\ Len(q) \in Nat
OBVIOUS

\* An end that a read meets is consumed, and is the next to be reported.
LEMMA EndDropped ==
    ASSUME IInv, NEW d \in Inputs, ~HasItem(d), DropEnd(d)
    PROVE  /\ queue' \in [Inputs -> Seq(Int)] /\ \A e \in Inputs \ {d} : queue'[e] = queue[e]
           /\ Rest(queue'[d], Taken(d), EndsHere(d), came[d], given[d])
           /\ d \notin Terminals => \A j \in DOMAIN queue'[d] : queue'[d][j] > 0
           /\ d \in Terminals /\ Ready(d) =>
                  /\ Rest(queue'[d], Taken(d), EndsHere(d) + 1, came[d], given[d])
                  /\ EndsHere(d) + 1 <= given[d]
<1>0. queue \in [Inputs -> Seq(Int)] BY Zenon DEF IInv, TypeOK
<1>1. KeptOK(d) /\ Rest(queue[d], Taken(d), EndsHere(d), came[d], given[d]) BY Zenon DEF IInv, KeptOK
<1>2. queue'[d] = (IF queue[d] = <<>> THEN queue[d] ELSE Tail(queue[d]))
      /\ \A e \in Inputs \ {d} : queue'[e] = queue[e]
  BY <1>0, Zenon DEF DropEnd
<1>3. queue[d] \in Seq(Int) BY <1>0, Zenon
<1>4. CASE queue[d] = <<>>
  <2>1. queue' = queue BY <1>0, <1>4, Zenon DEF DropEnd
  <2>2. ~(d \in Terminals /\ Ready(d)) BY <1>1, <1>4, ReadinessAssumption, Zenon DEF Ready, KeptOK
  <2> QED BY <1>0, <1>1, <2>1, <2>2, Zenon DEF KeptOK
<1>5. CASE queue[d] # <<>>
  <2>1. 1 \in DOMAIN queue[d] /\ Head(queue[d]) = queue[d][1] /\ Tail(queue[d]) \in Seq(Int)
    BY <1>3, <1>5, HeadIs, Zenon
  <2>2. ~(queue[d][1] > 0) BY <1>5, <2>1, Zenon DEF HasItem
  <2>3. d \in Terminals BY <1>1, <2>1, <2>2, Zenon DEF KeptOK
  <2>4. /\ Rest(Tail(queue[d]), Taken(d), EndsHere(d), came[d], given[d])
        /\ Rest(Tail(queue[d]), Taken(d), EndsHere(d) + 1, came[d], given[d])
        /\ EndsHere(d) + 1 <= given[d]
    BY <1>1, <1>5, <2>2, Numbers, RestEnd, Zenon
  <2>5. queue' \in [Inputs -> Seq(Int)] BY <1>0, <1>5, <2>1, Zenon DEF DropEnd
  <2> QED BY <1>2, <1>5, <2>3, <2>4, <2>5, Zenon
<1> QED BY <1>4, <1>5, Zenon

\* The first m of a sequence, and the others.
LEMMA SubSeqIs ==
    ASSUME NEW q \in Seq(Int), NEW m \in 0..Len(q)
    PROVE  /\ SubSeq(q, 1, m) \in Seq(Int) /\ Len(SubSeq(q, 1, m)) = m
           /\ \A j \in 1..m : SubSeq(q, 1, m)[j] = q[j]
           /\ SubSeq(q, m + 1, Len(q)) \in Seq(Int)
           /\ \A j \in DOMAIN SubSeq(q, m + 1, Len(q)) :
                  m + j \in DOMAIN q /\ SubSeq(q, m + 1, Len(q))[j] = q[m + j]
<1>1. Len(q) \in Nat /\ DOMAIN q = 1..Len(q) /\ \A j \in 1..Len(q) : q[j] \in Int OBVIOUS
<1>2. /\ SubSeq(q, 1, m) \in Seq(Int) /\ Len(SubSeq(q, 1, m)) = m
      /\ \A j \in 1..m : SubSeq(q, 1, m)[j] = q[j]
  BY <1>1
<1>3. SubSeq(q, m + 1, Len(q)) \in Seq(Int) BY <1>1
<1>4. /\ DOMAIN SubSeq(q, m + 1, Len(q)) = 1..(Len(q) - m)
      /\ \A j \in 1..(Len(q) - m) : m + j \in 1..Len(q) /\ SubSeq(q, m + 1, Len(q))[j] = q[m + j]
  BY <1>1
<1> QED BY <1>1, <1>2, <1>3, <1>4, Zenon

\* A sequence as a function.
LEMMA SeqFunction ==
    ASSUME NEW q \in Seq(Int)
    PROVE  q = [j \in 1..Len(q) |-> q[j]]
OBVIOUS

\* Numbers put behind the numbers 1, 2, ... that follow them.
LEMMA Delivered ==
    ASSUME NEW o \in Seq(Int), NEW s \in Seq(Int), o = [j \in 1..Len(o) |-> j],
           \A j \in 1..Len(s) : s[j] = Len(o) + j
    PROVE  /\ o \o s \in Seq(Int) /\ Len(o \o s) = Len(o) + Len(s)
           /\ o \o s = [j \in 1..Len(o \o s) |-> j]
<1>1. o \o s \in Seq(Int) /\ Len(o \o s) = Len(o) + Len(s) /\ Len(o) \in Nat /\ Len(s) \in Nat OBVIOUS
<1>2. ASSUME NEW j \in 1..(Len(o) + Len(s)) PROVE (o \o s)[j] = j
  <2>1. (o \o s)[j] = IF j <= Len(o) THEN o[j] ELSE s[j - Len(o)] OBVIOUS
  <2>2. CASE j <= Len(o)
    <3>1. j \in 1..Len(o) BY <1>1, <2>2
    <3>2. o[j] = j BY <3>1, Zenon
    <3> QED BY <2>1, <2>2, <3>2
  <2>3. CASE ~(j <= Len(o))
    <3>1. j - Len(o) \in 1..Len(s) /\ Len(o) + (j - Len(o)) = j BY <1>1, <2>3
    <3>2. s[j - Len(o)] = Len(o) + (j - Len(o)) BY <3>1, Zenon
    <3> QED BY <2>1, <2>3, <3>1, <3>2, Zenon
  <2> QED BY <2>2, <2>3, Zenon
<1>3. o \o s = [j \in 1..Len(o \o s) |-> (o \o s)[j]] BY <1>1, SeqFunction, Zenon
<1> QED BY <1>1, <1>2, <1>3, Zenon

\* A read of m items of the environment, while none is kept, delivers the next m.
LEMMA Transferred ==
    ASSUME IInv, NEW d \in Inputs, ~held[d], ~Mid(d), NEW m \in 0..Len(queue[d]),
           \A j \in 1..m : queue[d][j] > 0, Transfer(d, m)
    PROVE  /\ queue' \in [Inputs -> Seq(Int)] /\ \A e \in Inputs \ {d} : queue'[e] = queue[e]
           /\ out' \in [Inputs -> Seq(Int)] /\ \A e \in Inputs \ {d} : out'[e] = out[e]
           /\ Rest(queue'[d], Len(out'[d]), EndsHere(d), came[d], given[d])
           /\ d \notin Terminals => \A j \in DOMAIN queue'[d] : queue'[d][j] > 0
           /\ out'[d] = [j \in 1..Len(out'[d]) |-> j]
<1> DEFINE q == queue[d]
           s == SubSeq(q, 1, m)
           p == SubSeq(q, m + 1, Len(q))
<1>0. queue \in [Inputs -> Seq(Int)] /\ out \in [Inputs -> Seq(Int)] BY Zenon DEF IInv, TypeOK
<1>1. KeptOK(d) /\ Rest(q, Taken(d), EndsHere(d), came[d], given[d]) BY Zenon DEF IInv, KeptOK
<1>2. Taken(d) = Len(out[d]) /\ Len(out[d]) \in Nat /\ m \in Nat
  <2>1. Len(out[d]) \in Nat BY Numbers, Zenon
  <2>2. Taken(d) = Len(out[d]) + 0 BY Zenon DEF Taken, Flag
  <2> QED BY <2>1, <2>2
<1>3. /\ q \in Seq(Int) /\ EndsHere(d) \in Nat /\ came[d] \in Nat /\ given[d] \in Nat
      /\ m \in 0..Len(q) /\ \A j \in 1..m : q[j] > 0
  BY Numbers, Zenon
<1> HIDE DEF q
<1>4. /\ Rest(p, Len(out[d]) + m, EndsHere(d), came[d], given[d])
      /\ \A j \in 1..m : q[j] = Len(out[d]) + j
  <2>1. Taken(d) \in Nat BY Numbers, Zenon
  <2>2. /\ Rest(p, Taken(d) + m, EndsHere(d), came[d], given[d])
        /\ \A j \in 1..m : q[j] = Taken(d) + j
    BY <1>1, <1>3, <2>1, RestDrop, Zenon
  <2> QED BY <1>2, <2>2, Zenon
<1>5. /\ s \in Seq(Int) /\ Len(s) = m /\ \A j \in 1..Len(s) : s[j] = q[j]
      /\ p \in Seq(Int) /\ \A j \in DOMAIN p : m + j \in DOMAIN q /\ p[j] = q[m + j]
  BY <1>3, SubSeqIs, Zenon
<1> HIDE DEF s, p
<1>6. /\ out[d] \o s \in Seq(Int) /\ Len(out[d] \o s) = Len(out[d]) + m
      /\ out[d] \o s = [j \in 1..Len(out[d] \o s) |-> j]
  <2>1. out[d] \in Seq(Int) /\ out[d] = [j \in 1..Len(out[d]) |-> j] BY <1>0, <1>1, Zenon DEF KeptOK
  <2>2. \A j \in 1..Len(s) : s[j] = Len(out[d]) + j BY <1>4, <1>5, Zenon
  <2> QED BY <1>5, <2>1, <2>2, Delivered, Zenon
<1>7. queue' = [queue EXCEPT ![d] = p] /\ out' = [out EXCEPT ![d] = out[d] \o s]
  BY Zenon DEF Transfer, Drop, Deliver, p, s, q
<1>8. queue'[d] = p /\ out'[d] = out[d] \o s BY <1>0, <1>7, Zenon
<1>9. d \notin Terminals => \A j \in DOMAIN p : p[j] > 0 BY <1>1, <1>5, Zenon DEF KeptOK, q
<1> QED BY <1>0, <1>4, <1>5, <1>6, <1>7, <1>8, <1>9, Zenon

\* The invariant, seen from a call.
LEMMA AtCall ==
    ASSUME IInv, NEW c \in Contexts, NEW l, l = loc[c], l.pc \notin {"idle", "scan"}
    PROVE  /\ l \in Locals /\ l.i \in DOMAIN l.fds /\ About(l) \in uses[c] /\ About(l) \in Inputs
           /\ Listed(c, l) /\ Placed(l, About(l)) /\ KeptOK(About(l)) /\ TypeOK
           /\ \A k : k.fds = l.fds /\ k.i = l.i => About(k) = About(l)
BY CallIs, AboutOwn, Zenon DEF IInv, About

\* An enquiry's read takes the next item into its hand.
LEMMA WaitTakesIInv == ASSUME IInv, NEW c \in Contexts, WaitTakes(c) PROVE IInv'
<1>0. PICK l : l = loc[c] OBVIOUS
<1>1. PICK d : d = About(l) OBVIOUS
<1>2. /\ l.pc = "wait" /\ HasItem(d) /\ Put(c, [l EXCEPT !.pc = "keep", !.item = Head(queue[d])])
      /\ Drop(d, 1) /\ UNCHANGED <<uses, came, given, closed, kept, out, ends, told>>
      /\ UNCHANGED <<held, byte, eof>>
  BY <1>0, <1>1, Zenon DEF WaitTakes, kept
<1>3. /\ l \in Locals /\ l.i \in DOMAIN l.fds /\ d \in uses[c] /\ d \in Inputs
      /\ Listed(c, l) /\ Placed(l, d) /\ KeptOK(d) /\ TypeOK
      /\ \A k : k.fds = l.fds /\ k.i = l.i => About(k) = d
  BY <1>0, <1>1, <1>2, AtCall, Zenon
<1>4. ~held[d] /\ ~eof[d] BY <1>2, <1>3, Zenon DEF Placed
<1>5. queue[d] \in Seq(Int) /\ Taken(d) \in Nat /\ EndsHere(d) \in Nat /\ came[d] \in Nat /\ given[d] \in Nat
      /\ Len(out[d]) \in Nat
  BY <1>3, Numbers, Zenon
<1>6. queue[d] # <<>> /\ Head(queue[d]) > 0 BY <1>2, Zenon DEF HasItem
<1>7. 1 \in 0..Len(queue[d]) /\ Head(queue[d]) = queue[d][1] BY <1>5, <1>6, HeadIs, Zenon
<1>8. PICK p : p = SubSeq(queue[d], 1 + 1, Len(queue[d])) BY Zenon
<1>9. Rest(p, Taken(d) + 1, EndsHere(d), came[d], given[d]) /\ queue[d][1] = Taken(d) + 1
  <2>0. PICK m : m = 1 OBVIOUS
  <2>1. m \in 0..Len(queue[d]) /\ \A j \in 1..m : queue[d][j] > 0 BY <1>6, <1>7, <2>0
  <2>2. Rest(queue[d], Taken(d), EndsHere(d), came[d], given[d]) BY <1>3, Zenon DEF KeptOK
  <2>3. /\ Rest(SubSeq(queue[d], m + 1, Len(queue[d])), Taken(d) + m, EndsHere(d), came[d], given[d])
        /\ \A j \in 1..m : queue[d][j] = Taken(d) + j
    BY <1>5, <2>1, <2>2, RestDrop, Zenon
  <2>4. 1 \in 1..1 OBVIOUS
  <2> QED BY <1>8, <2>0, <2>3, <2>4, Zenon
<1>10. PICK k : k = [l EXCEPT !.pc = "keep", !.item = Head(queue[d])] OBVIOUS
<1>11. k \in Locals /\ k.pc = "keep" /\ k.fds = l.fds /\ k.i = l.i /\ k.rev = l.rev /\ k.item = Taken(d) + 1
  <2>1. Taken(d) + 1 \in Nat BY <1>5
  <2> QED BY <1>3, <1>7, <1>9, <1>10, <2>1, Zenon DEF Locals
<1>12. Mid(d)' /\ ~Mid(d)
  <2>1. loc' = [loc EXCEPT ![c] = k] BY <1>2, <1>10, Zenon DEF Put
  <2>2. InHand(k, d) /\ ~InHand(loc[c], d) BY <1>0, <1>2, <1>3, <1>11, Zenon DEF InHand
  <2> QED BY <1>3, <2>1, <2>2, MidOwn, Zenon
<1>13. Taken(d) = Len(out[d]) /\ Taken(d)' = Taken(d) + 1 /\ EndsHere(d)' = EndsHere(d)
  <2>1. Taken(d) = Len(out[d]) + 0 BY <1>4, <1>12, Zenon DEF Taken, Flag
  <2>2. Taken(d)' = Len(out[d]) + 1 BY <1>2, <1>12, Zenon DEF Taken, Flag
  <2>3. EndsHere(d)' = EndsHere(d) BY <1>2, Zenon DEF EndsHere, EndsTold
  <2> QED BY <1>5, <2>1, <2>2, <2>3
<1>14. p \in Seq(Int) /\ \A j \in DOMAIN p : 1 + j \in DOMAIN queue[d] /\ p[j] = queue[d][1 + j]
  BY <1>5, <1>7, <1>8, SubSeqIs, Zenon
<1>15. /\ queue' \in [Inputs -> Seq(Int)] /\ queue'[d] = p
       /\ \A e \in Inputs \ {d} : queue'[e] = queue[e]
  BY <1>2, <1>3, <1>8, <1>14, Zenon DEF Drop, TypeOK
<1>16. TypeOK'
  <2>1. loc' \in [Contexts -> Locals] BY <1>2, <1>3, <1>10, <1>11, Zenon DEF Put, TypeOK
  <2> QED BY <1>2, <1>3, <1>15, <2>1, Zenon DEF TypeOK
<1>17. KeptOK(d)'
  <2>1. d \notin Terminals => \A j \in DOMAIN p : p[j] > 0 BY <1>3, <1>14, Zenon DEF KeptOK
  <2>2. Rest(queue[d], Taken(d), EndsHere(d), came[d], given[d])' BY <1>2, <1>9, <1>13, <1>15, Zenon
  <2>3. EndsTold(d)' = EndsTold(d) BY <1>2, Zenon DEF EndsTold
  <2> QED BY <1>2, <1>3, <1>4, <1>12, <1>15, <2>1, <2>2, <2>3, Zenon DEF KeptOK
<1>18. Listed(c, k)' BY <1>2, <1>3, <1>11, ListedAfter, Zenon
<1>19. About(k) = d BY <1>3, <1>11, Zenon
<1>20. Placed(k, d)' BY <1>2, <1>3, <1>4, <1>11, <1>13, Zenon DEF Placed
<1>21. Placed(k, About(k))' BY <1>19, <1>20, Zenon
<1>22. \A e \in Inputs \ {d} : Same(e) BY <1>2, <1>15, Zenon DEF Same
<1> QED BY <1>0, <1>1, <1>2, <1>10, <1>16, <1>17, <1>18, <1>19, <1>21, <1>22, AboutStep, Zenon

\* It keeps the item in two stores.
LEMMA KeepIInv == ASSUME IInv, NEW c \in Contexts, Keep(c) PROVE IInv'
<1>0. PICK l : l = loc[c] OBVIOUS
<1>1. PICK d : d = About(l) OBVIOUS
<1>2. /\ l.pc = "keep" /\ Put(c, [l EXCEPT !.pc = "kept"])
      /\ IF d \in Messages THEN byte' = [byte EXCEPT ![d] = l.item] /\ held' = held
                           ELSE held' = [held EXCEPT ![d] = TRUE] /\ byte' = byte
      /\ UNCHANGED <<uses, queue, came, given, closed, eof, out, ends, told>>
  BY <1>0, <1>1, Zenon DEF Keep, env
<1>3. /\ l \in Locals /\ l.i \in DOMAIN l.fds /\ d \in uses[c] /\ d \in Inputs
      /\ Listed(c, l) /\ Placed(l, d) /\ KeptOK(d) /\ TypeOK
      /\ \A k : k.fds = l.fds /\ k.i = l.i => About(k) = d
  BY <1>0, <1>1, <1>2, AtCall, Zenon
<1>4. ~held[d] /\ ~eof[d] /\ l.item = Len(out[d]) + 1 BY <1>2, <1>3, Zenon DEF Placed
<1>5. PICK k : k = [l EXCEPT !.pc = "kept"] BY Zenon
<1>6. k \in Locals /\ k.pc = "kept" /\ k.fds = l.fds /\ k.i = l.i /\ k.rev = l.rev /\ k.item = l.item
  BY <1>3, <1>5, Zenon DEF Locals
<1>7. Mid(d)' /\ Mid(d)
  <2>1. loc' = [loc EXCEPT ![c] = k] BY <1>2, <1>5, Zenon DEF Put
  <2>2. InHand(k, d) /\ InHand(loc[c], d) BY <1>0, <1>1, <1>2, <1>3, <1>6, Zenon DEF InHand
  <2> QED BY <1>3, <2>1, <2>2, MidOwn, Zenon
<1>8. Taken(d)' = Taken(d) /\ EndsHere(d)' = EndsHere(d) /\ EndsTold(d)' = EndsTold(d)
  <2>1. Flag(held[d] \/ Mid(d)) = Flag(TRUE) /\ Flag(held'[d] \/ Mid(d)') = Flag(TRUE)
    BY <1>7, Zenon DEF Flag
  <2> QED BY <1>2, <2>1, Zenon DEF Taken, EndsHere, EndsTold
<1>9. l.item \in Nat BY <1>3, Zenon DEF Locals
<1>10. byte' \in [Inputs -> Nat] /\ held' \in [Inputs -> BOOLEAN] BY <1>2, <1>3, <1>9, Zenon DEF TypeOK
<1>11. /\ d \in Messages => byte'[d] = l.item /\ ~held'[d]
       /\ d \notin Messages => held'[d]
       /\ \A e \in Inputs \ {d} : held'[e] = held[e] /\ byte'[e] = byte[e]
  BY <1>2, <1>3, <1>4, Zenon DEF TypeOK
<1>12. TypeOK'
  <2>1. loc' \in [Contexts -> Locals] BY <1>2, <1>3, <1>5, <1>6, Zenon DEF Put, TypeOK
  <2> QED BY <1>2, <1>3, <1>10, <2>1, Zenon DEF TypeOK
<1>13. \A e \in Inputs : held[e] \/ eof[e] => held'[e] \/ eof'[e] BY <1>2, <1>4, <1>11, Zenon
<1>14. KeptOK(d)'
  <2>1. d \in told' => held'[d] \/ eof'[d] BY <1>2, <1>3, <1>13, Zenon DEF KeptOK
  <2> QED BY <1>2, <1>3, <1>4, <1>7, <1>8, <2>1, Zenon DEF KeptOK
<1>15. Listed(c, k)' BY <1>2, <1>3, <1>6, <1>13, ListedAfter, Zenon
<1>16. About(k) = d BY <1>3, <1>6, Zenon
<1>17. Placed(k, d)' BY <1>2, <1>3, <1>4, <1>6, <1>11, Zenon DEF Placed
<1>18. Placed(k, About(k))' BY <1>16, <1>17, Zenon
<1>19. \A e \in Inputs \ {d} : Same(e) BY <1>2, <1>11, Zenon DEF Same
<1> QED BY <1>0, <1>1, <1>2, <1>5, <1>12, <1>14, <1>15, <1>16, <1>18, <1>19, AboutStep, Zenon

LEMMA KeptIInv == ASSUME IInv, NEW c \in Contexts, Kept(c) PROVE IInv'
<1>0. PICK l : l = loc[c] OBVIOUS
<1>1. PICK d : d = About(l) OBVIOUS
<1>2. /\ l.pc = "kept" /\ Put(c, Reported(l, {"in"} \cup Hup(d)))
      /\ IF d \in Messages THEN held' = [held EXCEPT ![d] = TRUE] /\ byte' = byte
                           ELSE byte' = [byte EXCEPT ![d] = l.item] /\ held' = held
      /\ UNCHANGED <<uses, queue, came, given, closed, eof, out, ends, told>>
  BY <1>0, <1>1, Zenon DEF Kept, env
<1>3. /\ l \in Locals /\ l.i \in DOMAIN l.fds /\ d \in uses[c] /\ d \in Inputs
      /\ Listed(c, l) /\ Placed(l, d) /\ KeptOK(d) /\ TypeOK
  BY <1>0, <1>1, <1>2, AtCall, Zenon
<1>4. /\ ~eof[d] /\ l.item = Len(out[d]) + 1
      /\ d \in Messages => ~held[d] /\ byte[d] = l.item
      /\ d \notin Messages => held[d]
  BY <1>2, <1>3, Zenon DEF Placed
<1>5. PICK k : k = Reported(l, {"in"} \cup Hup(d)) OBVIOUS
<1>6. k \in Locals /\ k.pc = "scan" /\ k.fds = l.fds
      /\ \A j : <<j, "in">> \in k.rev => <<j, "in">> \in l.rev \/ j = l.i
  <2>1. {"in"} \cup Hup(d) \in SUBSET {"in", "hup"} BY Zenon DEF Hup
  <2> QED BY <1>3, <1>5, <2>1, ReportedIs, Zenon
<1>7. ~Mid(d)' /\ Mid(d)
  <2>1. loc' = [loc EXCEPT ![c] = k] BY <1>2, <1>5, Zenon DEF Put
  <2>2. ~InHand(k, d) /\ InHand(loc[c], d) BY <1>0, <1>1, <1>2, <1>6, Zenon DEF InHand
  <2> QED BY <1>3, <2>1, <2>2, MidOwn, Zenon
<1>8. l.item \in Nat BY <1>3, Zenon DEF Locals
<1>9. byte' \in [Inputs -> Nat] /\ held' \in [Inputs -> BOOLEAN] BY <1>2, <1>3, <1>8, Zenon DEF TypeOK
<1>10. /\ byte'[d] = l.item /\ held'[d]
       /\ \A e \in Inputs \ {d} : held'[e] = held[e] /\ byte'[e] = byte[e]
  BY <1>2, <1>3, <1>4, Zenon DEF TypeOK
<1>11. Taken(d)' = Taken(d) /\ EndsHere(d)' = EndsHere(d) /\ EndsTold(d)' = EndsTold(d)
  <2>1. Flag(held[d] \/ Mid(d)) = Flag(TRUE) /\ Flag(held'[d] \/ Mid(d)') = Flag(TRUE)
    BY <1>7, <1>10, Zenon DEF Flag
  <2> QED BY <1>2, <2>1, Zenon DEF Taken, EndsHere, EndsTold
<1>12. TypeOK'
  <2>1. loc' \in [Contexts -> Locals] BY <1>2, <1>3, <1>5, <1>6, Zenon DEF Put, TypeOK
  <2> QED BY <1>2, <1>3, <1>9, <2>1, Zenon DEF TypeOK
<1>13. \A e \in Inputs : held[e] \/ eof[e] => held'[e] \/ eof'[e] BY <1>2, <1>10, Zenon
<1>14. KeptOK(d)' BY <1>2, <1>3, <1>4, <1>10, <1>11, Zenon DEF KeptOK
<1>15. Listed(c, k)'
  <2>1. l.fds[l.i].d = d BY <1>1, Zenon DEF About
  <2> QED BY <1>2, <1>3, <1>6, <1>10, <1>13, <2>1, ListedAfter, Zenon
<1>16. Placed(k, About(k))' BY <1>6, Zenon DEF Placed
<1>17. \A e \in Inputs \ {d} : Same(e) BY <1>2, <1>10, Zenon DEF Same
<1> QED BY <1>0, <1>1, <1>2, <1>5, <1>6, <1>12, <1>14, <1>15, <1>16, <1>17, AboutStep, Zenon

\* The enquiry's read meets the end of input, which is noted.
LEMMA WaitEndsIInv == ASSUME IInv, NEW c \in Contexts, WaitEnds(c) PROVE IInv'
<1>0. PICK l : l = loc[c] OBVIOUS
<1>1. PICK d : d = About(l) OBVIOUS
<1>2. PICK rs : rs = (IF d \in Terminals THEN {"in"} ELSE {"in", "hup"}) BY Zenon
<1>3. PICK k : k = Reported(l, rs) OBVIOUS
<1>4. /\ l.pc = "wait" /\ Ready(d) /\ ~HasItem(d) /\ DropEnd(d) /\ Put(c, k)
      /\ eof' = [eof EXCEPT ![d] = TRUE]
      /\ UNCHANGED <<uses, came, given, closed, held, byte, out, ends, told>>
  BY <1>0, <1>1, <1>2, <1>3, Zenon DEF WaitEnds, AtEnd
<1>5. /\ l \in Locals /\ l.i \in DOMAIN l.fds /\ d \in uses[c] /\ d \in Inputs
      /\ Listed(c, l) /\ Placed(l, d) /\ KeptOK(d) /\ TypeOK
  BY <1>0, <1>1, <1>4, AtCall, Zenon
<1>6. ~held[d] /\ ~eof[d] BY <1>4, <1>5, Zenon DEF Placed
<1>7. k \in Locals /\ k.pc = "scan" /\ k.fds = l.fds
      /\ \A j : <<j, "in">> \in k.rev => <<j, "in">> \in l.rev \/ j = l.i
  <2>1. rs \in SUBSET {"in", "hup"} BY <1>2, Zenon
  <2> QED BY <1>3, <1>5, <2>1, ReportedIs, Zenon
<1>8. ~Mid(d)' /\ ~Mid(d)
  <2>1. loc' = [loc EXCEPT ![c] = k] BY <1>4, Zenon DEF Put
  <2>2. ~InHand(k, d) /\ ~InHand(loc[c], d) BY <1>0, <1>4, <1>7, Zenon DEF InHand
  <2> QED BY <1>5, <2>1, <2>2, MidOwn, Zenon
<1>9. eof' \in [Inputs -> BOOLEAN] /\ eof'[d] /\ \A e \in Inputs \ {d} : eof'[e] = eof[e]
  BY <1>4, <1>5, Zenon DEF TypeOK
<1>10. Taken(d)' = Taken(d) /\ EndsTold(d)' = EndsTold(d) + 1
  <2>1. Taken(d)' = Taken(d) BY <1>4, <1>8, Zenon DEF Taken, Flag
  <2>2. EndsTold(d) = ends[d] + 0 /\ EndsTold(d)' = ends[d] + 1 BY <1>4, <1>6, <1>9, Zenon DEF EndsTold, Flag
  <2>3. ends[d] \in Nat BY <1>5, Zenon DEF TypeOK
  <2> QED BY <2>1, <2>2, <2>3
<1>11. /\ queue' \in [Inputs -> Seq(Int)] /\ \A e \in Inputs \ {d} : queue'[e] = queue[e]
       /\ Rest(queue'[d], Taken(d), EndsHere(d), came[d], given[d])
       /\ d \notin Terminals => \A j \in DOMAIN queue'[d] : queue'[d][j] > 0
       /\ d \in Terminals => /\ Rest(queue'[d], Taken(d), EndsHere(d) + 1, came[d], given[d])
                             /\ EndsHere(d) + 1 <= given[d]
  BY <1>4, <1>5, EndDropped, Zenon
<1>12. Rest(queue'[d], Taken(d)', EndsHere(d)', came[d], given[d])
  <2>1. CASE d \in Terminals
    <3>1. EndsHere(d)' = EndsHere(d) + 1 BY <1>10, <2>1, Zenon DEF EndsHere
    <3> QED BY <1>10, <1>11, <2>1, <3>1, Zenon
  <2>2. CASE d \notin Terminals
    <3>1. EndsHere(d)' = EndsHere(d) BY <2>2, Zenon DEF EndsHere
    <3> QED BY <1>10, <1>11, <3>1, Zenon
  <2> QED BY <2>1, <2>2, Zenon
<1>13. d \in Terminals => EndsTold(d)' <= given[d] BY <1>10, <1>11, Zenon DEF EndsHere
<1>14. TypeOK'
  <2>1. loc' \in [Contexts -> Locals] BY <1>4, <1>5, <1>7, Zenon DEF Put, TypeOK
  <2> QED BY <1>4, <1>5, <1>9, <1>11, <2>1, Zenon DEF TypeOK
<1>15. KeptOK(d)' BY <1>4, <1>5, <1>6, <1>9, <1>11, <1>12, <1>13, Zenon DEF KeptOK
<1>16. Listed(c, k)'
  <2>1. l.fds[l.i].d = d BY <1>1, Zenon DEF About
  <2>2. \A e \in Inputs : held[e] \/ eof[e] => held'[e] \/ eof'[e] BY <1>4, <1>9, Zenon
  <2> QED BY <1>4, <1>5, <1>7, <1>9, <2>1, <2>2, ListedAfter, Zenon
<1>17. Placed(k, About(k))' BY <1>7, Zenon DEF Placed
<1>18. \A e \in Inputs \ {d} : Same(e) BY <1>4, <1>9, <1>11, Zenon DEF Same
<1> QED BY <1>0, <1>1, <1>4, <1>7, <1>14, <1>15, <1>16, <1>17, <1>18, AboutStep, Zenon

\* A call looks at what is kept: an item is copied, an end reported and its
\* note cleared, or the environment is read.
LEMMA TakeIInv == ASSUME IInv, NEW c \in Contexts, Take(c) PROVE IInv'
<1>0. PICK l : l = loc[c] OBVIOUS
<1>1. PICK d : d = About(l) OBVIOUS
<1>2. l.pc = "take" /\ UNCHANGED <<env, held, byte, out, told>>
      /\ UNCHANGED <<uses, queue, came, given, closed>>
  BY <1>0, <1>1, Zenon DEF Take, env
<1>3. /\ l \in Locals /\ l.i \in DOMAIN l.fds /\ d \in uses[c] /\ d \in Inputs
      /\ Listed(c, l) /\ Placed(l, d) /\ KeptOK(d) /\ TypeOK
      /\ \A k : k.fds = l.fds /\ k.i = l.i => About(k) = d
  BY <1>0, <1>1, <1>2, AtCall, Zenon
<1>4. l.rev = {} /\ d \notin told BY <1>2, <1>3, Zenon DEF Placed
<1>5. ASSUME NEW k \in Locals, Put(c, k), k.pc \in {"clear", "read"}, UNCHANGED <<eof, ends>>,
             k.fds = l.fds, k.i = l.i, k.rev = l.rev,
             k.pc = "clear" => held[d] /\ k.item = byte[d],
             k.pc = "read" => ~held[d] /\ ~eof[d]
      PROVE  IInv'
  <2>1. UNCHANGED <<env, kept, out, ends>> BY <1>2, <1>5, Zenon DEF kept
  <2>2. Listed(c, k)' BY <1>2, <1>3, <1>5, ListedAfter, Zenon
  <2>3. About(k) = d BY <1>3, <1>5, Zenon
  <2>4. Placed(k, d)' BY <1>2, <1>3, <1>4, <1>5, Zenon DEF Placed
  <2>5. Placed(k, About(k))' BY <2>3, <2>4, Zenon
  <2> QED BY <1>0, <1>2, <1>5, <2>1, <2>2, <2>5, QuietStep, Zenon
<1>6. CASE held[d] /\ Put(c, [l EXCEPT !.pc = "clear", !.item = byte[d]]) /\ UNCHANGED <<eof, ends>>
  <2>1. PICK b : b = byte[d] OBVIOUS
  <2>2. b \in Nat BY <1>3, <2>1, Zenon DEF TypeOK
  <2>3. PICK k : k = [l EXCEPT !.pc = "clear", !.item = b] OBVIOUS
  <2>4. k \in Locals /\ k.pc = "clear" /\ k.fds = l.fds /\ k.i = l.i /\ k.rev = l.rev /\ k.item = b
    BY <1>3, <2>2, <2>3, Zenon DEF Locals
  <2> QED BY <1>5, <1>6, <2>1, <2>3, <2>4, Zenon
<1>7. CASE ~held[d] /\ ~eof[d] /\ Put(c, [l EXCEPT !.pc = "read"]) /\ UNCHANGED <<eof, ends>>
  <2>1. PICK k : k = [l EXCEPT !.pc = "read"] BY Zenon
  <2>2. k \in Locals /\ k.pc = "read" /\ k.fds = l.fds /\ k.i = l.i /\ k.rev = l.rev
    BY <1>3, <2>1, Zenon DEF Locals
  <2> QED BY <1>5, <1>7, <2>1, <2>2, Zenon
<1>8. CASE ~held[d] /\ eof[d] /\ eof' = [eof EXCEPT ![d] = FALSE] /\ ReportEnd(d) /\ Put(c, Idle)
  <2>1. PICK k : k = Idle OBVIOUS
  <2>2. k \in Locals /\ k.pc = "idle" /\ Listed(c, k)' /\ Placed(k, About(k))' /\ ~InHand(k, d)
    BY <2>1, IdleIs, IdleFits, Zenon
  <2>3. ~Mid(d)' /\ ~Mid(d)
    <3>1. loc' = [loc EXCEPT ![c] = k] BY <1>8, <2>1, Zenon DEF Put
    <3>2. ~InHand(loc[c], d) BY <1>0, <1>2, Zenon DEF InHand
    <3> QED BY <1>3, <2>2, <3>1, <3>2, MidOwn, Zenon
  <2>4. eof' \in [Inputs -> BOOLEAN] /\ ~eof'[d] /\ \A e \in Inputs \ {d} : eof'[e] = eof[e]
    BY <1>3, <1>8, Zenon DEF TypeOK
  <2>5. /\ ends[d] \in Nat /\ ends \in [Inputs -> Nat]
        /\ ends'[d] = (IF d \in Terminals THEN ends[d] + 1 ELSE ends[d])
        /\ \A e \in Inputs \ {d} : ends'[e] = ends[e]
    BY <1>3, <1>8, Zenon DEF TypeOK, ReportEnd
  <2>6. ends' \in [Inputs -> Nat]
    <3>1. ends[d] + 1 \in Nat BY <2>5
    <3>2. (IF d \in Terminals THEN ends[d] + 1 ELSE ends[d]) \in Nat BY <2>5, <3>1, Zenon
    <3>3. ends' = [ends EXCEPT ![d] = IF d \in Terminals THEN ends[d] + 1 ELSE ends[d]]
      BY <1>8, Zenon DEF ReportEnd
    <3> QED BY <2>5, <3>2, <3>3, Zenon
  <2>7. d \in Terminals => EndsTold(d)' = EndsTold(d)
    <3>1. EndsTold(d) = ends[d] + 1 /\ EndsTold(d)' = ends'[d] + 0 BY <1>8, <2>4, Zenon DEF EndsTold, Flag
    <3> QED BY <2>5, <3>1
  <2>8. Taken(d)' = Taken(d) /\ EndsHere(d)' = EndsHere(d)
    BY <1>2, <2>3, <2>7, Zenon DEF Taken, EndsHere, Flag
  <2>9. TypeOK'
    <3>1. loc' \in [Contexts -> Locals] BY <1>3, <1>8, <2>1, <2>2, Zenon DEF Put, TypeOK
    <3> QED BY <1>2, <1>3, <2>4, <2>6, <3>1, Zenon DEF TypeOK
  <2>10. KeptOK(d)' BY <1>2, <1>3, <1>4, <1>8, <2>3, <2>4, <2>7, <2>8, Zenon DEF KeptOK
  <2>11. \A e \in Inputs \ {d} : Same(e) BY <1>2, <2>4, <2>5, Zenon DEF Same
  <2> QED BY <1>0, <1>1, <1>2, <1>8, <2>1, <2>2, <2>9, <2>10, <2>11, AboutStep, Zenon
<1> QED BY <1>0, <1>1, <1>6, <1>7, <1>8, Zenon DEF Take

\* The mark of a kept item is cleared as the item is delivered.
LEMMA ClearIInv == ASSUME IInv, NEW c \in Contexts, Clear(c) PROVE IInv'
<1>0. PICK l : l = loc[c] OBVIOUS
<1>1. PICK d : d = About(l) OBVIOUS
<1>2. PICK s : s = <<l.item>> BY Zenon
<1>3. PICK k : k = (IF d \in Streams /\ l.len > 1 THEN [l EXCEPT !.pc = "more", !.len = @ - 1] ELSE Idle) OBVIOUS
<1>4. /\ l.pc = "clear" /\ held' = [held EXCEPT ![d] = FALSE] /\ Put(c, k)
      /\ out' = [out EXCEPT ![d] = out[d] \o s]
      /\ UNCHANGED <<uses, queue, came, given, closed, byte, eof, ends, told>>
  BY <1>0, <1>1, <1>2, <1>3, Zenon DEF Clear, Deliver, env
<1>5. /\ l \in Locals /\ l.i \in DOMAIN l.fds /\ d \in uses[c] /\ d \in Inputs
      /\ Listed(c, l) /\ Placed(l, d) /\ KeptOK(d) /\ TypeOK
      /\ \A x : x.fds = l.fds /\ x.i = l.i => About(x) = d
  BY <1>0, <1>1, <1>4, AtCall, Zenon
<1>6. l.rev = {} /\ d \notin told /\ held[d] /\ ~eof[d] /\ l.item = byte[d]
  BY <1>4, <1>5, Zenon DEF Placed, KeptOK
<1>7. \/ k = Idle
      \/ k \in Locals /\ k.pc = "more" /\ k.fds = l.fds /\ k.i = l.i /\ k.rev = l.rev
  <2>1. ASSUME l.len > 1, k = [l EXCEPT !.pc = "more", !.len = @ - 1]
        PROVE  k \in Locals /\ k.pc = "more" /\ k.fds = l.fds /\ k.i = l.i /\ k.rev = l.rev
    <3>1. l.len \in Nat BY <1>5, Zenon DEF Locals
    <3>2. l.len - 1 \in Nat BY <2>1, <3>1
    <3> QED BY <1>5, <2>1, <3>2, Zenon DEF Locals
  <2> QED BY <1>3, <2>1, Zenon
<1>8. k \in Locals /\ k.pc \in {"idle", "more"} BY <1>7, IdleIs, Zenon
<1>9. ~Mid(d)' /\ ~Mid(d)
  <2>1. loc' = [loc EXCEPT ![c] = k] BY <1>4, Zenon DEF Put
  <2>2. ~InHand(k, d) /\ ~InHand(loc[c], d) BY <1>0, <1>4, <1>8, Zenon DEF InHand
  <2> QED BY <1>5, <2>1, <2>2, MidOwn, Zenon
<1>10. held' \in [Inputs -> BOOLEAN] /\ ~held'[d] /\ \A e \in Inputs \ {d} : held'[e] = held[e]
  BY <1>4, <1>5, Zenon DEF TypeOK
<1>11. out[d] \in Seq(Int) /\ out[d] = [j \in 1..Len(out[d]) |-> j] /\ l.item = Len(out[d]) + 1
  BY <1>5, <1>6, <1>9, Zenon DEF TypeOK, KeptOK
<1>12. s \in Seq(Int) /\ Len(s) = 1 /\ \A j \in 1..Len(s) : s[j] = Len(out[d]) + j
  <2>1. Len(out[d]) \in Nat BY <1>11
  <2> QED BY <1>2, <1>11, <2>1
<1>13. PICK o : o = out[d] \o s BY Zenon
<1>14. o \in Seq(Int) /\ Len(o) = Len(out[d]) + 1 /\ o = [j \in 1..Len(o) |-> j]
  <2>1. s \in Seq(Int) /\ \A j \in 1..Len(s) : s[j] = Len(out[d]) + j BY <1>12, Zenon
  <2>2. /\ out[d] \o s \in Seq(Int) /\ Len(out[d] \o s) = Len(out[d]) + Len(s)
        /\ out[d] \o s = [j \in 1..Len(out[d] \o s) |-> j]
    BY <1>11, <2>1, Delivered, Zenon
  <2> QED BY <1>12, <1>13, <2>2, Zenon
<1>15. out' \in [Inputs -> Seq(Int)] /\ out'[d] = o /\ \A e \in Inputs \ {d} : out'[e] = out[e]
  BY <1>4, <1>5, <1>13, <1>14, Zenon DEF TypeOK
<1>16. Taken(d)' = Taken(d) /\ EndsHere(d)' = EndsHere(d) /\ EndsTold(d)' = EndsTold(d)
  <2>1. Taken(d) = Len(out[d]) + 1 /\ Taken(d)' = Len(o) + 0
    BY <1>6, <1>9, <1>10, <1>15, Zenon DEF Taken, Flag
  <2>2. Len(o) \in Nat BY <1>14
  <2>3. Taken(d)' = Taken(d) BY <1>14, <2>1, <2>2
  <2> QED BY <1>4, <2>3, Zenon DEF EndsHere, EndsTold
<1>17. TypeOK'
  <2>1. loc' \in [Contexts -> Locals] BY <1>4, <1>5, <1>8, Zenon DEF Put, TypeOK
  <2> QED BY <1>4, <1>5, <1>10, <1>15, <2>1, Zenon DEF TypeOK
<1>18. KeptOK(d)' BY <1>4, <1>5, <1>6, <1>10, <1>14, <1>15, <1>16, Zenon DEF KeptOK
<1>19. \A e \in Inputs \ {d} : Same(e) BY <1>4, <1>10, <1>15, Zenon DEF Same
<1>20. Listed(c, k)' /\ Placed(k, About(k))'
  <2>1. CASE k = Idle BY <2>1, IdleFits, Zenon
  <2>2. CASE k.pc = "more" /\ k.fds = l.fds /\ k.i = l.i /\ k.rev = l.rev
    <3>1. About(k) = d BY <1>5, <2>2, Zenon
    <3>2. Placed(k, d)' BY <1>4, <1>5, <1>6, <1>10, <2>2, Zenon DEF Placed
    <3>3. Listed(c, k)' BY <1>4, <1>5, <1>6, <2>2, Zenon DEF Listed
    <3> QED BY <3>1, <3>2, <3>3, Zenon
  <2> QED BY <1>7, <2>1, <2>2, Zenon
<1> QED BY <1>0, <1>1, <1>4, <1>8, <1>17, <1>18, <1>19, <1>20, AboutStep, Zenon

\* A transfer from the environment: m items, ...
LEMMA TransferIInv ==
    ASSUME IInv, NEW c \in Contexts, loc[c].pc \in {"more", "read"}, NEW d, d = About(loc[c]),
           NEW m \in 0..Len(queue[d]), \A j \in 1..m : queue[d][j] > 0, Transfer(d, m),
           Put(c, Idle), UNCHANGED <<uses, came, given, closed, kept, ends, told>>
    PROVE  IInv'
<1>0. PICK l : l = loc[c] OBVIOUS
<1>1. PICK k : k = Idle OBVIOUS
<1>2. Put(c, k) /\ UNCHANGED <<uses, came, given, closed, held, byte, eof, ends, told>>
  BY <1>1, Zenon DEF kept
<1>3. d \in uses[c] /\ d \in Inputs /\ Placed(l, d) /\ KeptOK(d) /\ TypeOK BY <1>0, AtCall, Zenon
<1>4. d \notin told /\ ~held[d] /\ ~eof[d] BY <1>0, <1>3, Zenon DEF Placed
<1>5. k \in Locals /\ k.pc = "idle" /\ Listed(c, k)' /\ Placed(k, About(k))' /\ ~InHand(k, d)
  BY <1>1, IdleIs, IdleFits, Zenon
<1>6. ~Mid(d)' /\ ~Mid(d)
  <2>1. loc' = [loc EXCEPT ![c] = k] BY <1>2, Zenon DEF Put
  <2>2. ~InHand(loc[c], d) BY Zenon DEF InHand
  <2> QED BY <1>3, <1>5, <2>1, <2>2, MidOwn, Zenon
<1>7. /\ queue' \in [Inputs -> Seq(Int)] /\ \A e \in Inputs \ {d} : queue'[e] = queue[e]
      /\ out' \in [Inputs -> Seq(Int)] /\ \A e \in Inputs \ {d} : out'[e] = out[e]
      /\ Rest(queue'[d], Len(out'[d]), EndsHere(d), came[d], given[d])
      /\ d \notin Terminals => \A j \in DOMAIN queue'[d] : queue'[d][j] > 0
      /\ out'[d] = [j \in 1..Len(out'[d]) |-> j]
  BY <1>3, <1>4, <1>6, Transferred, Zenon
<1>8. Taken(d)' = Len(out'[d]) /\ EndsHere(d)' = EndsHere(d) /\ EndsTold(d)' = EndsTold(d)
  <2>1. Taken(d)' = Len(out'[d]) + 0 BY <1>2, <1>4, <1>6, Zenon DEF Taken, Flag
  <2>2. Len(out'[d]) \in Nat
    <3>1. out'[d] \in Seq(Int) BY <1>3, <1>7, Zenon
    <3> QED BY <3>1
  <2>3. Taken(d)' = Len(out'[d]) BY <2>1, <2>2
  <2> QED BY <1>2, <2>3, Zenon DEF EndsHere, EndsTold
<1>9. TypeOK'
  <2>1. loc' \in [Contexts -> Locals] BY <1>2, <1>3, <1>5, Zenon DEF Put, TypeOK
  <2> QED BY <1>2, <1>3, <1>7, <2>1, Zenon DEF TypeOK
<1>10. KeptOK(d)' BY <1>2, <1>3, <1>4, <1>7, <1>8, Zenon DEF KeptOK
<1>11. \A e \in Inputs \ {d} : Same(e) BY <1>2, <1>7, Zenon DEF Same
<1> QED BY <1>2, <1>5, <1>9, <1>10, <1>11, AboutStep, Zenon

\* ... or none, and an end it meets is consumed, reported or not.
LEMMA ReadEndIInv ==
    ASSUME IInv, NEW c \in Contexts, loc[c].pc \in {"more", "read"}, NEW d, d = About(loc[c]),
           ~HasItem(d), DropEnd(d), ends' = ends \/ (Ready(d) /\ ReportEnd(d)),
           Put(c, Idle), UNCHANGED <<uses, came, given, closed, kept, out, told>>
    PROVE  IInv'
<1>0. PICK l : l = loc[c] OBVIOUS
<1>1. PICK k : k = Idle OBVIOUS
<1>2. Put(c, k) /\ UNCHANGED <<uses, came, given, closed, held, byte, eof, out, told>>
  BY <1>1, Zenon DEF kept
<1>3. d \in uses[c] /\ d \in Inputs /\ Placed(l, d) /\ KeptOK(d) /\ TypeOK BY <1>0, AtCall, Zenon
<1>4. d \notin told /\ ~held[d] /\ ~eof[d] BY <1>0, <1>3, Zenon DEF Placed
<1>5. k \in Locals /\ k.pc = "idle" /\ Listed(c, k)' /\ Placed(k, About(k))' /\ ~InHand(k, d)
  BY <1>1, IdleIs, IdleFits, Zenon
<1>6. ~Mid(d)' /\ ~Mid(d)
  <2>1. loc' = [loc EXCEPT ![c] = k] BY <1>2, Zenon DEF Put
  <2>2. ~InHand(loc[c], d) BY Zenon DEF InHand
  <2> QED BY <1>3, <1>5, <2>1, <2>2, MidOwn, Zenon
<1>7. /\ queue' \in [Inputs -> Seq(Int)] /\ \A e \in Inputs \ {d} : queue'[e] = queue[e]
      /\ Rest(queue'[d], Taken(d), EndsHere(d), came[d], given[d])
      /\ d \notin Terminals => \A j \in DOMAIN queue'[d] : queue'[d][j] > 0
      /\ d \in Terminals /\ Ready(d) =>
             /\ Rest(queue'[d], Taken(d), EndsHere(d) + 1, came[d], given[d])
             /\ EndsHere(d) + 1 <= given[d]
  BY <1>3, EndDropped, Zenon
<1>8. Taken(d)' = Taken(d) BY <1>2, <1>4, <1>6, Zenon DEF Taken, Flag
<1>9. ends[d] \in Nat /\ ends \in [Inputs -> Nat] BY <1>3, Zenon DEF TypeOK
<1>10. /\ ends' \in [Inputs -> Nat] /\ \A e \in Inputs \ {d} : ends'[e] = ends[e]
       /\ ends'[d] = ends[d] \/ (d \in Terminals /\ Ready(d) /\ ends'[d] = ends[d] + 1)
  <2>1. PICK x : x = (IF d \in Terminals THEN ends[d] + 1 ELSE ends[d]) OBVIOUS
  <2>2. ends[d] + 1 \in Nat BY <1>9
  <2>3. x \in Nat BY <1>9, <2>1, <2>2, Zenon
  <2>4. ends' = ends \/ (Ready(d) /\ ends' = [ends EXCEPT ![d] = x]) BY <2>1, Zenon DEF ReportEnd
  <2> QED BY <1>3, <1>9, <2>1, <2>3, <2>4, Zenon
<1>11. EndsTold(d) = ends[d] + 0 /\ EndsTold(d)' = ends'[d] + 0 BY <1>2, <1>4, Zenon DEF EndsTold, Flag
<1>12. /\ Rest(queue'[d], Taken(d)', EndsHere(d)', came[d], given[d])
       /\ d \in Terminals => EndsTold(d)' <= given[d]
  <2>1. CASE ends'[d] = ends[d]
    <3>1. EndsTold(d)' = EndsTold(d) BY <1>11, <2>1, Zenon
    <3>2. EndsHere(d)' = EndsHere(d) BY <3>1, Zenon DEF EndsHere
    <3>3. d \in Terminals => EndsTold(d) <= given[d] BY <1>3, Zenon DEF KeptOK
    <3> QED BY <1>7, <1>8, <3>1, <3>2, <3>3, Zenon
  <2>2. CASE d \in Terminals /\ Ready(d) /\ ends'[d] = ends[d] + 1
    <3>1. EndsTold(d)' = EndsTold(d) + 1 BY <1>9, <1>11, <2>2
    <3>2. EndsHere(d)' = EndsHere(d) + 1 /\ EndsHere(d) = EndsTold(d) BY <2>2, <3>1, Zenon DEF EndsHere
    <3> QED BY <1>7, <1>8, <2>2, <3>1, <3>2, Zenon
  <2> QED BY <1>10, <2>1, <2>2, Zenon
<1>13. TypeOK'
  <2>1. loc' \in [Contexts -> Locals] BY <1>2, <1>3, <1>5, Zenon DEF Put, TypeOK
  <2> QED BY <1>2, <1>3, <1>7, <1>10, <2>1, Zenon DEF TypeOK
<1>14. KeptOK(d)' BY <1>2, <1>3, <1>4, <1>7, <1>12, Zenon DEF KeptOK
<1>15. \A e \in Inputs \ {d} : Same(e) BY <1>2, <1>7, <1>10, Zenon DEF Same
<1> QED BY <1>2, <1>5, <1>13, <1>14, <1>15, AboutStep, Zenon

\* The second transfer of a read whose first byte was kept.
LEMMA MoreIInv == ASSUME IInv, NEW c \in Contexts, More(c) PROVE IInv'
<1>0. PICK d : d = About(loc[c]) OBVIOUS
<1>1. /\ loc[c].pc = "more" /\ Put(c, Idle) /\ UNCHANGED <<uses, came, given, closed, kept, ends, told>>
      /\ \/ UNCHANGED <<queue, out>>
         \/ \E m \in Leading(queue[d], loc[c].len) : Transfer(d, m)
         \/ ~HasItem(d) /\ DropEnd(d) /\ out' = out
  BY <1>0, Zenon DEF More
<1>2. CASE UNCHANGED <<queue, out>>
  <2>1. UNCHANGED <<env, kept, out, ends>> BY <1>1, <1>2, Zenon DEF env
  <2> QED BY <1>1, <2>1, IdleIs, IdleFits, QuietStep, Zenon
<1>3. CASE \E m \in Leading(queue[d], loc[c].len) : Transfer(d, m)
  <2>1. PICK m \in Leading(queue[d], loc[c].len) : Transfer(d, m) BY <1>3, Zenon
  <2>2. m \in 0..Len(queue[d]) /\ \A j \in 1..m : queue[d][j] > 0 BY Zenon DEF Leading
  <2> QED BY <1>0, <1>1, <2>1, <2>2, TransferIInv, Zenon
<1>4. CASE ~HasItem(d) /\ DropEnd(d) /\ out' = out
  BY <1>0, <1>1, <1>4, ReadEndIInv, Zenon
<1> QED BY <1>1, <1>2, <1>3, <1>4, Zenon

\* The read of the environment when nothing was kept.
LEMMA ReadThroughIInv == ASSUME IInv, NEW c \in Contexts, ReadThrough(c) PROVE IInv'
<1>0. PICK d : d = About(loc[c]) OBVIOUS
<1>1. PICK n : n = (IF d \in Streams THEN loc[c].len ELSE 1) OBVIOUS
<1>2. /\ loc[c].pc = "read" /\ Put(c, Idle) /\ UNCHANGED <<uses, came, given, closed, kept, told>>
      /\ \/ (\E m \in Leading(queue[d], n) : Transfer(d, m)) /\ ends' = ends
         \/ Ready(d) /\ ~HasItem(d) /\ DropEnd(d) /\ ReportEnd(d) /\ out' = out
         \/ UNCHANGED <<queue, out, ends>>
  BY <1>0, <1>1, Zenon DEF ReadThrough, AtEnd
<1>3. CASE (\E m \in Leading(queue[d], n) : Transfer(d, m)) /\ ends' = ends
  <2>1. PICK m \in Leading(queue[d], n) : Transfer(d, m) BY <1>3, Zenon
  <2>2. m \in 0..Len(queue[d]) /\ \A j \in 1..m : queue[d][j] > 0 BY Zenon DEF Leading
  <2> QED BY <1>0, <1>2, <1>3, <2>1, <2>2, TransferIInv, Zenon
<1>4. CASE Ready(d) /\ ~HasItem(d) /\ DropEnd(d) /\ ReportEnd(d) /\ out' = out
  BY <1>0, <1>2, <1>4, ReadEndIInv, Zenon
<1>5. CASE UNCHANGED <<queue, out, ends>>
  <2>1. UNCHANGED <<env, kept, out, ends>> BY <1>2, <1>5, Zenon DEF env
  <2> QED BY <1>2, <2>1, IdleIs, IdleFits, QuietStep, Zenon
<1> QED BY <1>2, <1>3, <1>4, <1>5, Zenon

-----------------------------------------------------------------------------
(***************************************************************************)
(* The invariant, and the properties of Readiness.                         *)
(***************************************************************************)
\* No step of okm_poll, of the reads or of the environment breaks it.
LEMMA NextIInv == ASSUME IInv, [Next]_vars PROVE IInv'
<1>1. ASSUME NEW c \in Contexts, Step(c) PROVE IInv'
  BY <1>1, ScanIInv, EndRoundIInv, KeepIInv, KeptIInv, WaitTakesIInv, WaitEndsIInv,
     WaitNothingIInv, TakeIInv, ClearIInv, MoreIInv, ReadThroughIInv, Zenon DEF Step
<1>2. ASSUME NEW c \in Contexts, Poll(c) \/ Read(c) PROVE IInv'
  BY <1>2, PollIInv, ReadIInv, Zenon
<1>3. ASSUME NEW d \in Inputs, Arrive(d) \/ TypeEnd(d) \/ CloseFarEnd(d) PROVE IInv'
  BY <1>3, ArriveIInv, TypeEndIInv, CloseIInv, Zenon
<1>4. CASE UNCHANGED vars
  BY <1>4, Zenon DEF vars, env, kept, IInv, TypeOK, CallOK, Listed, Placed, KeptOK, Taken, Mid,
     EndsHere, EndsTold
<1> QED BY <1>1, <1>2, <1>3, <1>4, Zenon DEF Next

\* The inductive invariant: every context is at a place of its call that fits
\* what is kept, and every descriptor's items and ends are all accounted for.
THEOREM ReadinessInvariant == Spec => []IInv
<1>1. Init => IInv BY InitIInv
<1>2. IInv /\ [Next]_vars => IInv' BY NextIInv
<1> QED BY <1>1, <1>2, PTL DEF Spec

\* When no call is under way, nothing is in anybody's hand.
LEMMA NoneInHand ==
    ASSUME NEW d, \A c \in Contexts : loc[c] = Idle
    PROVE  Taken(d) = Len(out[d]) + Flag(held[d])
<1>1. ~Mid(d) BY IdleFits, Zenon DEF Mid
<1> QED BY <1>1, Zenon DEF Taken, Flag

\* What the environment holds, as sets.
LEMMA RestSets ==
    ASSUME NEW q \in Seq(Int), NEW n \in Nat, NEW e \in Nat, NEW sz \in Nat, NEW g \in Nat,
           Rest(q, n, e, sz, g)
    PROVE  /\ {x \in {q[j] : j \in DOMAIN q} : x > 0} = (n + 1)..sz
           /\ \A x \in {q[j] : j \in DOMAIN q} : x < 0 => e < -x
<1>1. \A j \in DOMAIN q : q[j] \in Int OBVIOUS
<1>2. Between(q, n, e, sz, g) /\ Complete(q, n, sz) BY Zenon DEF Rest
<1>3. ASSUME NEW j \in DOMAIN q PROVE /\ q[j] > 0 => q[j] \in (n + 1)..sz
                                      /\ q[j] < 0 => e < -q[j]
  BY <1>1, <1>2 DEF Between
<1>4. ASSUME NEW x \in (n + 1)..sz PROVE x > 0 /\ \E j \in DOMAIN q : q[j] = x
  BY <1>2 DEF Complete
<1> QED BY <1>3, <1>4, Zenon

\* What a read of the environment took to answer a poll is delivered, once and
\* in order, whatever the interleaving of polls, reads and arrivals; no end of
\* input is reported twice.
THEOREM InOrderAlways == Spec => []InOrder
<1>1. ASSUME IInv, NEW d \in Inputs
      PROVE  /\ out[d] = [j \in 1..Len(out[d]) |-> j]
             /\ {x \in Queued(d) : x > 0} = (Taken(d) + 1)..came[d]
             /\ \A x \in Queued(d) : x < 0 => EndsHere(d) < -x
             /\ d \in Terminals => EndsTold(d) <= given[d]
  <2>1. KeptOK(d) BY <1>1, Zenon DEF IInv
  <2>2. queue[d] \in Seq(Int) /\ Taken(d) \in Nat /\ EndsHere(d) \in Nat /\ came[d] \in Nat /\ given[d] \in Nat
    BY <1>1, Numbers, Zenon
  <2>3. Rest(queue[d], Taken(d), EndsHere(d), came[d], given[d]) BY <2>1, Zenon DEF KeptOK
  <2>4. /\ {x \in Queued(d) : x > 0} = (Taken(d) + 1)..came[d]
        /\ \A x \in Queued(d) : x < 0 => EndsHere(d) < -x
    BY <2>2, <2>3, RestSets, Zenon DEF Queued
  <2> QED BY <2>1, <2>4, Zenon DEF KeptOK
<1>2. ASSUME IInv PROVE InOrder
  <2>1. ASSUME NEW d \in Inputs, \A c \in Contexts : loc[c] = Idle
        PROVE  {x \in Queued(d) : x > 0} = (Len(out[d]) + Flag(held[d]) + 1)..came[d]
    BY <1>1, <1>2, <2>1, NoneInHand, Zenon
  <2>2. ASSUME NEW d \in Terminals
        PROVE  EndsTold(d) <= given[d] /\ \A x \in Queued(d) : x < 0 => EndsTold(d) < -x
    <3>1. d \in Inputs BY Zenon DEF Inputs, Streams
    <3>2. EndsHere(d) = EndsTold(d) BY Zenon DEF EndsHere
    <3> QED BY <1>1, <1>2, <3>1, <3>2, Zenon
  <2> QED BY <1>1, <1>2, <2>1, <2>2, Zenon DEF InOrder
<1> QED BY <1>2, ReadinessInvariant, PTL

\* What poll reported is still true when the read comes: the item or the end it
\* reported stays kept until a read of that descriptor takes it.
THEOREM ReportStaysTrueAlways == Spec => []ReportStaysTrue
<1>1. IInv => ReportStaysTrue BY Zenon DEF IInv, KeptOK, ReportStaysTrue
<1> QED BY <1>1, ReadinessInvariant, PTL
=============================================================================
