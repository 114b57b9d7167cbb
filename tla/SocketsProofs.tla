--------------------------- MODULE SocketsProofs ----------------------------
(***************************************************************************)
(* okm_net.c, used by a program that is in one call on a socket at a time  *)
(* (Sockets with ~Shared): every connection has one holder, and what the   *)
(* program sees is the queues of SockSpec.                                 *)
(*                                                                         *)
(* IInv says where a connection can be.  The first half shows that every   *)
(* step keeps it, one lemma per handler; the second that every step is one *)
(* of SockSpec's or not to be seen, one lemma per handler again; the end   *)
(* counts the holders.                                                     *)
(***************************************************************************)
EXTENDS Sockets, TLAPS

\* The slot and the descriptor of a new socket were free.
LEMMA NewSocketFree ==
    ASSUME TypeOK, NEW fresh, NewSocket(fresh)
    PROVE  \E f \in Fds, r \in Slots :
               /\ fds[f] = None /\ sock[r].state = "FREE"
               /\ fds' = [fds EXCEPT ![f] = r]
               /\ sock' = [sock EXCEPT ![r] = fresh]
BY Zenon DEF NewSocket, Lowest, FreeFds, FreeSlots

\* What comes first in a queue, and what is left.
LEMMA HeadAndTail ==
    ASSUME NEW z \in Seq(Things), z # <<>>
    PROVE  /\ Len(z) \in Nat \ {0} /\ DOMAIN z = 1..Len(z)
           /\ Head(z) = z[1] /\ z[1] \in Things
           /\ Tail(z) \in Seq(Things) /\ DOMAIN Tail(z) = 1..Len(z)-1
           /\ \A i \in 1..Len(z)-1 : Tail(z)[i] = z[i + 1] /\ i + 1 \in 1..Len(z)
OBVIOUS

\* What a step leaves alone stays as it was.
LEMMA NumberedSame ==
    ASSUME Numbered, UNCHANGED <<q, made>>, open' \subseteq open
    PROVE  Numbered'
<1>1. q' = q /\ made' = made
  OBVIOUS
<1>2. open' \subseteq 1..made'
  BY <1>1, Zenon DEF Numbered
<1>3. \A s \in Slots : \A i \in DOMAIN q'[s] : q'[s][i] \in 1..made' \ open'
  BY <1>1 DEF Numbered
<1>4. \A s, r \in Slots : \A i \in DOMAIN q'[s], j \in DOMAIN q'[r] :
           q'[s][i] = q'[r][j] => s = r /\ i = j
  BY <1>1 DEF Numbered
<1> QED
  BY <1>2, <1>3, <1>4, Zenon DEF Numbered

\* Nor does a connection change hands if neither slots nor calls do.
LEMMA HeldUnchanged ==
    ASSUME UNCHANGED <<sock, open, at>>, NEW c, HeldOnce(c)
    PROVE  HeldOnce(c)'
BY Zenon DEF HeldOnce, HasConn, HasPend, HasCall

\* A slot that is in use may get further descriptors, or lose some.
LEMMA SlotUnchanged ==
    ASSUME NEW s \in Slots, SlotOK(s), UNCHANGED <<sock, q>>,
           sock[s].state # "FREE" \/ fds' = fds
    PROVE  SlotOK(s)'
BY Zenon DEF SlotOK

\* A call finds the slot as it left it, as long as neither moves.
LEMMA CallUnchanged ==
    ASSUME NEW x \in Contexts, CallOK(x), UNCHANGED <<sock, at>>
    PROVE  CallOK(x)'
BY Zenon DEF CallOK

\* Nobody begins a call, so no two are on one slot.
LEMMA OneCallUnchanged ==
    ASSUME OneCall, UNCHANGED at
    PROVE  OneCall'
BY Zenon DEF OneCall

\* A call begun on a slot, or under way there, is the only one.
LEMMA OnlyHere ==
    ASSUME ~Shared, OneCall, NEW x \in Contexts, NEW s \in Slots, On(x, s) \/ at[x].s = s
    PROVE  \A y \in Contexts \ {x} : at[y].s # s
<1>1. s # None
  BY SocketsAssumption
<1> QED
  BY <1>1 DEF OneCall, On

\* A step of a call on one slot: what it has to keep of that slot and of that
\* call, and it keeps everybody else's.
LEMMA Local ==
    ASSUME ~Shared, IInv, TypeOK', NEW x \in Contexts, NEW s \in Slots,
           \A y \in Contexts \ {x} : at[y].s # s /\ at'[y] = at[y],
           \A r \in Slots \ {s} : sock'[r] = sock[r] /\ q'[r] = q[r],
           \A r \in Slots \ {s}, f \in Fds : fds'[f] = r => fds[f] = r,
           at'[x].s \in {s, None},
           SlotOK(s)', CallOK(x)'
    PROVE  /\ \A r \in Slots : SlotOK(r)'
           /\ \A y \in Contexts : CallOK(y)'
           /\ OneCall'
<1>1. ASSUME NEW r \in Slots \ {s} PROVE SlotOK(r)'
  BY <1>1 DEF IInv, SlotOK
<1>2. ASSUME NEW y \in Contexts \ {x} PROVE CallOK(y)'
  <2>1. at[y].s # s /\ at'[y] = at[y] /\ CallOK(y)
    BY Zenon DEF IInv
  <2>2. at[y].s \in Slots \ {s} \/ at[y].s = None
    BY <2>1 DEF IInv, TypeOK, CallRecord
  <2>3. CASE at[y].s = None
    <3>1. at[y].pc = "idle"
      BY <2>1, <2>3, Zenon DEF CallOK
    <3> QED
      BY <2>1, <3>1, Zenon DEF CallOK, Idle
  <2>4. CASE at[y].s \in Slots \ {s}
    <3>1. sock'[at[y].s] = sock[at[y].s]
      BY <2>4, Zenon
    <3> QED
      BY <2>1, <3>1 DEF CallOK
  <2> QED
    BY <2>2, <2>3, <2>4, Zenon
<1>3. OneCall'
  BY DEF IInv, OneCall
<1> QED
  BY <1>1, <1>2, <1>3

\* A call moves on, or ends; the others are where they were.
LEMMA PutFields ==
    ASSUME TypeOK, NEW x \in Contexts, NEW pc, NEW s, NEW w, NEW c, Put(x, pc, s, w, c)
    PROVE  /\ at'[x].pc = pc /\ at'[x].s = s /\ at'[x].wait = w /\ at'[x].c = c
           /\ \A y \in Contexts \ {x} : at'[y] = at[y]
BY Zenon DEF TypeOK, CallRecord, Put

\* A call moves on: it is still a call.
LEMMA PutType ==
    ASSUME TypeOK, NEW x \in Contexts,
           NEW pc \in {"idle", "connect", "take", "ask", "adopt", "enquire", "keep"},
           NEW s \in Slots \cup {None}, NEW w \in BOOLEAN, NEW c \in Things \cup {None},
           Put(x, pc, s, w, c)
    PROVE  at' \in [Contexts -> CallRecord]
<1>1. [pc |-> pc, s |-> s, wait |-> w, c |-> c] \in CallRecord
  BY DEF CallRecord
<1> QED
  BY <1>1, Zenon DEF TypeOK, Put

\* A call ends, and the others are where they were.
LEMMA DoneFields ==
    ASSUME TypeOK, NEW x \in Contexts, at' = [at EXCEPT ![x] = Idle]
    PROVE  /\ at' \in [Contexts -> CallRecord]
           /\ at'[x].pc = "idle" /\ at'[x].s = None /\ at'[x].c = None
           /\ at'[x] = Idle /\ Idle = [pc |-> "idle", s |-> None, wait |-> FALSE, c |-> None]
           /\ \A y \in Contexts \ {x} : at'[y] = at[y]
BY Zenon DEF TypeOK, CallRecord, Idle

\* What is at rest, or begins.
LEMMA IdleFields ==
    ASSUME NEW x \in Contexts, at[x] = Idle
    PROVE  at[x].pc = "idle" /\ at[x].s = None /\ at[x].c = None
BY DEF Idle

\* A connection that nobody opens, closes or passes on.
SameHolders(c) ==
    /\ c \in open' <=> c \in open
    /\ \A s \in Slots : (HasConn(s, c)' <=> HasConn(s, c)) /\ (HasPend(s, c)' <=> HasPend(s, c))
    /\ \A x \in Contexts : HasCall(x, c)' <=> HasCall(x, c)

\* Held once before such a step, held once after it.
LEMMA HeldSame ==
    ASSUME NEW c, HeldOnce(c), SameHolders(c)
    PROVE  HeldOnce(c)'
BY Zenon DEF HeldOnce, SameHolders

\* What the others hold is not touched by a step of a call on one slot.
LEMMA HeldElsewhere ==
    ASSUME IInv, NEW x \in Contexts, NEW s \in Slots,
           \A y \in Contexts \ {x} : at[y].s # s /\ at'[y] = at[y],
           \A r \in Slots \ {s} : sock'[r] = sock[r]
    PROVE  /\ \A y \in Contexts \ {x}, c \in Things : HasCall(y, c)' <=> HasCall(y, c)
           /\ \A r \in Slots \ {s}, c \in Things :
                  (HasConn(r, c)' <=> HasConn(r, c)) /\ (HasPend(r, c)' <=> HasPend(r, c))
<1>1. ASSUME NEW y \in Contexts \ {x}, NEW c \in Things PROVE HasCall(y, c)' <=> HasCall(y, c)
  <2>1. at'[y] = at[y] /\ at[y].s # s
    OBVIOUS
  <2>2. at[y].pc \in {"adopt", "keep"} => at[y].s \in Slots \ {s}
    BY <2>1, Zenon DEF IInv, CallOK, TypeOK, CallRecord
  <2> QED
    BY <2>1, <2>2 DEF HasCall
<1>2. ASSUME NEW r \in Slots \ {s}, NEW c \in Things
      PROVE  (HasConn(r, c)' <=> HasConn(r, c)) /\ (HasPend(r, c)' <=> HasPend(r, c))
  BY <1>2, Zenon DEF HasConn, HasPend
<1> QED
  BY <1>1, <1>2, Zenon

\* bind, listen and what opens a datagram endpoint: the slot decides what it is.
LEMMA TurnInv ==
    ASSUME ~Shared, IInv, NEW x \in Contexts, NEW s \in Slots, On(x, s), NEW st,
           sock[s].state = "NEW",
           \/ sock[s].type = "stream" /\ st = "LISTEN"
           \/ sock[s].type = "dgram" /\ st = "DGRAM",
           sock' = [sock EXCEPT ![s].state = st],
           NEW w \in BOOLEAN, at' = at \/ Put(x, "ask", s, w, None),
           UNCHANGED <<fds, q, open, made>>
    PROVE  IInv'
<1>0. TypeOK /\ s # None
  BY SocketsAssumption DEF IInv
<1>1. at[x] = Idle /\ at[x].pc = "idle" /\ at[x].s = None
  BY IdleFields DEF On
<1>2. \A y \in Contexts \ {x} : at[y].s # s /\ at'[y] = at[y]
  BY <1>0, OnlyHere, PutFields DEF IInv
<1>3. \/ at'[x] = Idle /\ at'[x].pc = "idle" /\ at'[x].s = None
      \/ at'[x].pc = "ask" /\ at'[x].s = s /\ at'[x].c = None
  <2>1. CASE at' = at
    BY <1>1, <2>1
  <2>2. CASE Put(x, "ask", s, w, None)
    BY <1>0, <2>2, PutFields
  <2> QED
    BY <2>1, <2>2
<1>4. TypeOK'
  <2>1. sock' \in [Slots -> SlotRecord]
    BY <1>0 DEF TypeOK, SlotRecord
  <2>2. at' \in [Contexts -> CallRecord]
    <3>1. CASE at' = at
      BY <1>0, <3>1, Zenon DEF TypeOK
    <3>2. CASE Put(x, "ask", s, w, None)
      BY <1>0, <3>2, PutType
    <3> QED
      BY <3>1, <3>2
  <2> QED
    BY <1>0, <2>1, <2>2, Zenon DEF TypeOK
<1>5. /\ sock'[s].state = st /\ sock'[s].type = sock[s].type /\ sock'[s].conn = sock[s].conn
      /\ sock'[s].kept = sock[s].kept /\ sock'[s].pend = sock[s].pend
      /\ \A r \in Slots \ {s} : sock'[r] = sock[r]
  BY <1>0 DEF TypeOK, SlotRecord
<1>6. SlotOK(s)
  BY DEF IInv
<1>7. SlotOK(s)'
  BY <1>5, <1>6, Zenon DEF SlotOK
<1>8. CallOK(x)'
  <2>1. CASE at'[x] = Idle
    BY <1>3, <2>1 DEF CallOK, Idle
  <2>2. CASE at'[x].pc = "ask" /\ at'[x].s = s /\ at'[x].c = None
    BY <1>0, <1>5, <1>6, <2>2 DEF CallOK, SlotOK
  <2> QED
    BY <1>3, <2>1, <2>2, Zenon
<1>9. at'[x].s \in {s, None}
  BY <1>3
<1>10. Numbered'
  BY DEF IInv, Numbered
<1>11. \A c \in Things : HeldOnce(c)'
  <2>1. ASSUME NEW c \in Things
        PROVE  (HasConn(s, c)' <=> HasConn(s, c)) /\ (HasPend(s, c)' <=> HasPend(s, c))
    BY <1>5, <1>6, Zenon DEF HasConn, HasPend, SlotOK
  <2>2. ASSUME NEW c \in Things PROVE HasCall(x, c)' <=> HasCall(x, c)
    BY <1>1, <1>3, Zenon DEF HasCall
  <2>3. \A c \in Things : SameHolders(c)
    BY <1>2, <1>5, <2>1, <2>2, HeldElsewhere DEF SameHolders
  <2> QED
    BY <2>3, HeldSame DEF IInv
<1> QED
  BY <1>2, <1>4, <1>5, <1>7, <1>8, <1>9, <1>10, <1>11, Local, Zenon DEF IInv

\* A call begins: what it will find is there.
LEMMA BeginInv ==
    ASSUME ~Shared, IInv, NEW x \in Contexts, NEW s \in Slots, On(x, s),
           NEW pc \in {"connect", "take", "ask", "enquire"}, NEW w \in BOOLEAN,
           Put(x, pc, s, w, None), UNCHANGED <<fds, sock, q, open, made>>,
           pc = "connect" => sock[s].state = "NEW" /\ sock[s].type = "stream",
           pc # "connect" => sock[s].state \in {"LISTEN", "DGRAM"} /\ (pc = "take" <=> sock[s].kept)
    PROVE  IInv'
<1>0. TypeOK /\ s # None
  BY SocketsAssumption, Zenon DEF IInv
<1>1. at[x].pc = "idle"
  BY IdleFields, Zenon DEF On
<1>2. \A y \in Contexts \ {x} : at[y].s # s /\ at'[y] = at[y]
  BY <1>0, OnlyHere, PutFields DEF IInv
<1>3. at'[x].pc = pc /\ at'[x].s = s /\ at'[x].c = None
  BY <1>0, PutFields
<1>4. TypeOK'
  BY <1>0, PutType DEF TypeOK
<1>5. CallOK(x)'
  BY <1>0, <1>3, Zenon DEF CallOK
<1>6. SlotOK(s)' /\ Numbered'
  BY DEF IInv, SlotOK, Numbered
<1>7. \A c \in Things : HeldOnce(c)'
  <2>1. ASSUME NEW c \in Things
        PROVE  (HasConn(s, c)' <=> HasConn(s, c)) /\ (HasPend(s, c)' <=> HasPend(s, c))
    BY Zenon DEF HasConn, HasPend
  <2>2. ASSUME NEW c \in Things PROVE HasCall(x, c)' <=> HasCall(x, c)
    BY <1>1, <1>3, Zenon DEF HasCall
  <2>3. \A c \in Things : SameHolders(c)
    BY <1>2, <2>1, <2>2, HeldElsewhere DEF SameHolders
  <2> QED
    BY <2>3, HeldSame, Zenon DEF IInv
<1> QED
  BY <1>2, <1>3, <1>4, <1>5, <1>6, <1>7, Local, Zenon DEF IInv

\* A call ends, with nothing in its hand.
LEMMA EndInv ==
    ASSUME ~Shared, IInv, NEW x \in Contexts, NEW s \in Slots, On(x, s) \/ at[x].s = s,
           at' = [at EXCEPT ![x] = Idle], at[x].pc \notin {"adopt", "keep"},
           UNCHANGED <<fds, sock, q, open, made>>
    PROVE  IInv'
<1>0. TypeOK
  BY DEF IInv
<1>1. \A y \in Contexts \ {x} : at[y].s # s /\ at'[y] = at[y]
  BY <1>0, OnlyHere, DoneFields DEF IInv
<1>2. at'[x].pc = "idle" /\ at'[x].s = None /\ at'[x].c = None /\ at'[x] = Idle
  BY <1>0, DoneFields, Zenon
<1>3. TypeOK'
  BY <1>0, DoneFields, Zenon DEF TypeOK
<1>4. CallOK(x)'
  BY <1>2, Zenon DEF CallOK, Idle
<1>5. SlotOK(s)' /\ Numbered'
  BY DEF IInv, SlotOK, Numbered
<1>6. \A c \in Things : HeldOnce(c)'
  <2>1. ASSUME NEW c \in Things
        PROVE  (HasConn(s, c)' <=> HasConn(s, c)) /\ (HasPend(s, c)' <=> HasPend(s, c))
    BY Zenon DEF HasConn, HasPend
  <2>2. ASSUME NEW c \in Things PROVE HasCall(x, c)' <=> HasCall(x, c)
    BY <1>2, Zenon DEF HasCall
  <2>3. \A c \in Things : SameHolders(c)
    BY <1>1, <2>1, <2>2, HeldElsewhere DEF SameHolders
  <2> QED
    BY <2>3, HeldSame, Zenon DEF IInv
<1> QED
  BY <1>1, <1>2, <1>3, <1>4, <1>5, <1>6, Local, Zenon DEF IInv

\* The environment gives the oldest of a queue to the call that asks: a
\* connection is open from then on, and in that call's hand.
LEMMA GivenInv ==
    ASSUME ~Shared, IInv, NEW x \in Contexts, NEW s \in Slots, at[x].s = s,
           at[x].pc \in {"ask", "enquire"}, Given(s), UNCHANGED <<fds, sock, made>>,
           NEW b, b = Head(q[s]),
           \/ sock[s].type = "stream" /\ Put(x, "adopt", s, FALSE, b)
           \/ sock[s].type = "dgram" /\ at' = [at EXCEPT ![x] = Idle]
           \/ Put(x, "keep", s, FALSE, b)
    PROVE  IInv'
<1>0. TypeOK /\ s # None /\ None \notin Things /\ CallOK(x) /\ SlotOK(s)
  BY SocketsAssumption DEF IInv, Things
<1>1. /\ q[s] \in Seq(Things) /\ q[s] # <<>> /\ b = q[s][1] /\ b \in Things
      /\ q'[s] = Tail(q[s]) /\ \A r \in Slots \ {s} : q'[r] = q[r]
      /\ open' = IF sock[s].type = "stream" THEN open \cup {b} ELSE open
  BY <1>0, HeadAndTail DEF Given, TypeOK
<1>2. \A y \in Contexts \ {x} : at[y].s # s
  BY OnlyHere, Zenon DEF IInv
<1>3. /\ at' \in [Contexts -> CallRecord]
      /\ \A y \in Contexts \ {x} : at'[y] = at[y]
      /\ \/ at'[x].pc = "adopt" /\ sock[s].type = "stream" /\ at'[x].s = s /\ at'[x].c = b
         \/ at'[x].pc = "idle" /\ sock[s].type = "dgram" /\ at'[x] = Idle /\ at'[x].s = None
         \/ at'[x].pc = "keep" /\ at'[x].s = s /\ at'[x].c = b
  <2>1. CASE sock[s].type = "stream" /\ Put(x, "adopt", s, FALSE, b)
    <3>1. at' \in [Contexts -> CallRecord]
      BY <1>0, <1>1, <2>1, PutType, Zenon
    <3>2. /\ at'[x].pc = "adopt" /\ at'[x].s = s /\ at'[x].c = b
          /\ \A y \in Contexts \ {x} : at'[y] = at[y]
      BY <1>0, <2>1 DEF Put, TypeOK, CallRecord
    <3> QED
      BY <2>1, <3>1, <3>2, Zenon
  <2>2. CASE sock[s].type = "dgram" /\ at' = [at EXCEPT ![x] = Idle]
    BY <1>0, <2>2, DoneFields, Zenon
  <2>3. CASE Put(x, "keep", s, FALSE, b)
    <3>1. at' \in [Contexts -> CallRecord]
      BY <1>0, <1>1, <2>3, PutType, Zenon
    <3>2. /\ at'[x].pc = "keep" /\ at'[x].s = s /\ at'[x].c = b
          /\ \A y \in Contexts \ {x} : at'[y] = at[y]
      BY <1>0, <2>3, Zenon DEF Put, TypeOK, CallRecord
    <3> QED
      BY <2>3, <3>1, <3>2, Zenon
  <2> QED
    BY <2>1, <2>2, <2>3, Zenon
<1>4. TypeOK'
  <2>1. q' \in [Slots -> Seq(Things)]
    BY <1>0, <1>1, HeadAndTail, Zenon DEF TypeOK, Given
  <2> QED
    BY <1>0, <1>1, <1>3, <2>1, Zenon DEF TypeOK
<1>5. CallOK(x)'
  <2>1. CASE at'[x] = Idle
    BY <2>1 DEF CallOK, Idle
  <2>2. CASE at'[x].pc # "idle"
    BY <1>0, <1>1, <1>3, <2>2, Zenon DEF CallOK, SlotOK
  <2> QED
    BY <1>3, <2>1, <2>2, Zenon
<1>6. SlotOK(s)'
  BY <1>0, Zenon DEF SlotOK, CallOK
<1>7. Numbered'
  <2>1. b \in 1..made /\ b \notin open
    BY <1>1, HeadAndTail DEF IInv, Numbered
  <2>2. ASSUME NEW r \in Slots, NEW i \in DOMAIN q'[r]
        PROVE  \E j \in DOMAIN q[r] : q'[r][i] = q[r][j] /\ j = IF r = s THEN i + 1 ELSE i
    <3>1. CASE r = s
      <4>1. i \in 1..Len(q[s])-1 /\ i + 1 \in DOMAIN q[s] /\ q'[s][i] = q[s][i + 1]
        <5>1. /\ DOMAIN q[s] = 1..Len(q[s]) /\ DOMAIN Tail(q[s]) = 1..Len(q[s])-1
              /\ \A k \in 1..Len(q[s])-1 : Tail(q[s])[k] = q[s][k + 1] /\ k + 1 \in 1..Len(q[s])
          BY <1>1, HeadAndTail, Zenon
        <5>2. i \in DOMAIN Tail(q[s]) /\ q'[s] = Tail(q[s])
          BY <1>1, <2>2, <3>1, Zenon
        <5> QED
          BY <5>1, <5>2, Zenon
      <4> QED
        BY <3>1, <4>1, Zenon
    <3>2. CASE r # s
      BY <1>1, <2>2, <3>2, Zenon
    <3> QED
      BY <3>1, <3>2, Zenon
  <2>3. ASSUME NEW r \in Slots, NEW i \in DOMAIN q'[r] PROVE q'[r][i] \in 1..made \ open'
    <3>1. PICK j \in DOMAIN q[r] : q'[r][i] = q[r][j] /\ j = IF r = s THEN i + 1 ELSE i
      BY <2>2, <2>3, Zenon
    <3>2. q[r][j] # b
      <4>1. 1 \in DOMAIN q[s] /\ (r = s => j # 1)
        <5>1. 1 \in DOMAIN q[s]
          BY <1>1, HeadAndTail
        <5>2. r = s => i \in 1..Len(q[s])-1 /\ j = i + 1
          BY <1>1, <2>3, <3>1, HeadAndTail
        <5> QED
          BY <5>1, <5>2
      <4> QED
        BY <4>1 DEF IInv, Numbered
    <3> QED
      BY <1>1, <3>1, <3>2 DEF IInv, Numbered
  <2>4. ASSUME NEW r \in Slots, NEW o \in Slots, NEW i \in DOMAIN q'[r], NEW j \in DOMAIN q'[o],
               q'[r][i] = q'[o][j]
        PROVE  r = o /\ i = j
    <3>1. PICK k \in DOMAIN q[r] : q'[r][i] = q[r][k] /\ k = IF r = s THEN i + 1 ELSE i
      BY <2>2
    <3>2. PICK l \in DOMAIN q[o] : q'[o][j] = q[o][l] /\ l = IF o = s THEN j + 1 ELSE j
      BY <2>2
    <3>3. r = o /\ k = l
      <4>1. q[r][k] = q[o][l] /\ Numbered
        BY <2>4, <3>1, <3>2, Zenon DEF IInv
      <4> QED
        BY <4>1 DEF Numbered
    <3>4. i \in Nat /\ j \in Nat
      BY <1>1, <1>4, <2>4 DEF TypeOK
    <3> QED
      BY <3>1, <3>2, <3>3, <3>4
  <2> QED
    BY <1>1, <2>1, <2>3, <2>4, Zenon DEF IInv, Numbered
<1>8. ASSUME NEW c \in Things PROVE HeldOnce(c)'
  <2>1. b \notin open /\ HeldOnce(b) /\ HeldOnce(c)
    BY <1>1, HeadAndTail DEF IInv, Numbered
  <2>2. \A r \in Slots : (HasConn(r, c)' <=> HasConn(r, c)) /\ (HasPend(r, c)' <=> HasPend(r, c))
    BY Zenon DEF HasConn, HasPend
  <2>3. \A y \in Contexts \ {x} : HasCall(y, c)' <=> HasCall(y, c)
    BY <1>2, <1>3, HeldElsewhere
  <2>4. ~HasCall(x, c) /\ (HasCall(x, c)' <=> sock[s].type = "stream" /\ c = b)
    BY <1>0, <1>3, Zenon DEF HasCall
  <2>5. CASE sock[s].type = "stream" /\ c = b
    BY <1>1, <2>1, <2>2, <2>3, <2>4, <2>5, Zenon DEF HeldOnce
  <2>6. CASE ~(sock[s].type = "stream" /\ c = b)
    BY <1>1, <2>1, <2>2, <2>3, <2>4, <2>6, HeldSame, Zenon DEF SameHolders
  <2> QED
    BY <2>5, <2>6, Zenon
<1> QED
  BY <1>1, <1>2, <1>3, <1>4, <1>5, <1>6, <1>7, <1>8, Local, Zenon DEF IInv

\* The environment connects a stream socket.
LEMMA ConnectedInv ==
    ASSUME ~Shared, IInv, NEW x \in Contexts, NEW s \in Slots, at[x].s = s,
           at[x].pc = "connect", made < MaxThings, made' = made + 1, open' = open \cup {made + 1},
           sock' = [sock EXCEPT ![s].state = "CONN", ![s].conn = made + 1],
           at' = [at EXCEPT ![x] = Idle], UNCHANGED <<fds, q>>
    PROVE  IInv'
<1>a. PICK b : b = made + 1
  OBVIOUS
<1>0. /\ TypeOK /\ s # None /\ None \notin Things /\ CallOK(x) /\ SlotOK(s)
      /\ sock[s].state = "NEW" /\ sock[s].type = "stream" /\ ~sock[s].kept
  BY SocketsAssumption DEF IInv, Things, CallOK, SlotOK
<1>1. b \in Things /\ b \in 1..b /\ b \notin 1..made /\ 1..made \subseteq 1..b
  BY <1>0, <1>a, SocketsAssumption DEF TypeOK, Things
<1>b. made' = b /\ open' = open \cup {b}
  BY <1>a
<1>2. /\ sock'[s].state = "CONN" /\ sock'[s].type = "stream" /\ sock'[s].conn = b
      /\ ~sock'[s].kept /\ \A r \in Slots \ {s} : sock'[r] = sock[r]
  BY <1>0, <1>a DEF TypeOK, SlotRecord
<1>3. \A y \in Contexts \ {x} : at[y].s # s /\ at'[y] = at[y]
  BY <1>0, OnlyHere, DoneFields DEF IInv
<1>4. at'[x].pc = "idle" /\ at'[x].s = None /\ at'[x].c = None /\ at'[x] = Idle
  BY <1>0, DoneFields, Zenon
<1>5. TypeOK'
  <2>1. sock' \in [Slots -> SlotRecord]
    <3>1. sock[s] \in SlotRecord
      BY <1>0, Zenon DEF TypeOK
    <3>2. [sock[s] EXCEPT !.state = "CONN", !.conn = b] \in SlotRecord
      BY <1>1, <3>1, Zenon DEF SlotRecord
    <3> QED
      BY <1>0, <1>a, <3>2 DEF TypeOK
  <2>2. made' \in 0..MaxThings /\ open' \subseteq Things
    BY <1>0, <1>1, <1>b, SocketsAssumption DEF TypeOK, Things
  <2> QED
    BY <1>0, <2>1, <2>2, DoneFields, Zenon DEF TypeOK
<1>6. CallOK(x)'
  BY <1>4, Zenon DEF CallOK, Idle
<1>7. SlotOK(s)'
  BY <1>0, <1>1, <1>2, Zenon DEF SlotOK
<1>8. Numbered'
  <2>1. Numbered /\ q' = q
    BY DEF IInv
  <2> QED
    BY <1>1, <1>b, <2>1 DEF Numbered
<1>9. ASSUME NEW c \in Things PROVE HeldOnce(c)'
  <2>1. b \notin open /\ HeldOnce(b) /\ HeldOnce(c)
    BY <1>1, Zenon DEF IInv, Numbered
  <2>2. ~HasConn(s, c) /\ (HasConn(s, c)' <=> c = b) /\ ~HasPend(s, c) /\ ~HasPend(s, c)'
    BY <1>0, <1>2, Zenon DEF HasConn, HasPend
  <2>3. ~HasCall(x, c) /\ ~HasCall(x, c)'
    BY <1>4, Zenon DEF HasCall
  <2>4. /\ \A y \in Contexts \ {x} : HasCall(y, c)' <=> HasCall(y, c)
        /\ \A r \in Slots \ {s} :
               (HasConn(r, c)' <=> HasConn(r, c)) /\ (HasPend(r, c)' <=> HasPend(r, c))
    BY <1>2, <1>3, HeldElsewhere, Zenon
  <2>5. CASE c = b
    BY <1>b, <2>1, <2>2, <2>3, <2>4, <2>5 DEF HeldOnce
  <2>6. CASE c # b
    BY <1>b, <2>1, <2>2, <2>3, <2>4, <2>6, HeldSame, Zenon DEF SameHolders
  <2> QED
    BY <2>5, <2>6
<1> QED
  BY <1>2, <1>3, <1>4, <1>5, <1>6, <1>7, <1>8, <1>9, Local, Zenon DEF IInv

\* accept and receive take what an enquiry kept.
LEMMA TakeKeptInv ==
    ASSUME ~Shared, IInv, NEW x \in Contexts, TakeKept(x)
    PROVE  IInv'
<1>a. TypeOK /\ None \notin Things /\ CallOK(x) /\ at[x].pc = "take" /\ at[x].s \in Slots
  BY SocketsAssumption DEF IInv, TypeOK, CallRecord, Things, CallOK, TakeKept
<1>b. PICK s \in Slots : s = at[x].s
  BY <1>a
<1>0. TypeOK /\ at[x].pc = "take" /\ sock[s].kept /\ sock[s].state \in {"LISTEN", "DGRAM"}
  BY <1>a, <1>b, Zenon DEF CallOK
<1>c. SlotOK(s) /\ sock[s] \in SlotRecord
  BY <1>a, Zenon DEF IInv, TypeOK
<1>d. PICK b \in Things : b = sock[s].pend
  BY <1>0, <1>c, Zenon DEF SlotOK, SlotRecord
<1>1. s # None /\ SlotOK(s) /\ None \notin Things
  BY <1>a, <1>c, SocketsAssumption
<1>2. sock' = [sock EXCEPT ![s].kept = FALSE] /\ UNCHANGED <<fds, q, open, made>>
  BY <1>b, Zenon DEF TakeKept
<1>3. \/ sock[s].type = "stream" /\ Put(x, "adopt", s, FALSE, b)
      \/ sock[s].type = "dgram" /\ at' = [at EXCEPT ![x] = Idle]
  BY <1>0, <1>b, <1>1, <1>d, Zenon DEF TakeKept, Done, SlotOK
<1>4. \A y \in Contexts \ {x} : at[y].s # s
  BY <1>b, OnlyHere, Zenon DEF IInv
<1>5. /\ at' \in [Contexts -> CallRecord]
      /\ \A y \in Contexts \ {x} : at'[y] = at[y]
      /\ \/ at'[x].pc = "adopt" /\ sock[s].type = "stream" /\ at'[x].s = s /\ at'[x].c = b
         \/ at'[x].pc = "idle" /\ sock[s].type = "dgram" /\ at'[x] = Idle /\ at'[x].s = None
  <2>1. CASE sock[s].type = "stream" /\ Put(x, "adopt", s, FALSE, b)
    <3>1. at' \in [Contexts -> CallRecord]
      BY <1>0, <1>1, <2>1, PutType, Zenon
    <3>2. /\ at'[x].pc = "adopt" /\ at'[x].s = s /\ at'[x].c = b
          /\ \A y \in Contexts \ {x} : at'[y] = at[y]
      BY <1>0, <2>1 DEF Put, TypeOK, CallRecord
    <3> QED
      BY <2>1, <3>1, <3>2, Zenon
  <2>2. CASE sock[s].type = "dgram" /\ at' = [at EXCEPT ![x] = Idle]
    BY <1>0, <2>2, DoneFields, Zenon
  <2> QED
    BY <1>3, <2>1, <2>2, Zenon
<1>6. /\ ~sock'[s].kept /\ sock'[s].state = sock[s].state /\ sock'[s].type = sock[s].type
      /\ sock'[s].conn = sock[s].conn /\ \A r \in Slots \ {s} : sock'[r] = sock[r]
  BY <1>0, <1>1, <1>2 DEF TypeOK, SlotRecord
<1>7. TypeOK'
  <2>1. sock' \in [Slots -> SlotRecord]
    BY <1>0, <1>1, <1>2, Zenon DEF TypeOK, SlotRecord
  <2> QED
    BY <1>0, <1>2, <1>5, <2>1, Zenon DEF TypeOK
<1>8. CallOK(x)'
  <2>1. CASE at'[x] = Idle
    BY <2>1 DEF CallOK, Idle
  <2>2. CASE at'[x].pc # "idle"
    BY <1>0, <1>1, <1>5, <1>6, <2>2 DEF SlotOK, CallOK
  <2> QED
    BY <1>5, <2>1, <2>2
<1>9. SlotOK(s)'
  BY <1>0, <1>1, <1>2, <1>6 DEF SlotOK
<1>10. Numbered'
  BY <1>2 DEF IInv, Numbered
<1>11. ASSUME NEW c \in Things PROVE HeldOnce(c)'
  <2>1. HeldOnce(c) /\ (c \in open' <=> c \in open)
    BY <1>2 DEF IInv
  <2>2. /\ HasConn(s, c)' <=> HasConn(s, c)
        /\ HasPend(s, c) <=> sock[s].type = "stream" /\ c = b
        /\ ~HasPend(s, c)'
    BY <1>0, <1>d, <1>6, Zenon DEF HasConn, HasPend
  <2>3. ~HasCall(x, c) /\ (HasCall(x, c)' <=> sock[s].type = "stream" /\ c = b)
    BY <1>0, <1>5, <1>6, Zenon DEF HasCall
  <2>4. /\ \A y \in Contexts \ {x} : HasCall(y, c)' <=> HasCall(y, c)
        /\ \A r \in Slots \ {s} :
               (HasConn(r, c)' <=> HasConn(r, c)) /\ (HasPend(r, c)' <=> HasPend(r, c))
    BY <1>1, <1>4, <1>5, <1>6, HeldElsewhere
  <2>5. CASE sock[s].type = "stream" /\ c = b
    BY <1>1, <1>2, <2>1, <2>2, <2>3, <2>4, <2>5 DEF HeldOnce
  <2>6. CASE ~(sock[s].type = "stream" /\ c = b)
    BY <1>2, <2>1, <2>2, <2>3, <2>4, <2>6, HeldSame, Zenon DEF SameHolders
  <2> QED
    BY <2>5, <2>6
<1> QED
  BY <1>1, <1>2, <1>4, <1>5, <1>6, <1>7, <1>8, <1>9, <1>10, <1>11, Local, Zenon DEF IInv

\* What an enquiry took is kept with the slot.
LEMMA KeepInv ==
    ASSUME ~Shared, IInv, NEW x \in Contexts, Keep(x)
    PROVE  IInv'
<1>a. TypeOK /\ None \notin Things /\ CallOK(x) /\ at[x].pc = "keep" /\ at[x] \in CallRecord
  BY SocketsAssumption DEF IInv, TypeOK, Things, Keep
<1>b. PICK s \in Slots, b \in Things : s = at[x].s /\ b = at[x].c
  BY <1>a, Zenon DEF CallOK, CallRecord
<1>0. TypeOK /\ at[x].pc = "keep" /\ ~sock[s].kept /\ sock[s].state \in {"LISTEN", "DGRAM"}
  BY <1>a, <1>b, Zenon DEF CallOK
<1>1. s # None /\ SlotOK(s) /\ None \notin Things /\ sock[s] \in SlotRecord
  BY <1>a, SocketsAssumption, Zenon DEF IInv, TypeOK
<1>2. /\ sock' = [sock EXCEPT ![s].kept = TRUE, ![s].pend = b] /\ UNCHANGED <<fds, q, open, made>>
      /\ at' = [at EXCEPT ![x] = Idle]
  BY <1>b, Zenon DEF Keep, Done
<1>3. /\ \A y \in Contexts \ {x} : at[y].s # s /\ at'[y] = at[y]
      /\ at'[x].pc = "idle" /\ at'[x].s = None /\ at'[x] = Idle
  BY <1>0, <1>2, <1>b, OnlyHere, DoneFields, Zenon DEF IInv
<1>4. /\ sock'[s].kept = TRUE /\ sock'[s].pend = b /\ sock'[s].state = sock[s].state
      /\ sock'[s].type = sock[s].type /\ sock'[s].conn = sock[s].conn
      /\ \A r \in Slots \ {s} : sock'[r] = sock[r]
  BY <1>0, <1>2 DEF TypeOK, SlotRecord
<1>5. TypeOK'
  <2>1. [sock[s] EXCEPT !.kept = TRUE, !.pend = b] \in SlotRecord
    BY <1>1, Zenon DEF SlotRecord
  <2>2. sock' \in [Slots -> SlotRecord]
    BY <1>0, <1>2, <2>1, Zenon DEF TypeOK
  <2> QED
    BY <1>0, <1>2, <2>2, DoneFields, Zenon DEF TypeOK
<1>6. CallOK(x)'
  BY <1>3 DEF CallOK, Idle
<1>7. SlotOK(s)'
  BY <1>0, <1>1, <1>2, <1>4 DEF SlotOK
<1>8. Numbered'
  BY <1>2 DEF IInv, Numbered
<1>9. ASSUME NEW c \in Things PROVE HeldOnce(c)'
  <2>1. HeldOnce(c) /\ (c \in open' <=> c \in open)
    BY <1>2 DEF IInv
  <2>2. /\ HasConn(s, c)' <=> HasConn(s, c)
        /\ HasPend(s, c)' <=> sock[s].type = "stream" /\ c = b
        /\ ~HasPend(s, c)
    BY <1>0, <1>4, Zenon DEF HasConn, HasPend
  <2>3. ~HasCall(x, c)' /\ (HasCall(x, c) <=> sock[s].type = "stream" /\ c = b)
    BY <1>0, <1>b, <1>3, Zenon DEF HasCall
  <2>4. /\ \A y \in Contexts \ {x} : HasCall(y, c)' <=> HasCall(y, c)
        /\ \A r \in Slots \ {s} :
               (HasConn(r, c)' <=> HasConn(r, c)) /\ (HasPend(r, c)' <=> HasPend(r, c))
    BY <1>3, <1>4, HeldElsewhere
  <2>5. CASE sock[s].type = "stream" /\ c = b
    BY <2>1, <2>2, <2>3, <2>4, <2>5, Zenon DEF HeldOnce
  <2>6. CASE ~(sock[s].type = "stream" /\ c = b)
    BY <2>1, <2>2, <2>3, <2>4, <2>6, HeldSame, Zenon DEF SameHolders
  <2> QED
    BY <2>5, <2>6
<1> QED
  BY <1>2, <1>3, <1>4, <1>5, <1>6, <1>7, <1>8, <1>9, Local, Zenon DEF IInv

\* Somebody connects, or sends: the number is new.
LEMMA ArriveInv ==
    ASSUME IInv, NEW s \in Slots, Arrive(s)
    PROVE  IInv'
<1>a. PICK b : b = made + 1
  OBVIOUS
<1>0. /\ TypeOK /\ sock[s].state \in {"LISTEN", "DGRAM"} /\ UNCHANGED <<fds, sock, open, at>>
      /\ made' = b /\ q' = [q EXCEPT ![s] = Append(@, b)]
  BY <1>a, Zenon DEF IInv, Arrive
<1>1. b \in Things /\ b \notin 1..made /\ b \in 1..b /\ 1..made \subseteq 1..b /\ b \in 0..MaxThings
  BY <1>a, <1>0, SocketsAssumption DEF Arrive, TypeOK, Things
<1>2. /\ q[s] \in Seq(Things) /\ q'[s] = Append(q[s], b) /\ q'[s] \in Seq(Things)
      /\ \A r \in Slots \ {s} : q'[r] = q[r]
  BY <1>0, <1>1 DEF TypeOK
<1>3. TypeOK'
  BY <1>0, <1>1, <1>2, Zenon DEF TypeOK
<1>4. \A r \in Slots : SlotOK(r)'
  BY <1>0, <1>2 DEF IInv, SlotOK
<1>5. (\A x \in Contexts : CallOK(x)') /\ OneCall'
  BY <1>0 DEF IInv, CallOK, OneCall
<1>6. \A c \in Things : HeldOnce(c)'
  BY <1>0, HeldUnchanged, Zenon DEF IInv
<1>7. Numbered'
  <2>1. Numbered
    BY DEF IInv
  <2>2. ASSUME NEW r \in Slots, NEW i \in DOMAIN q'[r]
        PROVE  \/ i \in DOMAIN q[r] /\ q'[r][i] = q[r][i] /\ q'[r][i] # b
               \/ r = s /\ i = Len(q[s]) + 1 /\ q'[r][i] = b
    <3>1. CASE r = s
      <4>1. i \in 1..Len(q[s]) \/ i = Len(q[s]) + 1
        BY <1>2, <2>2, <3>1
      <4>2. CASE i \in 1..Len(q[s])
        <5>1. q'[s][i] = q[s][i] /\ i \in DOMAIN q[s]
          BY <1>2, <4>2
        <5> QED
          BY <1>1, <2>1, <3>1, <5>1 DEF Numbered
      <4>3. CASE i = Len(q[s]) + 1
        BY <1>2, <3>1, <4>3
      <4> QED
        BY <4>1, <4>2, <4>3, Zenon
    <3>2. CASE r # s
      <4>1. q'[r] = q[r]
        BY <1>2, <3>2, Zenon
      <4> QED
        BY <1>1, <2>1, <2>2, <4>1 DEF Numbered
    <3> QED
      BY <3>1, <3>2, Zenon
  <2>3. b \notin open
    BY <1>1, <2>1, Zenon DEF Numbered
  <2>4. \A r \in Slots : \A i \in DOMAIN q'[r] : q'[r][i] \in 1..b \ open
    BY <1>1, <2>1, <2>2, <2>3 DEF Numbered
  <2>5. ASSUME NEW r \in Slots, NEW o \in Slots, NEW i \in DOMAIN q'[r], NEW j \in DOMAIN q'[o],
               q'[r][i] = q'[o][j]
        PROVE  r = o /\ i = j
    BY <2>1, <2>2, <2>5 DEF Numbered
  <2> QED
    BY <1>0, <1>1, <2>1, <2>4, <2>5, Zenon DEF Numbered
<1> QED
  BY <1>3, <1>4, <1>5, <1>6, <1>7 DEF IInv

\* No call is on a slot that is free, and nothing is held there.
LEMMA FreeIsUnused ==
    ASSUME IInv, NEW r \in Slots, sock[r].state = "FREE"
    PROVE  /\ \A y \in Contexts : at[y].s # r
           /\ q[r] = <<>> /\ ~sock[r].kept
           /\ \A c \in Things : ~HasConn(r, c) /\ ~HasPend(r, c)
<1>1. SlotOK(r) /\ r # None
  BY SocketsAssumption, Zenon DEF IInv
<1>2. ASSUME NEW y \in Contexts, at[y].s = r PROVE FALSE
  <2>1. CallOK(y)
    BY DEF IInv
  <2>2. at[y].pc # "idle"
    BY <1>1, <1>2, <2>1 DEF CallOK, Idle
  <2> QED
    BY <1>2, <2>1, <2>2, Zenon DEF CallOK
<1> QED
  BY <1>1, <1>2, Zenon DEF SlotOK, HasConn, HasPend

\* A fresh slot, for socket or for a connection that was accepted.
LEMMA FreshTypes ==
    ASSUME TypeOK, NEW f \in Fds, NEW r \in Slots, NEW fresh \in SlotRecord,
           fds' = [fds EXCEPT ![f] = r], sock' = [sock EXCEPT ![r] = fresh], fds[f] = None
    PROVE  /\ fds' \in [Fds -> Slots \cup {None}] /\ sock' \in [Slots -> SlotRecord]
           /\ sock'[r] = fresh /\ \A t \in Slots \ {r} : sock'[t] = sock[t]
           /\ \A t \in Slots \ {r}, g \in Fds : fds'[g] = t => fds[g] = t
BY Zenon DEF TypeOK

\* socket: the slot holds nothing yet.
LEMMA SocketInv ==
    ASSUME ~Shared, IInv, NEW x \in Contexts, Socket(x)
    PROVE  IInv'
<1>1. PICK t \in {"stream", "dgram"} : NewSocket([FreeSlot EXCEPT !.state = "NEW", !.type = t])
  BY Zenon DEF Socket
<1>2. PICK fresh : fresh = [FreeSlot EXCEPT !.state = "NEW", !.type = t]
  OBVIOUS
<1>3. /\ fresh.state = "NEW" /\ fresh.type = t /\ fresh.conn = None /\ fresh.kept = FALSE
      /\ fresh \in SlotRecord
  BY <1>2, Zenon DEF FreeSlot, SlotRecord
<1>4. TypeOK /\ UNCHANGED <<q, open, made, at>> /\ at[x] = Idle /\ at[x].pc = "idle" /\ at[x].s = None
  BY IdleFields, Zenon DEF IInv, Socket
<1>5. PICK f \in Fds, r \in Slots :
          /\ fds[f] = None /\ sock[r].state = "FREE"
          /\ fds' = [fds EXCEPT ![f] = r] /\ sock' = [sock EXCEPT ![r] = fresh]
  BY <1>1, <1>2, <1>4, NewSocketFree
<1>6. /\ fds' \in [Fds -> Slots \cup {None}] /\ sock' \in [Slots -> SlotRecord]
      /\ sock'[r] = fresh /\ \A u \in Slots \ {r} : sock'[u] = sock[u]
      /\ \A u \in Slots \ {r}, g \in Fds : fds'[g] = u => fds[g] = u
  BY <1>3, <1>4, <1>5, FreshTypes, Zenon
<1>7. /\ \A y \in Contexts : at[y].s # r
      /\ q[r] = <<>> /\ \A c \in Things : ~HasConn(r, c) /\ ~HasPend(r, c)
  BY <1>5, FreeIsUnused, Zenon
<1>8. TypeOK'
  BY <1>4, <1>6, Zenon DEF TypeOK
<1>9. SlotOK(r)'
  BY <1>3, <1>4, <1>6, <1>7, SocketsAssumption, Zenon DEF SlotOK
<1>10. CallOK(x)'
  BY <1>4 DEF CallOK, Idle
<1>11. Numbered'
  BY <1>4, NumberedSame DEF IInv
<1>12. ASSUME NEW c \in Things PROVE HeldOnce(c)'
  <2>1. ~HasConn(r, c)' /\ ~HasPend(r, c)' /\ (HasCall(x, c)' <=> HasCall(x, c))
    BY <1>3, <1>4, <1>6, Zenon DEF HasConn, HasPend, HasCall
  <2>2. SameHolders(c)
    BY <1>4, <1>6, <1>7, <2>1, HeldElsewhere DEF SameHolders
  <2> QED
    BY <2>2, HeldSame, Zenon DEF IInv
<1> QED
  BY <1>4, <1>6, <1>7, <1>8, <1>9, <1>10, <1>11, <1>12, Local, Zenon DEF IInv

\* accept makes a slot of the connection in its hand, or closes it.
LEMMA AdoptInv ==
    ASSUME ~Shared, IInv, NEW x \in Contexts, Adopt(x)
    PROVE  IInv'
<1>a. TypeOK /\ None \notin Things /\ CallOK(x) /\ at[x].pc = "adopt" /\ at[x] \in CallRecord
  BY SocketsAssumption DEF IInv, TypeOK, Things, Adopt
<1>b. PICK s \in Slots, b \in Things : s = at[x].s /\ b = at[x].c
  BY <1>a, Zenon DEF CallOK, CallRecord
<1>0. s # None /\ sock[s].state = "LISTEN" /\ sock[s].type = "stream" /\ ~(sock[s].state = "FREE")
  BY <1>a, <1>b, SocketsAssumption, Zenon DEF IInv, CallOK, SlotOK
<1>1. UNCHANGED <<q, made>> /\ at' = [at EXCEPT ![x] = Idle]
  BY Zenon DEF Adopt, Done
<1>2. /\ \A y \in Contexts \ {x} : at[y].s # s /\ at'[y] = at[y]
      /\ at'[x].pc = "idle" /\ at'[x].s = None /\ at'[x] = Idle
      /\ at' \in [Contexts -> CallRecord]
  BY <1>a, <1>b, <1>1, OnlyHere, DoneFields, Zenon DEF IInv
<1>3. CallOK(x)'
  BY <1>2 DEF CallOK, Idle
<1>4. \A c \in Things : ~HasCall(x, c)' /\ (HasCall(x, c) <=> c = b)
  BY <1>a, <1>b, <1>0, <1>2, Zenon DEF HasCall
<1>5. HeldOnce(b) /\ b \in open
  BY <1>4, Zenon DEF IInv, HeldOnce
<1>6. CASE /\ NewSocket([FreeSlot EXCEPT !.state = "CONN", !.type = "stream", !.conn = b])
           /\ UNCHANGED open
  <2>1. PICK fresh : fresh = [FreeSlot EXCEPT !.state = "CONN", !.type = "stream", !.conn = b]
    OBVIOUS
  <2>2. /\ fresh.state = "CONN" /\ fresh.type = "stream" /\ fresh.conn = b /\ fresh.kept = FALSE
        /\ fresh \in SlotRecord
    BY <2>1, Zenon DEF FreeSlot, SlotRecord
  <2>3. PICK f \in Fds, r \in Slots :
            /\ fds[f] = None /\ sock[r].state = "FREE"
            /\ fds' = [fds EXCEPT ![f] = r] /\ sock' = [sock EXCEPT ![r] = fresh]
    BY <1>a, <1>6, <2>1, NewSocketFree
  <2>a. TypeOK /\ fresh \in SlotRecord
    BY <1>a, <2>2
  <2>4. /\ fds' \in [Fds -> Slots \cup {None}] /\ sock' \in [Slots -> SlotRecord]
        /\ sock'[r] = fresh /\ \A u \in Slots \ {r} : sock'[u] = sock[u]
        /\ \A u \in Slots \ {r}, g \in Fds : fds'[g] = u => fds[g] = u
    BY <2>a, <2>3, FreshTypes, Zenon
  <2>5. /\ \A y \in Contexts : at[y].s # r
        /\ q[r] = <<>> /\ \A c \in Things : ~HasConn(r, c) /\ ~HasPend(r, c)
    BY <2>3, FreeIsUnused, Zenon
  <2>6. TypeOK'
    BY <1>a, <1>1, <1>2, <1>6, <2>4, Zenon DEF TypeOK
  <2>7. SlotOK(r)'
    BY <1>a, <1>1, <2>2, <2>4, <2>5, Zenon DEF SlotOK
  <2>8. Numbered'
    BY <1>1, <1>6, NumberedSame DEF IInv
  <2>9. ASSUME NEW c \in Things PROVE HeldOnce(c)'
    <3>1. (HasConn(r, c)' <=> c = b) /\ ~HasPend(r, c)'
      BY <2>2, <2>4, Zenon DEF HasConn, HasPend
    <3>2. /\ \A y \in Contexts \ {x} : HasCall(y, c)' <=> HasCall(y, c)
          /\ \A u \in Slots \ {r} :
                 (HasConn(u, c)' <=> HasConn(u, c)) /\ (HasPend(u, c)' <=> HasPend(u, c))
      BY <1>2, <2>4, <2>5, HeldElsewhere
    <3>3. CASE c = b
      BY <1>4, <1>5, <1>6, <2>5, <3>1, <3>2, <3>3 DEF HeldOnce
    <3>4. CASE c # b
      BY <1>4, <1>6, <2>5, <3>1, <3>2, <3>4, HeldSame, Zenon DEF SameHolders, IInv
    <3> QED
      BY <3>3, <3>4
  <2> QED
    BY <1>1, <1>2, <1>3, <2>4, <2>5, <2>6, <2>7, <2>8, <2>9, Local, Zenon DEF IInv
<1>7. CASE open' = open \ {b} /\ UNCHANGED <<fds, sock>>
  <2>1. TypeOK'
    BY <1>a, <1>1, <1>2, <1>7, Zenon DEF TypeOK
  <2>2. SlotOK(s)'
    BY <1>1, <1>7, SlotUnchanged, Zenon DEF IInv
  <2>4. Numbered'
    <3>1. Numbered
      BY DEF IInv
    <3>2. UNCHANGED <<q, made>> /\ open' \subseteq open
      BY <1>1, <1>7
    <3> QED
      BY <3>1, <3>2, NumberedSame, Zenon
  <2>3. ASSUME NEW c \in Things PROVE HeldOnce(c)'
    <3>1. /\ \A y \in Contexts \ {x} : HasCall(y, c)' <=> HasCall(y, c)
          /\ \A u \in Slots :
                 (HasConn(u, c)' <=> HasConn(u, c)) /\ (HasPend(u, c)' <=> HasPend(u, c))
      BY <1>2, <1>7, HeldElsewhere DEF HasConn, HasPend
    <3>2. CASE c = b
      BY <1>4, <1>5, <1>7, <3>1, <3>2 DEF HeldOnce
    <3>3. CASE c # b
      BY <1>4, <1>7, <3>1, <3>3, HeldSame, Zenon DEF SameHolders, IInv
    <3> QED
      BY <3>2, <3>3
  <2> QED
    BY <1>1, <1>2, <1>3, <1>7, <2>1, <2>2, <2>3, <2>4, Local, Zenon DEF IInv
<1> QED
  BY <1>b, <1>6, <1>7, Zenon DEF Adopt

\* dup: a slot that is named is not free.
LEMMA DupInv ==
    ASSUME ~Shared, IInv, NEW x \in Contexts, NEW s \in Slots, Dup(x, s)
    PROVE  IInv'
<1>1. /\ TypeOK /\ UNCHANGED <<sock, q, open, made, at>> /\ at[x].s = None
  BY IdleFields DEF IInv, Dup, On
<1>2. PICK g \in Fds : fds' = [fds EXCEPT ![g] = s]
  BY Zenon DEF Dup, Lowest, FreeFds
<1>3. /\ fds' \in [Fds -> Slots \cup {None}]
      /\ \A r \in Slots \ {s}, f \in Fds : fds'[f] = r => fds[f] = r
  BY <1>1, <1>2 DEF TypeOK
<1>4. sock[s].state # "FREE" /\ \A y \in Contexts \ {x} : at[y].s # s
  BY OnlyHere DEF Dup, On, IInv, SlotOK
<1>5. TypeOK'
  BY <1>1, <1>3 DEF TypeOK
<1>6. SlotOK(s)' /\ CallOK(x)' /\ Numbered'
  BY <1>1, <1>4, SlotUnchanged, CallUnchanged, NumberedSame DEF IInv
<1>7. \A c \in Things : HeldOnce(c)'
  BY <1>1, HeldUnchanged DEF IInv
<1> QED
  BY <1>1, <1>3, <1>4, <1>5, <1>6, <1>7, Local, Zenon DEF IInv

\* close: the last descriptor takes with it the connection, and what was kept.
LEMMA CloseInv ==
    ASSUME ~Shared, IInv, NEW x \in Contexts, NEW f \in Fds, Close(x, f)
    PROVE  IInv'
<1>a. TypeOK /\ fds[f] \in Slots /\ On(x, fds[f])
  BY DEF IInv, TypeOK, Close
<1>b. PICK s \in Slots : s = fds[f]
  BY <1>a
<1>0. UNCHANGED <<made, at>> /\ fds' = [fds EXCEPT ![f] = None] /\ s # None
  BY SocketsAssumption DEF Close
<1>1. at[x].s = None /\ \A y \in Contexts : at[y].s # s
  BY <1>a, <1>b, <1>0, OnlyHere, IdleFields, Zenon DEF On, IInv
<1>2. /\ fds' \in [Fds -> Slots \cup {None}]
      /\ \A r \in Slots \ {s}, g \in Fds : fds'[g] = r => fds[g] = r
  BY <1>a, <1>0, SocketsAssumption, Zenon DEF TypeOK
<1>3. sock[s].state # "FREE" /\ SlotOK(s)
  BY <1>b, Zenon DEF IInv, SlotOK
<1>4. CASE UNCHANGED <<sock, q, open>>
  <2>1. TypeOK'
    BY <1>a, <1>0, <1>2, <1>4, Zenon DEF TypeOK
  <2>2. SlotOK(s)' /\ CallOK(x)' /\ Numbered'
    BY <1>0, <1>3, <1>4, SlotUnchanged, CallUnchanged, NumberedSame DEF IInv
  <2>3. \A c \in Things : HeldOnce(c)'
    BY <1>0, <1>4, HeldUnchanged DEF IInv
  <2> QED
    BY <1>0, <1>1, <1>2, <1>4, <2>1, <2>2, <2>3, Local, Zenon DEF IInv
<1>5. CASE Release(s) /\ \A g \in Fds \ {f} : fds[g] # s
  <2>1. /\ sock'[s] = FreeSlot /\ q'[s] = <<>>
        /\ \A r \in Slots \ {s} : sock'[r] = sock[r] /\ q'[r] = q[r]
        /\ \A c \in Things : c \in open' <=> c \in open /\ ~HasConn(s, c) /\ ~HasPend(s, c)
    BY <1>a, <1>5, Zenon DEF Release, TypeOK, HasConn, HasPend
  <2>2. TypeOK'
    <3>1. FreeSlot \in SlotRecord
      BY DEF FreeSlot, SlotRecord
    <3>2. sock' \in [Slots -> SlotRecord] /\ q' \in [Slots -> Seq(Things)] /\ open' \subseteq Things
      BY <1>a, <1>5, <3>1 DEF Release, TypeOK
    <3> QED
      BY <1>a, <1>0, <1>2, <3>2, Zenon DEF TypeOK
  <2>3. SlotOK(s)'
    <3>1. \A g \in Fds : fds'[g] # s
      BY <1>a, <1>0, <1>5, Zenon DEF TypeOK
    <3> QED
      BY <2>1, <3>1 DEF SlotOK, FreeSlot
  <2>4. CallOK(x)'
    BY <1>a, <1>0 DEF On, CallOK, Idle
  <2>5. Numbered'
    <3>1. open' \subseteq open
      BY <1>5, Zenon DEF Release
    <3>2. ASSUME NEW r \in Slots, NEW i \in DOMAIN q'[r] PROVE r # s /\ q'[r] = q[r]
      BY <2>1, <3>2
    <3> QED
      BY <1>0, <3>1, <3>2 DEF IInv, Numbered
  <2>6. ASSUME NEW c \in Things PROVE HeldOnce(c)'
    <3>1. ~HasConn(s, c)' /\ ~HasPend(s, c)'
      BY <2>1 DEF HasConn, HasPend, FreeSlot
    <3>2. ~HasCall(x, c) /\ ~HasCall(x, c)'
      BY <1>a, <1>0 DEF On, HasCall, Idle
    <3>3. /\ \A y \in Contexts \ {x} : HasCall(y, c)' <=> HasCall(y, c)
          /\ \A u \in Slots \ {s} :
                 (HasConn(u, c)' <=> HasConn(u, c)) /\ (HasPend(u, c)' <=> HasPend(u, c))
      BY <1>0, <1>1, <2>1, HeldElsewhere, Zenon
    <3>4. HeldOnce(c)
      BY DEF IInv
    <3> QED
      BY <2>1, <3>1, <3>2, <3>3, <3>4 DEF HeldOnce
  <2> QED
    BY <1>0, <1>1, <1>2, <2>1, <2>2, <2>3, <2>4, <2>5, <2>6, Local, Zenon DEF IInv
<1> QED
  BY <1>b, <1>4, <1>5 DEF Close

\* The invariant holds at the start: every slot is free, nobody is in a call.
LEMMA InitIInv == Init => IInv
<1> SUFFICES ASSUME Init PROVE IInv
  OBVIOUS
<1>1. TypeOK
  <2>1. FreeSlot \in SlotRecord /\ Idle \in CallRecord
    BY Zenon DEF FreeSlot, SlotRecord, Idle, CallRecord
  <2>2. q \in [Slots -> Seq(Things)]
    BY DEF Init
  <2> QED
    BY <2>1, <2>2, SocketsAssumption DEF Init, TypeOK
<1>2. \A s \in Slots : SlotOK(s)
  BY SocketsAssumption, Zenon DEF Init, SlotOK, FreeSlot
<1>3. \A x \in Contexts : CallOK(x)
  BY Zenon DEF Init, CallOK, Idle
<1>4. \A c \in Things : HeldOnce(c)
  BY DEF Init, HeldOnce, HasConn, HasPend, HasCall, FreeSlot, Idle
<1>5. OneCall
  BY Zenon DEF Init, OneCall, Idle
<1>6. Numbered
  BY DEF Init, Numbered
<1> QED
  BY <1>1, <1>2, <1>3, <1>4, <1>5, <1>6 DEF IInv

\* A call that asks: it is given the oldest, or ends without.
LEMMA AskInv ==
    ASSUME ~Shared, IInv, NEW x \in Contexts, Ask(x) \/ Enquire(x)
    PROVE  IInv'
<1>1. at[x].pc \in {"ask", "enquire"} /\ CallOK(x) /\ at[x] \in CallRecord
  BY Zenon DEF IInv, TypeOK, Ask, Enquire
<1>2. PICK s \in Slots : s = at[x].s
  BY <1>1, Zenon DEF CallOK, CallRecord
<1>3. sock[s].type \in {"stream", "dgram"}
  BY <1>1, <1>2, Zenon DEF IInv, CallOK, SlotOK
<1>4. UNCHANGED <<fds, sock, made>>
  BY Zenon DEF Ask, Enquire
<1>5. \/ at' = [at EXCEPT ![x] = Idle] /\ UNCHANGED <<q, open>>
      \/ /\ Given(s)
         /\ \/ sock[s].type = "stream" /\ Put(x, "adopt", s, FALSE, Head(q[s]))
            \/ sock[s].type = "dgram" /\ at' = [at EXCEPT ![x] = Idle]
            \/ Put(x, "keep", s, FALSE, Head(q[s]))
  BY <1>2, <1>3, Zenon DEF Ask, Enquire, Done
<1>6. CASE at' = [at EXCEPT ![x] = Idle] /\ UNCHANGED <<q, open>>
  BY <1>1, <1>2, <1>4, <1>6, EndInv, Zenon
<1>7. CASE Given(s) /\ ~(at' = [at EXCEPT ![x] = Idle] /\ UNCHANGED <<q, open>>)
  <2>1. PICK b : b = Head(q[s])
    OBVIOUS
  <2> QED
    BY <1>1, <1>2, <1>4, <1>5, <1>7, <2>1, GivenInv, Zenon
<1> QED
  BY <1>5, <1>6, <1>7, Zenon

\* accept, receive and the enquiry begin, and the enquiry that need not ask.
LEMMA EnterInv ==
    ASSUME ~Shared, IInv, NEW x \in Contexts, NEW s \in Slots,
           Accept(x, s) \/ Recv(x, s) \/ WaitIn(x, s) \/ Connect(x, s)
    PROVE  IInv'
<1>1. On(x, s) /\ SlotOK(s)
  BY Zenon DEF IInv, Accept, Recv, WaitIn, Connect
<1>2. CASE Accept(x, s)
  BY <1>1, <1>2, BeginInv, Zenon DEF Accept
<1>3. CASE Recv(x, s)
  <2>1. CASE OpenDgram(s)
    <3>1. ~sock[s].kept
      BY <1>1, <2>1, Zenon DEF OpenDgram, SlotOK
    <3> QED
      BY <1>1, <1>3, <2>1, <3>1, TurnInv, Zenon DEF Recv, OpenDgram
  <2>2. CASE sock[s].state = "DGRAM" /\ UNCHANGED sock
    BY <1>1, <1>3, <2>2, BeginInv, Zenon DEF Recv
  <2> QED
    BY <1>3, <2>1, <2>2, Zenon DEF Recv
<1>4. CASE WaitIn(x, s)
  <2>1. CASE sock[s].kept
    <3>1. at' = [at EXCEPT ![x] = Idle] /\ at[x].pc = "idle"
      BY <1>1, <1>4, <2>1, IdleFields, Zenon DEF WaitIn, Done, On
    <3> QED
      BY <1>1, <1>4, <3>1, EndInv, Zenon DEF WaitIn
  <2>2. CASE ~sock[s].kept
    BY <1>1, <1>4, <2>2, BeginInv, Zenon DEF WaitIn
  <2> QED
    BY <2>1, <2>2
<1>5. CASE Connect(x, s)
  <2>1. CASE OpenDgram(s) /\ UNCHANGED at
    BY <1>1, <1>5, <2>1, TurnInv, Zenon DEF Connect, OpenDgram
  <2>2. CASE /\ sock[s].type = "stream" /\ sock[s].state = "NEW"
             /\ Put(x, "connect", s, FALSE, None) /\ UNCHANGED sock
    BY <1>1, <1>5, <2>2, BeginInv, Zenon DEF Connect
  <2> QED
    BY <1>5, <2>1, <2>2, Zenon DEF Connect
<1> QED
  BY <1>2, <1>3, <1>4, <1>5

\* Every step keeps the invariant.
LEMMA NextIInv ==
    ASSUME ~Shared, IInv, [Next]_vars
    PROVE  IInv'
<1>1. CASE \E x \in Contexts : Socket(x) \/ \E f \in Fds : Close(x, f)
  BY <1>1, SocketInv, CloseInv
<1>2. ASSUME NEW x \in Contexts, Connected(x) PROVE IInv'
  <2>1. at[x].pc = "connect" /\ CallOK(x) /\ at[x] \in CallRecord
    BY <1>2, Zenon DEF IInv, TypeOK, Connected
  <2>2. PICK s \in Slots : s = at[x].s
    BY <2>1, Zenon DEF CallOK, CallRecord
  <2>3. CASE at' = [at EXCEPT ![x] = Idle] /\ UNCHANGED <<made, open, sock>>
    BY <1>2, <2>1, <2>2, <2>3, EndInv, Zenon DEF Connected
  <2>4. CASE ~(at' = [at EXCEPT ![x] = Idle] /\ UNCHANGED <<made, open, sock>>)
    BY <1>2, <2>1, <2>2, <2>4, ConnectedInv, Zenon DEF Connected, Done
  <2> QED
    BY <2>3, <2>4
<1>3. CASE \E x \in Contexts : TakeKept(x) \/ Ask(x) \/ Adopt(x) \/ Enquire(x) \/ Keep(x)
  BY <1>3, TakeKeptInv, AskInv, AdoptInv, KeepInv
<1>4. ASSUME NEW x \in Contexts, NEW s \in Slots, Bind(x, s) \/ Listen(x, s) \/ Send(x, s)
      PROVE  IInv'
  BY <1>4, TurnInv, Zenon DEF Bind, Listen, Send, OpenDgram
<1>5. CASE \E x \in Contexts, s \in Slots : \/ Dup(x, s) \/ Connect(x, s) \/ Accept(x, s)
                                           \/ Recv(x, s) \/ WaitIn(x, s)
  BY <1>5, DupInv, EnterInv, Zenon
<1>6. CASE \E s \in Slots : Arrive(s)
  BY <1>6, ArriveInv
<1>7. CASE UNCHANGED vars
  <2>1. UNCHANGED <<fds, sock, q, open, made, at>>
    BY <1>7 DEF vars
  <2>2. TypeOK'
    BY <2>1, Zenon DEF IInv, TypeOK
  <2>3. /\ \A s \in Slots : SlotOK(s)'
        /\ \A x \in Contexts : CallOK(x)'
        /\ \A c \in Things : HeldOnce(c)'
    BY <2>1, SlotUnchanged, CallUnchanged, HeldUnchanged, Zenon DEF IInv
  <2> QED
    BY <2>1, <2>2, <2>3, OneCallUnchanged, NumberedSame DEF IInv
<1> QED
  BY <1>1, <1>2, <1>3, <1>4, <1>5, <1>6, <1>7, Zenon DEF Next

-----------------------------------------------------------------------------
\* What waits for a slot, when x is the only context that may be in a call on it.
Waiting(x, s) ==
    IF at[x].pc = "keep" THEN <<at[x].c>> \o q[s]
    ELSE IF sock[s].kept THEN <<sock[s].pend>> \o q[s] ELSE q[s]

InHand(x) == IF at[x].pc = "adopt" THEN at[x].c ELSE None

AloneOn(x, s) == /\ \A y \in Contexts \ {x} : at[y].s # s
                 /\ at[x].pc = "keep" => at[x].s = s

\* The queue a program sees is what the call holds, what the slot keeps and
\* what waits in the environment.
QueueRight ==
    \A x \in Contexts, s \in Slots :
        AloneOn(x, s) => Queue[s] = Waiting(x, s) /\ Queue[s] \in Seq(Things)

\* So it is in every state of the invariant.
LEMMA QueueIs == IInv => QueueRight
<1> SUFFICES ASSUME IInv, NEW x \in Contexts, NEW s \in Slots, AloneOn(x, s)
             PROVE  Queue[s] = Waiting(x, s) /\ Queue[s] \in Seq(Things)
  BY Zenon DEF QueueRight
<1>0. TypeOK /\ CallOK(x) /\ SlotOK(s) /\ at[x] \in CallRecord /\ sock[s] \in SlotRecord
      /\ q[s] \in Seq(Things)
  BY Zenon DEF IInv, TypeOK
<1>1. Queue[s] = SetToSeq1(Aside(s)) \o (IF sock[s].kept THEN <<sock[s].pend>> ELSE <<>>) \o q[s]
  BY Zenon DEF Queue
<1>2. CASE at[x].pc = "keep"
  <2>1. Aside(s) = {at[x].c} /\ ~sock[s].kept /\ at[x].c \in Things
    BY <1>0, <1>2 DEF Aside, AloneOn, CallOK, CallRecord
  <2>2. SetToSeq1(Aside(s)) = <<at[x].c>>
    BY <2>1, Zenon DEF SetToSeq1
  <2>3. Queue[s] = <<at[x].c>> \o <<>> \o q[s]
    BY <1>1, <2>1, <2>2, Zenon
  <2> QED
    BY <1>0, <1>2, <2>1, <2>3 DEF Waiting
<1>3. CASE at[x].pc # "keep"
  <2>1. Aside(s) = {}
    BY <1>3, Zenon DEF Aside, AloneOn
  <2>2. Queue[s] = <<>> \o (IF sock[s].kept THEN <<sock[s].pend>> ELSE <<>>) \o q[s]
    BY <1>1, <2>1, Zenon DEF SetToSeq1
  <2>3. sock[s].kept => sock[s].pend \in Things
    BY <1>0, Zenon DEF SlotOK, SlotRecord
  <2>4. CASE sock[s].kept
    <3>1. Queue[s] = <<sock[s].pend>> \o q[s]
      BY <1>0, <2>2, <2>3, <2>4
    <3> QED
      BY <1>0, <1>3, <2>3, <2>4, <3>1 DEF Waiting
  <2>5. CASE ~sock[s].kept
    BY <1>0, <1>3, <2>2, <2>5 DEF Waiting
  <2> QED
    BY <2>4, <2>5, Zenon
<1> QED
  BY <1>2, <1>3, Zenon

\* And after a step.
LEMMA QueueIsNext == IInv' => QueueRight'
BY QueueIs, PTL

\* A step of one call, on one slot.
OneStep(x, s) ==
    /\ \A y \in Contexts \ {x} : at[y].s # s /\ at'[y] = at[y]
    /\ \A r \in Slots \ {s} : sock'[r] = sock[r] /\ q'[r] = q[r]
    /\ at[x].pc = "keep" => at[x].s = s
    /\ at'[x].pc = "keep" => at'[x].s = s

\* What the program sees of it: the role, the queue, the connection and the
\* hand of others stay, and its own are read off the slot and the call.
Seen(x, s) ==
    /\ Role' = [Role EXCEPT ![s] = sock'[s].state] /\ Role[s] = sock[s].state
    /\ Conn' = [Conn EXCEPT ![s] = sock'[s].conn] /\ Conn[s] = sock[s].conn
    /\ Hand' = [Hand EXCEPT ![x] = InHand(x)'] /\ Hand[x] = InHand(x)
    /\ Queue' = [Queue EXCEPT ![s] = Waiting(x, s)'] /\ Queue[s] = Waiting(x, s)
    /\ Waiting(x, s) \in Seq(Things)
    /\ sock'[s].state = sock[s].state => Role' = Role
    /\ sock'[s].conn = sock[s].conn => Conn' = Conn
    /\ InHand(x)' = InHand(x) => Hand' = Hand
    /\ Waiting(x, s)' = Waiting(x, s) => Queue' = Queue

\* Whoever steps on one slot is seen there, and only there.
LEMMA StepSeen ==
    ASSUME IInv, IInv', NEW x \in Contexts, NEW s \in Slots, OneStep(x, s)
    PROVE  Seen(x, s)
<1>1. /\ Role' = [Role EXCEPT ![s] = sock'[s].state] /\ Role[s] = sock[s].state
      /\ Conn' = [Conn EXCEPT ![s] = sock'[s].conn] /\ Conn[s] = sock[s].conn
      /\ sock'[s].state = sock[s].state => Role' = Role
      /\ sock'[s].conn = sock[s].conn => Conn' = Conn
  BY Zenon DEF Role, Conn, OneStep
<1>2. /\ Hand' = [Hand EXCEPT ![x] = InHand(x)'] /\ Hand[x] = InHand(x)
      /\ InHand(x)' = InHand(x) => Hand' = Hand
  BY Zenon DEF Hand, InHand, OneStep
<1>3. Queue[s] = Waiting(x, s) /\ Waiting(x, s) \in Seq(Things)
  BY QueueIs, Zenon DEF AloneOn, QueueRight, OneStep
<1>4. Queue'[s] = Waiting(x, s)'
  BY QueueIsNext DEF AloneOn, QueueRight, OneStep
<1>5. ASSUME NEW r \in Slots \ {s} PROVE Queue'[r] = Queue[r]
  <2>1. Aside(r)' = Aside(r)
    BY <1>5 DEF Aside, OneStep
  <2>2. sock'[r] = sock[r] /\ q'[r] = q[r]
    BY <1>5, Zenon DEF OneStep
  <2> QED
    BY <2>1, <2>2, Zenon DEF Queue
<1>6. /\ Queue' = [Queue EXCEPT ![s] = Waiting(x, s)']
      /\ Waiting(x, s)' = Waiting(x, s) => Queue' = Queue
  <2>1. /\ Queue = [r \in Slots |-> Queue[r]]
        /\ Queue' = [r \in Slots |-> Queue'[r]]
    BY Zenon DEF Queue
  <2> QED
    BY <1>3, <1>4, <1>5, <2>1
<1> QED
  BY <1>1, <1>2, <1>3, <1>6, Zenon DEF Seen

\* A call begun on a slot, or under way there, steps on that slot.
LEMMA CallSeen ==
    ASSUME ~Shared, IInv, IInv', NEW x \in Contexts, NEW s \in Slots, On(x, s) \/ at[x].s = s,
           \A r \in Slots \ {s} : sock'[r] = sock[r] /\ q'[r] = q[r],
           \/ at' = at
           \/ at' = [at EXCEPT ![x] = Idle]
           \/ \E pc, w, c : Put(x, pc, s, w, c)
    PROVE  Seen(x, s)
<1>1. \A y \in Contexts \ {x} : at[y].s # s
  BY OnlyHere, Zenon DEF IInv
<1>2. \A y \in Contexts \ {x} : at'[y] = at[y]
  BY Zenon DEF IInv, TypeOK, Put
<1>3. at[x].pc = "keep" => at[x].s = s
  BY IdleFields, Zenon DEF On
<1>4. at'[x].pc = "keep" => at'[x].s = s
  BY <1>3 DEF IInv, TypeOK, Put, Idle
<1>5. OneStep(x, s)
  BY <1>1, <1>2, <1>3, <1>4, Zenon DEF OneStep
<1> QED
  BY <1>5, StepSeen, Zenon

SeenNext == [Abstract!SockNext]_(Abstract!svars)

\* bind, listen, send and receive: the slot becomes what it is.
LEMMA TurnSeen ==
    ASSUME ~Shared, IInv, IInv', NEW x \in Contexts, NEW s \in Slots, On(x, s),
           sock[s].state = "NEW", NEW st \in {"LISTEN", "DGRAM"},
           sock' = [sock EXCEPT ![s].state = st],
           at' = at \/ \E w \in BOOLEAN : Put(x, "ask", s, w, None), UNCHANGED <<q, got>>
    PROVE  SeenNext
<1>1. /\ TypeOK /\ SlotOK(s) /\ at[x].pc = "idle"
      /\ sock'[s].state = st /\ sock'[s].conn = sock[s].conn /\ sock'[s].kept = sock[s].kept
      /\ \A r \in Slots \ {s} : sock'[r] = sock[r]
  BY IdleFields DEF IInv, TypeOK, On, SlotRecord
<1>2. at'[x].pc \in {"idle", "ask"}
  BY <1>1 DEF TypeOK, Put
<1>3. Seen(x, s)
  BY <1>1, CallSeen
<1>4. sock[s].conn = None /\ ~sock[s].kept
  BY <1>1, Zenon DEF SlotOK
<1>5. InHand(x)' = InHand(x) /\ Waiting(x, s)' = Waiting(x, s)
  BY <1>1, <1>2, <1>4, Zenon DEF InHand, Waiting
<1>6. Abstract!Become(s)
  BY <1>1, <1>3, <1>4, <1>5, Zenon DEF Seen, Abstract!Become, Abstract!Turn
<1> QED
  BY <1>6, Zenon DEF SeenNext, Abstract!SockNext

\* A call begins: nothing is seen of it.
LEMMA BeginSeen ==
    ASSUME ~Shared, IInv, IInv', NEW x \in Contexts, NEW s \in Slots, On(x, s),
           NEW pc \in {"connect", "take", "ask", "enquire"}, NEW w \in BOOLEAN,
           Put(x, pc, s, w, None), UNCHANGED <<sock, q, got>>
    PROVE  SeenNext
<1>1. TypeOK /\ at[x].pc = "idle"
  BY IdleFields, Zenon DEF IInv, On
<1>2. at'[x].pc = pc
  BY <1>1, PutFields, Zenon
<1>3. Seen(x, s)
  BY CallSeen, Zenon
<1>4. InHand(x)' = InHand(x) /\ Waiting(x, s)' = Waiting(x, s)
  BY <1>1, <1>2, Zenon DEF InHand, Waiting
<1> QED
  BY <1>3, <1>4, Zenon DEF Seen, SeenNext, Abstract!svars

\* A call is told, and took nothing.
LEMMA AnswerSeen ==
    ASSUME ~Shared, IInv, IInv', NEW x \in Contexts, NEW s \in Slots, On(x, s) \/ at[x].s = s,
           at[x].pc \notin {"adopt", "keep"}, UNCHANGED <<sock, q>>,
           at' = [at EXCEPT ![x] = Idle],
           \/ got' = <<"error">>
           \/ got' = <<"again">> /\ q[s] = <<>> /\ ~sock[s].kept
           \/ got' = <<"ready">> /\ sock[s].kept
    PROVE  SeenNext
<1>1. TypeOK /\ SlotOK(s) /\ q[s] \in Seq(Things) /\ sock[s] \in SlotRecord
  BY Zenon DEF IInv, TypeOK
<1>2. at'[x].pc = "idle"
  BY <1>1, DoneFields, Zenon
<1>3. Seen(x, s)
  BY CallSeen, Zenon
<1>4. InHand(x)' = InHand(x) /\ Waiting(x, s)' = Waiting(x, s)
  BY <1>2, Zenon DEF InHand, Waiting
<1>5. /\ q[s] = <<>> /\ ~sock[s].kept => Waiting(x, s) = <<>>
      /\ sock[s].kept => Waiting(x, s) # <<>>
  <2>1. sock[s].kept => sock[s].pend \in Things
    BY <1>1, Zenon DEF SlotOK, SlotRecord
  <2>2. sock[s].kept => <<sock[s].pend>> \o q[s] # <<>>
    BY <1>1, <2>1
  <2> QED
    BY <2>2, Zenon DEF Waiting
<1>6. Abstract!Answer(s)
  BY <1>3, <1>4, <1>5, Zenon DEF Seen, Abstract!Answer, Abstract!Tell
<1> QED
  BY <1>6, Zenon DEF SeenNext, Abstract!SockNext

\* One more in front of a queue.
LEMMA InFront ==
    ASSUME NEW b \in Things, NEW z \in Seq(Things)
    PROVE  /\ <<b>> \o z # <<>> /\ Head(<<b>> \o z) = b /\ Tail(<<b>> \o z) = z
           /\ z # <<>> => z = <<Head(z)>> \o Tail(z)
<1>1. /\ Len(<<b>> \o z) = 1 + Len(z) /\ (<<b>> \o z)[1] = b
      /\ <<b>> \o z # <<>> /\ Head(<<b>> \o z) = b
  OBVIOUS
<1>2. Tail(<<b>> \o z) = z
  OBVIOUS
<1>3. z # <<>> => z = <<Head(z)>> \o Tail(z)
  OBVIOUS
<1> QED
  BY <1>1, <1>2, <1>3, Zenon

\* accept and receive take the oldest: what an enquiry kept, or what the
\* environment gives.
LEMMA TakeSeen ==
    ASSUME ~Shared, IInv, IInv', NEW x \in Contexts, NEW s \in Slots, at[x].s = s,
           at[x].pc \in {"take", "ask"}, NEW b \in Things,
           \/ /\ sock[s].kept /\ sock[s].pend = b
              /\ sock' = [sock EXCEPT ![s].kept = FALSE] /\ UNCHANGED q
           \/ /\ ~sock[s].kept /\ q[s] # <<>> /\ Head(q[s]) = b
              /\ q' = [q EXCEPT ![s] = Tail(@)] /\ UNCHANGED sock,
           \/ sock[s].type = "stream" /\ Put(x, "adopt", s, FALSE, b) /\ UNCHANGED got
           \/ sock[s].type = "dgram" /\ at' = [at EXCEPT ![x] = Idle] /\ got' = <<"given", b>>
    PROVE  SeenNext
<1>1. TypeOK /\ SlotOK(s) /\ CallOK(x) /\ q[s] \in Seq(Things) /\ sock[s] \in SlotRecord
  BY Zenon DEF IInv, TypeOK
<1>2. /\ sock'[s].state = sock[s].state /\ sock'[s].conn = sock[s].conn /\ ~sock'[s].kept
      /\ \A r \in Slots \ {s} : sock'[r] = sock[r] /\ q'[r] = q[r]
  BY <1>1 DEF TypeOK, SlotRecord
<1>3. Seen(x, s)
  BY <1>2, CallSeen, Zenon
<1>4. Waiting(x, s) = <<b>> \o q'[s] /\ q'[s] \in Seq(Things)
  <2>1. CASE sock[s].kept /\ sock[s].pend = b /\ UNCHANGED q
    BY <1>1, <2>1, Zenon DEF Waiting
  <2>2. CASE ~sock[s].kept /\ q[s] # <<>> /\ Head(q[s]) = b /\ q' = [q EXCEPT ![s] = Tail(@)]
    <3>1. q'[s] = Tail(q[s])
      BY <1>1, <2>2, Zenon DEF TypeOK
    <3>2. q[s] = <<b>> \o Tail(q[s]) /\ Tail(q[s]) \in Seq(Things)
      BY <1>1, <2>2, InFront
    <3>3. Waiting(x, s) = q[s]
      BY <2>2, Zenon DEF Waiting
    <3> QED
      BY <3>1, <3>2, <3>3, Zenon
  <2> QED
    BY <2>1, <2>2, Zenon
<1>a. /\ Queue[s] # <<>> /\ Head(Queue[s]) = b /\ Tail(Queue[s]) = q'[s]
      /\ Role' = Role /\ Conn' = Conn /\ Role[s] = sock[s].state
  BY <1>2, <1>3, <1>4, InFront DEF Seen
<1>5. CASE sock[s].type = "stream" /\ Put(x, "adopt", s, FALSE, b) /\ UNCHANGED got
  <2>1. at'[x].pc = "adopt" /\ at'[x].c = b
    BY <1>1, <1>5 DEF Put, TypeOK
  <2>2. Waiting(x, s)' = q'[s] /\ InHand(x)' = b
    BY <1>2, <2>1, Zenon DEF Waiting, InHand
  <2>3. sock[s].state = "LISTEN"
    BY <1>1, <1>5, Zenon DEF CallOK, SlotOK
  <2>4. Abstract!Take(x, s)
    BY <1>3, <1>a, <1>5, <2>2, <2>3, Zenon DEF Seen, Abstract!Take
  <2> QED
    BY <2>4, Zenon DEF SeenNext, Abstract!SockNext
<1>6. CASE sock[s].type = "dgram" /\ at' = [at EXCEPT ![x] = Idle] /\ got' = <<"given", b>>
  <2>1. at'[x].pc = "idle"
    BY <1>1, <1>6, DoneFields, Zenon
  <2>2. Waiting(x, s)' = q'[s] /\ InHand(x)' = InHand(x)
    BY <1>2, <2>1, Zenon DEF Waiting, InHand
  <2>3. sock[s].state = "DGRAM"
    BY <1>1, <1>6, Zenon DEF CallOK, SlotOK
  <2>4. Abstract!Take(x, s)
    BY <1>3, <1>a, <1>6, <2>2, <2>3, Zenon DEF Seen, Abstract!Take, Abstract!Tell
  <2> QED
    BY <2>4 DEF SeenNext, Abstract!SockNext
<1> QED
  BY <1>5, <1>6, Zenon

\* An enquiry takes the oldest, and the program sees it where it was.
LEMMA EnquireSeen ==
    ASSUME ~Shared, IInv, IInv', NEW x \in Contexts, NEW s \in Slots, at[x].s = s,
           at[x].pc = "enquire", q[s] # <<>>, q' = [q EXCEPT ![s] = Tail(@)],
           Put(x, "keep", s, FALSE, Head(q[s])), UNCHANGED <<sock, got>>
    PROVE  SeenNext
<1>1. TypeOK /\ CallOK(x) /\ q[s] \in Seq(Things)
  BY Zenon DEF IInv, TypeOK
<1>2. at'[x].pc = "keep" /\ at'[x].c = Head(q[s]) /\ q'[s] = Tail(q[s])
  BY <1>1, Zenon DEF Put, TypeOK
<1>3. Seen(x, s)
  BY <1>1, CallSeen, Zenon DEF TypeOK
<1>4. Head(q[s]) \in Things /\ ~sock[s].kept
  BY <1>1 DEF CallOK
<1>5. InHand(x)' = InHand(x) /\ Waiting(x, s)' = Waiting(x, s)
  BY <1>1, <1>2, <1>4, InFront, Zenon DEF InHand, Waiting
<1> QED
  BY <1>3, <1>5, Zenon DEF Seen, SeenNext, Abstract!svars

\* What it took is kept, and "ready" is said of a queue with something in it.
LEMMA KeepSeen ==
    ASSUME ~Shared, IInv, IInv', NEW x \in Contexts, Keep(x)
    PROVE  SeenNext
<1>1. TypeOK /\ CallOK(x) /\ at[x].pc = "keep" /\ at[x] \in CallRecord
  BY Zenon DEF IInv, TypeOK, Keep
<1>2. PICK s \in Slots, b \in Things : s = at[x].s /\ b = at[x].c
  BY <1>1, Zenon DEF CallOK, CallRecord
<1>3. /\ sock'[s].kept /\ sock'[s].pend = b /\ q[s] \in Seq(Things)
      /\ sock'[s].state = sock[s].state /\ sock'[s].conn = sock[s].conn
      /\ \A r \in Slots \ {s} : sock'[r] = sock[r]
  BY <1>1, <1>2 DEF Keep, TypeOK, SlotRecord
<1>4. UNCHANGED q /\ at' = [at EXCEPT ![x] = Idle] /\ got' = <<"ready">>
  BY Zenon DEF Keep, Done
<1>5. Seen(x, s) /\ at'[x].pc = "idle"
  <2>1. Seen(x, s)
    BY <1>2, <1>3, <1>4, CallSeen, Zenon
  <2>2. at'[x].pc = "idle"
    BY <1>1, <1>4, DoneFields, Zenon
  <2> QED
    BY <2>1, <2>2
<1>6. /\ InHand(x)' = InHand(x) /\ Waiting(x, s)' = Waiting(x, s)
      /\ Waiting(x, s) = <<b>> \o q[s]
  BY <1>1, <1>2, <1>3, <1>4, <1>5, Zenon DEF InHand, Waiting
<1>7. Abstract!Answer(s)
  BY <1>3, <1>4, <1>5, <1>6, InFront DEF Seen, Abstract!Answer, Abstract!Tell
<1> QED
  BY <1>7, Zenon DEF SeenNext, Abstract!SockNext

\* The environment has connected a stream socket.
LEMMA ConnectedSeen ==
    ASSUME ~Shared, IInv, IInv', NEW x \in Contexts, NEW s \in Slots, at[x].s = s,
           at[x].pc = "connect", made < MaxThings,
           sock' = [sock EXCEPT ![s].state = "CONN", ![s].conn = made + 1],
           at' = [at EXCEPT ![x] = Idle], UNCHANGED <<q, got>>
    PROVE  SeenNext
<1>1. TypeOK /\ CallOK(x) /\ SlotOK(s) /\ made + 1 \in Things
  BY SocketsAssumption DEF IInv, TypeOK, Things
<1>2. /\ sock'[s].state = "CONN" /\ sock'[s].conn = made + 1 /\ sock'[s].kept = sock[s].kept
      /\ \A r \in Slots \ {s} : sock'[r] = sock[r]
  BY <1>1 DEF TypeOK, SlotRecord
<1>3. Seen(x, s) /\ at'[x].pc = "idle"
  <2>1. Seen(x, s)
    BY <1>2, CallSeen, Zenon
  <2>2. at'[x].pc = "idle"
    BY <1>1, DoneFields, Zenon
  <2> QED
    BY <2>1, <2>2
<1>4. sock[s].state = "NEW" /\ ~sock[s].kept
  BY <1>1, Zenon DEF CallOK, SlotOK
<1>5. InHand(x)' = InHand(x) /\ Waiting(x, s)' = Waiting(x, s)
  BY <1>2, <1>3, <1>4, Zenon DEF InHand, Waiting
<1>6. Abstract!Become(s)
  BY <1>1, <1>2, <1>3, <1>4, <1>5, Zenon DEF Seen, Abstract!Become, Abstract!Turn
<1> QED
  BY <1>6, Zenon DEF SeenNext, Abstract!SockNext

\* A slot that was free, made by socket or by accept.
LEMMA FreshSeen ==
    ASSUME IInv, IInv', NEW x \in Contexts, NEW fresh \in SlotRecord, ~fresh.kept,
           NewSocket(fresh), at[x].pc \in {"idle", "adopt"},
           at' = at \/ at' = [at EXCEPT ![x] = Idle], UNCHANGED q
    PROVE  \E r \in Slots : /\ Role[r] = "FREE" /\ Queue' = Queue
                            /\ Role' = [Role EXCEPT ![r] = fresh.state]
                            /\ Conn' = [Conn EXCEPT ![r] = fresh.conn]
                            /\ Hand' = [Hand EXCEPT ![x] = InHand(x)'] /\ Hand[x] = InHand(x)
                            /\ InHand(x)' = InHand(x) => Hand' = Hand
<1>1. TypeOK
  BY Zenon DEF IInv
<1>2. PICK f \in Fds, r \in Slots :
          /\ fds[f] = None /\ sock[r].state = "FREE"
          /\ fds' = [fds EXCEPT ![f] = r] /\ sock' = [sock EXCEPT ![r] = fresh]
  BY <1>1, NewSocketFree, Zenon
<1>3. /\ sock'[r] = fresh
      /\ \A u \in Slots \ {r} : sock'[u] = sock[u] /\ q'[u] = q[u]
  BY <1>1, <1>2, Zenon DEF TypeOK
<1>4. (\A y \in Contexts : at[y].s # r) /\ ~sock[r].kept
  BY <1>2, FreeIsUnused, Zenon
<1>5. /\ \A y \in Contexts \ {x} : at'[y] = at[y]
      /\ at'[x].pc \in {"idle", "adopt"}
  BY <1>1, DoneFields, Zenon DEF TypeOK
<1>6. Seen(x, r)
  BY <1>3, <1>4, <1>5, StepSeen DEF OneStep
<1>7. Waiting(x, r)' = Waiting(x, r)
  BY <1>3, <1>4, <1>5, Zenon DEF Waiting
<1>8. /\ Role[r] = "FREE" /\ Queue' = Queue
      /\ Role' = [Role EXCEPT ![r] = fresh.state] /\ Conn' = [Conn EXCEPT ![r] = fresh.conn]
      /\ Hand' = [Hand EXCEPT ![x] = InHand(x)'] /\ Hand[x] = InHand(x)
      /\ InHand(x)' = InHand(x) => Hand' = Hand
  BY <1>2, <1>3, <1>6, <1>7, Zenon DEF Seen
<1> QED
  BY <1>8, Zenon

\* socket makes one.
LEMMA SocketSeen ==
    ASSUME IInv, IInv', NEW x \in Contexts, Socket(x)
    PROVE  SeenNext
<1>1. PICK t \in {"stream", "dgram"} : NewSocket([FreeSlot EXCEPT !.state = "NEW", !.type = t])
  BY Zenon DEF Socket
<1>2. PICK fresh : fresh = [FreeSlot EXCEPT !.state = "NEW", !.type = t]
  OBVIOUS
<1>3. fresh.state = "NEW" /\ fresh.conn = None /\ ~fresh.kept /\ fresh \in SlotRecord
  BY <1>2, Zenon DEF FreeSlot, SlotRecord
<1>4. UNCHANGED <<q, at, got>> /\ at[x].pc = "idle" /\ InHand(x)' = InHand(x)
  BY IdleFields, Zenon DEF Socket, InHand
<1>a. NewSocket(fresh)
  BY <1>1, <1>2, Zenon
<1>5. PICK r \in Slots : /\ Role[r] = "FREE" /\ Queue' = Queue
                         /\ Role' = [Role EXCEPT ![r] = fresh.state]
                         /\ Conn' = [Conn EXCEPT ![r] = fresh.conn]
                         /\ InHand(x)' = InHand(x) => Hand' = Hand
  BY <1>a, <1>3, <1>4, FreshSeen
<1>6. Abstract!Make(r)
  BY <1>3, <1>4, <1>5, Zenon DEF Abstract!Make, Abstract!Turn
<1> QED
  BY <1>6, Zenon DEF SeenNext, Abstract!SockNext

\* What accept took becomes a socket, or is closed with an error.
LEMMA AdoptSeen ==
    ASSUME ~Shared, IInv, IInv', NEW x \in Contexts, Adopt(x)
    PROVE  SeenNext
<1>1. TypeOK /\ CallOK(x) /\ at[x].pc = "adopt" /\ at[x] \in CallRecord
  BY Zenon DEF IInv, TypeOK, Adopt
<1>2. PICK s \in Slots, b \in Things : s = at[x].s /\ b = at[x].c
  BY <1>1, Zenon DEF CallOK, CallRecord
<1>3. /\ UNCHANGED q /\ at' = [at EXCEPT ![x] = Idle] /\ at'[x].pc = "idle"
      /\ InHand(x) = b /\ InHand(x)' = None /\ b # None
  BY <1>1, <1>2, DoneFields, SocketsAssumption DEF Adopt, Done, InHand, Things
<1>4. CASE /\ NewSocket([FreeSlot EXCEPT !.state = "CONN", !.type = "stream", !.conn = b])
           /\ got' = <<"given", b>>
  <2>1. PICK fresh : fresh = [FreeSlot EXCEPT !.state = "CONN", !.type = "stream", !.conn = b]
    OBVIOUS
  <2>2. fresh.state = "CONN" /\ fresh.conn = b /\ ~fresh.kept /\ fresh \in SlotRecord
    BY <2>1, Zenon DEF FreeSlot, SlotRecord
  <2>a. NewSocket(fresh)
    BY <1>4, <2>1
  <2>3. PICK r \in Slots : /\ Role[r] = "FREE" /\ Queue' = Queue
                           /\ Role' = [Role EXCEPT ![r] = fresh.state]
                           /\ Conn' = [Conn EXCEPT ![r] = fresh.conn]
                           /\ Hand' = [Hand EXCEPT ![x] = InHand(x)'] /\ Hand[x] = InHand(x)
    BY <1>1, <1>3, <2>a, <2>2, FreshSeen, Zenon
  <2>4. Abstract!Settle(x, r)
    BY <1>3, <1>4, <2>2, <2>3, Zenon DEF Abstract!Settle, Abstract!Tell
  <2> QED
    BY <2>4 DEF SeenNext, Abstract!SockNext
<1>5. CASE got' = <<"error">> /\ UNCHANGED sock
  <2>1. Seen(x, s)
    BY <1>2, <1>3, <1>5, CallSeen, Zenon
  <2>2. Waiting(x, s)' = Waiting(x, s)
    BY <1>1, <1>3, <1>5, Zenon DEF Waiting
  <2>3. Abstract!Settle(x, s)
    BY <1>3, <1>5, <2>1, <2>2, Zenon DEF Seen, Abstract!Settle, Abstract!Tell
  <2> QED
    BY <2>3, Zenon DEF SeenNext, Abstract!SockNext
<1> QED
  BY <1>2, <1>4, <1>5, Zenon DEF Adopt, Done

\* close: nothing is seen of it but of the last descriptor.
LEMMA CloseSeen ==
    ASSUME ~Shared, IInv, IInv', NEW x \in Contexts, NEW f \in Fds, Close(x, f)
    PROVE  SeenNext
<1>1. TypeOK /\ fds[f] \in Slots /\ On(x, fds[f]) /\ UNCHANGED <<at, got>>
  BY Zenon DEF IInv, TypeOK, Close
<1>2. PICK s \in Slots : s = fds[f]
  BY <1>1, Zenon
<1>3. at[x].pc = "idle" /\ InHand(x)' = InHand(x)
  BY <1>1, IdleFields, Zenon DEF On, InHand
<1>4. CASE UNCHANGED <<sock, q>>
  <2>1. UNCHANGED <<Role, Queue, Conn, Hand>>
    BY <1>1, <1>4 DEF Role, Queue, Conn, Hand, Aside
  <2> QED
    BY <1>1, <2>1 DEF SeenNext, Abstract!svars
<1>5. CASE Release(s)
  <2>1. /\ sock'[s] = FreeSlot /\ q'[s] = <<>>
        /\ \A r \in Slots \ {s} : sock'[r] = sock[r] /\ q'[r] = q[r]
    BY <1>1, <1>5, Zenon DEF Release, TypeOK
  <2>2. Seen(x, s)
    BY <1>1, <1>2, <2>1, CallSeen, Zenon
  <2>3. sock'[s].state = "FREE" /\ sock'[s].conn = None /\ ~sock'[s].kept
    BY <2>1 DEF FreeSlot
  <2>4. Waiting(x, s)' = <<>>
    BY <1>1, <1>3, <2>1, <2>3, Zenon DEF Waiting
  <2>5. sock[s].state # "FREE"
    BY <1>2, Zenon DEF IInv, SlotOK
  <2>6. Abstract!Close(s)
    BY <1>1, <1>3, <2>2, <2>3, <2>4, <2>5, Zenon DEF Seen, Abstract!Close
  <2> QED
    BY <2>6, Zenon DEF SeenNext, Abstract!SockNext
<1> QED
  BY <1>2, <1>4, <1>5, Zenon DEF Close

\* Somebody connects, or sends: it comes last.
LEMMA ArriveSeen ==
    ASSUME IInv, NEW s \in Slots, Arrive(s)
    PROVE  SeenNext
<1>1. PICK b : b = made + 1
  OBVIOUS
<1>2. /\ TypeOK /\ b \in Things /\ UNCHANGED <<sock, at, got>>
      /\ q' = [q EXCEPT ![s] = Append(@, b)] /\ Role[s] \in {"LISTEN", "DGRAM"}
      /\ q[s] \in Seq(Things) /\ SlotOK(s) /\ sock[s] \in SlotRecord
  BY <1>1, SocketsAssumption DEF IInv, TypeOK, Arrive, Things, Role
<1>3. UNCHANGED <<Role, Conn, Hand>>
  BY <1>2, Zenon DEF Role, Conn, Hand
<1>4. Queue' = [Queue EXCEPT ![s] = Append(Queue[s], b)]
  <2>1. PICK y : y = SetToSeq1(Aside(s)) \o (IF sock[s].kept THEN <<sock[s].pend>> ELSE <<>>)
    OBVIOUS
  <2>2. y \in Seq(Things)
    <3>1. Aside(s) \subseteq Things
      BY DEF IInv, TypeOK, CallRecord, CallOK, Aside
    <3>2. SetToSeq1(Aside(s)) \in Seq(Things)
      <4>1. CASE Aside(s) = {}
        BY <4>1 DEF SetToSeq1
      <4>2. CASE Aside(s) # {}
        <5>1. (CHOOSE c \in Aside(s) : TRUE) \in Things
          BY <3>1, <4>2, Zenon
        <5> QED
          BY <4>2, <5>1 DEF SetToSeq1
      <4> QED
        BY <4>1, <4>2, Zenon
    <3>3. (IF sock[s].kept THEN <<sock[s].pend>> ELSE <<>>) \in Seq(Things)
      BY <1>2 DEF SlotOK, SlotRecord
    <3> QED
      BY <2>1, <3>2, <3>3
  <2>3. Queue[s] = y \o q[s] /\ Queue'[s] = y \o Append(q[s], b)
    BY <1>2, <2>1, Zenon DEF Queue, Aside, TypeOK
  <2>4. Queue'[s] = Append(Queue[s], b)
    BY <1>2, <2>2, <2>3
  <2>5. \A r \in Slots \ {s} : Queue'[r] = Queue[r]
    BY <1>2, Zenon DEF Queue, Aside, TypeOK
  <2>6. /\ Queue = [r \in Slots |-> Queue[r]]
        /\ Queue' = [r \in Slots |-> Queue'[r]]
    BY Zenon DEF Queue
  <2> QED
    BY <2>4, <2>5, <2>6, Zenon
<1>5. Abstract!Come(s, b)
  BY <1>2, <1>3, <1>4, Zenon DEF Abstract!Come
<1> QED
  BY <1>2, <1>5, Zenon DEF SeenNext, Abstract!SockNext

\* Every step of the sockets is one the program expects, or not to be seen.
LEMMA NextSeen ==
    ASSUME ~Shared, IInv, IInv', [Next]_vars
    PROVE  SeenNext
<1>1. CASE \E x \in Contexts : Socket(x) \/ \E f \in Fds : Close(x, f)
  BY <1>1, SocketSeen, CloseSeen, Zenon
<1>2. ASSUME NEW x \in Contexts, Connected(x) \/ TakeKept(x) \/ Ask(x) \/ Enquire(x)
      PROVE  SeenNext
  <2>1. CallOK(x) /\ at[x] \in CallRecord /\ at[x].pc \in {"connect", "take", "ask", "enquire"}
    BY <1>2, Zenon DEF IInv, TypeOK, Connected, TakeKept, Ask, Enquire
  <2>2. PICK s \in Slots : s = at[x].s
    BY <2>1, Zenon DEF CallOK, CallRecord
  <2>3. SlotOK(s) /\ sock[s] \in SlotRecord /\ q[s] \in Seq(Things)
    BY Zenon DEF IInv, TypeOK
  <2>4. CASE Connected(x)
    <3>1. CASE Done(x, <<"error">>) /\ UNCHANGED <<made, open, sock>>
      BY <2>1, <2>2, <2>4, <3>1, AnswerSeen, Zenon DEF Connected, Done
    <3>2. CASE ~(Done(x, <<"error">>) /\ UNCHANGED <<made, open, sock>>)
      BY <2>2, <2>4, <3>2, ConnectedSeen, Zenon DEF Connected
    <3> QED
      BY <3>1, <3>2
  <2>5. CASE TakeKept(x)
    <3>1. /\ at[x].pc = "take" /\ sock[s].kept /\ sock' = [sock EXCEPT ![s].kept = FALSE]
          /\ UNCHANGED q
      BY <2>1, <2>2, <2>5, Zenon DEF TakeKept, CallOK
    <3>2. PICK b \in Things : b = sock[s].pend
      BY <2>3, <3>1, Zenon DEF SlotOK, SlotRecord
    <3>3. \/ sock[s].type = "stream" /\ Put(x, "adopt", s, FALSE, b) /\ UNCHANGED got
          \/ sock[s].type = "dgram" /\ at' = [at EXCEPT ![x] = Idle] /\ got' = <<"given", b>>
      BY <2>1, <2>2, <2>3, <2>5, <3>1, <3>2, Zenon DEF TakeKept, Done, CallOK, SlotOK
    <3> QED
      BY <2>2, <3>1, <3>2, <3>3, TakeSeen, Zenon
  <2>6. CASE Ask(x)
    <3>1. at[x].pc = "ask" /\ ~sock[s].kept /\ UNCHANGED sock
      BY <2>1, <2>2, <2>6, Zenon DEF Ask, CallOK
    <3>2. CASE /\ Given(s)
               /\ IF sock[s].type = "stream"
                  THEN Put(x, "adopt", s, FALSE, Head(q[s])) /\ UNCHANGED got
                  ELSE Done(x, <<"given", Head(q[s])>>)
      <4>1. PICK b \in Things : b = Head(q[s])
        BY <2>3, <3>2 DEF Given
      <4>2. \/ sock[s].type = "stream" /\ Put(x, "adopt", s, FALSE, b) /\ UNCHANGED got
            \/ sock[s].type = "dgram" /\ at' = [at EXCEPT ![x] = Idle] /\ got' = <<"given", b>>
        BY <2>1, <2>2, <2>3, <3>1, <3>2, <4>1, Zenon DEF Done, CallOK, SlotOK
      <4> QED
        BY <2>2, <3>1, <3>2, <4>1, <4>2, TakeSeen, Zenon DEF Given
    <3>3. CASE \/ q[s] = <<>> /\ Done(x, <<"again">>) /\ UNCHANGED q
               \/ Done(x, <<"error">>) /\ UNCHANGED q
      <4>1. /\ UNCHANGED q /\ at' = [at EXCEPT ![x] = Idle]
            /\ got' = <<"error">> \/ (got' = <<"again">> /\ q[s] = <<>>)
        BY <3>3 DEF Done
      <4> QED
        BY <2>1, <2>2, <3>1, <4>1, AnswerSeen, Zenon
    <3> QED
      BY <2>2, <2>6, <3>2, <3>3, Zenon DEF Ask
  <2>7. CASE Enquire(x)
    <3>1. at[x].pc = "enquire" /\ ~sock[s].kept /\ UNCHANGED sock
      BY <2>1, <2>2, <2>7, Zenon DEF Enquire, CallOK
    <3>2. CASE Given(s) /\ Put(x, "keep", s, FALSE, Head(q[s])) /\ UNCHANGED got
      BY <2>2, <3>1, <3>2, EnquireSeen, Zenon DEF Given
    <3>3. CASE ~(Given(s) /\ Put(x, "keep", s, FALSE, Head(q[s])) /\ UNCHANGED got)
      <4>1. /\ UNCHANGED q /\ at' = [at EXCEPT ![x] = Idle]
            /\ got' = <<"error">> \/ (got' = <<"again">> /\ q[s] = <<>>)
        BY <2>2, <2>7, <3>3, Zenon DEF Enquire, Done
      <4> QED
        BY <2>1, <2>2, <3>1, <4>1, AnswerSeen, Zenon
    <3> QED
      BY <3>2, <3>3, Zenon
  <2> QED
    BY <1>2, <2>4, <2>5, <2>6, <2>7, Zenon
<1>3. CASE \E x \in Contexts : Adopt(x) \/ Keep(x)
  BY <1>3, AdoptSeen, KeepSeen, Zenon
<1>4. ASSUME NEW x \in Contexts, NEW s \in Slots, Bind(x, s) \/ Listen(x, s) \/ Send(x, s)
      PROVE  SeenNext
  BY <1>4, TurnSeen, Zenon DEF Bind, Listen, Send, OpenDgram
<1>5. ASSUME NEW x \in Contexts, NEW s \in Slots,
             \/ Dup(x, s) \/ Connect(x, s) \/ Accept(x, s) \/ Recv(x, s) \/ WaitIn(x, s)
      PROVE  SeenNext
  <2>1. CASE Dup(x, s)
    <3>1. UNCHANGED <<Role, Queue, Conn, Hand>>
      BY <2>1 DEF Dup, Role, Queue, Conn, Hand, Aside
    <3> QED
      BY <2>1, <3>1 DEF Dup, SeenNext, Abstract!svars
  <2>2. CASE Connect(x, s)
    <3>1. CASE OpenDgram(s) /\ UNCHANGED at
      BY <2>2, <3>1, TurnSeen, Zenon DEF Connect, OpenDgram
    <3>2. CASE Put(x, "connect", s, FALSE, None) /\ UNCHANGED sock
      BY <2>2, <3>2, BeginSeen, Zenon DEF Connect
    <3> QED
      BY <2>2, <3>1, <3>2, Zenon DEF Connect
  <2>3. CASE Accept(x, s)
    BY <2>3, BeginSeen, Zenon DEF Accept
  <2>4. CASE Recv(x, s)
    <3>1. CASE OpenDgram(s)
      <4>1. ~sock[s].kept
        BY <3>1, Zenon DEF OpenDgram, IInv, SlotOK
      <4> QED
        BY <2>4, <3>1, <4>1, TurnSeen, Zenon DEF Recv, OpenDgram
    <3>2. CASE UNCHANGED sock
      BY <2>4, <3>2, BeginSeen, Zenon DEF Recv
    <3> QED
      BY <2>4, <3>1, <3>2, Zenon DEF Recv
  <2>5. CASE WaitIn(x, s)
    <3>1. CASE sock[s].kept
      <4>1. at[x].pc = "idle"
        BY <2>5, IdleFields, Zenon DEF WaitIn, On
      <4> QED
        BY <2>5, <3>1, <4>1, AnswerSeen, Zenon DEF WaitIn, Done
    <3>2. CASE ~sock[s].kept
      BY <2>5, <3>2, BeginSeen, Zenon DEF WaitIn
    <3> QED
      BY <3>1, <3>2
  <2> QED
    BY <1>5, <2>1, <2>2, <2>3, <2>4, <2>5
<1>6. CASE \E s \in Slots : Arrive(s)
  BY <1>6, ArriveSeen
<1>7. CASE UNCHANGED vars
  <2>1. UNCHANGED <<Role, Queue, Conn, Hand>>
    BY <1>7 DEF vars, Role, Queue, Conn, Hand, Aside
  <2> QED
    BY <1>7, <2>1 DEF vars, SeenNext, Abstract!svars
<1> QED
  BY <1>1, <1>2, <1>3, <1>4, <1>5, <1>6, <1>7, Zenon DEF Next

\* At the start every queue is empty and every slot free.
LEMMA InitSeen == Init => Abstract!SockInit
<1> SUFFICES ASSUME Init PROVE Abstract!SockInit
  OBVIOUS
<1>1. \A s \in Slots : Aside(s) = {}
  BY Zenon DEF Init, Aside, Idle
<1>2. Queue = [s \in Slots |-> <<>>]
  BY <1>1 DEF Init, Queue, SetToSeq1, FreeSlot
<1>3. /\ Role = [s \in Slots |-> "FREE"] /\ Conn = [s \in Slots |-> None]
      /\ Hand = [x \in Contexts |-> None]
  BY Zenon DEF Init, Role, Conn, Hand, FreeSlot, Idle
<1> QED
  BY <1>2, <1>3, Zenon DEF Init, Abstract!SockInit

\* okm_net.c, used by a program that is in one call on a socket at a time, is
\* what SockSpec says of sockets: what an enquiry took is delivered all the
\* same, once and in its turn.
THEOREM SocketsAreQueues == ~Shared => (Spec => ImplementsSockets)
<1> SUFFICES ASSUME ~Shared PROVE Spec => ImplementsSockets
  OBVIOUS
<1>1. IInv /\ [Next]_vars => IInv'
  BY NextIInv
<1>2. IInv /\ IInv' /\ [Next]_vars => [Abstract!SockNext]_(Abstract!svars)
  BY NextSeen DEF SeenNext
<1> QED
  BY <1>1, <1>2, InitIInv, InitSeen, PTL DEF Spec, ImplementsSockets, Abstract!SockSpec

-----------------------------------------------------------------------------
\* How Cardinality counts, for a set whose subsets can be counted at once.
LEMMA CountIs ==
    ASSUME NEW S, NEW f,
           f = [T \in SUBSET S |-> IF T = {} THEN 0 ELSE 1 + f[T \ {CHOOSE x : x \in T}]],
           \A g : g = [T \in SUBSET S |-> IF T = {} THEN 0 ELSE 1 + g[T \ {CHOOSE x : x \in T}]]
                  => g[S] = f[S]
    PROVE  Cardinality(S) = f[S]
BY Zenon DEF Cardinality

\* A set without a member counts 0.
LEMMA CountNone == Cardinality({}) = 0
<1> DEFINE f == [T \in SUBSET {} |-> 0]
<1>1. f = [T \in SUBSET {} |-> IF T = {} THEN 0 ELSE 1 + f[T \ {CHOOSE x : x \in T}]]
  BY Zenon
<1>2. ASSUME NEW g, g = [T \in SUBSET {} |-> IF T = {} THEN 0 ELSE 1 + g[T \ {CHOOSE x : x \in T}]]
      PROVE  g[{}] = f[{}]
  BY <1>2, Zenon
<1>3. f[{}] = 0
  BY Zenon
<1> HIDE DEF f
<1> QED
  BY <1>1, <1>2, <1>3, CountIs, Zenon

\* A set with one member counts 1.
LEMMA CountOne == ASSUME NEW h PROVE Cardinality({h}) = 1
<1> DEFINE f == [T \in SUBSET {h} |-> IF T = {} THEN 0 ELSE 1]
<1>0. ASSUME NEW T \in SUBSET {h}, T # {} PROVE T = {h} /\ T \ {CHOOSE x : x \in T} = {}
  <2>1. T = {h}
    BY <1>0, Zenon
  <2>2. (CHOOSE x : x \in T) = h
    BY <2>1, Zenon
  <2> QED
    BY <2>1, <2>2, Zenon
<1>1. f = [T \in SUBSET {h} |-> IF T = {} THEN 0 ELSE 1 + f[T \ {CHOOSE x : x \in T}]]
  <2>1. ASSUME NEW T \in SUBSET {h}
        PROVE  f[T] = IF T = {} THEN 0 ELSE 1 + f[T \ {CHOOSE x : x \in T}]
    <3>1. f[{}] = 0
      BY Zenon
    <3>2. CASE T = {}
      BY <3>1, <3>2, Zenon
    <3>3. CASE T # {}
      <4>1. f[T] = 1
        BY <3>3, Zenon
      <4>2. T \ {CHOOSE x : x \in T} = {}
        BY <1>0, <3>3, Zenon
      <4> HIDE DEF f
      <4> QED
        BY <4>1, <4>2, <3>1, <3>3
    <3> QED
      BY <3>2, <3>3, Zenon
  <2> QED
    BY <2>1, Zenon
<1>2. ASSUME NEW g, g = [T \in SUBSET {h} |-> IF T = {} THEN 0 ELSE 1 + g[T \ {CHOOSE x : x \in T}]]
      PROVE  g[{h}] = f[{h}]
  <2>1. g[{}] = 0
    BY <1>2, Zenon
  <2>2. {h} # {} /\ {h} \ {CHOOSE x : x \in {h}} = {}
    BY <1>0, Zenon
  <2>3. g[{h}] = 1 + g[{h} \ {CHOOSE x : x \in {h}}]
    BY <1>2, <2>2, Zenon
  <2>4. f[{h}] = 1
    BY <2>2, Zenon
  <2>5. g[{h}] = 1 + g[{}]
    BY <2>2, <2>3, Zenon
  <2> HIDE DEF f
  <2> QED
    BY <2>1, <2>4, <2>5
<1>3. f[{h}] = 1
  BY Zenon
<1> HIDE DEF f
<1> QED
  BY <1>1, <1>2, <1>3, CountIs, Zenon
\* No connection is lost, and none is closed twice.
LEMMA IInvOneHolder == IInv => OneHolder
<1> SUFFICES ASSUME IInv, NEW c \in Things
             PROVE  Cardinality(Holders(c)) = IF c \in open THEN 1 ELSE 0
  BY Zenon DEF OneHolder
<1>1. HeldOnce(c)
  BY DEF IInv
<1>2. \A h : h \in Holders(c) <=> \/ \E s \in Slots : HasConn(s, c) /\ h = <<"conn", s>>
                                  \/ \E s \in Slots : HasPend(s, c) /\ h = <<"pend", s>>
                                  \/ \E x \in Contexts : HasCall(x, c) /\ h = <<"call", x>>
  BY Zenon DEF Holders
<1>3. CASE c \notin open
  <2>1. Holders(c) = {}
    BY <1>1, <1>2, <1>3, Zenon DEF HeldOnce
  <2> QED
    BY <1>3, <2>1, CountNone, Zenon
<1>4. CASE c \in open
  <2>1. PICK h : h \in Holders(c)
    BY <1>1, <1>2, <1>4, Zenon DEF HeldOnce
  <2>2. ASSUME NEW g \in Holders(c) PROVE g = h
    BY <1>1, <1>2, <2>1, <2>2 DEF HeldOnce
  <2>3. Holders(c) = {h}
    BY <2>1, <2>2, Zenon
  <2> QED
    BY <1>4, <2>3, CountOne, Zenon
<1> QED
  BY <1>3, <1>4

\* okm_net.c, used by a program that is in one call on a socket at a time:
\* every connection the environment has given has one place that will close it.
THEOREM OneHolderAlways == ~Shared => (Spec => []OneHolder)
<1> SUFFICES ASSUME ~Shared PROVE Spec => []OneHolder
  OBVIOUS
<1>1. IInv /\ [Next]_vars => IInv'
  BY NextIInv, Zenon
<1> QED
  BY <1>1, InitIInv, IInvOneHolder, PTL DEF Spec
=============================================================================
