------------------------------ MODULE Sockets -------------------------------
(***************************************************************************)
(* Sockets over an environment that has none (port/src/okm_net.c): a slot  *)
(* decides late what it is, and a readiness enquiry takes what came and    *)
(* keeps it for the accept or the receive that follows.                    *)
(*                                                                         *)
(* Things are connections and messages, numbered as they appear.  Whether  *)
(* a call may wait is chosen with the call: O_NONBLOCK, SO_RCVTIMEO and    *)
(* MSG_DONTWAIT all decide it and all may change in between.  Addresses,   *)
(* bound and default ones, and the bytes of a connection are left out;     *)
(* Readiness has the bytes.                                                *)
(***************************************************************************)
EXTENDS Integers, Sequences, FiniteSets

CONSTANTS
    Contexts, Fds, Slots,
    MaxThings,      \* bound: how many connections and messages appear
    Shared,         \* whether two contexts may be in calls on one socket
    None

ASSUME SocketsAssumption ==
    /\ Fds \subseteq Nat /\ Slots \subseteq Nat /\ MaxThings \in Nat
    /\ None \notin Nat

Things == 1..MaxThings

VARIABLES
    fds,            \* the slot each descriptor refers to, or None
    sock,           \* g_sock
    q,              \* what waits in the environment for each slot's object
    open,           \* the connections the environment has given and not closed
    made,           \* how many things have appeared
    at,             \* where each context is
    got             \* what the last call to end was told

vars == <<fds, sock, q, open, made, at, got>>

FreeSlot == [state |-> "FREE", type |-> None, conn |-> None,
             kept |-> FALSE, pend |-> None]
Idle == [pc |-> "idle", s |-> None, wait |-> FALSE, c |-> None]

Init ==
    /\ fds = [f \in Fds |-> None]
    /\ sock = [s \in Slots |-> FreeSlot]
    /\ q = [s \in Slots |-> <<>>]
    /\ open = {} /\ made = 0
    /\ at = [x \in Contexts |-> Idle]
    /\ got = <<>>

FreeFds == {f \in Fds : fds[f] = None}
FreeSlots == {s \in Slots : sock[s].state = "FREE"}
Lowest(S) == {n \in S : \A m \in S : n <= m}

\* A context begins a call on the socket of a descriptor.
On(x, s) ==
    /\ at[x] = Idle
    /\ \E f \in Fds : fds[f] = s
    /\ Shared \/ \A y \in Contexts : at[y].s # s

Put(x, pc, s, wait, c) == at' = [at EXCEPT ![x] = [pc |-> pc, s |-> s, wait |-> wait, c |-> c]]
Done(x, a) == at' = [at EXCEPT ![x] = Idle] /\ got' = a

-----------------------------------------------------------------------------
\* slot_alloc and okm_fd_bind, under the lock.
NewSocket(fresh) ==
    \E f \in Lowest(FreeFds), s \in Lowest(FreeSlots) :
        /\ fds' = [fds EXCEPT ![f] = s]
        /\ sock' = [sock EXCEPT ![s] = fresh]

Socket(x) ==
    /\ at[x] = Idle
    /\ \E t \in {"stream", "dgram"} : NewSocket([FreeSlot EXCEPT !.state = "NEW", !.type = t])
    /\ UNCHANGED <<q, open, made, at, got>>

\* okm_dup: a further descriptor for the same slot.
Dup(x, s) ==
    /\ On(x, s)
    /\ \E f \in Lowest(FreeFds) : fds' = [fds EXCEPT ![f] = s]
    /\ UNCHANGED <<sock, q, open, made, at, got>>

\* Variant: what an enquiry kept is forgotten with the slot.
ReleaseForgets(s) ==
    /\ open' = open \ (IF sock[s].state = "CONN" THEN {sock[s].conn} ELSE {})
    /\ sock' = [sock EXCEPT ![s] = FreeSlot]
    /\ q' = [q EXCEPT ![s] = <<>>]

\* okm_sock_release, when the last descriptor goes.
Release(s) ==
    /\ open' = open \ ((IF sock[s].state = "CONN" THEN {sock[s].conn} ELSE {}) \cup
                       (IF sock[s].kept /\ sock[s].type = "stream" THEN {sock[s].pend} ELSE {}))
    /\ sock' = [sock EXCEPT ![s] = FreeSlot]
    /\ q' = [q EXCEPT ![s] = <<>>]

Close(x, f) ==
    /\ fds[f] # None /\ On(x, fds[f])
    /\ fds' = [fds EXCEPT ![f] = None]
    /\ IF \E g \in Fds \ {f} : fds[g] = fds[f] THEN UNCHANGED <<sock, q, open>> ELSE Release(fds[f])
    /\ UNCHANGED <<made, at, got>>

-----------------------------------------------------------------------------
\* kal_datagram_open, by whichever call comes first; refused, nothing changes.
OpenDgram(s) ==
    /\ sock[s].type = "dgram"
    /\ sock[s].state = "NEW"
    /\ sock' = [sock EXCEPT ![s].state = "DGRAM"]

Bind(x, s) ==
    /\ On(x, s) /\ OpenDgram(s)
    /\ UNCHANGED <<fds, q, open, made, at, got>>

Listen(x, s) ==
    /\ On(x, s) /\ sock[s].type = "stream" /\ sock[s].state = "NEW"
    /\ sock' = [sock EXCEPT ![s].state = "LISTEN"]
    /\ UNCHANGED <<fds, q, open, made, at, got>>

Connect(x, s) ==
    /\ On(x, s)
    /\ \/ OpenDgram(s) /\ UNCHANGED at
       \/ /\ sock[s].type = "stream" /\ sock[s].state = "NEW"
          /\ Put(x, "connect", s, FALSE, None)
          /\ UNCHANGED sock
    /\ UNCHANGED <<fds, q, open, made, got>>

Connected(x) ==
    LET s == at[x].s
    IN  /\ at[x].pc = "connect"
        /\ \/ /\ made < MaxThings
              /\ made' = made + 1
              /\ open' = open \cup {made + 1}
              /\ sock' = [sock EXCEPT ![s].state = "CONN", ![s].conn = made + 1]
              /\ at' = [at EXCEPT ![x] = Idle] /\ UNCHANGED got
           \/ Done(x, <<"error">>) /\ UNCHANGED <<made, open, sock>>
        /\ UNCHANGED <<fds, q>>

Send(x, s) ==
    /\ On(x, s) /\ OpenDgram(s)
    /\ UNCHANGED <<fds, q, open, made, at, got>>

-----------------------------------------------------------------------------
\* okm_sock_accept and the receive of a message: what was kept comes first.
Accept(x, s) ==
    /\ On(x, s) /\ sock[s].state = "LISTEN"
    /\ IF sock[s].kept THEN Put(x, "take", s, FALSE, None)
       ELSE \E w \in BOOLEAN : Put(x, "ask", s, w, None)
    /\ UNCHANGED <<fds, sock, q, open, made, got>>

Recv(x, s) ==
    /\ On(x, s)
    /\ \/ sock[s].state = "DGRAM" /\ UNCHANGED sock
       \/ OpenDgram(s)
    /\ IF sock[s].kept THEN Put(x, "take", s, FALSE, None)
       ELSE \E w \in BOOLEAN : Put(x, "ask", s, w, None)
    /\ UNCHANGED <<fds, q, open, made, got>>

TakeKept(x) ==
    LET s == at[x].s
    IN  /\ at[x].pc = "take"
        /\ sock' = [sock EXCEPT ![s].kept = FALSE]
        /\ IF sock[s].type = "stream"
           THEN Put(x, "adopt", s, FALSE, sock[s].pend) /\ UNCHANGED got
           ELSE Done(x, <<"given", sock[s].pend>>)
        /\ UNCHANGED <<fds, q, open, made>>

\* The environment gives the oldest; a connection is open from then on.
Given(s) ==
    /\ q[s] # <<>>
    /\ q' = [q EXCEPT ![s] = Tail(@)]
    /\ open' = IF sock[s].type = "stream" THEN open \cup {Head(q[s])} ELSE open

Ask(x) ==
    LET s == at[x].s
    IN  /\ at[x].pc = "ask"
        /\ \/ /\ Given(s)
              /\ IF sock[s].type = "stream"
                 THEN Put(x, "adopt", s, FALSE, Head(q[s])) /\ UNCHANGED got
                 ELSE Done(x, <<"given", Head(q[s])>>)
           \/ /\ q[s] = <<>> /\ ~at[x].wait
              /\ Done(x, <<"again">>)
              /\ UNCHANGED <<q, open>>
           \/ Done(x, <<"error">>) /\ UNCHANGED <<q, open>>
        /\ UNCHANGED <<fds, sock, made>>

Adopt(x) ==
    /\ at[x].pc = "adopt"
    /\ \/ /\ NewSocket([FreeSlot EXCEPT !.state = "CONN", !.type = "stream", !.conn = at[x].c])
          /\ Done(x, <<"given", at[x].c>>)
          /\ UNCHANGED open
       \/ /\ FreeFds = {} \/ FreeSlots = {}
          /\ open' = open \ {at[x].c}
          /\ Done(x, <<"error">>)
          /\ UNCHANGED <<fds, sock>>
    /\ UNCHANGED <<q, made>>

-----------------------------------------------------------------------------
\* Variant: what an earlier enquiry kept is not looked at.
WaitInAlways(x, s) ==
    /\ On(x, s) /\ sock[s].state \in {"LISTEN", "DGRAM"}
    /\ Put(x, "enquire", s, FALSE, None) /\ UNCHANGED got
    /\ UNCHANGED <<fds, sock, q, open, made>>

\* okm_sock_wait_in, of a listener or a datagram endpoint.
WaitIn(x, s) ==
    /\ On(x, s) /\ sock[s].state \in {"LISTEN", "DGRAM"}
    /\ IF sock[s].kept THEN Done(x, <<"ready">>) ELSE Put(x, "enquire", s, FALSE, None) /\ UNCHANGED got
    /\ UNCHANGED <<fds, sock, q, open, made>>

Enquire(x) ==
    LET s == at[x].s
    IN  /\ at[x].pc = "enquire"
        /\ \/ Given(s) /\ Put(x, "keep", s, FALSE, Head(q[s])) /\ UNCHANGED got
           \/ q[s] = <<>> /\ Done(x, <<"again">>) /\ UNCHANGED <<q, open>>
           \/ Done(x, <<"error">>) /\ UNCHANGED <<q, open>>
        /\ UNCHANGED <<fds, sock, made>>

Keep(x) ==
    /\ at[x].pc = "keep"
    /\ sock' = [sock EXCEPT ![at[x].s].kept = TRUE, ![at[x].s].pend = at[x].c]
    /\ Done(x, <<"ready">>)
    /\ UNCHANGED <<fds, q, open, made>>

-----------------------------------------------------------------------------
\* Somebody connects, or sends.
Arrive(s) ==
    /\ sock[s].state \in {"LISTEN", "DGRAM"}
    /\ made < MaxThings
    /\ made' = made + 1
    /\ q' = [q EXCEPT ![s] = Append(@, made + 1)]
    /\ UNCHANGED <<fds, sock, open, at, got>>

Next ==
    \/ \E x \in Contexts :
           \/ Socket(x) \/ \E f \in Fds : Close(x, f)
           \/ Connected(x) \/ TakeKept(x) \/ Ask(x) \/ Adopt(x) \/ Enquire(x) \/ Keep(x)
           \/ \E s \in Slots : \/ Dup(x, s) \/ Bind(x, s) \/ Listen(x, s) \/ Connect(x, s)
                               \/ Send(x, s) \/ Accept(x, s) \/ Recv(x, s) \/ WaitIn(x, s)
    \/ \E s \in Slots : Arrive(s)

Spec == Init /\ [][Next]_vars

-----------------------------------------------------------------------------
HasConn(s, c) == sock[s].state = "CONN" /\ sock[s].conn = c
HasPend(s, c) == sock[s].kept /\ sock[s].type = "stream" /\ sock[s].pend = c
HasCall(x, c) == at[x].pc \in {"adopt", "keep"} /\ sock[at[x].s].type = "stream" /\ at[x].c = c

Holders(c) ==
    {<<"conn", s>> : s \in {s \in Slots : HasConn(s, c)}} \cup
    {<<"pend", s>> : s \in {s \in Slots : HasPend(s, c)}} \cup
    {<<"call", x>> : x \in {x \in Contexts : HasCall(x, c)}}

\* Every connection the environment has given has exactly one place that will
\* close it - a connected slot, a listener's kept one, a call on its way - and
\* no place holds one that was closed.
OneHolder == \A c \in Things : Cardinality(Holders(c)) = IF c \in open THEN 1 ELSE 0

\* What the program sees: an enquiry's call and the slot keep the oldest.
Aside(s) == {at[x].c : x \in {x \in Contexts : at[x].pc = "keep" /\ at[x].s = s}}
SetToSeq1(S) == IF S = {} THEN <<>> ELSE <<CHOOSE c \in S : TRUE>>

Role == [s \in Slots |-> sock[s].state]
Queue == [s \in Slots |-> SetToSeq1(Aside(s)) \o
                          (IF sock[s].kept THEN <<sock[s].pend>> ELSE <<>>) \o q[s]]
Conn == [s \in Slots |-> sock[s].conn]
Hand == [x \in Contexts |-> IF at[x].pc = "adopt" THEN at[x].c ELSE None]

Abstract == INSTANCE SockSpec WITH
    role <- Role, queue <- Queue, conn <- Conn, hand <- Hand, answer <- got

\* A program that uses one socket in one call at a time sees queues: accept and
\* receive deliver what came, once and in order, whatever was asked between;
\* "ready" stays true until something is taken, and "again" is never said while
\* something kept or queued is there.
ImplementsSockets == Abstract!SockSpec

-----------------------------------------------------------------------------
SlotRecord == [state : {"FREE", "NEW", "LISTEN", "DGRAM", "CONN"},
               type : {"stream", "dgram", None},
               conn : Things \cup {None},
               kept : BOOLEAN,
               pend : Things \cup {None}]

CallRecord == [pc : {"idle", "connect", "take", "ask", "adopt", "enquire", "keep"},
               s : Slots \cup {None},
               wait : BOOLEAN,
               c : Things \cup {None}]

TypeOK ==
    /\ fds \in [Fds -> Slots \cup {None}]
    /\ sock \in [Slots -> SlotRecord]
    /\ q \in [Slots -> Seq(Things)]
    /\ open \subseteq Things /\ made \in 0..MaxThings
    /\ at \in [Contexts -> CallRecord]

\* What a slot is says what it may hold: nothing that is free is named by a
\* descriptor, only what listens or receives keeps or is sent something.
SlotOK(s) ==
    /\ sock[s].state = "FREE" => sock[s] = FreeSlot /\ \A f \in Fds : fds[f] # s
    /\ sock[s].state \in {"LISTEN", "CONN"} => sock[s].type = "stream"
    /\ sock[s].state = "DGRAM" => sock[s].type = "dgram"
    /\ sock[s].state = "CONN" <=> sock[s].conn # None
    /\ sock[s].state \notin {"LISTEN", "DGRAM"} => ~sock[s].kept /\ q[s] = <<>>
    /\ sock[s].kept => sock[s].pend # None

\* A call finds the slot as it left it.
CallOK(x) ==
    LET c == at[x]
    IN  /\ c.pc = "idle" => c = Idle
        /\ c.pc # "idle" => c.s # None /\ sock[c.s].state # "FREE"
        /\ c.pc = "connect" => sock[c.s].state = "NEW" /\ sock[c.s].type = "stream"
        /\ c.pc \notin {"idle", "connect"} => sock[c.s].state \in {"LISTEN", "DGRAM"}
        /\ c.pc = "take" => sock[c.s].kept
        /\ c.pc \in {"ask", "enquire", "keep"} => ~sock[c.s].kept
        /\ c.pc = "adopt" => sock[c.s].state = "LISTEN"
        /\ c.pc \in {"adopt", "keep"} <=> c.c # None

\* No two calls are on one slot, as a program does that is not Shared.
OneCall == \A x, y \in Contexts : at[x].s = at[y].s /\ at[x].s # None => x = y

\* A number is given once: it waits in one place, and is not open before it
\* is taken from there.
Numbered ==
    /\ open \subseteq 1..made
    /\ \A s \in Slots : \A i \in DOMAIN q[s] : q[s][i] \in 1..made \ open
    /\ \A s, r \in Slots : \A i \in DOMAIN q[s], j \in DOMAIN q[r] :
           q[s][i] = q[r][j] => s = r /\ i = j

\* OneHolder, without counting.
HeldOnce(c) ==
    /\ c \in open <=> \/ \E s \in Slots : HasConn(s, c) \/ HasPend(s, c)
                     \/ \E x \in Contexts : HasCall(x, c)
    /\ \A s, r \in Slots : HasConn(s, c) /\ HasConn(r, c) => s = r
    /\ \A s, r \in Slots : HasPend(s, c) /\ HasPend(r, c) => s = r
    /\ \A x, y \in Contexts : HasCall(x, c) /\ HasCall(y, c) => x = y
    /\ \A s, r \in Slots : ~(HasConn(s, c) /\ HasPend(r, c))
    /\ \A s \in Slots, x \in Contexts : ~(HasCall(x, c) /\ (HasConn(s, c) \/ HasPend(s, c)))

IInv ==
    /\ TypeOK
    /\ \A s \in Slots : SlotOK(s)
    /\ \A x \in Contexts : CallOK(x)
    /\ \A c \in Things : HeldOnce(c)
    /\ OneCall /\ Numbered
=============================================================================
