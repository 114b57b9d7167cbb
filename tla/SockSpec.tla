------------------------------ MODULE SockSpec ------------------------------
(***************************************************************************)
(* What a program may believe of its sockets: each has a role, what comes  *)
(* to it queues up, and accept and receive take from the front.  Nothing   *)
(* that merely asks whether something came is to be seen here.             *)
(***************************************************************************)
EXTENDS Sequences

CONSTANTS Contexts, Slots, Things, None

VARIABLES
    role,       \* what each socket has become
    queue,      \* what has come to it and was not taken
    conn,       \* the connection of a connected one
    hand,       \* the connection an accept has in its hand
    answer      \* what the last call to end was told

svars == <<role, queue, conn, hand, answer>>

SockInit ==
    /\ role = [s \in Slots |-> "FREE"]
    /\ queue = [s \in Slots |-> <<>>]
    /\ conn = [s \in Slots |-> None]
    /\ hand = [x \in Contexts |-> None]
    /\ answer = <<>>

Tell(a) == answer' = a

Turn(s, r, t) ==
    /\ role' = [role EXCEPT ![s] = r]
    /\ conn' = [conn EXCEPT ![s] = t]
    /\ UNCHANGED <<queue, answer>>

Make(s) == role[s] = "FREE" /\ Turn(s, "NEW", None) /\ UNCHANGED hand

Become(s) ==
    /\ role[s] = "NEW"
    /\ \/ Turn(s, "LISTEN", None) \/ Turn(s, "DGRAM", None)
       \/ \E t \in Things : Turn(s, "CONN", t)
    /\ UNCHANGED hand

Come(s, t) ==
    /\ role[s] \in {"LISTEN", "DGRAM"}
    /\ queue' = [queue EXCEPT ![s] = Append(@, t)]
    /\ UNCHANGED <<role, conn, hand, answer>>

\* The oldest leaves the queue: into an accept's hand, or to a receiver.
Take(x, s) ==
    /\ queue[s] # <<>>
    /\ queue' = [queue EXCEPT ![s] = Tail(@)]
    /\ \/ role[s] = "LISTEN" /\ hand' = [hand EXCEPT ![x] = Head(queue[s])] /\ UNCHANGED answer
       \/ role[s] = "DGRAM" /\ Tell(<<"given", Head(queue[s])>>) /\ UNCHANGED hand
    /\ UNCHANGED <<role, conn>>

\* What an accept took becomes a socket, or is lost with an error.
Settle(x, s) ==
    /\ hand[x] # None
    /\ hand' = [hand EXCEPT ![x] = None]
    /\ \/ /\ role[s] = "FREE"
          /\ role' = [role EXCEPT ![s] = "CONN"]
          /\ conn' = [conn EXCEPT ![s] = hand[x]]
          /\ Tell(<<"given", hand[x]>>)
       \/ Tell(<<"error">>) /\ UNCHANGED <<role, conn>>
    /\ UNCHANGED queue

\* "ready" only of a queue with something in it, "again" only of an empty one.
Answer(s) ==
    /\ \/ queue[s] # <<>> /\ Tell(<<"ready">>)
       \/ queue[s] = <<>> /\ Tell(<<"again">>)
       \/ Tell(<<"error">>)
    /\ UNCHANGED <<role, queue, conn, hand>>

Close(s) ==
    /\ role[s] # "FREE"
    /\ role' = [role EXCEPT ![s] = "FREE"]
    /\ conn' = [conn EXCEPT ![s] = None]
    /\ queue' = [queue EXCEPT ![s] = <<>>]
    /\ UNCHANGED <<hand, answer>>

SockNext ==
    \E s \in Slots :
        \/ Make(s) \/ Become(s) \/ Answer(s) \/ Close(s)
        \/ \E t \in Things : Come(s, t)
        \/ \E x \in Contexts : Take(x, s) \/ Settle(x, s)

SockSpec == SockInit /\ [][SockNext]_svars
=============================================================================
