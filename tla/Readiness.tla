----------------------------- MODULE Readiness -----------------------------
(***************************************************************************)
(* poll, and the reads it promises will not wait (port/src/okm_poll.c,     *)
(* do_read_stream in okm_syscall.c, okm_sock_wait_in, okm_sock_accept and  *)
(* okm_sock_recv in okm_net.c).  The environment cannot be asked whether a *)
(* read would wait, so an enquiry performs the read under a bound, keeps   *)
(* the one item it produced (a byte, a connection, a message) or the end   *)
(* of input, and the read that follows delivers it.  No lock guards what   *)
(* is kept; an action is one transfer of the environment or one store.     *)
(***************************************************************************)
EXTENDS Integers, Sequences

CONSTANTS
    Contexts,
    Programs,       \* which descriptors each context may use, in each program
    Terminals,      \* OKM_STREAM: input may go on after an end of input
    Channels,       \* OKM_CHANNEL, and connected sockets: an end is the end
    Messages,       \* listeners and datagram endpoints: an item at a time
    Plain,          \* files, directories and the null device: always ready
    Failing,        \* descriptors whose environment refuses the enquiry
    WriteOnly,      \* opened O_WRONLY
    ReadOnly,       \* opened O_RDONLY
    NonBlock,       \* marked O_NONBLOCK
    PollSets,       \* what poll is called with: sequences of [d, ev]
    Timeouts,       \* its timeouts, in rounds of OKM_ROUND_NS
    Forever,        \* the negative timeout
    Lens,           \* the lengths read is called with; of nothing, it returns at once
    MaxItems,       \* bound: the items the environment sends a descriptor
    MaxEnds         \* bound: the ends of input typed at a terminal

\* Contexts that use separate descriptors, of kinds that exclude one another.
ASSUME ReadinessAssumption ==
    /\ \A u \in Programs : \A c, x \in Contexts : c # x => u[c] \cap u[x] = {}
    /\ Terminals \cap Channels = {}
    /\ Plain \cap (Terminals \cup Channels \cup Messages) = {}
    /\ \A fs \in PollSets : fs \in Seq([d : {fs[j].d : j \in DOMAIN fs}, ev : SUBSET {"in", "out"}])
    /\ Timeouts \subseteq Nat \cup {Forever}
    /\ Lens \subseteq Nat \ {0}

Streams == Terminals \cup Channels
Inputs == Streams \cup Messages
Open == Inputs \cup Plain

VARIABLES
    uses,           \* the descriptors each context polls and reads
    queue,          \* what the environment holds for each: items, and ends below zero
    came, given,    \* how many items and ends it was sent so far
    closed,         \* channels whose far end is closed
    held, byte,     \* ahead and ahead_byte; pend_conn, pend; pend_msg, buf
    eof,            \* ahead_eof
    loc,            \* where each context is, and its locals
    out,            \* the items its reads delivered, per descriptor
    ends,           \* the ends of input they reported at a terminal
    told            \* descriptors reported readable and not read since

env == <<uses, queue, came, given, closed>>
kept == <<held, byte, eof>>
vars == <<env, kept, loc, out, ends, told>>

Idle == [pc |-> "idle", fds |-> <<>>, left |-> 0, i |-> 1, rev |-> {},
         failed |-> FALSE, waited |-> FALSE, item |-> 0, len |-> 0]

Init ==
    /\ uses \in Programs
    /\ queue = [d \in Inputs |-> <<>>]
    /\ came = [d \in Inputs |-> 0]
    /\ given = [d \in Inputs |-> 0]
    /\ closed = [d \in Inputs |-> FALSE]
    /\ held = [d \in Inputs |-> FALSE]
    /\ byte = [d \in Inputs |-> 0]
    /\ eof = [d \in Inputs |-> FALSE]
    /\ loc = [c \in Contexts |-> Idle]
    /\ out = [d \in Inputs |-> <<>>]
    /\ ends = [d \in Inputs |-> 0]
    /\ told = {}

Put(c, l) == loc' = [loc EXCEPT ![c] = l]

\* The descriptor a context is about: of the entry it scans, or of its read.
About(l) == l.fds[l.i].d

-----------------------------------------------------------------------------
(***************************************************************************)
(* The environment.                                                        *)
(***************************************************************************)
\* The descriptors of the program this is; the others do not exist.
Used == UNION {uses[c] : c \in Contexts}

Arrive(d) ==
    /\ d \in Used
    /\ came[d] < MaxItems
    /\ ~closed[d]
    /\ came' = [came EXCEPT ![d] = @ + 1]
    /\ queue' = [queue EXCEPT ![d] = Append(@, came[d] + 1)]
    /\ UNCHANGED <<uses, given, closed, kept, loc, out, ends, told>>

TypeEnd(d) ==
    /\ d \in Terminals \cap Used
    /\ given[d] < MaxEnds
    /\ given' = [given EXCEPT ![d] = @ + 1]
    /\ queue' = [queue EXCEPT ![d] = Append(@, -(given[d] + 1))]
    /\ UNCHANGED <<uses, came, closed, kept, loc, out, ends, told>>

CloseFarEnd(d) ==
    /\ d \in Channels \cap Used
    /\ ~closed[d]
    /\ closed' = [closed EXCEPT ![d] = TRUE]
    /\ UNCHANGED <<uses, queue, came, given, kept, loc, out, ends, told>>

\* A read of the environment can complete: something is there, or the end is.
Ready(d) == queue[d] # <<>> \/ closed[d]
HasItem(d) == queue[d] # <<>> /\ Head(queue[d]) > 0
AtEnd(d) == Ready(d) /\ ~HasItem(d)

\* How many items a read of up to n returns: those before the next end.
Leading(q, n) ==
    {m \in 0..Len(q) : /\ m <= n
                       /\ \A j \in 1..m : q[j] > 0
                       /\ m = n \/ m = Len(q) \/ q[m + 1] < 0}

\* The read consumes what it returns, an end typed at a terminal included.
Drop(d, m) == queue' = [queue EXCEPT ![d] = SubSeq(@, m + 1, Len(@))]
DropEnd(d) == queue' = [queue EXCEPT ![d] = IF @ = <<>> THEN @ ELSE Tail(@)]

-----------------------------------------------------------------------------
(***************************************************************************)
(* okm_poll.                                                               *)
(***************************************************************************)
Poll(c) ==
    /\ loc[c].pc = "idle"
    /\ \E fs \in PollSets, t \in Timeouts :
           /\ \A j \in DOMAIN fs : fs[j].d \in uses[c]
           /\ Put(c, [Idle EXCEPT !.pc = "scan", !.fds = fs, !.left = t])
    /\ UNCHANGED <<env, kept, out, ends, told>>

\* Variant: a poll that passes over listeners.
HasInputNotMessages(d) == d \in Streams \ WriteOnly

HasInput(d) == d \in Messages \/ d \in Streams \ WriteOnly

\* A set of one is handed the caller's whole bound.
Single(l) == Len(l.fds) = 1

\* The bound passed to the environment is zero, which it takes for no bound;
\* the first form hands the caller's zero through.
UnboundedZero(l) == Single(l) /\ l.left \in {Forever, 0}

Unbounded(l) == Single(l) /\ l.left = Forever

\* End of input is a hang-up too, except at a terminal.
Hup(d) == IF eof[d] /\ d \notin Terminals THEN {"hup"} ELSE {}

\* The entry is finished: what it reports is added, writability unasked.
Reported(l, rs) ==
    LET e == l.fds[l.i]
        w == IF e.d \in ReadOnly THEN {} ELSE e.ev \cap {"out"}
    IN  [l EXCEPT !.pc = "scan", !.i = @ + 1, !.item = 0,
                  !.rev = @ \cup {<<l.i, r>> : r \in rs \cup w}]

Scan(c) ==
    LET l == loc[c]
        e == l.fds[l.i]
    IN  /\ l.pc = "scan"
        /\ l.i <= Len(l.fds)
        /\ \/ /\ e.d \notin Open
              /\ Put(c, [l EXCEPT !.i = @ + 1, !.rev = @ \cup {<<l.i, "nval">>}])
           \/ /\ e.d \in Plain
              /\ Put(c, [l EXCEPT !.i = @ + 1, !.rev = @ \cup {<<l.i, r>> : r \in e.ev}])
           \/ /\ e.d \in Inputs
              /\ "in" \in e.ev
              /\ HasInput(e.d)
              /\ LET w == [l EXCEPT !.waited = TRUE]
                 IN  Put(c, IF held[e.d] \/ eof[e.d] THEN Reported(w, {"in"} \cup Hup(e.d))
                                                     ELSE [w EXCEPT !.pc = "wait"])
           \/ /\ e.d \in Inputs
              /\ ~("in" \in e.ev /\ HasInput(e.d))
              /\ Put(c, Reported(l, {}))
        /\ UNCHANGED <<env, kept, out, ends, told>>

\* wait_in and okm_sock_wait_in: the bounded read took an item, ...
WaitTakes(c) ==
    LET l == loc[c]
    IN  /\ l.pc = "wait"
        /\ About(l) \notin Failing
        /\ HasItem(About(l))
        /\ Put(c, [l EXCEPT !.pc = "keep", !.item = Head(queue[About(l)])])
        /\ Drop(About(l), 1)
        /\ UNCHANGED <<uses, came, given, closed, kept, out, ends, told>>

\* ... met the end of input (the variant does not note that it did), ...
WaitEndsForgets(c) ==
    LET l == loc[c]
    IN  /\ l.pc = "wait"
        /\ About(l) \notin Failing
        /\ AtEnd(About(l))
        /\ DropEnd(About(l))
        /\ Put(c, Reported(l, {"in"}))
        /\ UNCHANGED <<uses, came, given, closed, kept, out, ends, told>>

WaitEnds(c) ==
    LET l == loc[c]
        d == About(l)
    IN  /\ l.pc = "wait"
        /\ d \notin Failing
        /\ AtEnd(d)
        /\ DropEnd(d)
        /\ eof' = [eof EXCEPT ![d] = TRUE]
        /\ Put(c, Reported(l, IF d \in Terminals THEN {"in"} ELSE {"in", "hup"}))
        /\ UNCHANGED <<uses, came, given, closed, held, byte, out, ends, told>>

\* ... expired, ...
WaitExpires(c) ==
    LET l == loc[c]
    IN  /\ l.pc = "wait"
        /\ About(l) \notin Failing
        /\ ~Ready(About(l))
        /\ ~Unbounded(l)
        /\ Put(c, Reported(l, {}))
        /\ UNCHANGED <<env, kept, out, ends, told>>

\* ... or was refused.
WaitFails(c) ==
    LET l == loc[c]
    IN  /\ l.pc = "wait"
        /\ About(l) \in Failing
        /\ Put(c, [Reported(l, {}) EXCEPT !.failed = TRUE])
        /\ UNCHANGED <<env, kept, out, ends, told>>

\* The item is kept in two stores: of a stream the mark first, of a socket's
\* connection or message the mark last.
Keep(c) ==
    LET l == loc[c]
        d == About(l)
    IN  /\ l.pc = "keep"
        /\ IF d \in Messages
           THEN byte' = [byte EXCEPT ![d] = l.item] /\ UNCHANGED held
           ELSE held' = [held EXCEPT ![d] = TRUE] /\ UNCHANGED byte
        /\ Put(c, [l EXCEPT !.pc = "kept"])
        /\ UNCHANGED <<env, eof, out, ends, told>>

Kept(c) ==
    LET l == loc[c]
        d == About(l)
    IN  /\ l.pc = "kept"
        /\ IF d \in Messages
           THEN held' = [held EXCEPT ![d] = TRUE] /\ UNCHANGED byte
           ELSE byte' = [byte EXCEPT ![d] = l.item] /\ UNCHANGED held
        /\ Put(c, Reported(l, {"in"} \cup Hup(d)))
        /\ UNCHANGED <<env, eof, out, ends, told>>

\* The end of a round: poll returns what was ready, else the failure, else
\* that the time is up; otherwise it spends a round's time and asks again.
NextRound(l) == [l EXCEPT !.i = 1, !.rev = {}, !.failed = FALSE, !.waited = FALSE]

EndRound(c) ==
    LET l == loc[c]
    IN  /\ l.pc = "scan"
        /\ l.i > Len(l.fds)
        /\ \/ /\ l.rev # {}
              /\ told' = told \cup {l.fds[j].d : j \in {k \in DOMAIN l.fds : <<k, "in">> \in l.rev}}
              /\ Put(c, Idle)
           \/ /\ l.rev = {}
              /\ l.failed \/ l.left = 0 \/ (Single(l) /\ l.waited /\ l.left # Forever)
              /\ Put(c, Idle)
              /\ UNCHANGED told
           \/ /\ l.rev = {} /\ ~l.failed
              /\ l.left = Forever
              /\ Put(c, NextRound(l))
              /\ UNCHANGED told
           \/ /\ l.rev = {} /\ ~l.failed
              /\ l.left \notin {Forever, 0}
              /\ ~(Single(l) /\ l.waited)
              /\ Put(c, [NextRound(l) EXCEPT !.left = @ - 1])
              /\ UNCHANGED told
        /\ UNCHANGED <<env, kept, out, ends>>

-----------------------------------------------------------------------------
(***************************************************************************)
(* read, recv and accept: do_read_stream, okm_sock_recv, okm_sock_accept.  *)
(***************************************************************************)
Read(c) ==
    /\ loc[c].pc = "idle"
    /\ \E d \in uses[c] \cap (Inputs \ WriteOnly), n \in Lens :
           /\ Put(c, [Idle EXCEPT !.pc = "take", !.fds = <<[d |-> d, ev |-> {}]>>, !.len = n])
           /\ told' = told \ {d}
    /\ UNCHANGED <<env, kept, out, ends>>

Deliver(d, s) == out' = [out EXCEPT ![d] = @ \o s]
Transfer(d, m) == Drop(d, m) /\ Deliver(d, SubSeq(queue[d], 1, m))
ReportEnd(d) == ends' = [ends EXCEPT ![d] = IF d \in Terminals THEN @ + 1 ELSE @]

\* okm_take_ahead: a kept item is copied, or a kept end reported, or neither.
Take(c) ==
    LET l == loc[c]
        d == About(l)
    IN  /\ l.pc = "take"
        /\ \/ /\ held[d]
              /\ Put(c, [l EXCEPT !.pc = "clear", !.item = byte[d]])
              /\ UNCHANGED <<eof, ends>>
           \/ /\ ~held[d] /\ eof[d]
              /\ eof' = [eof EXCEPT ![d] = FALSE]
              /\ ReportEnd(d)
              /\ Put(c, Idle)
           \/ /\ ~held[d] /\ ~eof[d]
              /\ Put(c, [l EXCEPT !.pc = "read"])
              /\ UNCHANGED <<eof, ends>>
        /\ UNCHANGED <<env, held, byte, out, told>>

\* The mark of the item taken is cleared (the variant does not); a read of more
\* than one byte goes on to ask for what else is there.
ClearNothing(c) ==
    LET l == loc[c]
    IN  /\ l.pc = "clear"
        /\ Deliver(About(l), <<l.item>>)
        /\ Put(c, IF About(l) \in Streams /\ l.len > 1 THEN [l EXCEPT !.pc = "more"] ELSE Idle)
        /\ UNCHANGED <<env, kept, ends, told>>

Clear(c) ==
    LET l == loc[c]
        d == About(l)
    IN  /\ l.pc = "clear"
        /\ held' = [held EXCEPT ![d] = FALSE]
        /\ Deliver(d, <<l.item>>)
        /\ Put(c, IF d \in Streams /\ l.len > 1 THEN [l EXCEPT !.pc = "more", !.len = @ - 1] ELSE Idle)
        /\ UNCHANGED <<env, byte, eof, ends, told>>

\* The second transfer of such a read, which does not wait.  Only a count of
\* its own is added: an end it meets at a terminal is consumed unreported.
More(c) ==
    LET l == loc[c]
        d == About(l)
    IN  /\ l.pc = "more"
        /\ IF d \in Failing THEN UNCHANGED <<queue, out>>
           ELSE IF HasItem(d) THEN \E m \in Leading(queue[d], l.len) : Transfer(d, m)
                              ELSE DropEnd(d) /\ UNCHANGED out
        /\ Put(c, Idle)
        /\ UNCHANGED <<uses, came, given, closed, kept, ends, told>>

\* The read of the environment, when nothing was kept: it waits, unless the
\* descriptor is marked O_NONBLOCK.
ReadThrough(c) ==
    LET l == loc[c]
        d == About(l)
    IN  /\ l.pc = "read"
        /\ \/ /\ d \notin Failing /\ HasItem(d)
              /\ \E m \in Leading(queue[d], IF d \in Streams THEN l.len ELSE 1) : Transfer(d, m)
              /\ UNCHANGED ends
           \/ /\ d \notin Failing /\ AtEnd(d)
              /\ DropEnd(d)
              /\ ReportEnd(d)
              /\ UNCHANGED out
           \/ /\ d \in Failing \/ (d \in NonBlock /\ ~Ready(d))
              /\ UNCHANGED <<queue, out, ends>>
        /\ Put(c, Idle)
        /\ UNCHANGED <<uses, came, given, closed, kept, told>>

Step(c) ==
    \/ Scan(c) \/ EndRound(c) \/ Keep(c) \/ Kept(c)
    \/ WaitTakes(c) \/ WaitEnds(c) \/ WaitExpires(c) \/ WaitFails(c)
    \/ Take(c) \/ Clear(c) \/ More(c) \/ ReadThrough(c)

Next ==
    \/ \E c \in Contexts : Poll(c) \/ Read(c) \/ Step(c)
    \/ \E d \in Inputs : Arrive(d) \/ TypeEnd(d) \/ CloseFarEnd(d)

Spec == Init /\ [][Next]_vars

\* A context that can go on does; a bounded read of the environment ends.
FairSpec == Spec /\ \A c \in Contexts : WF_vars(Step(c))

-----------------------------------------------------------------------------
Locals ==
    [pc : {"idle", "scan", "wait", "keep", "kept", "take", "clear", "more", "read"},
     fds : PollSets \cup {<<>>} \cup {<<[d |-> d, ev |-> {}]>> : d \in Inputs},
     left : Nat \cup {Forever},
     i : Nat \ {0},
     rev : SUBSET (Nat \X {"in", "out", "hup", "nval"}),
     failed : BOOLEAN, waited : BOOLEAN, item : Nat, len : Nat]

\* Every variable keeps its type; the time left is never below zero.
TypeOK ==
    /\ uses \in Programs
    /\ queue \in [Inputs -> Seq(Int)] /\ out \in [Inputs -> Seq(Int)]
    /\ came \in [Inputs -> Nat] /\ given \in [Inputs -> Nat] /\ ends \in [Inputs -> Nat]
    /\ closed \in [Inputs -> BOOLEAN] /\ held \in [Inputs -> BOOLEAN] /\ eof \in [Inputs -> BOOLEAN]
    /\ byte \in [Inputs -> Nat]
    /\ loc \in [Contexts -> Locals]

Flag(b) == IF b THEN 1 ELSE 0

\* What the environment still holds for a descriptor, and the ends of input it
\* was told of or is about to be.
Queued(d) == {queue[d][j] : j \in DOMAIN queue[d]}
EndsTold(d) == ends[d] + Flag(eof[d])

\* Every item is delivered, once and in order: reads delivered the first items
\* sent, and between calls the rest is kept or with the environment.  And no end
\* of input typed at a terminal is reported twice, nor one still to be read: the
\* read that reports a kept end forgets it (okm_poll.c:96), where the comment at
\* 131-133 says it is not cleared.  That no end is lost is EndsNotLost.
InOrder ==
    /\ \A d \in Inputs :
           /\ out[d] = [j \in 1..Len(out[d]) |-> j]
           /\ (\A c \in Contexts : loc[c] = Idle) =>
                  {x \in Queued(d) : x > 0} = (Len(out[d]) + Flag(held[d]) + 1)..came[d]
    /\ \A d \in Terminals :
           /\ EndsTold(d) <= given[d]
           /\ \A x \in Queued(d) : x < 0 => EndsTold(d) < -x

\* What poll reported is still true when the read comes: a descriptor reported
\* readable and not read since is one whose read does not wait.
ReportStaysTrue == \A d \in told \cap Inputs : held[d] \/ eof[d]

\* Nor is one lost: it is reported, or marked to be, or still to be read.
EndsNotLost ==
    \A d \in Terminals : \A k \in (EndsTold(d) + 1)..given[d] : -k \in Queued(d)

Polling(c) == loc[c].pc \in {"scan", "wait", "keep", "kept"}

\* A poll whose timeout is not negative returns, whatever happens; one of zero
\* is not handed to the environment as no bound.
BoundedPollReturns ==
    \A c \in Contexts : Polling(c) /\ loc[c].left # Forever ~> ~Polling(c)

\* A poll without a bound returns once one of its descriptors has input.
InputEndsPoll ==
    \A c \in Contexts, d \in Inputs :
        (/\ Polling(c) /\ Ready(d) /\ d \notin WriteOnly
         /\ \E j \in DOMAIN loc[c].fds : loc[c].fds[j].d = d /\ "in" \in loc[c].fds[j].ev)
            ~> ~Polling(c)
=============================================================================
