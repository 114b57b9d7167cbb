--------------------------- MODULE TransferProofs ---------------------------
(***************************************************************************)
(* Proofs about the transfers at a position and the copies between two     *)
(* files, for any contexts, files, buffers and sizes.  The invariant, in   *)
(* Transfers, says who may have moved a position: a copy those of its two  *)
(* files, which are then nobody else's; a transfer that has to borrow the  *)
(* position, while it has the lock, that of its file.  Every other         *)
(* position is where reads, seeks and copies that use it should have left  *)
(* it, unless a call left it elsewhere in one of the three ways that       *)
(* PositionsKept names; and what a call in progress has moved follows from *)
(* where it began.                                                         *)
(***************************************************************************)
EXTENDS Transfers, TLAPS

\* The bytes a call moves at once.
LEMMA Run ==
    ASSUME NEW n \in Nat, NEW p \in Nat
    PROVE  /\ [i \in 1..n |-> p + i - 1] \in Seq(Nat)
           /\ Len([i \in 1..n |-> p + i - 1]) = n
<1>1. \A i \in 1..n : p + i - 1 \in Nat OBVIOUS
<1> QED BY <1>1

\* The pairs of bytes a copy moves at once.
LEMMA RunOfPairs ==
    ASSUME NEW n \in Nat, NEW p \in Nat, NEW q \in Nat
    PROVE  /\ [i \in 1..n |-> <<p + i - 1, q + i - 1>>] \in Seq(Nat \X Nat)
           /\ Len([i \in 1..n |-> <<p + i - 1, q + i - 1>>]) = n
<1>1. \A i \in 1..n : p + i - 1 \in Nat /\ q + i - 1 \in Nat OBVIOUS
<1>2. \A i \in 1..n : <<p + i - 1, q + i - 1>> \in Nat \X Nat BY <1>1
<1> QED BY <1>2

\* What another context is about, and the lock if it has it, is left alone.
LEMMA OtherCall ==
    ASSUME Assumptions, IInv, NEW y \in Contexts, NEW d, d = call[y], direct' = direct,
           lock = y => lock' = y,
           \A h \in Files : Moving(d, h) => pos'[h] = pos[h] /\ plain'[h] = plain[h]
    PROVE  CallOK(y, d)'
<1>0. CallOK(y, d) BY Zenon DEF IInv
<1>1. CASE d.pc \in {"lock", "seek", "move", "back"}
  <2>1. TransferOK(y, d) BY <1>0, <1>1, Zenon DEF CallOK
  <2>2. d.f \in Files BY <2>1, Zenon DEF TransferOK
  <2>4. ~direct /\ d.pc \in {"move", "back"} => pos'[d.f] = pos[d.f] /\ plain'[d.f] = plain[d.f]
    BY <2>2, Zenon DEF Moving
  <2>5. TransferOK(y, d)' BY <2>1, <2>4, Zenon DEF TransferOK, Agrees
  <2> QED BY <1>1, <2>5, Zenon DEF CallOK
<1>2. CASE d.pc \in {"read", "write", "finish"}
  <2>1. CopyOK(d) BY <1>0, <1>2, Zenon DEF CallOK
  <2>2. d.f \in Files /\ d.g \in Files /\ d.g # None BY <2>1, Zenon DEF CopyOK, Assumptions
  <2>4. /\ pos'[d.f] = pos[d.f] /\ pos'[d.g] = pos[d.g]
        /\ plain'[d.f] = plain[d.f] /\ plain'[d.g] = plain[d.g]
    BY <2>2, Zenon DEF Moving
  <2>5. CopyOK(d)' BY <2>1, <2>4, Zenon DEF CopyOK, Agrees
  <2> QED BY <1>2, <2>5, Zenon DEF CallOK
<1>3. CASE d.pc \notin {"lock", "seek", "move", "back"} \cup {"read", "write", "finish"}
  BY <1>0, <1>3, Zenon DEF CallOK
<1> QED BY <1>1, <1>2, <1>3, Zenon

\* A step of one context, which changes the positions of D.
LEMMA OneStep ==
    ASSUME Assumptions, IInv, NEW x \in Contexts, NEW c, call' = [call EXCEPT ![x] = c],
           direct' = direct, NEW D \in SUBSET Files,
           pos' \in [Files -> Nat], plain' \in [Files -> Nat \cup {None}], c \in Calls(c.moved),
           \A h \in Files \ D : pos'[h] = pos[h] /\ plain'[h] = plain[h],
           \A y \in Contexts \ {x} : lock = y => lock' = y,
           \A y \in Contexts \ {x}, h \in D : ~Moving(call[y], h),
           CallOK(x, c)',
           \A y \in Contexts \ {x} : Separate(c, call[y]) /\ Separate(call[y], c),
           \A h \in D : plain'[h] \in {pos'[h], None} \/ Moving(c, h),
           \A h \in Files \ D : Moving(call[x], h) => Moving(c, h)
    PROVE  IInv'
<1>0. TypeOK /\ call = [y \in Contexts |-> call[y]] BY Zenon DEF IInv, TypeOK
<1>1. call'[x] = c /\ \A y \in Contexts \ {x} : call'[y] = call[y] BY <1>0, Zenon
<1>2. call' = [y \in Contexts |-> call'[y]] BY <1>0, Zenon
<1>3. TypeOK'
  <2>1. \A y \in Contexts : call'[y] \in Calls(call'[y].moved) BY <1>0, <1>1, Zenon DEF TypeOK
  <2>2. \A y \in Contexts : (call[y] \in Calls(call[y].moved))' BY <2>1, Zenon DEF Calls
  <2> QED BY <1>0, <1>2, <2>2, Zenon DEF TypeOK
<1>4. ASSUME NEW y \in Contexts PROVE CallOK(y, call[y])'
  <2>1. CASE y = x BY <1>1, <2>1, Zenon
  <2>2. CASE y # x
    <3>0. y \in Contexts \ {x} BY <2>2, Zenon
    <3>1. PICK d : d = call[y] OBVIOUS
    <3>3. \A h \in Files : Moving(d, h) => pos'[h] = pos[h] /\ plain'[h] = plain[h]
      BY <3>0, <3>1, Zenon
    <3>4. lock = y => lock' = y BY <3>0, Zenon
    <3>5. CallOK(y, d)' BY <3>1, <3>3, <3>4, OtherCall, ZenonT(40)
    <3>6. call'[y] = d BY <1>1, <3>0, <3>1, Zenon
    <3> QED BY <3>5, <3>6, Zenon
  <2> QED BY <2>1, <2>2, Zenon
<1>5. ASSUME NEW y \in Contexts, NEW z \in Contexts, y # z PROVE Separate(call[y], call[z])'
  <2>1. Separate(call[y], call[z]) BY <1>5, Zenon DEF IInv
  <2>2. Separate(call'[y], call'[z])
    <3>1. CASE y = x
      <4>1. z \in Contexts \ {x} BY <1>5, <3>1, Zenon
      <4>2. call'[y] = c /\ call'[z] = call[z] /\ Separate(c, call[z])
        BY <1>1, <3>1, <4>1, Zenon
      <4> QED BY <4>2, Zenon
    <3>2. CASE z = x
      <4>1. y \in Contexts \ {x} BY <1>5, <3>2, Zenon
      <4> QED BY <1>1, <3>2, <4>1, Zenon
    <3>3. CASE y # x /\ z # x BY <1>1, <2>1, <3>3, Zenon
    <3> QED BY <3>1, <3>2, <3>3, Zenon
  <2> QED BY <2>2, Zenon DEF Separate
<1>6. ASSUME NEW h \in Files, \A y \in Contexts : ~Moving(call[y], h)' PROVE Agrees(pos[h], h)'
  <2>1. \A y \in Contexts : ~Moving(call'[y], h) BY <1>6, Zenon DEF Moving
  <2>2. ~Moving(c, h) BY <1>1, <2>1, Zenon
  <2>3. CASE h \in D BY <2>2, <2>3, Zenon DEF Agrees
  <2>4. CASE h \notin D
    <3>1. h \in Files \ D BY <2>4, Zenon
    <3>2. ~Moving(call[x], h) BY <2>2, <3>1, Zenon
    <3>3. \A y \in Contexts \ {x} : ~Moving(call[y], h) BY <1>1, <2>1, Zenon
    <3>4. \A y \in Contexts : ~Moving(call[y], h) BY <3>2, <3>3, Zenon
    <3>5. plain[h] \in {pos[h], None} BY <3>4, Zenon DEF IInv, Agrees
    <3> QED BY <3>1, <3>5, Zenon DEF Agrees
  <2> QED BY <2>3, <2>4, Zenon
<1> QED BY <1>3, <1>4, <1>5, <1>6, Zenon DEF IInv

\* What a call in progress is, by what it stands at.
LEMMA CallCases ==
    ASSUME Assumptions, IInv, NEW y \in Contexts, NEW d, d = call[y]
    PROVE  /\ d \in Calls(d.moved) /\ CallOK(y, d)
           /\ d.pc = "idle" => d = Idle /\ d.f = None /\ d.g = None
           /\ d.pc \in {"lock", "seek", "move", "back"} => TransferOK(y, d)
           /\ d.pc \in {"read", "write", "finish"} => CopyOK(d)
           /\ d.g # None => d.f \in Files /\ d.g \in Files /\ d.f # None /\ d.g # None
           /\ \A z \in Contexts : z # y => Separate(d, call[z]) /\ Separate(call[z], d)
<1>1. d \in Calls(d.moved) /\ CallOK(y, d) BY Zenon DEF IInv, TypeOK
<1>2. d.pc \in {"idle", "lock", "seek", "move", "back", "read", "write", "finish"}
  BY <1>1, Zenon DEF Calls
<1>3. Idle.f = None /\ Idle.g = None BY DEF Idle
<1>4. d.pc = "idle" => d = Idle /\ d.f = None /\ d.g = None BY <1>1, <1>3, Zenon DEF CallOK
<1>5. d.pc \in {"lock", "seek", "move", "back"} => TransferOK(y, d) BY <1>1, Zenon DEF CallOK
<1>6. d.pc \in {"read", "write", "finish"} => CopyOK(d) BY <1>1, Zenon DEF CallOK
<1>7. \A h \in Files : h # None BY Zenon DEF Assumptions
<1>8. d.g # None => d.f \in Files /\ d.g \in Files /\ d.f # None /\ d.g # None
  <2>1. d.g # None => d.pc \in {"read", "write", "finish"}
    BY <1>2, <1>4, <1>5, Zenon DEF TransferOK
  <2> QED BY <1>6, <1>7, <2>1, Zenon DEF CopyOK
<1>9. \A z \in Contexts : z # y => Separate(d, call[z]) /\ Separate(call[z], d)
  BY Zenon DEF IInv
<1> QED BY <1>1, <1>4, <1>5, <1>6, <1>8, <1>9, Zenon

\* A description that is apart is nobody's, and its position is its own.
LEMMA ApartFree ==
    ASSUME Assumptions, IInv, NEW f \in Files, Apart(f)
    PROVE  /\ \A y \in Contexts : f \notin {call[y].f, call[y].g} /\ ~Moving(call[y], f)
           /\ plain[f] \in {pos[f], None}
<1>1. f # None BY Zenon DEF Assumptions
<1>2. ASSUME NEW y \in Contexts PROVE f \notin {call[y].f, call[y].g}
  <2>1. CASE call[y].pc = "idle"
    <3>1. call[y].f = None /\ call[y].g = None BY <2>1, CallCases, Zenon
    <3> QED BY <1>1, <3>1, Zenon
  <2>2. CASE call[y].pc # "idle" BY <2>2, Zenon DEF Apart, At
  <2> QED BY <2>1, <2>2, Zenon
<1>3. \A y \in Contexts : ~Moving(call[y], f) BY <1>2, Zenon DEF Moving
<1> QED BY <1>2, <1>3, Zenon DEF IInv, Agrees

\* An idle call moves nothing and is in nobody's way.
LEMMA IdleFree ==
    ASSUME Assumptions, IInv
    PROVE  /\ Idle \in Calls(Idle.moved) /\ \A y : CallOK(y, Idle)'
           /\ \A h \in Files : ~Moving(Idle, h)
           /\ \A y \in Contexts : Separate(Idle, call[y]) /\ Separate(call[y], Idle)
<1>1. Idle \in Calls(Idle.moved)
  <2>1. Idle.moved = <<>> BY DEF Idle
  <2> QED BY <2>1 DEF Idle, Calls
<1>2. Idle.pc = "idle" /\ Idle.f = None /\ Idle.g = None BY DEF Idle
<1>3. \A y : CallOK(y, Idle)' BY <1>2 DEF CallOK
<1>4. \A h \in Files : ~Moving(Idle, h) BY <1>2 DEF Moving
<1>5. ASSUME NEW y \in Contexts PROVE Separate(Idle, call[y]) /\ Separate(call[y], Idle)
  <2>1. call[y].g # None => call[y].f # None BY CallCases, Zenon
  <2> QED BY <1>2, <2>1, Zenon DEF Separate
<1> QED BY <1>1, <1>3, <1>4, <1>5, Zenon

\* A call that goes on with the same descriptions is as far apart as it was.
LEMMA SameFiles ==
    ASSUME Assumptions, IInv, NEW x \in Contexts, NEW l, l = call[x],
           NEW c, c.f = l.f, c.g = l.g
    PROVE  \A y \in Contexts \ {x} : Separate(c, call[y]) /\ Separate(call[y], c)
<1>1. ASSUME NEW y \in Contexts \ {x} PROVE Separate(l, call[y]) /\ Separate(call[y], l)
  <2>1. y \in Contexts /\ y # x OBVIOUS
  <2> QED BY <2>1, CallCases, Zenon
<1> QED BY <1>1, Zenon DEF Separate

\* Reading at the position, and setting it.
LEMMA ReadIInv ==
    ASSUME Assumptions, IInv, NEW x \in Contexts, NEW f \in Files, Read(x, f) \/ Lseek(x, f)
    PROVE  IInv'
<1>0. TypeOK /\ Size \in Nat BY Zenon DEF IInv, Assumptions
<1>1. Apart(f) /\ UNCHANGED <<direct, lock, call>> /\ call[x].pc = "idle"
  BY Zenon DEF Read, Lseek, At
<1>2. PICK c : c = call[x] OBVIOUS
<1>3. c = Idle BY <1>1, <1>2, CallCases, Zenon
<1>4. call' = [call EXCEPT ![x] = c] BY <1>0, <1>1, <1>2, Zenon DEF TypeOK
<1>5. PICK o, q : /\ o \in Nat /\ q \in {o, None}
                  /\ pos' = [pos EXCEPT ![f] = o] /\ plain' = [plain EXCEPT ![f] = q]
  <2>1. CASE Read(x, f)
    <3>1. plain[f] \in {pos[f], None} BY <1>1, ApartFree, Zenon
    <3>2. pos[f] + 1 \in Nat BY <1>0 DEF TypeOK
    <3>3. Further(plain[f], 1) \in {pos[f] + 1, None} BY <3>1, Zenon DEF Further
    <3> QED BY <2>1, <3>2, <3>3, Zenon DEF Read
  <2>2. CASE Lseek(x, f)
    <3>1. 0..Size \subseteq Nat BY <1>0
    <3> QED BY <2>2, <3>1, Zenon DEF Lseek
  <2> QED BY <2>1, <2>2, Zenon
<1>6. pos' \in [Files -> Nat] /\ plain' \in [Files -> Nat \cup {None}] BY <1>0, <1>5, Zenon DEF TypeOK
<1>7. pos'[f] = o /\ plain'[f] = q BY <1>0, <1>5, Zenon DEF TypeOK
<1>8. \A h \in Files \ {f} : pos'[h] = pos[h] /\ plain'[h] = plain[h]
  BY <1>0, <1>5, Zenon DEF TypeOK
<1>9. PICK D \in SUBSET Files : D = {f} BY Zenon
<1>10. \A y \in Contexts \ {x}, h \in D : ~Moving(call[y], h)
  BY <1>1, <1>9, ApartFree, Zenon
<1>11. \A h \in D : plain'[h] \in {pos'[h], None} BY <1>5, <1>7, <1>9, Zenon
<1>12. \A h \in Files \ D : pos'[h] = pos[h] /\ plain'[h] = plain[h] BY <1>8, <1>9, Zenon
<1>13. \A h \in Files : Moving(call[x], h) => Moving(c, h) BY <1>2, Zenon
<1>14. c \in Calls(c.moved) /\ CallOK(x, c)' /\ \A y \in Contexts : Separate(c, call[y]) /\ Separate(call[y], c)
  BY <1>3, IdleFree, Zenon
<1>15. \A y \in Contexts \ {x} : lock = y => lock' = y BY <1>1, Zenon
<1> QED BY <1>1, <1>4, <1>6, <1>10, <1>11, <1>12, <1>13, <1>14, <1>15, OneStep, ZenonT(40)

\* Who transfers at a position under the lock is alone in moving it.
LEMMA LockedAlone ==
    ASSUME Assumptions, IInv, NEW x \in Contexts, ~direct, lock = x,
           call[x].pc \in {"seek", "move", "back"}
    PROVE  \A y \in Contexts \ {x} : ~Moving(call[y], call[x].f)
<1> SUFFICES ASSUME NEW y \in Contexts \ {x} PROVE ~Moving(call[y], call[x].f) BY Zenon
<1>0. y \in Contexts /\ y # x OBVIOUS
<1>1. call[y].g # None => call[x].f \notin {call[y].f, call[y].g}
  <2>1. Separate(call[y], call[x]) BY <1>0, CallCases, Zenon
  <2> QED BY <2>1, Zenon DEF Separate
<1>2. call[y].pc \notin {"move", "back"}
  <2>1. call[y].pc \in {"move", "back"} => TransferOK(y, call[y]) BY <1>0, CallCases, Zenon
  <2>2. call[y].pc \in {"move", "back"} => lock = y BY <2>1, Zenon DEF TransferOK
  <2> QED BY <1>0, <2>2, Zenon
<1> QED BY <1>1, <1>2, Zenon DEF Moving

\* A transfer at a position is called.
LEMMA TransferAtIInv ==
    ASSUME Assumptions, IInv, NEW x \in Contexts, NEW f \in Files, TransferAt(x, f)
    PROVE  IInv'
<1>0. TypeOK /\ Size \in Nat /\ Vectors \subseteq Seq(Nat) BY Zenon DEF IInv, Assumptions
<1>1. UNCHANGED <<direct, pos, plain, lock>> /\ call[x].pc = "idle"
      /\ \A y \in Contexts : call[y].g = None \/ f \notin {call[y].f, call[y].g}
  BY Zenon DEF TransferAt, At
<1>2. PICK o \in 0..Size, v \in Vectors :
          call' = [call EXCEPT ![x] = [Idle EXCEPT !.pc = IF direct THEN "move" ELSE "lock",
                                           !.f = f, !.from = o, !.begun = <<o>>, !.v = v]]
  BY Zenon DEF TransferAt, Put
<1>3. PICK c : c = [Idle EXCEPT !.pc = IF direct THEN "move" ELSE "lock",
                                !.f = f, !.from = o, !.begun = <<o>>, !.v = v]
  OBVIOUS
<1>4. call' = [call EXCEPT ![x] = c] BY <1>2, <1>3, Zenon
<1>5. /\ c.pc = (IF direct THEN "move" ELSE "lock") /\ c.f = f /\ c.from = o /\ c.begun = <<o>>
      /\ c.g = None /\ c.moved = <<>>
  BY <1>3 DEF Idle
<1>6. o \in Nat /\ v \in Seq(Nat) BY <1>0, <1>2
<1>7. c \in Calls(c.moved)
  <2>1. <<o>> \in Seq(Nat) /\ <<>> \in Seq(Nat) BY <1>6
  <2>2. c = [pc |-> IF direct THEN "move" ELSE "lock", f |-> f, g |-> None, from |-> o, to |-> None,
             v |-> v, want |-> 0, keep |-> <<>>, block |-> 0, moved |-> <<>>, begun |-> <<o>>,
             short |-> FALSE]
    BY <1>3, Zenon DEF Idle
  <2> QED BY <1>5, <1>6, <2>1, <2>2 DEF Calls
<1>8. CallOK(x, c)'
  <2>1. c.begun[1] = o BY <1>5
  <2>2. DOMAIN c.moved = {} /\ Len(c.moved) = 0 /\ c.moved \in Seq(Nat) BY <1>5
  <2>3. direct' = direct /\ pos' = pos BY <1>1, Zenon
  <2>4. CASE direct
    <3>1. c.pc = "move" /\ direct' BY <1>5, <2>3, <2>4, Zenon
    <3>2. TransferOK(x, c)' BY <1>5, <1>6, <2>1, <2>2, <3>1, Zenon DEF TransferOK, Follow
    <3> QED BY <3>1, <3>2 DEF CallOK
  <2>5. CASE ~direct
    <3>1. c.pc = "lock" /\ ~direct' BY <1>5, <2>3, <2>5, Zenon
    <3>2. c.pc # "move" /\ c.pc # "back" /\ c.pc # "idle" BY <3>1
    <3>3. TransferOK(x, c)' BY <1>5, <1>6, <2>1, <2>2, <3>1, <3>2, Zenon DEF TransferOK, Follow
    <3> QED BY <3>1, <3>3 DEF CallOK
  <2> QED BY <2>4, <2>5, Zenon
<1>9. ASSUME NEW y \in Contexts \ {x} PROVE Separate(c, call[y]) /\ Separate(call[y], c)
  <2>1. Separate(c, call[y]) BY <1>5, Zenon DEF Separate
  <2>2. call[y].g # None => call[y].f # None
    <3>1. y \in Contexts OBVIOUS
    <3> QED BY <3>1, CallCases, Zenon
  <2>4. call[y].g # None => f \notin {call[y].f, call[y].g} BY <1>1, Zenon
  <2>3. Separate(call[y], c) BY <1>5, <2>2, <2>4, Zenon DEF Separate
  <2> QED BY <2>1, <2>3, Zenon
<1>10. \A h \in Files : ~Moving(call[x], h)
  <2>1. call[x] = Idle BY <1>1, CallCases, Zenon
  <2> QED BY <2>1, IdleFree, Zenon
<1>11. PICK D \in SUBSET Files : D = {} BY Zenon
<1>12. \A h \in Files : pos'[h] = pos[h] /\ plain'[h] = plain[h] BY <1>1, Zenon
<1>13. pos' \in [Files -> Nat] /\ plain' \in [Files -> Nat \cup {None}] BY <1>0, <1>1, Zenon DEF TypeOK
<1>14. \A y \in Contexts \ {x} : lock = y => lock' = y BY <1>1, Zenon
<1>15. direct' = direct BY <1>1, Zenon
<1> QED BY <1>4, <1>7, <1>8, <1>9, <1>10, <1>11, <1>12, <1>13, <1>14, <1>15, OneStep, Zenon

\* The lock is taken.
LEMMA LockIInv ==
    ASSUME Assumptions, IInv, NEW x \in Contexts, Lock(x)
    PROVE  IInv'
<1>0. TypeOK BY Zenon DEF IInv
<1>1. UNCHANGED <<direct, pos, plain>> /\ call[x].pc = "lock" /\ lock = None /\ lock' = x
  BY Zenon DEF Lock, At
<1>2. PICK l : l = call[x] OBVIOUS
<1>3. PICK c : c = [l EXCEPT !.pc = "seek"] BY Zenon
<1>4. call' = [call EXCEPT ![x] = c] BY <1>2, <1>3, Zenon DEF Lock, Put
<1>5. l \in Calls(l.moved) /\ TransferOK(x, l) /\ l.pc = "lock" BY <1>1, <1>2, CallCases, Zenon
<1>6. /\ c.pc = "seek" /\ c.f = l.f /\ c.from = l.from /\ c.begun = l.begun
      /\ c.g = l.g /\ c.moved = l.moved /\ c \in Calls(c.moved)
  BY <1>3, <1>5, Zenon DEF Calls
<1>7. CallOK(x, c)'
  <2>1. ~direct
    <3>1. "lock" \notin {"move", "back"} OBVIOUS
    <3> QED BY <1>5, <3>1, Zenon DEF TransferOK
  <2>2. ~direct' /\ lock' = x BY <1>1, <2>1, Zenon
  <2>3. c.pc \notin {"move", "back"} /\ c.pc # "move" /\ c.pc # "lock" /\ l.moved = <<>>
    BY <1>5, <1>6 DEF TransferOK
  <2>4. TransferOK(x, c)' BY <1>5, <1>6, <2>2, <2>3, Zenon DEF TransferOK
  <2> QED BY <1>6, <2>4 DEF CallOK
<1>8. \A y \in Contexts \ {x} : Separate(c, call[y]) /\ Separate(call[y], c)
  BY <1>2, <1>6, SameFiles, Zenon
<1>9. \A h \in Files : ~Moving(call[x], h)
  <2>1. l.g = None BY <1>5, Zenon DEF TransferOK
  <2> QED BY <1>2, <1>5, <2>1 DEF Moving
<1>10. PICK D \in SUBSET Files : D = {} BY Zenon
<1>11. \A h \in Files : pos'[h] = pos[h] /\ plain'[h] = plain[h] BY <1>1, Zenon
<1>12. pos' \in [Files -> Nat] /\ plain' \in [Files -> Nat \cup {None}] BY <1>0, <1>1, Zenon DEF TypeOK
<1>13. \A y \in Contexts \ {x} : lock = y => lock' = y BY <1>1, Zenon DEF Assumptions
<1>14. direct' = direct BY <1>1, Zenon
<1> QED BY <1>4, <1>6, <1>7, <1>8, <1>9, <1>10, <1>11, <1>12, <1>13, <1>14, OneStep, Zenon

\* The position is moved to the offset; or that is refused, and the call ends.
LEMMA SeekIInv ==
    ASSUME Assumptions, IInv, NEW x \in Contexts, Seek(x)
    PROVE  IInv'
<1>0. TypeOK BY Zenon DEF IInv
<1>1. UNCHANGED <<direct, plain>> /\ call[x].pc = "seek" BY Zenon DEF Seek, At
<1>2. PICK l : l = call[x] OBVIOUS
<1>3. l \in Calls(l.moved) /\ TransferOK(x, l) /\ l.pc = "seek" BY <1>1, <1>2, CallCases, Zenon
<1>4. l.f \in Files /\ l.g = None /\ ~direct /\ lock = x /\ l.moved = <<>> /\ l.from \in Nat
  <2>1. "seek" \notin {"move", "back"} /\ "seek" # "lock" OBVIOUS
  <2> QED BY <1>3, <2>1, Zenon DEF TransferOK
<1>5. \A y \in Contexts \ {x} : ~Moving(call[y], l.f) BY <1>2, <1>3, <1>4, LockedAlone, Zenon
<1>6. \A h \in Files : ~Moving(l, h) BY <1>3, <1>4 DEF Moving
<1>7. plain' \in [Files -> Nat \cup {None}] /\ direct' = direct /\ plain' = plain
  BY <1>0, <1>1, Zenon DEF TypeOK
<1>8. CASE /\ pos' = [pos EXCEPT ![l.f] = l.from]
           /\ Put(x, [l EXCEPT !.pc = "move", !.keep = <<pos[l.f]>>])
           /\ UNCHANGED lock
  <2>1. PICK k : k = <<pos[l.f]>> BY Zenon
  <2>2. PICK c : c = [l EXCEPT !.pc = "move", !.keep = k] OBVIOUS
  <2>3. call' = [call EXCEPT ![x] = c] BY <1>8, <2>1, <2>2, Zenon DEF Put
  <2>4. plain[l.f] \in {pos[l.f], None}
    <3>1. \A y \in Contexts : ~Moving(call[y], l.f) BY <1>2, <1>4, <1>5, <1>6, Zenon
    <3> QED BY <1>4, <3>1, Zenon DEF IInv, Agrees
  <2>5. k[1] = pos[l.f] /\ k[1] \in Nat /\ k \in Seq(Nat)
    <3>1. pos[l.f] \in Nat BY <1>0, <1>4, Zenon DEF TypeOK
    <3> QED BY <2>1, <3>1
  <2>6. /\ c.pc = "move" /\ c.f = l.f /\ c.from = l.from /\ c.begun = l.begun /\ c.keep = k
        /\ c.g = l.g /\ c.moved = l.moved /\ c \in Calls(c.moved)
    BY <1>3, <2>2, <2>5, Zenon DEF Calls
  <2>7. pos' \in [Files -> Nat] /\ pos'[l.f] = l.from /\ \A h \in Files \ {l.f} : pos'[h] = pos[h]
    BY <1>0, <1>4, <1>8, Zenon DEF TypeOK
  <2>8. CallOK(x, c)'
    <3>1. l.from = l.from + Len(l.moved) BY <1>4
    <3>2. lock' = x /\ plain'[c.f] \in {k[1], None} /\ pos'[c.f] = c.from + Len(c.moved)
      BY <1>4, <1>7, <1>8, <2>4, <2>5, <2>6, <2>7, <3>1, Zenon
    <3>3. c.pc \notin {"lock", "seek"} /\ l.begun[1] = l.from /\ l.moved \in Seq(Nat)
          /\ Follow(l.moved, l.from)
      BY <1>3, <2>6 DEF TransferOK
    <3>4. TransferOK(x, c)' BY <1>4, <2>5, <2>6, <3>2, <3>3, Zenon DEF TransferOK, Agrees
    <3> QED BY <2>6, <3>4 DEF CallOK
  <2>9. PICK D \in SUBSET Files : D = {l.f} BY <1>4, Zenon
  <2>10. \A y \in Contexts \ {x} : Separate(c, call[y]) /\ Separate(call[y], c)
    BY <1>2, <2>6, SameFiles, Zenon
  <2>11. \A h \in D : Moving(c, h) BY <1>4, <2>6, <2>9, Zenon DEF Moving
  <2>12. \A h \in Files \ D : pos'[h] = pos[h] /\ plain'[h] = plain[h]
    BY <1>7, <2>7, <2>9, Zenon
  <2>13. \A y \in Contexts \ {x}, h \in D : ~Moving(call[y], h)
    BY <1>5, <1>7, <2>9, Zenon
  <2>14. \A y \in Contexts \ {x} : lock = y => lock' = y BY <1>8, Zenon
  <2>15. \A h \in Files : ~Moving(call[x], h) BY <1>2, <1>6, Zenon
  <2> QED
    BY <1>7, <2>3, <2>6, <2>7, <2>8, <2>10, <2>11, <2>12, <2>13, <2>14, <2>15, OneStep, Zenon
<1>9. CASE lock' = None /\ Put(x, Idle) /\ UNCHANGED pos
  <2>1. PICK c : c = Idle OBVIOUS
  <2>2. call' = [call EXCEPT ![x] = c] BY <1>9, <2>1, Zenon DEF Put
  <2>3. PICK D \in SUBSET Files : D = {} BY Zenon
  <2>4. c \in Calls(c.moved) /\ CallOK(x, c)'
        /\ \A y \in Contexts : Separate(c, call[y]) /\ Separate(call[y], c)
    BY <2>1, IdleFree, Zenon
  <2>5. \A h \in Files : pos'[h] = pos[h] /\ plain'[h] = plain[h] BY <1>7, <1>9, Zenon
  <2>6. pos' \in [Files -> Nat] BY <1>0, <1>9, Zenon DEF TypeOK
  <2>7. \A y \in Contexts \ {x} : lock = y => lock' = y BY <1>4, Zenon
  <2>8. \A h \in Files : ~Moving(call[x], h) BY <1>2, <1>6, Zenon
  <2> QED BY <1>7, <2>2, <2>3, <2>4, <2>5, <2>6, <2>7, <2>8, OneStep, Zenon
<1> QED BY <1>2, <1>8, <1>9, Zenon DEF Seek

\* What a transfer has moved, continued with the bytes that follow.
LEMMA MovedOn ==
    ASSUME NEW a \in Nat, NEW m \in Seq(Nat), NEW s \in Seq(Nat),
           Follow(m, a), Follow(s, a + Len(m))
    PROVE  /\ m \o s \in Seq(Nat) /\ Len(m \o s) = Len(m) + Len(s)
           /\ Follow(m \o s, a)
<1>1. /\ m \o s \in Seq(Nat) /\ Len(m \o s) = Len(m) + Len(s)
      /\ Len(m) \in Nat /\ Len(s) \in Nat
      /\ DOMAIN m = 1..Len(m) /\ DOMAIN (m \o s) = 1..(Len(m) + Len(s))
  OBVIOUS
<1>2. ASSUME NEW j \in 1..(Len(m) + Len(s)) PROVE (m \o s)[j] = a + j - 1
  <2>1. (m \o s)[j] = IF j <= Len(m) THEN m[j] ELSE s[j - Len(m)] OBVIOUS
  <2>2. CASE j <= Len(m)
    <3>1. j \in DOMAIN m BY <1>1, <2>2
    <3> QED BY <2>1, <2>2, <3>1, Zenon DEF Follow
  <2>3. CASE ~(j <= Len(m))
    <3>1. PICK k : k = j - Len(m) OBVIOUS
    <3>2. k \in DOMAIN s BY <1>1, <2>3, <3>1
    <3>3. a + Len(m) + k - 1 = a + j - 1 BY <1>1, <3>1
    <3>4. (m \o s)[j] = s[k] BY <2>1, <2>3, <3>1, Zenon
    <3> QED BY <3>2, <3>3, <3>4, Zenon DEF Follow
  <2> QED BY <2>2, <2>3, Zenon
<1> QED BY <1>1, <1>2, Zenon DEF Follow

\* The same on both sides of a copy.
LEMMA CopiedOn ==
    ASSUME NEW a \in Nat, NEW b \in Nat, NEW m \in Seq(Nat \X Nat), NEW s \in Seq(Nat \X Nat),
           FollowBoth(m, a, b), FollowBoth(s, a + Len(m), b + Len(m))
    PROVE  /\ m \o s \in Seq(Nat \X Nat) /\ Len(m \o s) = Len(m) + Len(s)
           /\ FollowBoth(m \o s, a, b)
<1>1. /\ m \o s \in Seq(Nat \X Nat) /\ Len(m \o s) = Len(m) + Len(s)
      /\ Len(m) \in Nat /\ Len(s) \in Nat
      /\ DOMAIN m = 1..Len(m) /\ DOMAIN (m \o s) = 1..(Len(m) + Len(s))
  OBVIOUS
<1>2. ASSUME NEW j \in 1..(Len(m) + Len(s)) PROVE (m \o s)[j] = <<a + j - 1, b + j - 1>>
  <2>1. (m \o s)[j] = IF j <= Len(m) THEN m[j] ELSE s[j - Len(m)] OBVIOUS
  <2>2. CASE j <= Len(m)
    <3>1. j \in DOMAIN m BY <1>1, <2>2
    <3> QED BY <2>1, <2>2, <3>1, Zenon DEF FollowBoth
  <2>3. CASE ~(j <= Len(m))
    <3>1. PICK k : k = j - Len(m) OBVIOUS
    <3>2. k \in DOMAIN s BY <1>1, <2>3, <3>1
    <3>3. a + Len(m) + k - 1 = a + j - 1 /\ b + Len(m) + k - 1 = b + j - 1 BY <1>1, <3>1
    <3>4. (m \o s)[j] = s[k] BY <2>1, <2>3, <3>1, Zenon
    <3> QED BY <3>2, <3>3, <3>4, Zenon DEF FollowBoth
  <2> QED BY <2>2, <2>3, Zenon
<1> QED BY <1>1, <1>2, Zenon DEF FollowBoth

\* A transfer moves one buffer, or ends.
LEMMA MoveIInv ==
    ASSUME Assumptions, IInv, NEW x \in Contexts, Move(x)
    PROVE  IInv'
<1>0. TypeOK /\ direct \in BOOLEAN BY Zenon DEF IInv, TypeOK
<1>1. UNCHANGED <<direct, plain, lock>> /\ call[x].pc = "move" BY Zenon DEF Move, At
<1> DEFINE Moves(l, p) ==
        \/ /\ l.v # <<>>
           /\ \E n \in 0..Least(Head(l.v), Left(p)) :
                  /\ pos' = IF direct THEN pos ELSE [pos EXCEPT ![l.f] = p + n]
                  /\ Put(x, [l EXCEPT !.moved = @ \o [i \in 1..n |-> p + i - 1],
                                      !.v = Tail(@),
                                      !.pc = IF n < Head(l.v) THEN "back" ELSE "move"])
        \/ Put(x, [l EXCEPT !.pc = "back"]) /\ UNCHANGED pos
<1>8. Moves(call[x], IF direct THEN call[x].from + Len(call[x].moved) ELSE pos[call[x].f])
  BY Zenon DEF Move
<1> HIDE DEF Moves
<1>2. PICK l, p : l = call[x] /\ p = (IF direct THEN l.from + Len(l.moved) ELSE pos[l.f]) /\ Moves(l, p)
  BY <1>8, Zenon
<1>3. l \in Calls(l.moved) /\ TransferOK(x, l) /\ l.pc = "move" BY <1>1, <1>2, CallCases, Zenon
<1>4. PICK a : a = l.from OBVIOUS
<1>5. /\ l.f \in Files /\ l.g = None /\ a \in Nat /\ l.moved \in Seq(Nat) /\ l.begun[1] = a
      /\ Follow(l.moved, a)
      /\ ~direct => lock = x /\ l.keep[1] \in Nat /\ plain[l.f] \in {l.keep[1], None} /\ pos[l.f] = a + Len(l.moved)
  BY <1>3, <1>4 DEF TransferOK, Agrees
<1>6. ~direct => \A y \in Contexts \ {x} : ~Moving(call[y], l.f)
  BY <1>2, <1>3, <1>5, LockedAlone, Zenon
<1>7. plain' \in [Files -> Nat \cup {None}] /\ direct' = direct /\ plain' = plain /\ lock' = lock
  BY <1>0, <1>1, Zenon DEF TypeOK
<1>21. p = a + Len(l.moved) BY <1>2, <1>4, <1>5, Zenon
<1>9. PICK n, c :
         /\ n \in Nat /\ call' = [call EXCEPT ![x] = c] /\ c \in Calls(c.moved) /\ c.pc \in {"move", "back"}
         /\ c.f = l.f /\ c.g = l.g /\ c.from = l.from /\ c.begun = l.begun /\ c.keep = l.keep
         /\ c.moved \in Seq(Nat) /\ Follow(c.moved, a)
         /\ c.pc = "move" => Len(c.moved) = Len(l.moved) + n
         /\ pos' = IF direct THEN pos ELSE [pos EXCEPT ![l.f] = p + n]
  <2>2. CASE /\ l.v # <<>>
             /\ \E n \in 0..Least(Head(l.v), Left(p)) :
                  /\ pos' = IF direct THEN pos ELSE [pos EXCEPT ![l.f] = p + n]
                  /\ Put(x, [l EXCEPT !.moved = @ \o [i \in 1..n |-> p + i - 1],
                                      !.v = Tail(@),
                                      !.pc = IF n < Head(l.v) THEN "back" ELSE "move"])
    <3>1. PICK n \in 0..Least(Head(l.v), Left(p)) :
                  /\ pos' = IF direct THEN pos ELSE [pos EXCEPT ![l.f] = p + n]
                  /\ Put(x, [l EXCEPT !.moved = @ \o [i \in 1..n |-> p + i - 1],
                                      !.v = Tail(@),
                                      !.pc = IF n < Head(l.v) THEN "back" ELSE "move"])
      BY <2>2, Zenon
    <3>2. n \in Nat OBVIOUS
    <3>3. PICK s : s = [i \in 1..n |-> p + i - 1] BY Zenon
    <3>4. PICK m : m = l.moved \o s BY Zenon
    <3>5. PICK t : t = Tail(l.v) BY Zenon
    <3>6. PICK k : k = IF n < Head(l.v) THEN "back" ELSE "move" OBVIOUS
    <3>7. PICK c : c = [l EXCEPT !.moved = m, !.v = t, !.pc = k] OBVIOUS
    <3>8. [l EXCEPT !.moved = @ \o [i \in 1..n |-> p + i - 1], !.v = Tail(@),
                    !.pc = IF n < Head(l.v) THEN "back" ELSE "move"] = c
      BY <3>3, <3>4, <3>5, <3>6, <3>7, Zenon
    <3>9. call' = [call EXCEPT ![x] = c] BY <3>1, <3>8, Zenon DEF Put
    <3>10. m \in Seq(Nat) /\ Len(m) = Len(l.moved) + n /\ Follow(m, a)
      <4>1. p \in Nat BY <1>5, <1>21
      <4>2. s \in Seq(Nat) /\ Len(s) = n BY <3>2, <3>3, <4>1, Run, Zenon
      <4>3. Follow(s, p) BY <3>3, Zenon DEF Follow
      <4>4. PICK o : o = l.moved OBVIOUS
      <4>5. o \in Seq(Nat) /\ p = a + Len(o) /\ Follow(o, a)
        BY <1>5, <1>21, <4>4, Zenon
      <4>6. /\ o \o s \in Seq(Nat) /\ Len(o \o s) = Len(o) + Len(s)
            /\ Follow(o \o s, a)
        <5>1. s \in Seq(Nat) /\ o \in Seq(Nat) /\ Follow(o, a) /\ Follow(s, a + Len(o)) /\ a \in Nat
          BY <1>5, <4>2, <4>3, <4>5, Zenon
        <5> QED BY <5>1, MovedOn, Zenon
      <4> QED BY <3>4, <4>2, <4>4, <4>6, Zenon
    <3>11. t \in Seq(Nat)
      <4>1. l.v \in Seq(Nat) BY <1>3, Zenon DEF Calls
      <4> QED BY <2>2, <3>5, <4>1
    <3>12. k \in {"move", "back"} BY <3>6, Zenon
    <3>13. /\ c.f = l.f /\ c.g = l.g /\ c.from = l.from /\ c.begun = l.begun /\ c.keep = l.keep
           /\ c.moved = m /\ c.pc = k /\ c \in Calls(c.moved)
      BY <1>3, <3>7, <3>11, <3>12, Zenon DEF Calls
    <3> QED BY <3>1, <3>2, <3>9, <3>10, <3>12, <3>13, Zenon
  <2>3. CASE Put(x, [l EXCEPT !.pc = "back"]) /\ UNCHANGED pos
    <3>1. PICK c : c = [l EXCEPT !.pc = "back"] BY Zenon
    <3>2. call' = [call EXCEPT ![x] = c] BY <2>3, <3>1, Zenon DEF Put
    <3>3. /\ c.f = l.f /\ c.g = l.g /\ c.from = l.from /\ c.begun = l.begun /\ c.keep = l.keep
          /\ c.moved = l.moved /\ c.pc = "back" /\ c \in Calls(c.moved)
      BY <1>3, <3>1, Zenon DEF Calls
    <3>4. c.pc # "move" BY <3>3
    <3>5. PICK n \in Nat : n = 0 OBVIOUS
    <3>6. p + n = pos[l.f] \/ direct BY <1>5, <1>21, <3>5
    <3>7. pos' = IF direct THEN pos ELSE [pos EXCEPT ![l.f] = p + n]
      <4>1. ~direct => pos = [pos EXCEPT ![l.f] = p + n] BY <1>0, <1>5, <3>6 DEF TypeOK
      <4> QED BY <2>3, <4>1, Zenon
    <3> QED BY <1>5, <3>2, <3>3, <3>4, <3>5, <3>7, Zenon
  <2> QED BY <1>2, <2>2, <2>3, Zenon DEF Moves
<1>10. p + n \in Nat /\ (c.pc = "move" => p + n = a + Len(c.moved))
  <2>1. PICK k, m : k = Len(l.moved) /\ m = Len(c.moved) BY Zenon
  <2>2. k \in Nat BY <1>5, <2>1
  <2>3. a \in Nat /\ n \in Nat /\ p = a + k /\ (c.pc = "move" => m = k + n)
    BY <1>5, <1>9, <1>21, <2>1, Zenon
  <2>4. p + n \in Nat /\ p + n = a + (k + n) BY <2>2, <2>3
  <2> QED BY <2>1, <2>3, <2>4, Zenon
<1>11. /\ pos' \in [Files -> Nat] /\ \A h \in Files \ {l.f} : pos'[h] = pos[h]
       /\ ~direct => pos'[l.f] = p + n
       /\ direct => pos' = pos
  BY <1>0, <1>5, <1>9, <1>10, Zenon DEF TypeOK
<1>12. CallOK(x, c)'
  <2>1. c.pc \notin {"lock", "seek"} /\ c.pc # "idle" BY <1>9
  <2>2. ~direct => lock' = x /\ plain'[l.f] \in {l.keep[1], None} /\ (c.pc = "move" => pos'[l.f] = a + Len(c.moved))
    BY <1>5, <1>7, <1>10, <1>11, Zenon
  <2>3. TransferOK(x, c)' BY <1>4, <1>5, <1>7, <1>9, <2>1, <2>2, Zenon DEF TransferOK, Agrees
  <2> QED BY <1>9, <2>1, <2>3 DEF CallOK
<1>13. \A y \in Contexts \ {x} : Separate(c, call[y]) /\ Separate(call[y], c)
  BY <1>2, <1>9, SameFiles, Zenon
<1>14. PICK D \in SUBSET Files : D = IF direct THEN {} ELSE {l.f} BY <1>5, Zenon
<1>15. \A h \in D : h = l.f /\ ~direct BY <1>14, Zenon
<1>16. \A h \in Files \ D : pos'[h] = pos[h] /\ plain'[h] = plain[h]
  BY <1>0, <1>7, <1>11, <1>14, Zenon
<1>17. \A h \in D : Moving(c, h) BY <1>9, <1>15, Zenon DEF Moving
<1>18. \A y \in Contexts \ {x}, h \in D : ~Moving(call[y], h)
  BY <1>6, <1>7, <1>15, Zenon
<1>19. \A h \in Files : Moving(call[x], h) => Moving(c, h) BY <1>2, <1>5, <1>9, Zenon DEF Moving
<1>20. \A y \in Contexts \ {x} : lock = y => lock' = y BY <1>7, Zenon
<1> QED BY <1>7, <1>9, <1>11, <1>12, <1>13, <1>16, <1>17, <1>18, <1>19, <1>20, OneStep, Zenon

\* The position is put back, and the lock given up.
LEMMA BackIInv ==
    ASSUME Assumptions, IInv, NEW x \in Contexts, Back(x)
    PROVE  IInv'
<1>0. TypeOK BY Zenon DEF IInv
<1>1. direct' = direct /\ call[x].pc = "back" BY Zenon DEF Back, At
<1>2. PICK l : l = call[x] OBVIOUS
<1>3. /\ lock' = IF direct THEN lock ELSE None
      /\ call' = [call EXCEPT ![x] = Idle]
      /\ \/ (pos' = IF direct THEN pos ELSE [pos EXCEPT ![l.f] = l.keep[1]]) /\ plain' = plain
         \/ ~direct /\ plain' = [plain EXCEPT ![l.f] = None] /\ pos' = pos
  BY <1>2, Zenon DEF Back, Put
<1>4. TransferOK(x, l) /\ l.pc = "back" BY <1>1, <1>2, CallCases, Zenon
<1>5. /\ l.f \in Files /\ l.g = None
      /\ ~direct => lock = x /\ l.keep[1] \in Nat /\ plain[l.f] \in {l.keep[1], None}
  BY <1>4 DEF TransferOK, Agrees
<1>6. ~direct => \A y \in Contexts \ {x} : ~Moving(call[y], l.f)
  BY <1>2, <1>4, <1>5, LockedAlone, Zenon
<1>7. pos \in [Files -> Nat] /\ plain \in [Files -> Nat \cup {None}] BY <1>0, Zenon DEF TypeOK
<1>8. /\ pos' \in [Files -> Nat] /\ plain' \in [Files -> Nat \cup {None}]
      /\ \A h \in Files \ {l.f} : pos'[h] = pos[h] /\ plain'[h] = plain[h]
      /\ ~direct => plain'[l.f] \in {pos'[l.f], None}
      /\ direct => pos' = pos /\ plain' = plain
  <2>1. CASE direct BY <1>3, <1>7, <2>1, Zenon
  <2>2. CASE ~direct /\ pos' = [pos EXCEPT ![l.f] = l.keep[1]] /\ plain' = plain
    BY <1>5, <1>7, <2>2, Zenon
  <2>3. CASE ~direct /\ plain' = [plain EXCEPT ![l.f] = None] /\ pos' = pos
    BY <1>5, <1>7, <2>3, Zenon
  <2> QED BY <1>3, <2>1, <2>2, <2>3, Zenon
<1>9. PICK c : c = Idle OBVIOUS
<1>10. c \in Calls(c.moved) /\ CallOK(x, c)'
       /\ \A y \in Contexts : Separate(c, call[y]) /\ Separate(call[y], c)
  BY <1>9, IdleFree, Zenon
<1>11. PICK D \in SUBSET Files : D = IF direct THEN {} ELSE {l.f} BY <1>5, Zenon
<1>12. \A h \in D : h = l.f /\ ~direct BY <1>11, Zenon
<1>13. \A h \in Files \ D : pos'[h] = pos[h] /\ plain'[h] = plain[h] BY <1>8, <1>11, Zenon
<1>14. \A h \in D : plain'[h] \in {pos'[h], None} BY <1>8, <1>12, Zenon
<1>15. \A y \in Contexts \ {x}, h \in D : ~Moving(call[y], h) BY <1>6, <1>12, Zenon
<1>16. \A h \in Files \ D : ~Moving(call[x], h) BY <1>2, <1>5, <1>11, Zenon DEF Moving
<1>17. \A y \in Contexts \ {x} : lock = y => lock' = y BY <1>3, <1>5, Zenon
<1>18. call' = [call EXCEPT ![x] = c] BY <1>3, <1>9, Zenon
<1> QED BY <1>1, <1>8, <1>10, <1>13, <1>14, <1>15, <1>16, <1>17, <1>18, OneStep, Zenon

\* Who copies is alone with both descriptions.
LEMMA CopyAlone ==
    ASSUME Assumptions, IInv, NEW x \in Contexts, call[x].g # None
    PROVE  \A y \in Contexts \ {x}, h \in {call[x].f, call[x].g} :
               ~Moving(call[y], h) /\ h \notin {call[y].f, call[y].g}
<1> SUFFICES ASSUME NEW y \in Contexts \ {x}, NEW h \in {call[x].f, call[x].g}
             PROVE  ~Moving(call[y], h) /\ h \notin {call[y].f, call[y].g}
  OBVIOUS
<1>1. y \in Contexts /\ y # x OBVIOUS
<1>2. Separate(call[x], call[y]) BY <1>1, CallCases, Zenon
<1>3. h \notin {call[y].f, call[y].g} BY <1>2, Zenon DEF Separate
<1> QED BY <1>3, Zenon DEF Moving

\* A copy is called: both positions are saved, and moved where an offset is
\* given; or the seek of the output is refused, and the call ends.
LEMMA CopyFileRangeIInv ==
    ASSUME Assumptions, IInv, NEW x \in Contexts, CopyFileRange(x)
    PROVE  IInv'
<1>0. TypeOK BY Zenon DEF IInv
<1>1. UNCHANGED <<direct, lock>> /\ call[x].pc = "idle" BY Zenon DEF CopyFileRange, At
<1>2. PICK fg \in Copies, o \in {None} \cup 0..Size, t \in {None} \cup 0..Size, w \in Wants :
         LET f == fg[1]
             g == fg[2]
             p == IF o = None THEN pos ELSE [pos EXCEPT ![f] = o]
         IN  /\ Apart(f) /\ Apart(g) /\ (t = None => pos[g] <= Size)
             /\ \/ /\ pos' = IF t = None THEN p ELSE [p EXCEPT ![g] = t]
                   /\ Put(x, [Idle EXCEPT !.pc = "read", !.f = f, !.g = g, !.from = o, !.to = t,
                                          !.want = w, !.keep = <<pos[f], p[g]>>,
                                          !.begun = <<IF o = None THEN pos[f] ELSE o,
                                                      IF t = None THEN pos[g] ELSE t>>])
                   /\ UNCHANGED plain
                \/ /\ o # None /\ t # None
                   /\ pos' = p /\ plain' = [plain EXCEPT ![f] = None]
                   /\ UNCHANGED call
  BY Zenon DEF CopyFileRange
<1>3. PICK f, g : f = fg[1] /\ g = fg[2] OBVIOUS
<1>4. f \in Files /\ g \in Files /\ f # g BY <1>2, <1>3, Zenon DEF Assumptions
<1>5. /\ None \notin Nat /\ Size \in Nat /\ w \in Nat
      /\ (o = None \/ o \in Nat) /\ (t = None \/ t \in Nat)
      /\ f # None /\ g # None
  <2>1. Wants \subseteq Nat /\ None \notin Nat /\ Size \in Nat /\ None \notin Files
    BY Zenon DEF Assumptions
  <2>2. 0..Size \subseteq Nat BY <2>1
  <2> QED BY <1>4, <2>1, <2>2, Zenon
<1>6. pos[f] \in Nat /\ pos[g] \in Nat BY <1>0, <1>4, Zenon DEF TypeOK
<1>7. PICK p : p = IF o = None THEN pos ELSE [pos EXCEPT ![f] = o] BY Zenon
<1>8. /\ p \in [Files -> Nat] /\ p[g] = pos[g] /\ p[f] = IF o = None THEN pos[f] ELSE o
      /\ \A h \in Files \ {f} : p[h] = pos[h]
  BY <1>0, <1>4, <1>5, <1>7, Zenon DEF TypeOK
<1>9. PICK a, b : a = (IF o = None THEN pos[f] ELSE o) /\ b = (IF t = None THEN pos[g] ELSE t)
  OBVIOUS
<1>10. a \in Nat /\ b \in Nat BY <1>5, <1>6, <1>9, Zenon
<1>11. Apart(f) /\ Apart(g) BY <1>2, <1>3, Zenon
<1>20. /\ plain[f] \in {pos[f], None} /\ plain[g] \in {pos[g], None}
       /\ \A y \in Contexts, h \in {f, g} : h \notin {call[y].f, call[y].g} /\ ~Moving(call[y], h)
  BY <1>4, <1>11, ApartFree, Zenon
<1>28. call[x] = Idle /\ \A h \in Files : ~Moving(call[x], h)
  <2>1. call[x] = Idle BY <1>1, CallCases, Zenon
  <2> QED BY <2>1, IdleFree, Zenon
<1>29. direct' = direct /\ lock' = lock /\ \A y \in Contexts \ {x} : lock = y => lock' = y
  BY <1>1, Zenon
<1>13. PICK k, e : k = <<pos[f], p[g]>> /\ e = <<a, b>> BY Zenon
<1>14. k \in Seq(Nat) /\ e \in Seq(Nat) /\ k[1] = pos[f] /\ k[2] = pos[g] /\ e[1] = a /\ e[2] = b
  BY <1>6, <1>8, <1>10, <1>13
<1>15. PICK c : c = [Idle EXCEPT !.pc = "read", !.f = f, !.g = g, !.from = o, !.to = t,
                                 !.want = w, !.keep = k, !.begun = e]
  OBVIOUS
<1>16. \/ /\ pos' = IF t = None THEN p ELSE [p EXCEPT ![g] = t]
          /\ call' = [call EXCEPT ![x] = c] /\ plain' = plain
       \/ /\ pos' = p /\ plain' = [plain EXCEPT ![f] = None] /\ call' = call
  BY <1>2, <1>3, <1>7, <1>9, <1>13, <1>15, Zenon DEF Put
<1>30. CASE /\ pos' = IF t = None THEN p ELSE [p EXCEPT ![g] = t]
            /\ call' = [call EXCEPT ![x] = c] /\ plain' = plain
  <2>12. /\ pos' \in [Files -> Nat] /\ pos'[g] = b /\ pos'[f] = a
         /\ \A h \in Files \ {f, g} : pos'[h] = pos[h]
    <3>1. CASE t = None BY <1>8, <1>9, <1>30, <3>1, Zenon
    <3>2. CASE t # None BY <1>4, <1>5, <1>8, <1>9, <1>30, <3>2, Zenon
    <3> QED BY <3>1, <3>2, Zenon
  <2>17. c = [pc |-> "read", f |-> f, g |-> g, from |-> o, to |-> t, v |-> <<>>, want |-> w,
              keep |-> k, block |-> 0, moved |-> <<>>, begun |-> e, short |-> FALSE]
    BY <1>15, Zenon DEF Idle
  <2>18. /\ c.pc = "read" /\ c.f = f /\ c.g = g /\ c.from = o /\ c.to = t /\ c.keep = k
         /\ c.begun = e /\ c.moved = <<>>
    BY <2>17
  <2>19. c \in Calls(c.moved)
    <3>1. <<>> \in Seq(Nat) OBVIOUS
    <3> QED BY <1>4, <1>5, <1>14, <2>17, <2>18, <3>1 DEF Calls
  <2>21. plain' \in [Files -> Nat \cup {None}] /\ plain' = plain BY <1>0, <1>30, Zenon DEF TypeOK
  <2>22. CallOK(x, c)'
    <3>1. DOMAIN c.moved = {} /\ c.moved \in Seq(Nat \X Nat) /\ Len(c.moved) = 0 BY <2>18
    <3>2. a = a + Len(c.moved) /\ b = b + Len(c.moved) BY <1>10, <3>1
    <3>3. c.from = None => plain'[f] \in {e[1], None} BY <1>9, <1>14, <1>20, <2>18, <2>21, Zenon
    <3>4. c.to = None => plain'[g] \in {e[2], None} BY <1>9, <1>14, <1>20, <2>18, <2>21, Zenon
    <3>5. /\ k[1] \in Nat /\ k[2] \in Nat
          /\ plain'[f] \in {k[1], None} /\ plain'[g] \in {k[2], None}
      BY <1>6, <1>14, <1>20, <2>21, Zenon
    <3>6. pos'[g] = e[2] + Len(c.moved) /\ pos'[f] = e[1] + Len(c.moved)
      BY <1>14, <2>12, <3>2, Zenon
    <3>7. c.pc # "write" BY <2>18
    <3>9. FollowBoth(c.moved, e[1], e[2]) BY <3>1, Zenon DEF FollowBoth
    <3>8. CopyOK(c)'
      BY <1>4, <1>10, <1>14, <2>18, <3>1, <3>3, <3>4, <3>5, <3>6, <3>7, <3>9, ZenonT(40) DEF CopyOK, Agrees
    <3> QED BY <2>18, <3>8 DEF CallOK
  <2>23. ASSUME NEW y \in Contexts \ {x} PROVE Separate(c, call[y]) /\ Separate(call[y], c)
    BY <1>20, <2>18, Zenon DEF Separate
  <2>24. PICK D \in SUBSET Files : D = {f, g} BY <1>4, Zenon
  <2>25. \A h \in D : Moving(c, h) BY <1>5, <2>18, <2>24, Zenon DEF Moving
  <2>26. \A h \in Files \ D : pos'[h] = pos[h] /\ plain'[h] = plain[h]
    BY <2>12, <2>21, <2>24, Zenon
  <2>27. \A y \in Contexts \ {x}, h \in D : ~Moving(call[y], h) BY <1>20, <2>24, Zenon
  <2> QED
    BY <1>28, <1>29, <1>30, <2>12, <2>19, <2>21, <2>22, <2>23, <2>25, <2>26, <2>27, OneStep, Zenon
<1>31. CASE pos' = p /\ plain' = [plain EXCEPT ![f] = None] /\ call' = call
  <2>1. PICK i : i = Idle OBVIOUS
  <2>2. i \in Calls(i.moved) /\ CallOK(x, i)'
        /\ \A y \in Contexts : Separate(i, call[y]) /\ Separate(call[y], i)
    BY <2>1, IdleFree, Zenon
  <2>3. call' = [call EXCEPT ![x] = i] BY <1>0, <1>28, <1>31, <2>1, Zenon DEF TypeOK
  <2>4. /\ plain' \in [Files -> Nat \cup {None}] /\ plain'[f] = None
        /\ \A h \in Files \ {f} : plain'[h] = plain[h]
    BY <1>0, <1>4, <1>31, Zenon DEF TypeOK
  <2>5. PICK D \in SUBSET Files : D = {f} BY <1>4, Zenon
  <2>6. \A h \in Files \ D : pos'[h] = pos[h] /\ plain'[h] = plain[h]
    BY <1>8, <1>31, <2>4, <2>5, Zenon
  <2>7. \A h \in D : plain'[h] \in {pos'[h], None} BY <2>4, <2>5, Zenon
  <2>8. \A y \in Contexts \ {x}, h \in D : ~Moving(call[y], h) BY <1>20, <2>5, Zenon
  <2>9. pos' \in [Files -> Nat] BY <1>8, <1>31, Zenon
  <2> QED BY <1>28, <1>29, <2>2, <2>3, <2>4, <2>6, <2>7, <2>8, <2>9, OneStep, Zenon
<1> QED BY <1>16, <1>30, <1>31, Zenon

\* What a copy in progress has, spelled out.
LEMMA CopyIs ==
    ASSUME Assumptions, IInv, NEW x \in Contexts, NEW l, l = call[x], l.pc \in {"read", "write", "finish"},
           NEW a, a = l.begun[1], NEW b, b = l.begun[2]
    PROVE  /\ l \in Calls(l.moved) /\ CopyOK(l)
           /\ l.f \in Files /\ l.g \in Files /\ l.f # l.g /\ l.g # None /\ None \notin Nat
           /\ a \in Nat /\ b \in Nat /\ l.moved \in Seq(Nat \X Nat) /\ Len(l.moved) \in Nat
           /\ l.keep[1] \in Nat /\ l.keep[2] \in Nat
           /\ plain[l.f] \in {l.keep[1], None} /\ plain[l.g] \in {l.keep[2], None}
           /\ l.from = None => plain[l.f] \in {a, None}
           /\ l.to = None => plain[l.g] \in {b, None}
           /\ FollowBoth(l.moved, a, b)
           /\ pos[l.g] = b + Len(l.moved)
           /\ l.pc = "read" \/ (l.pc = "finish" /\ ~l.short) => pos[l.f] = a + Len(l.moved)
           /\ l.pc = "write" => pos[l.f] = a + Len(l.moved) + l.block
           /\ l.block \in Nat /\ pos[l.f] \in Nat /\ pos[l.g] \in Nat
<1>1. l \in Calls(l.moved) /\ CopyOK(l) BY CallCases, Zenon
<1>2. l.f \in Files /\ l.g \in Files /\ l.moved \in Seq(Nat \X Nat) BY <1>1, Zenon DEF CopyOK
<1>3. Len(l.moved) \in Nat BY <1>2
<1>4. l.block \in Nat BY <1>1, Zenon DEF Calls
<1>5. pos[l.f] \in Nat /\ pos[l.g] \in Nat
  BY <1>2, Zenon DEF IInv, TypeOK
<1>6. l.g # None /\ None \notin Nat BY <1>2, Zenon DEF Assumptions
<1> QED BY <1>1, <1>2, <1>3, <1>4, <1>5, <1>6, Zenon DEF CopyOK, Agrees

\* A step of a copy that goes on: the position of one side advances.
LEMMA CopyStep ==
    ASSUME Assumptions, IInv, NEW x \in Contexts, NEW l, l = call[x],
           l.pc \in {"read", "write", "finish"},
           NEW f \in {l.f, l.g}, NEW n \in Nat, pos' = [pos EXCEPT ![f] = n],
           UNCHANGED <<direct, plain, lock>>,
           NEW c, call' = [call EXCEPT ![x] = c], c \in Calls(c.moved), c.f = l.f, c.g = l.g,
           c.pc \in {"read", "write", "finish"}, CopyOK(c)'
    PROVE  IInv'
<1>0. TypeOK BY Zenon DEF IInv
<1>1. l.f \in Files /\ l.g \in Files /\ l.g # None BY CopyIs, Zenon
<1>2. CallOK(x, c)' BY DEF CallOK
<1>3. plain' \in [Files -> Nat \cup {None}] /\ direct' = direct /\ plain' = plain /\ lock' = lock
  BY <1>0, Zenon DEF TypeOK
<1>4. pos' \in [Files -> Nat] /\ \A h \in Files \ {f} : pos'[h] = pos[h]
  BY <1>0, <1>1, Zenon DEF TypeOK
<1>5. PICK D \in SUBSET Files : D = {f} BY <1>1, Zenon
<1>6. \A h \in D : Moving(c, h) BY <1>1, <1>5, Zenon DEF Moving
<1>7. \A h \in Files \ D : pos'[h] = pos[h] /\ plain'[h] = plain[h] BY <1>3, <1>4, <1>5, Zenon
<1>8. \A y \in Contexts \ {x}, h \in D : ~Moving(call[y], h)
  BY <1>1, <1>3, <1>5, CopyAlone, Zenon
<1>9. \A y \in Contexts \ {x} : Separate(c, call[y]) /\ Separate(call[y], c) BY SameFiles, Zenon
<1>10. \A h \in Files : Moving(call[x], h) => Moving(c, h)
  <2>1. l.pc \notin {"move", "back"} OBVIOUS
  <2> QED BY <2>1, Zenon DEF Moving
<1>11. \A y \in Contexts \ {x} : lock = y => lock' = y BY <1>3, Zenon
<1> QED BY <1>2, <1>3, <1>4, <1>6, <1>7, <1>8, <1>9, <1>10, <1>11, OneStep, Zenon

\* A block is read.
LEMMA CopyReadIInv ==
    ASSUME Assumptions, IInv, NEW x \in Contexts, CopyRead(x)
    PROVE  IInv'
<1>0. TypeOK BY Zenon DEF IInv
<1>1. UNCHANGED <<direct, plain, lock>> /\ call[x].pc = "read" BY Zenon DEF CopyRead, At
<1>2. PICK l : l = call[x] OBVIOUS
<1>3. PICK n \in 0..Least(Least(l.want - Len(l.moved), Block), Left(pos[l.f])) :
          /\ pos' = [pos EXCEPT ![l.f] = @ + n]
          /\ Put(x, [l EXCEPT !.block = n, !.pc = IF n = 0 THEN "finish" ELSE "write"])
  BY <1>2, Zenon DEF CopyRead
<1>4. n \in Nat OBVIOUS
<1>5. PICK k : k = IF n = 0 THEN "finish" ELSE "write" OBVIOUS
<1>6. PICK c : c = [l EXCEPT !.block = n, !.pc = k] OBVIOUS
<1>7. call' = [call EXCEPT ![x] = c] BY <1>3, <1>5, <1>6, Zenon DEF Put
<1>8. PICK a, b : a = l.begun[1] /\ b = l.begun[2] BY Zenon
<1>9. l.pc = "read" BY <1>1, <1>2, Zenon
<1>10. /\ l \in Calls(l.moved) /\ CopyOK(l) /\ l.f \in Files /\ l.g \in Files /\ l.f # l.g
       /\ a \in Nat /\ Len(l.moved) \in Nat /\ pos[l.f] = a + Len(l.moved) /\ pos[l.f] \in Nat
  BY <1>2, <1>8, <1>9, CopyIs, ZenonT(40)
<1>11. k \in {"write", "finish"} BY <1>5, Zenon
<1>12. /\ c.f = l.f /\ c.g = l.g /\ c.from = l.from /\ c.to = l.to /\ c.keep = l.keep
       /\ c.begun = l.begun /\ c.moved = l.moved /\ c.block = n /\ c.pc = k /\ c.short = l.short
       /\ c \in Calls(c.moved)
  BY <1>4, <1>6, <1>10, <1>11, Zenon DEF Calls
<1>13. PICK q \in Nat : q = pos[l.f] + n BY <1>4, <1>10
<1>14. pos' = [pos EXCEPT ![l.f] = q] BY <1>3, <1>13, Zenon
<1>15. pos'[l.f] = q /\ pos'[l.g] = pos[l.g] BY <1>0, <1>10, <1>14, Zenon DEF TypeOK
<1>16. CopyOK(c)'
  <2>1. k = "write" => pos'[c.f] = a + Len(c.moved) + c.block
    BY <1>10, <1>12, <1>13, <1>15, Zenon
  <2>2. k = "finish" => n = 0 BY <1>5
  <2>3. n = 0 => q = pos[l.f] BY <1>10, <1>13
  <2>4. k = "finish" => pos'[c.f] = a + Len(c.moved) BY <1>10, <1>12, <1>15, <2>2, <2>3, Zenon
  <2>5. k # "read" BY <1>11
  <2>6. plain' = plain /\ pos'[c.g] = pos[c.g] BY <1>1, <1>12, <1>15, Zenon
  <2> QED BY <1>8, <1>10, <1>12, <2>1, <2>4, <2>5, <2>6, Zenon DEF CopyOK, Agrees
<1>17. c.pc \in {"read", "write", "finish"} BY <1>11, <1>12, Zenon
<1> QED BY <1>1, <1>2, <1>7, <1>9, <1>12, <1>14, <1>16, <1>17, CopyStep, Zenon

\* The block is written, or as much of it as is taken.
LEMMA CopyWriteIInv ==
    ASSUME Assumptions, IInv, NEW x \in Contexts, CopyWrite(x)
    PROVE  IInv'
<1>0. TypeOK BY Zenon DEF IInv
<1>1. UNCHANGED <<direct, plain, lock>> /\ call[x].pc = "write" BY Zenon DEF CopyWrite, At
<1>2. PICK l : l = call[x] OBVIOUS
<1>3. PICK n, p, q : n = l.block /\ p = pos[l.f] - n /\ q = pos[l.g] OBVIOUS
<1>4. PICK m \in 0..n :
          /\ pos' = [pos EXCEPT ![l.g] = @ + m]
          /\ Put(x, [l EXCEPT !.moved = @ \o [i \in 1..m |-> <<p + i - 1, q + i - 1>>],
                              !.short = m < n,
                              !.pc = IF m < n \/ Len(l.moved) + m = l.want THEN "finish" ELSE "read"])
  BY <1>2, <1>3, ZenonT(40) DEF CopyWrite
<1>5. PICK a, b : a = l.begun[1] /\ b = l.begun[2] OBVIOUS
<1>6. l.pc = "write" BY <1>1, <1>2, Zenon
<1>7. /\ l \in Calls(l.moved) /\ CopyOK(l) /\ l.f \in Files /\ l.g \in Files /\ l.f # l.g
      /\ a \in Nat /\ b \in Nat /\ Len(l.moved) \in Nat /\ l.moved \in Seq(Nat \X Nat)
      /\ pos[l.f] = a + Len(l.moved) + n /\ q = b + Len(l.moved) /\ n \in Nat /\ q \in Nat
      /\ FollowBoth(l.moved, a, b)
  <2>1. l.pc \in {"read", "write", "finish"} BY <1>6
  <2>2. /\ l \in Calls(l.moved) /\ CopyOK(l) /\ l.f \in Files /\ l.g \in Files /\ l.f # l.g
        /\ a \in Nat /\ b \in Nat /\ Len(l.moved) \in Nat /\ l.moved \in Seq(Nat \X Nat)
        /\ pos[l.f] = a + Len(l.moved) + l.block /\ pos[l.g] = b + Len(l.moved)
        /\ l.block \in Nat /\ pos[l.g] \in Nat
        /\ FollowBoth(l.moved, a, b)
    <3>1. /\ l \in Calls(l.moved) /\ CopyOK(l) /\ l.f \in Files /\ l.g \in Files /\ l.f # l.g
          /\ a \in Nat /\ b \in Nat /\ Len(l.moved) \in Nat /\ l.moved \in Seq(Nat \X Nat)
          /\ FollowBoth(l.moved, a, b)
      BY <1>2, <1>5, <2>1, CopyIs, Zenon
    <3>2. l.block \in Nat /\ pos[l.g] \in Nat BY <1>2, <1>5, <2>1, CopyIs, Zenon
    <3>3. pos[l.f] = a + Len(l.moved) + l.block /\ pos[l.g] = b + Len(l.moved)
      BY <1>5, <1>6, <3>1, Zenon DEF CopyOK
    <3> QED BY <3>1, <3>2, <3>3, Zenon
  <2> QED BY <1>3, <2>2, Zenon
<1>8. m \in Nat /\ m <= n /\ p = a + Len(l.moved) BY <1>3, <1>4, <1>7
<1>9. PICK s : s = [i \in 1..m |-> <<p + i - 1, q + i - 1>>] BY Zenon
<1>10. PICK mv : mv = l.moved \o s BY Zenon
<1>11. PICK k : k = IF m < n \/ Len(l.moved) + m = l.want THEN "finish" ELSE "read" OBVIOUS
<1>12. PICK z \in BOOLEAN : z = (m < n)
  <2>1. CASE m < n
    <3>1. TRUE = (m < n) BY <2>1
    <3> QED BY <3>1, Zenon
  <2>2. CASE ~(m < n)
    <3>1. FALSE = (m < n) BY <2>2
    <3> QED BY <3>1, Zenon
  <2> QED BY <2>1, <2>2, Zenon
<1>13. PICK c : c = [l EXCEPT !.moved = mv, !.short = z, !.pc = k] OBVIOUS
<1>14. call' = [call EXCEPT ![x] = c]
  <2>1. [l EXCEPT !.moved = @ \o [i \in 1..m |-> <<p + i - 1, q + i - 1>>],
                  !.short = m < n,
                  !.pc = IF m < n \/ Len(l.moved) + m = l.want THEN "finish" ELSE "read"] = c
    BY <1>9, <1>10, <1>11, <1>12, <1>13, Zenon
  <2> QED BY <1>4, <2>1, Zenon DEF Put
<1>15. /\ mv \in Seq(Nat \X Nat) /\ Len(mv) = Len(l.moved) + m
       /\ FollowBoth(mv, a, b)
  <2>1. p \in Nat BY <1>7, <1>8
  <2>2. s \in Seq(Nat \X Nat) /\ Len(s) = m
    <3>1. q \in Nat /\ m \in Nat BY <1>7, <1>8, Zenon
    <3> QED BY <1>9, <2>1, <3>1, RunOfPairs, Zenon
  <2>3. FollowBoth(s, p, q) BY <1>9, Zenon DEF FollowBoth
  <2>4. PICK o : o = l.moved OBVIOUS
  <2>5. o \in Seq(Nat \X Nat) /\ p = a + Len(o) /\ q = b + Len(o)
        /\ FollowBoth(o, a, b)
    BY <1>7, <1>8, <2>4, Zenon
  <2>6. /\ o \o s \in Seq(Nat \X Nat) /\ Len(o \o s) = Len(o) + Len(s)
        /\ FollowBoth(o \o s, a, b)
    <3>1. /\ s \in Seq(Nat \X Nat) /\ a \in Nat /\ b \in Nat /\ o \in Seq(Nat \X Nat)
          /\ FollowBoth(o, a, b) /\ FollowBoth(s, a + Len(o), b + Len(o))
      BY <1>7, <2>2, <2>3, <2>5, Zenon
    <3> QED BY <3>1, CopiedOn, Zenon
  <2> QED BY <1>10, <2>2, <2>4, <2>6, Zenon
<1>16. k \in {"read", "finish"} BY <1>11, Zenon
<1>17. /\ c.f = l.f /\ c.g = l.g /\ c.from = l.from /\ c.to = l.to /\ c.keep = l.keep
       /\ c.begun = l.begun /\ c.moved = mv /\ c.pc = k /\ c.short = z
       /\ c \in Calls(c.moved)
  BY <1>7, <1>13, <1>16, Zenon DEF Calls
<1>18. PICK r \in Nat : r = pos[l.g] + m BY <1>3, <1>7, <1>8
<1>19. pos' = [pos EXCEPT ![l.g] = r] BY <1>4, <1>18, Zenon
<1>20. pos'[l.g] = r /\ pos'[l.f] = pos[l.f] BY <1>0, <1>7, <1>19, Zenon DEF TypeOK
<1>21. r = b + Len(mv)
  <2>1. b \in Nat /\ Len(l.moved) \in Nat /\ m \in Nat BY <1>7, <1>8, Zenon
  <2>2. (b + Len(l.moved)) + m = b + (Len(l.moved) + m) BY <2>1
  <2> QED BY <1>3, <1>7, <1>15, <1>18, <2>2, Zenon
<1>22. ~z => pos[l.f] = a + Len(mv)
  <2>1. ~(m < n) => m = n
    <3>1. m \in Nat /\ n \in Nat /\ m <= n BY <1>7, <1>8, Zenon
    <3> QED BY <3>1
  <2>2. a \in Nat /\ Len(l.moved) \in Nat /\ m \in Nat BY <1>7, <1>8, Zenon
  <2>3. a + Len(l.moved) + m = a + (Len(l.moved) + m) BY <2>2
  <2> QED BY <1>7, <1>12, <1>15, <2>1, <2>3, Zenon
<1>23. k = "read" => ~z BY <1>11, <1>12, Zenon
<1>24. CopyOK(c)'
  <2>1. k # "write" BY <1>16
  <2>2. plain' = plain BY <1>1, Zenon
  <2>3. k = "read" \/ (k = "finish" /\ ~z) => pos'[c.f] = a + Len(mv)
    BY <1>17, <1>20, <1>22, <1>23, Zenon
  <2>4. pos'[c.g] = b + Len(mv) BY <1>17, <1>20, <1>21, Zenon
  <2> QED BY <1>5, <1>7, <1>15, <1>17, <2>1, <2>2, <2>3, <2>4, Zenon DEF CopyOK, Agrees
<1>25. c.pc \in {"read", "write", "finish"} BY <1>16, <1>17, Zenon
<1> QED BY <1>1, <1>2, <1>6, <1>14, <1>17, <1>19, <1>24, <1>25, CopyStep, Zenon

\* A copy ends: the positions saved are put back where an offset was given and
\* that is not refused, and the others have advanced.
LEMMA CopyFinishIInv ==
    ASSUME Assumptions, IInv, NEW x \in Contexts, CopyFinish(x)
    PROVE  IInv'
<1>0. pos \in [Files -> Nat] /\ plain \in [Files -> Nat \cup {None}] BY Zenon DEF IInv, TypeOK
<1>1. UNCHANGED <<direct, lock>> /\ call[x].pc = "finish" BY Zenon DEF CopyFinish, At
<1> DEFINE Given(l) == (IF l.from = None THEN {} ELSE {l.f}) \cup (IF l.to = None THEN {} ELSE {l.g})
           Backs(l, back) ==
               /\ pos' = [h \in Files |-> IF h \notin back THEN pos[h]
                                         ELSE l.keep[IF h = l.f THEN 1 ELSE 2]]
               /\ plain' = [h \in Files |->
                      IF h \notin {l.f, l.g} \/ h \in back THEN plain[h]
                      ELSE IF h \in Given(l) \/ (h = l.f /\ l.short) THEN None
                      ELSE Further(plain[h], Len(l.moved))]
<1>2. PICK l : l = call[x] /\ \E back \in SUBSET Given(l) : Backs(l, back) BY Zenon DEF CopyFinish
<1>3. PICK back \in SUBSET Given(l) : Backs(l, back) BY <1>2, Zenon
<1>4. call' = [call EXCEPT ![x] = Idle] BY Zenon DEF CopyFinish, Put
<1>5. PICK a, b : a = l.begun[1] /\ b = l.begun[2] OBVIOUS
<1>6. l.pc = "finish" BY <1>1, <1>2, Zenon
<1>7. /\ l.f \in Files /\ l.g \in Files /\ l.f # l.g /\ l.g # None /\ Len(l.moved) \in Nat
      /\ l.keep[1] \in Nat /\ l.keep[2] \in Nat
      /\ plain[l.f] \in {l.keep[1], None} /\ plain[l.g] \in {l.keep[2], None}
      /\ l.from = None => plain[l.f] \in {a, None}
      /\ l.to = None => plain[l.g] \in {b, None}
      /\ pos[l.g] = b + Len(l.moved)
      /\ ~l.short => pos[l.f] = a + Len(l.moved)
  <2>1. l.pc \in {"read", "write", "finish"} BY <1>6
  <2>2. /\ l.f \in Files /\ l.g \in Files /\ l.f # l.g /\ l.g # None /\ Len(l.moved) \in Nat
    BY <1>2, <1>5, <2>1, CopyIs, Zenon
  <2>3. CopyOK(l) BY <1>2, <2>1, CallCases, Zenon
  <2>4. /\ l.keep[1] \in Nat /\ l.keep[2] \in Nat
        /\ plain[l.f] \in {l.keep[1], None} /\ plain[l.g] \in {l.keep[2], None}
        /\ l.from = None => plain[l.f] \in {a, None}
        /\ l.to = None => plain[l.g] \in {b, None}
    BY <1>5, <2>3, Zenon DEF CopyOK, Agrees
  <2>5. pos[l.g] = b + Len(l.moved) /\ (~l.short => pos[l.f] = a + Len(l.moved))
    BY <1>5, <1>6, <2>3, Zenon DEF CopyOK
  <2> QED BY <2>2, <2>4, <2>5, Zenon
<1>8. /\ l.f \in Given(l) <=> l.from # None
      /\ l.g \in Given(l) <=> l.to # None
      /\ back \subseteq {l.f, l.g}
  BY <1>7, Zenon
<1>9. ASSUME NEW h \in Files
      PROVE  /\ pos'[h] = IF h \notin back THEN pos[h] ELSE l.keep[IF h = l.f THEN 1 ELSE 2]
             /\ plain'[h] = IF h \notin {l.f, l.g} \/ h \in back THEN plain[h]
                            ELSE IF h \in Given(l) \/ (h = l.f /\ l.short) THEN None
                            ELSE Further(plain[h], Len(l.moved))
  BY <1>3, Zenon
<1>10. plain'[l.f] \in {pos'[l.f], None}
  <2>1. CASE l.f \in back BY <1>7, <1>9, <2>1, Zenon
  <2>2. CASE l.f \notin back /\ (l.from # None \/ l.short)
    <3>1. plain'[l.f] = None BY <1>7, <1>8, <1>9, <2>2, Zenon
    <3> QED BY <3>1, Zenon
  <2>3. CASE l.f \notin back /\ l.from = None /\ ~l.short
    <3>1. plain'[l.f] = Further(plain[l.f], Len(l.moved)) /\ pos'[l.f] = pos[l.f]
      BY <1>7, <1>8, <1>9, <2>3, Zenon
    <3> QED BY <1>7, <2>3, <3>1, Zenon DEF Further
  <2> QED BY <2>1, <2>2, <2>3, Zenon
<1>11. plain'[l.g] \in {pos'[l.g], None}
  <2>1. CASE l.g \in back BY <1>7, <1>9, <2>1, Zenon
  <2>2. CASE l.g \notin back /\ l.to # None
    <3>1. plain'[l.g] = None BY <1>7, <1>8, <1>9, <2>2, Zenon
    <3> QED BY <3>1, Zenon
  <2>3. CASE l.g \notin back /\ l.to = None
    <3>1. plain'[l.g] = Further(plain[l.g], Len(l.moved)) /\ pos'[l.g] = pos[l.g]
      BY <1>7, <1>8, <1>9, <2>3, Zenon
    <3> QED BY <1>7, <2>3, <3>1, Zenon DEF Further
  <2> QED BY <2>1, <2>2, <2>3, Zenon
<1>12. \A h \in Files \ {l.f, l.g} : pos'[h] = pos[h] /\ plain'[h] = plain[h] BY <1>8, <1>9, Zenon
<1>13. pos' \in [Files -> Nat] /\ plain' \in [Files -> Nat \cup {None}]
  <2>1. pos' = [h \in Files |-> pos'[h]] /\ plain' = [h \in Files |-> plain'[h]] BY <1>3
  <2>2. \A h \in Files : pos'[h] \in Nat BY <1>0, <1>7, <1>9, Zenon
  <2>3. \A h \in Files : plain'[h] \in Nat \cup {None}
    <3>1. plain'[l.f] \in Nat \cup {None} /\ plain'[l.g] \in Nat \cup {None}
      BY <1>7, <1>10, <1>11, <2>2, Zenon
    <3>2. \A h \in Files : plain[h] \in Nat \cup {None} BY <1>0, Zenon
    <3> QED BY <1>12, <3>1, <3>2, Zenon
  <2> QED BY <2>1, <2>2, <2>3, Zenon
<1>14. PICK c : c = Idle OBVIOUS
<1>15. c \in Calls(c.moved) /\ CallOK(x, c)'
       /\ \A y \in Contexts : Separate(c, call[y]) /\ Separate(call[y], c)
  BY <1>14, IdleFree, Zenon
<1>16. PICK D \in SUBSET Files : D = {l.f, l.g} BY <1>7, Zenon
<1>17. \A h \in Files \ D : pos'[h] = pos[h] /\ plain'[h] = plain[h] BY <1>12, <1>16, Zenon
<1>18. \A h \in D : plain'[h] \in {pos'[h], None} BY <1>10, <1>11, <1>16, Zenon
<1>19. \A y \in Contexts \ {x}, h \in D : ~Moving(call[y], h)
  <2>1. call[x].g # None /\ D = {call[x].f, call[x].g} BY <1>2, <1>7, <1>16, Zenon
  <2> QED BY <2>1, CopyAlone, Zenon
<1>20. \A h \in Files \ D : ~Moving(call[x], h) BY <1>2, <1>6, <1>16 DEF Moving
<1>21. call' = [call EXCEPT ![x] = c] /\ direct' = direct BY <1>1, <1>4, <1>14, Zenon
<1>22. \A y \in Contexts \ {x} : lock = y => lock' = y BY <1>1, Zenon
<1> QED BY <1>13, <1>15, <1>17, <1>18, <1>19, <1>20, <1>21, <1>22, OneStep, Zenon

\* The invariant holds at first.
LEMMA InitIInv ==
    ASSUME Assumptions, Init
    PROVE  IInv
<1>1. Idle \in Calls(Idle.moved)
  <2>1. Idle.moved = <<>> /\ <<>> \in Seq(Nat) BY DEF Idle
  <2> QED BY <2>1 DEF Idle, Calls
<1>2. Idle.pc = "idle" /\ Idle.f = None /\ Idle.g = None BY DEF Idle
<1>3. \A x \in Contexts : call[x] = Idle BY Zenon DEF Init
<1>4. TypeOK
  <2>1. call = [x \in Contexts |-> call[x]] BY Zenon DEF Init
  <2>2. pos \in [Files -> Nat] /\ plain \in [Files -> Nat \cup {None}] BY DEF Init
  <2> QED BY <1>1, <1>3, <2>1, <2>2, Zenon DEF TypeOK, Init
<1>5. \A x \in Contexts : CallOK(x, Idle) BY <1>2 DEF CallOK
<1>6. Separate(Idle, Idle) BY <1>2, Zenon DEF Separate
<1>7. \A h \in Files : Agrees(pos[h], h) BY Zenon DEF Init, Agrees
<1> QED BY <1>3, <1>4, <1>5, <1>6, <1>7, Zenon DEF IInv

\* A step that changes nothing.
LEMMA StutterIInv ==
    ASSUME IInv, UNCHANGED vars
    PROVE  IInv'
<1>0. direct' = direct /\ pos' = pos /\ plain' = plain /\ lock' = lock /\ call' = call
  BY DEF vars
<1>1. TypeOK' BY <1>0 DEF IInv, TypeOK, Calls
<1>2. \A x \in Contexts : CallOK(x, call[x])'
  <2>1. \A x, c : (TransferOK(x, c) <=> TransferOK(x, c)') /\ (CopyOK(c) <=> CopyOK(c)')
    BY <1>0 DEF TransferOK, CopyOK, Agrees
  <2> QED BY <1>0, <2>1 DEF IInv, CallOK
<1>3. \A x, y \in Contexts : x # y => Separate(call[x], call[y])' BY <1>0 DEF IInv, Separate
<1>4. \A h \in Files : (\A x \in Contexts : ~Moving(call[x], h))' => Agrees(pos[h], h)'
  BY <1>0 DEF IInv, Moving, Agrees
<1> QED BY <1>1, <1>2, <1>3, <1>4, Zenon DEF IInv

\* The invariant says what a call moved and where it leaves the positions.
LEMMA IInvTransfers ==
    ASSUME Assumptions, IInv
    PROVE  MovesTheRightBytes /\ PositionsKept
<1>1. ASSUME NEW x \in Contexts, NEW i \in DOMAIN call[x].moved
      PROVE  call[x].moved[i] = IF call[x].g = None THEN call[x].begun[1] + i - 1
                                ELSE <<call[x].begun[1] + i - 1, call[x].begun[2] + i - 1>>
  <2>0. PICK l : l = call[x] OBVIOUS
  <2>1. l.pc \in {"idle", "lock", "seek", "move", "back", "read", "write", "finish"}
    <3>1. l \in Calls(l.moved) BY <2>0, CallCases, Zenon
    <3> QED BY <3>1, Zenon DEF Calls
  <2>2. CASE l.pc = "idle"
    <3>1. l = Idle BY <2>0, <2>2, CallCases, Zenon
    <3>2. Idle.moved = <<>> BY DEF Idle
    <3>3. DOMAIN <<>> = {} OBVIOUS
    <3> QED BY <1>1, <2>0, <3>1, <3>2, <3>3, Zenon
  <2>3. CASE l.pc \in {"lock", "seek", "move", "back"}
    <3>1. TransferOK(x, l) BY <2>0, <2>3, CallCases, Zenon
    <3> QED BY <1>1, <2>0, <3>1, Zenon DEF TransferOK, Follow
  <2>4. CASE l.pc \in {"read", "write", "finish"}
    <3>1. CopyOK(l) /\ l.g # None BY <2>0, <2>4, CopyIs, Zenon
    <3> QED BY <1>1, <2>0, <3>1, Zenon DEF CopyOK, FollowBoth
  <2> QED BY <2>1, <2>2, <2>3, <2>4, Zenon
<1>2. PositionsKept BY ApartFree, Zenon DEF PositionsKept
<1> QED BY <1>1, <1>2, Zenon DEF MovesTheRightBytes

\* What every transfer and copy moves is what follows the offset it was given,
\* through short transfers and refusals and whoever else transfers; and the
\* positions it only borrowed are back, those it used as far on as it moved,
\* but for a refused seek back, a refused seek of a copy's output after its
\* input's, and a short write of a copy that uses its input's position.
THEOREM TransferredAlways == Assumptions => (Spec => [](MovesTheRightBytes /\ PositionsKept))
<1> SUFFICES ASSUME Assumptions PROVE Spec => [](MovesTheRightBytes /\ PositionsKept) OBVIOUS
<1>1. Init => IInv BY InitIInv
<1>2. IInv /\ [Next]_vars => IInv'
  <2> SUFFICES ASSUME IInv, [Next]_vars PROVE IInv' OBVIOUS
  <2>1. CASE UNCHANGED vars BY <2>1, StutterIInv
  <2>2. ASSUME NEW x \in Contexts, NEW f \in Files, Read(x, f) \/ Lseek(x, f) PROVE IInv'
    BY <2>2, ReadIInv
  <2>3. ASSUME NEW x \in Contexts, NEW f \in Files, TransferAt(x, f) PROVE IInv'
    BY <2>3, TransferAtIInv
  <2>4. ASSUME NEW x \in Contexts, Lock(x) \/ Seek(x) \/ Move(x) \/ Back(x) PROVE IInv'
    BY <2>4, LockIInv, SeekIInv, MoveIInv, BackIInv
  <2>5. ASSUME NEW x \in Contexts,
               CopyFileRange(x) \/ CopyRead(x) \/ CopyWrite(x) \/ CopyFinish(x)
        PROVE  IInv'
    BY <2>5, CopyFileRangeIInv, CopyReadIInv, CopyWriteIInv, CopyFinishIInv
  <2> QED BY <2>1, <2>2, <2>3, <2>4, <2>5, Zenon DEF Next
<1>3. IInv => MovesTheRightBytes /\ PositionsKept BY IInvTransfers
<1> QED BY <1>1, <1>2, <1>3, PTL DEF Spec
=============================================================================
