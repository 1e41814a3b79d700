--------------------------- MODULE AsyncTcpOrder ---------------------------
(***************************************************************************)
(* What holds of the events of the connections, with every number of       *)
(* clients, slots, events and places in the queue, while the network is    *)
(* still during _remove_events_with_arg and gives no client the address of *)
(* one whose CLEAR is still in the queue: the events of a client stay in   *)
(* order, none is lost, and none is handled for a client that is deleted.  *)
(* At the end: with a slot for each client every call carries one.         *)
(*                                                                         *)
(* The queue is seen as a set of packets, each at a place, an integer: the *)
(* back of the queue grows upwards, the front, where marks go, downwards.  *)
(* Turning the queue then changes no packet at all, but those it drops.    *)
(***************************************************************************)
EXTENDS AsyncTcpProofs, FiniteSetTheorems

-----------------------------------------------------------------------------
(* The events that wait, as packets: pairs of a place, an integer, and an  *)
(* event.  What is known of the packets of one client, its M, its event s  *)
(* that is being sent, its state o, whether lwIP still tells it things, c, *)
(* how many events were handled and made, h and u, whether its events are  *)
(* being removed, x, and whether it is being closed, z.                    *)

Packets == Int \X Events
Last == {"fin", "error"}
States == {"free", "new", "attached"}
Own(M) == {p \in M : p[2].kind \notin {"accept", "clear"}}
Behind(M, kind) == \A p \in Own(M) : \E m \in M : m[1] < p[1] /\ m[2].kind = kind
Holds(M, kind) == \E m \in M : m[2].kind = kind
Sent(s) == s.kind \notin {"none", "accept"}

\* a packet comes, or goes
Plus(M, r, e) == M \cup {<<r, e>>}
Minus(M, p) == M \ {p}

\* the packet behind b goes, and those before it close the gap
Closed(b, P) == {<<IF p[1] <= b THEN p[1] + 1 ELSE p[1], p[2]>> : p \in {q \in P : q[1] # b + 1}}

\* p is before all others
First(M, p) == \A q \in M : q = p \/ p[1] < q[1]

\* its events came one after the other, and none after its last
InTurn(M, c, h) ==
  /\ \A p, q \in Own(M) : p[1] < q[1] => p[2].n < q[2].n /\ p[2].kind \notin Last
  /\ \A p \in Own(M) : p[2].n > h /\ (p[2].kind \in Last => ~c)

Complete(M, s, h, u) ==
  \A n \in (h + 1)..u : (Sent(s) /\ s.n = n) \/ \E p \in Own(M) : p[2].n = n

LastSent(M, s, c, h, u) ==
  /\ h < u /\ s.n = u /\ (s.kind \in Last => ~c)
  /\ \A p \in Own(M) : p[2].n < u /\ p[2].kind \notin Last

Known(M, s, o, c, h, u, x, z) ==
  /\ h <= u /\ \A p \in Own(M) : p[2].n <= u
  /\ x \/ o = "attached" \/ Behind(M, IF o = "new" THEN "accept" ELSE "clear")
  /\ x => o = "free"
  /\ o = "free" => ~c /\ s = NoEvent
  /\ Holds(M, "accept") \/ s.kind = "accept" <=> o = "new"
  /\ Holds(M, "clear") => o = "free" \/ z
  /\ s.kind = "accept" => Own(M) = {}
  /\ Sent(s) => LastSent(M, s, c, h, u)
  /\ o # "free" => InTurn(M, c, h) /\ Complete(M, s, h, u)

\* lwIP makes an event for a client that it still tells things: it goes to the back,
LEMMA KnownNotified ==
  ASSUME NEW M \in SUBSET Packets, NEW o \in States, NEW d \in BOOLEAN, NEW h \in Nat, NEW u \in Nat, NEW z \in BOOLEAN,
         NEW r \in Int, NEW e \in Events, e.kind \notin {"accept", "clear"}, NEW v, v = u + 1, e.n = v,
         Known(M, NoEvent, o, TRUE, h, u, FALSE, z), e.kind \in Last => ~d,
         \A p \in M : p[1] < r
  PROVE  Known(Plus(M, r, e), NoEvent, o, d, h, v, FALSE, z)
<1> DEFINE Q == Plus(M, r, e)
<1>0. Q = M \cup {<<r, e>>}
  BY DEF Plus
<1> HIDE DEF Q
<1>1. Own(Q) = Own(M) \cup {<<r, e>>}
  BY <1>0 DEF Own
<1>2. o # "free" /\ InTurn(M, TRUE, h) /\ Complete(M, NoEvent, h, u) /\ h <= u
  BY DEF Known
<1>3. \A p \in Own(M) : p[2].n \in Nat /\ p[2].n <= u /\ p[1] < r /\ p[1] \in Int
  BY <1>0 DEF Own, Packets, Events, Known
<1>4. InTurn(Q, d, h)
  <2>1. \A p \in Own(M) : p[2].kind \notin Last
    BY <1>2 DEF InTurn
  <2>2. <<r, e>>[1] = r /\ <<r, e>>[2] = e
    OBVIOUS
  <2>3. ASSUME NEW p \in Own(Q), NEW q \in Own(Q), p[1] < q[1]
        PROVE  p[2].n < q[2].n /\ p[2].kind \notin Last
    <3>1. p \in Own(M)
      BY <1>1, <1>3, <2>2, <2>3
    <3>2. CASE q \in Own(M)
      BY <1>2, <2>3, <3>1, <3>2, Zenon DEF InTurn
    <3>3. CASE q = <<r, e>>
      BY <1>3, <2>1, <2>2, <3>1, <3>3
    <3> QED BY <1>1, <3>2, <3>3
  <2>4. ASSUME NEW p \in Own(Q) PROVE p[2].n > h /\ (p[2].kind \in Last => ~d)
    <3>1. CASE p \in Own(M)
      BY <1>2, <2>1, <3>1 DEF InTurn
    <3>2. CASE p = <<r, e>>
      BY <1>2, <2>2, <3>2
    <3> QED BY <1>1, <3>1, <3>2
  <2> QED BY <2>3, <2>4 DEF InTurn
<1>5. Complete(Q, NoEvent, h, u + 1)
  <2>1. ASSUME NEW n \in (h + 1)..(u + 1), n # u + 1 PROVE \E p \in Own(Q) : p[2].n = n
    <3>1. n \in (h + 1)..u
      BY <2>1
    <3>2. PICK p \in Own(M) : p[2].n = n
      BY <1>2, <3>1 DEF Complete, Sent, NoEvent
    <3> QED BY <1>1, <3>2, Zenon
  <2>2. <<r, e>> \in Own(Q) /\ <<r, e>>[2].n = u + 1
    BY <1>1
  <2> QED BY <2>1, <2>2, Zenon DEF Complete
<1>6. Holds(Q, "accept") <=> Holds(M, "accept")
  BY <1>0 DEF Holds
<1>7. Holds(Q, "clear") <=> Holds(M, "clear")
  BY <1>0 DEF Holds
<1>8. o = "attached" \/ Behind(Q, IF o = "new" THEN "accept" ELSE "clear")
  <2>1. ASSUME o # "attached" PROVE Behind(Q, "accept")
    <3>1. o = "new" /\ Behind(M, "accept") /\ Holds(M, "accept")
      BY <1>2, <2>1 DEF Known, NoEvent, States
    <3> QED BY <1>0, <1>1, <3>1 DEF Behind, Holds
  <2> QED BY <1>2, <2>1 DEF States
<1>9. \A p \in Own(Q) : p[2].n <= u + 1
  BY <1>1, <1>3
<1>10. /\ Holds(M, "accept") <=> o = "new"
       /\ Holds(M, "clear") => z
       /\ ~Sent(NoEvent) /\ NoEvent.kind # "accept"
  BY <1>2 DEF Known, NoEvent, Sent
<1>11. h <= u + 1
  BY <1>2
<1>15. u + 1 = v
  OBVIOUS
<1> QED BY <1>15, <1>2, <1>4, <1>5, <1>6, <1>7, <1>8, <1>9, <1>10, <1>11, Zenon DEF Known, Q

\* or waits for a place.
LEMMA KnownBlocked ==
  ASSUME NEW M \in SUBSET Packets, NEW o \in States, NEW d \in BOOLEAN,
         NEW h \in Nat, NEW u \in Nat, NEW z \in BOOLEAN,
         NEW e \in Events, e.kind \notin {"accept", "clear"}, NEW v, v = u + 1, e.n = v,
         Known(M, NoEvent, o, TRUE, h, u, FALSE, z), e.kind \in Last => ~d
  PROVE  Known(M, e, o, d, h, v, FALSE, z)
<1>1. o # "free" /\ InTurn(M, TRUE, h) /\ Complete(M, NoEvent, h, u) /\ h <= u
  BY DEF Known
<1>2. \A p \in Own(M) : p[2].n \in Nat /\ p[2].n <= u
  BY DEF Own, Packets, Events, Known
<1>3. \A p \in Own(M) : p[2].kind \notin Last
  BY <1>1 DEF InTurn
<1>4. e.kind # "none" /\ ~Sent(NoEvent) /\ NoEvent.kind # "accept"
  BY DEF Events, Kinds, Sent, NoEvent
<1>5. InTurn(M, d, h)
  BY <1>1, <1>3 DEF InTurn
<1>6. Complete(M, e, h, u + 1)
  <2>1. ASSUME NEW n \in (h + 1)..(u + 1), n # u + 1 PROVE \E p \in Own(M) : p[2].n = n
    <3>1. n \in (h + 1)..u
      BY <2>1
    <3> QED BY <1>1, <1>4, <3>1, Zenon DEF Complete
  <2>2. Sent(e) /\ e.n = u + 1
    BY <1>4 DEF Sent
  <2> QED BY <2>1, <2>2, Zenon DEF Complete
<1>7. LastSent(M, e, d, h, u + 1)
  BY <1>1, <1>2, <1>3 DEF LastSent
<1>8. h <= u + 1 /\ \A p \in Own(M) : p[2].n <= u + 1
  BY <1>1, <1>2
<1>9. e.kind # "accept"
  OBVIOUS
<1>15. u + 1 = v
  OBVIOUS
<1> QED BY <1>15, <1>1, <1>4, <1>5, <1>6, <1>7, <1>8, <1>9, Zenon DEF Known

\* The event that waited goes to the back,
LEMMA KnownUnblocked ==
  ASSUME NEW M \in SUBSET Packets, NEW o \in States, NEW c \in BOOLEAN,
         NEW h \in Nat, NEW u \in Nat, NEW z \in BOOLEAN,
         NEW r \in Int, NEW s \in Events, s.kind \notin {"accept", "clear"},
         Known(M, s, o, c, h, u, FALSE, z), \A p \in M : p[1] < r
  PROVE  Known(Plus(M, r, s), NoEvent, o, c, h, u, FALSE, z)
<1> DEFINE Q == Plus(M, r, s)
<1>0. Q = M \cup {<<r, s>>}
  BY DEF Plus
<1> HIDE DEF Q
<1>1. Own(Q) = Own(M) \cup {<<r, s>>} /\ <<r, s>>[1] = r /\ <<r, s>>[2] = s
  BY <1>0 DEF Own
<1>2. s.kind # "none" /\ Sent(s) /\ s # NoEvent /\ ~Sent(NoEvent) /\ NoEvent.kind # "accept"
  BY DEF Events, Kinds, Sent, NoEvent
<1>3. o # "free" /\ InTurn(M, c, h) /\ Complete(M, s, h, u) /\ h <= u /\ LastSent(M, s, c, h, u)
  BY <1>2, Zenon DEF Known
<1>4. \A p \in Own(M) : p[1] < r /\ p[1] \in Int /\ p[2].n < s.n /\ p[2].kind \notin Last
  BY <1>0, <1>3 DEF Own, Packets, LastSent
<1>5. h < u /\ s.n = u /\ (s.kind \in Last => ~c)
  BY <1>3, Zenon DEF LastSent
<1>6. Holds(Q, "accept") <=> Holds(M, "accept")
  BY <1>0 DEF Holds
<1>7. Holds(Q, "clear") <=> Holds(M, "clear")
  BY <1>0 DEF Holds
<1>8. o = "attached" \/ Behind(Q, IF o = "new" THEN "accept" ELSE "clear")
  <2>1. ASSUME o # "attached" PROVE Behind(Q, "accept")
    <3>1. o = "new" /\ Behind(M, "accept") /\ Holds(M, "accept")
      BY <1>3, <2>1 DEF Known, States
    <3> QED BY <1>0, <1>1, <3>1 DEF Behind, Holds
  <2> QED BY <1>3, <2>1 DEF States
<1>9. \A p \in Own(Q) : p[2].n <= u
  <2>1. \A p \in Own(M) : p[2].n <= u
    BY DEF Known
  <2> QED BY <2>1, <1>1, <1>5
<1>10. Complete(Q, NoEvent, h, u)
  BY <1>1, <1>3, Zenon DEF Complete
<1>11. InTurn(Q, c, h)
  <2>1. ASSUME NEW p \in Own(Q), NEW q \in Own(Q), p[1] < q[1]
        PROVE  p[2].n < q[2].n /\ p[2].kind \notin Last
    <3>1. p \in Own(M)
      BY <1>1, <1>4, <2>1
    <3>2. CASE q \in Own(M)
      BY <1>3, <2>1, <3>1, <3>2, Zenon DEF InTurn
    <3>3. CASE q = <<r, s>>
      BY <1>1, <1>4, <3>1, <3>3
    <3> QED BY <1>1, <3>2, <3>3
  <2>2. s.n > h
    BY <1>5
  <2>3. \A p \in Own(Q) : p[2].n > h /\ (p[2].kind \in Last => ~c)
    BY <1>1, <1>3, <1>5, <2>2 DEF InTurn
  <2> QED BY <2>1, <2>3 DEF InTurn
<1>12. Holds(M, "accept") <=> o = "new"
  BY Zenon DEF Known
<1> QED BY <1>2, <1>3, <1>6, <1>7, <1>8, <1>9, <1>10, <1>11, <1>12, Zenon DEF Known, Q

\* while an acceptance goes to the front.
LEMMA KnownAccepted ==
  ASSUME NEW M \in SUBSET Packets, NEW c \in BOOLEAN,
         NEW h \in Nat, NEW u \in Nat, NEW z \in BOOLEAN, NEW r \in Int, NEW s,
         s.kind = "accept", Known(M, s, "new", c, h, u, FALSE, z)
  PROVE  Known(Plus(M, r, s), NoEvent, "new", c, h, u, FALSE, z)
<1> DEFINE Q == Plus(M, r, s)
<1>0. Q = M \cup {<<r, s>>}
  BY DEF Plus
<1> HIDE DEF Q
<1>1. Own(Q) = Own(M) /\ <<r, s>>[1] = r /\ <<r, s>>[2] = s
  BY <1>0 DEF Own
<1>2. Own(M) = {} /\ ~Sent(s)
  BY DEF Known, Sent
<1>3. ~Sent(NoEvent) /\ NoEvent.kind # "accept"
  BY DEF Sent, NoEvent
<1>4. Holds(Q, "accept")
  BY <1>0, <1>1 DEF Holds
<1>5. Holds(Q, "clear") <=> Holds(M, "clear")
  BY <1>0 DEF Holds
<1>6. Behind(Q, "accept")
  BY <1>0, <1>1, <1>2 DEF Behind
<1>7. InTurn(Q, c, h) /\ Complete(Q, NoEvent, h, u)
  BY <1>1, <1>2, <1>3 DEF Known, InTurn, Complete
<1> QED BY <1>1, <1>2, <1>3, <1>4, <1>5, <1>6, <1>7, Zenon DEF Known, Q

\* A client may get the address of one that is deleted and of which no event is left.
LEMMA KnownEmpty ==
  ASSUME NEW M \in SUBSET Packets, NEW c \in BOOLEAN, NEW h \in Nat, NEW u \in Nat,
         NEW z \in BOOLEAN, NEW s, Known(M, s, "free", c, h, u, FALSE, z), ~Holds(M, "clear")
  PROVE  M = {}
<1>1. Own(M) = {}
  BY DEF Known, Behind, Holds
<1>2. ~Holds(M, "accept")
  BY DEF Known
<1> QED BY <1>1, <1>2 DEF Own, Holds

LEMMA KnownNew ==
  ASSUME NEW Q, NEW t, \A p \in Q : p[2].kind = "accept",
         t.kind = "accept" \/ (t = NoEvent /\ Q # {})
  PROVE  Known(Q, t, "new", TRUE, 0, 0, FALSE, FALSE)
<1>1. Own(Q) = {} /\ ~Holds(Q, "clear") /\ ~Sent(t)
  BY DEF Own, Holds, Sent, NoEvent
<1>2. Holds(Q, "accept") \/ t.kind = "accept"
  BY DEF Holds
<1>3. Behind(Q, "accept") /\ InTurn(Q, TRUE, 0) /\ Complete(Q, t, 0, 0)
  BY <1>1 DEF Behind, InTurn, Complete
<1>4. 0 <= 0
  OBVIOUS
<1> QED BY <1>1, <1>2, <1>3, <1>4, Zenon DEF Known

\* Its acceptance is handled: it was the only one.
LEMMA KnownAttached ==
  ASSUME NEW M \in SUBSET Packets, NEW o \in States, NEW c \in BOOLEAN, NEW h \in Nat,
         NEW u \in Nat, NEW z \in BOOLEAN, NEW s, NEW p \in M, p[2].kind = "accept",
         \A q \in M : q[2].kind = "accept" => q = p, s.kind # "accept",
         Known(M, s, o, c, h, u, FALSE, z)
  PROVE  Known(Minus(M, p), s, "attached", c, h, u, FALSE, z)
<1> DEFINE Q == Minus(M, p)
<1>0. Q = M \ {p}
  BY DEF Minus
<1> HIDE DEF Q
<1>1. Own(Q) = Own(M)
  BY <1>0 DEF Own
<1>2. ~Holds(Q, "accept") /\ (Holds(Q, "clear") => Holds(M, "clear"))
  BY <1>0 DEF Holds
<1>3. o = "new"
  BY DEF Known, Holds
<1>4. InTurn(Q, c, h) /\ Complete(Q, s, h, u)
  BY <1>1, <1>3 DEF Known, InTurn, Complete
<1>5. Sent(s) => LastSent(Q, s, c, h, u)
  BY <1>1 DEF Known, LastSent
<1> QED BY <1>1, <1>2, <1>3, <1>4, <1>5 DEF Known, Q

\* The service task starts to remove the events of a client that was deleted,
LEMMA KnownRemoving ==
  ASSUME NEW M, NEW o, NEW c, NEW h, NEW u, NEW s, NEW p \in M, p[2].kind = "clear",
         Known(M, s, o, c, h, u, FALSE, FALSE)
  PROVE  o = "free" /\ Known(Minus(M, p), s, o, c, h, u, TRUE, FALSE)
<1> DEFINE Q == Minus(M, p)
<1>0. Q = M \ {p}
  BY DEF Minus
<1> HIDE DEF Q
<1>1. o = "free"
  BY DEF Known, Holds
<1>2. Own(Q) = Own(M) /\ (Holds(Q, "accept") <=> Holds(M, "accept"))
  BY <1>0 DEF Own, Holds
<1>3. s = NoEvent /\ ~Sent(NoEvent)
  BY <1>1 DEF Known, Sent, NoEvent
<1> QED BY <1>1, <1>2, <1>3 DEF Known, Q

\* and ends when none is left.
LEMMA KnownRemoved ==
  ASSUME NEW M \in SUBSET Packets, NEW o \in States, NEW c \in BOOLEAN, NEW h \in Nat,
         NEW u \in Nat, NEW s, NEW z, Own(M) = {}, Known(M, s, o, c, h, u, TRUE, z)
  PROVE  Known(M, s, o, c, h, u, FALSE, z)
<1>1. Behind(M, "clear") /\ o = "free"
  BY DEF Behind, Known
<1> QED BY <1>1 DEF Known

\* The first event of a client that is handled is the next one,
LEMMA KnownHandled ==
  ASSUME NEW M \in SUBSET Packets, NEW o \in States, NEW c \in BOOLEAN, NEW h \in Nat,
         NEW u \in Nat, NEW z \in BOOLEAN, NEW s, NEW p \in Own(M), NEW g, g = h + 1,
         First(M, p),
         Known(M, s, o, c, h, u, FALSE, z)
  PROVE  /\ Known(Minus(M, p), s, o, c, g, u, FALSE, z)
         /\ o = "attached"
         /\ p[2].kind \in Last => ~c /\ ~Sent(s) /\ Own(Minus(M, p)) = {}
<1> DEFINE Q == Minus(M, p)
<1>0. Q = M \ {p}
  BY DEF Minus
<1> HIDE DEF Q
<1>1. Own(Q) = Own(M) \ {p}
  BY <1>0 DEF Own
<1> USE DEF First
<1>2. o = "attached"
  <2>1. \A q \in M : q[1] \in Int
    BY DEF Packets
  <2>2. \A kind : ~Behind(M, kind)
    <3>1. p \in M
      BY <1>0 DEF Own
    <3> QED BY <2>1, <3>1 DEF Behind
  <2> QED BY <2>2, Zenon DEF Known
<1>3. /\ InTurn(M, c, h) /\ Complete(M, s, h, u) /\ (Sent(s) => LastSent(M, s, c, h, u))
      /\ h <= u /\ \A q \in Own(M) : q[2].n <= u
  BY <1>2 DEF Known
<1>4. \A q \in Own(M) : q[2].n \in Nat /\ q[2].n > h
  BY <1>0, <1>3 DEF Own, Packets, Events, InTurn
<1>5. \A q \in Own(Q) : p[2].n < q[2].n /\ p[2].kind \notin Last
  BY <1>1, <1>3 DEF InTurn, Own
<1>6. h + 1 <= u
  BY <1>3, <1>4
<1>7. p[2].n = h + 1
  <2>1. CASE Sent(s) /\ s.n = h + 1
    BY <1>3, <1>4, <2>1 DEF LastSent
  <2>2. ASSUME NEW q \in Own(M), q[2].n = h + 1 PROVE p[2].n = h + 1
    <3>1. CASE q = p
      BY <2>2, <3>1
    <3>2. CASE q # p
      <4>1. q \in Own(Q)
        BY <1>1, <3>2, Zenon
      <4>2. p[2].n < q[2].n /\ p[2].n > h /\ p[2].n \in Nat
        BY <1>4, <1>5, <4>1
      <4> QED BY <2>2, <4>2
    <3> QED BY <3>1, <3>2
  <2>3. h + 1 \in (h + 1)..u
    BY <1>6
  <2> QED BY <1>3, <2>1, <2>2, <2>3, Zenon DEF Complete
<1>8. InTurn(Q, c, h + 1)
  <2>1. \A q \in Own(Q) : q[2].n > h + 1
    BY <1>1, <1>4, <1>5, <1>7
  <2> QED BY <1>1, <1>3, <2>1 DEF InTurn
<1>9. Complete(Q, s, h + 1, u)
  <2> SUFFICES ASSUME NEW n \in (h + 1 + 1)..u, ~(Sent(s) /\ s.n = n) PROVE \E q \in Own(Q) : q[2].n = n
    BY Zenon DEF Complete
  <2>1. n \in (h + 1)..u /\ n # h + 1
    OBVIOUS
  <2>2. PICK q \in Own(M) : q[2].n = n
    BY <1>3, <2>1, Zenon DEF Complete
  <2>3. q # p
    BY <1>7, <2>1, <2>2
  <2> QED BY <1>1, <2>2, <2>3
<1>10. Sent(s) => LastSent(Q, s, c, h + 1, u) /\ p[2].kind \notin Last
  <2>1. ASSUME Sent(s) PROVE h + 1 < u
    BY <1>3, <1>7, <2>1 DEF LastSent
  <2> QED BY <1>1, <1>3, <2>1 DEF LastSent
<1>11. /\ Holds(M, "accept") <=> Holds(Q, "accept")
       /\ Holds(M, "clear") <=> Holds(Q, "clear")
  BY <1>0 DEF Holds, Own
<1>12. p[2].kind \in Last => ~c /\ ~Sent(s) /\ Own(Q) = {}
  BY <1>3, <1>5, <1>10 DEF InTurn
<1>13. \A q \in Own(Q) : q[2].n <= u
  BY <1>1, <1>3
<1>14. s.kind = "accept" => Own(Q) = {}
  BY <1>1, Zenon DEF Known
<1>15. Holds(M, "accept") \/ s.kind = "accept" <=> o = "new"
  BY Zenon DEF Known
<1>16. Holds(M, "clear") => z
  BY <1>2 DEF Known
<1>17. o # "free"
  BY <1>2
<1>18. h + 1 = g
  OBVIOUS
<1> QED BY <1>18, <1>2, <1>6, <1>7, <1>8, <1>9, <1>10, <1>11, <1>12, <1>13, <1>14, <1>15, <1>16, <1>17, Zenon DEF Known, Q

\* lwIP stops to tell a client things.
LEMMA KnownUnhooked ==
  ASSUME NEW M, NEW o, NEW c, NEW h, NEW u, NEW s, NEW x, NEW z, Known(M, s, o, c, h, u, x, z)
  PROVE  Known(M, s, o, FALSE, h, u, x, z)
BY DEF Known, InTurn, LastSent

\* CLEAR goes to the front,
LEMMA KnownClosing ==
  ASSUME NEW M \in SUBSET Packets, NEW o \in States, NEW c \in BOOLEAN, NEW h \in Nat,
         NEW u \in Nat, NEW s, NEW y \in BOOLEAN, NEW r \in Int, NEW e, e.kind = "clear",
         Known(M, s, o, c, h, u, FALSE, y), \A p \in M : r < p[1]
  PROVE  /\ Known(Plus(M, r, e), s, o, c, h, u, FALSE, TRUE)
         /\ Behind(Plus(M, r, e), "clear")
<1> DEFINE Q == Plus(M, r, e)
<1>0. Q = M \cup {<<r, e>>}
  BY DEF Plus
<1> HIDE DEF Q
<1>1. Own(Q) = Own(M) /\ <<r, e>>[1] = r /\ <<r, e>>[2] = e
  BY <1>0 DEF Own
<1>2. Behind(Q, "clear")
  BY <1>0, <1>1 DEF Behind, Own
<1>3. Holds(Q, "accept") <=> Holds(M, "accept")
  BY <1>0, <1>1 DEF Holds
<1>4. InTurn(M, c, h) => InTurn(Q, c, h)
  BY <1>1 DEF InTurn
<1>5. Complete(M, s, h, u) => Complete(Q, s, h, u)
  BY <1>1 DEF Complete
<1>6. Sent(s) => LastSent(Q, s, c, h, u)
  BY <1>1 DEF Known, LastSent
<1>7. Behind(M, "accept") => Behind(Q, "accept")
  BY <1>0, <1>1 DEF Behind
<1>8. o = "attached" \/ Behind(Q, IF o = "new" THEN "accept" ELSE "clear")
  BY <1>2, <1>7 DEF Known
<1>9. Holds(Q, "accept") \/ s.kind = "accept" <=> o = "new"
  BY <1>3, Zenon DEF Known
<1> QED BY <1>1, <1>2, <1>4, <1>5, <1>6, <1>8, <1>9, Zenon DEF Known, Q

\* and may be all that is known of a client when it is deleted.
LEMMA KnownDeleted ==
  ASSUME NEW M \in SUBSET Packets, NEW h, NEW u, NEW s, NEW z, ~Sent(s),
         s \in Events \cup {NoEvent},
         Known(M, s, "attached", FALSE, h, u, FALSE, z), Behind(M, "clear")
  PROVE  Known(M, s, "free", FALSE, h, u, FALSE, FALSE)
<1>1. s = NoEvent
  BY DEF Known, Sent, Events, Kinds
<1> QED BY <1>1 DEF Known

\* A packet is dropped, and those before it close the gap.
LEMMA KnownDropped ==
  ASSUME NEW M \in SUBSET Packets, NEW o \in States, NEW c \in BOOLEAN, NEW h \in Nat,
         NEW u \in Nat, NEW s, NEW x \in BOOLEAN, NEW z \in BOOLEAN, NEW b \in Int,
         \A q \in M : q[1] = b + 1 => x,
         \A q \in M : q[1] = b + 1 => q[2].kind # "accept",
         Known(M, s, o, c, h, u, x, z)
  PROVE  Known(Closed(b, M), s, o, c, h, u, x, z)
<1> DEFINE Q == Closed(b, M)
           To(p) == <<IF p[1] <= b THEN p[1] + 1 ELSE p[1], p[2]>>
           R == {q \in M : q[1] # b + 1}
<1>1. /\ \A q \in Q : \E p \in R : q = To(p)
      /\ \A p \in R : To(p) \in Q
  BY DEF Closed
<1>2. ASSUME NEW p \in R, NEW q \in R
      PROVE  /\ To(p)[2] = p[2] /\ (p[1] < q[1] <=> To(p)[1] < To(q)[1])
  <2>1. p[1] \in Int /\ q[1] \in Int /\ p[1] # b + 1 /\ q[1] # b + 1
    BY DEF Packets
  <2> QED BY <2>1
<1> HIDE DEF To, Q
<1>3. \A q \in Own(Q) : \E p \in Own(M) : p \in R /\ q = To(p) /\ q[2] = p[2]
  <2>1. TAKE q \in Own(Q)
  <2>2. q \in Q /\ q[2].kind \notin {"accept", "clear"}
    BY Zenon DEF Own
  <2>3. PICK p \in R : q = To(p)
    BY <1>1, <2>2
  <2>4. q[2] = p[2] /\ p \in M
    BY <1>2, <2>3
  <2> QED BY <2>2, <2>3, <2>4 DEF Own
<1>4. Holds(M, "accept") <=> Holds(Q, "accept")
  <2>1. \A p \in M : p[2].kind = "accept" => p \in R
    OBVIOUS
  <2>2. \A p \in R : p \in M /\ To(p) \in Q /\ To(p)[2] = p[2]
    BY <1>1, <1>2
  <2> HIDE DEF R
  <2>3. Holds(M, "accept") => Holds(Q, "accept")
    BY <2>1, <2>2 DEF Holds
  <2>4. Holds(Q, "accept") => Holds(M, "accept")
    BY <1>1, <2>2 DEF Holds
  <2> QED BY <2>3, <2>4
<1>5. Holds(Q, "clear") => Holds(M, "clear")
  BY <1>1, <1>2 DEF Holds
<1>6. \A q \in Own(Q) : q[2].n <= u
  BY <1>3 DEF Known
<1>7. s.kind = "accept" => Own(Q) = {}
  BY <1>3 DEF Known
<1>8. Sent(s) => LastSent(Q, s, c, h, u)
  BY <1>3 DEF Known, LastSent
<1>9. CASE x
  <2>1. o = "free"
    BY <1>9 DEF Known
  <2> QED BY <1>4, <1>5, <1>6, <1>7, <1>8, <1>9, <2>1, Zenon DEF Known, Q
<1>10. CASE ~x
  <2>1. R = M
    BY <1>10
  <2> HIDE DEF R
  <2>2. \A p \in Own(M) : To(p) \in Own(Q) /\ To(p)[2] = p[2]
    BY <1>1, <1>2, <2>1 DEF Own
  <2>3. InTurn(M, c, h) => InTurn(Q, c, h)
    <3> SUFFICES ASSUME InTurn(M, c, h) PROVE InTurn(Q, c, h)
      OBVIOUS
    <3>1. ASSUME NEW q1 \in Own(Q), NEW q2 \in Own(Q), q1[1] < q2[1]
          PROVE  q1[2].n < q2[2].n /\ q1[2].kind \notin Last
      <4>1. PICK p1 \in Own(M), p2 \in Own(M) : p1 \in R /\ p2 \in R /\ q1 = To(p1) /\ q2 = To(p2)
        BY <1>3
      <4>2. p1[1] < p2[1] /\ q1[2] = p1[2] /\ q2[2] = p2[2]
        BY <1>2, <3>1, <4>1
      <4> QED BY <4>1, <4>2, Zenon DEF InTurn
    <3>2. \A q \in Own(Q) : q[2].n > h /\ (q[2].kind \in Last => ~c)
      BY <1>3, Zenon DEF InTurn
    <3> QED BY <3>1, <3>2, Zenon DEF InTurn
  <2>4. Complete(M, s, h, u) => Complete(Q, s, h, u)
    <3> SUFFICES ASSUME Complete(M, s, h, u), NEW n \in (h + 1)..u, ~(Sent(s) /\ s.n = n)
                 PROVE  \E q \in Own(Q) : q[2].n = n
      BY Zenon DEF Complete
    <3>1. PICK p \in Own(M) : p[2].n = n
      BY Zenon DEF Complete
    <3> QED BY <2>2, <3>1, Zenon
  <2>5. \A kind : Behind(M, kind) => Behind(Q, kind)
    <3> SUFFICES ASSUME NEW kind, Behind(M, kind), NEW q \in Own(Q)
                 PROVE  \E r \in Q : r[1] < q[1] /\ r[2].kind = kind
      BY Zenon DEF Behind
    <3>1. PICK p \in Own(M) : p \in R /\ q = To(p)
      BY <1>3
    <3>2. PICK m \in M : m[1] < p[1] /\ m[2].kind = kind
      BY Zenon DEF Behind
    <3>3. To(m) \in Q /\ To(m)[1] < q[1] /\ To(m)[2].kind = kind
      BY <1>1, <1>2, <2>1, <3>1, <3>2
    <3> QED BY <3>3, Zenon
  <2> QED BY <1>4, <1>5, <1>6, <1>7, <1>8, <1>10, <2>3, <2>4, <2>5, Zenon DEF Known, Q
<1> QED BY <1>9, <1>10

-----------------------------------------------------------------------------
(* The packets of a queue, and of one that is being turned. *)

Line(b, q) == {<<b + r, q[r]>> : r \in 1..Len(q)}

\* the first packet is at k; h is taken from the front and not yet put to the back
Round(b, k, q, h) ==
  {<<b + r, q[r]>> : r \in 1..(k - 1)}
    \cup {<<b - Len(q) - (IF h = NoEvent THEN 0 ELSE 1) + r, q[r]>> : r \in k..Len(q)}
    \cup {<<b, e>> : e \in {h} \ {NoEvent}}

LEMMA NoEventIsNone == NoEvent \notin Events
BY DEF NoEvent, Events, Kinds

LEMMA LineType ==
  ASSUME NEW b \in Int, NEW q \in Seq(Events)
  PROVE  /\ Line(b, q) \in SUBSET Packets
         /\ \A p \in Line(b, q) : b < p[1] /\ p[1] < b + Len(q) + 1
<1>1. Len(q) \in Nat /\ \A r \in 1..Len(q) : q[r] \in Events
  OBVIOUS
<1> QED BY <1>1 DEF Line, Packets

LEMMA LineAppend ==
  ASSUME NEW b \in Int, NEW q \in Seq(Events), NEW e \in Events
  PROVE  Line(b, Append(q, e)) = Line(b, q) \cup {<<b + Len(q) + 1, e>>}
<1> DEFINE s == Append(q, e)
<1>1. /\ Len(q) \in Nat /\ Len(s) = Len(q) + 1 /\ s[Len(q) + 1] = e
      /\ \A r \in 1..Len(q) : s[r] = q[r]
  BY AppendProperties
<1> HIDE DEF s
<1>2. \A x \in Line(b, s) : x \in Line(b, q) \cup {<<b + Len(q) + 1, e>>}
  BY <1>1 DEF Line
<1>3. \A x \in Line(b, q) : x \in Line(b, s)
  BY <1>1 DEF Line
<1>4. <<b + Len(q) + 1, e>> \in Line(b, s)
  <2>1. Len(q) + 1 \in 1..Len(s) /\ b + Len(q) + 1 = b + (Len(q) + 1)
    BY <1>1
  <2> QED BY <1>1, <2>1 DEF Line
<1> QED BY <1>2, <1>3, <1>4, Zenon DEF s

LEMMA LinePrepend ==
  ASSUME NEW b \in Int, NEW q \in Seq(Events), NEW e \in Events
  PROVE  Line(b - 1, <<e>> \o q) = Line(b, q) \cup {<<b, e>>}
<1> DEFINE s == <<e>> \o q
<1>1. /\ Len(q) \in Nat /\ Len(s) = Len(q) + 1 /\ s[1] = e
      /\ \A r \in 1..Len(q) : s[r + 1] = q[r]
  <2>1. <<e>> \in Seq(Events) /\ Len(<<e>>) = 1
    OBVIOUS
  <2> QED BY <2>1, ConcatProperties
<1> HIDE DEF s
<1>2. \A x \in Line(b - 1, s) : x \in Line(b, q) \cup {<<b, e>>}
  <2> SUFFICES ASSUME NEW r \in 1..Len(s) 
               PROVE  <<b - 1 + r, s[r]>> \in Line(b, q) \cup {<<b, e>>}
    BY DEF Line
  <2>1. CASE r = 1
    BY <1>1, <2>1
  <2>2. CASE r # 1
    <3>1. r - 1 \in 1..Len(q) /\ b - 1 + r = b + (r - 1) /\ s[r] = q[r - 1]
      <4>1. r - 1 \in 1..Len(q)
        BY <1>1, <2>2
      <4>2. s[r - 1 + 1] = q[r - 1]
        BY <1>1, <4>1
      <4> QED BY <4>1, <4>2
    <3> QED BY <3>1 DEF Line
  <2> QED BY <2>1, <2>2
<1>3. \A x \in Line(b, q) : x \in Line(b - 1, s)
  <2> SUFFICES ASSUME NEW r \in 1..Len(q) PROVE <<b + r, q[r]>> \in Line(b - 1, s)
    BY DEF Line
  <2>1. r + 1 \in 1..Len(s) /\ b + r = b - 1 + (r + 1) /\ s[r + 1] = q[r]
    BY <1>1
  <2> QED BY <2>1 DEF Line
<1>4. <<b, e>> \in Line(b - 1, s)
  <2>1. 1 \in 1..Len(s) /\ b = b - 1 + 1
    BY <1>1
  <2> QED BY <1>1, <2>1 DEF Line
<1> QED BY <1>2, <1>3, <1>4, Zenon DEF s

LEMMA TailFacts ==
  ASSUME NEW q \in Seq(Events), q # <<>>
  PROVE  /\ Head(q) \in Events /\ Head(q) = q[1] /\ Len(q) \in Nat \ {0}
         /\ Tail(q) \in Seq(Events) /\ Len(Tail(q)) = Len(q) - 1
         /\ \A r \in 1..(Len(q) - 1) : Tail(q)[r] = q[r + 1]
BY HeadTailProperties

LEMMA LineTail ==
  ASSUME NEW b \in Int, NEW q \in Seq(Events), q # <<>>
  PROVE  /\ Line(b + 1, Tail(q)) = Line(b, q) \ {<<b + 1, Head(q)>>}
         /\ <<b + 1, Head(q)>> \in Line(b, q)
         /\ \A p \in Line(b, q) : p = <<b + 1, Head(q)>> \/ b + 1 < p[1]
<1> DEFINE s == Tail(q)
<1>1. /\ Head(q) = q[1] /\ Len(q) \in Nat \ {0} /\ Len(s) = Len(q) - 1
      /\ \A r \in 1..(Len(q) - 1) : s[r] = q[r + 1]
  BY TailFacts, Zenon
<1> HIDE DEF s
<1>2. <<b + 1, Head(q)>> \in Line(b, q)
  BY <1>1 DEF Line
<1>3. ASSUME NEW r \in 1..Len(q), r # 1
      PROVE  <<b + r, q[r]>> \in Line(b + 1, s) /\ b + 1 < b + r
  <2>1. r - 1 \in 1..Len(s) /\ b + r = b + 1 + (r - 1) /\ s[r - 1] = q[r]
    <3>1. r - 1 \in 1..(Len(q) - 1)
      BY <1>1, <1>3
    <3>2. s[r - 1] = q[r - 1 + 1]
      BY <1>1, <3>1
    <3> QED BY <1>1, <3>1, <3>2
  <2> QED BY <2>1 DEF Line
<1>4. \A p \in Line(b, q) : p = <<b + 1, Head(q)>> \/ (b + 1 < p[1] /\ p \in Line(b + 1, s))
  <2>1. TAKE p \in Line(b, q)
  <2>2. PICK r \in 1..Len(q) : p = <<b + r, q[r]>>
    BY DEF Line
  <2>3. CASE r = 1
    BY <1>1, <2>2, <2>3
  <2>4. CASE r # 1
    BY <1>3, <2>2, <2>4
  <2> QED BY <2>3, <2>4
<1>5. \A p \in Line(b + 1, s) : p \in Line(b, q) /\ p[1] # b + 1
  <2> SUFFICES ASSUME NEW r \in 1..Len(s)
               PROVE  <<b + 1 + r, s[r]>> \in Line(b, q) /\ b + 1 + r # b + 1
    BY DEF Line
  <2>1. r + 1 \in 1..Len(q) /\ b + 1 + r = b + (r + 1) /\ s[r] = q[r + 1]
    BY <1>1
  <2> QED BY <2>1 DEF Line
<1>6. <<b + 1, Head(q)>>[1] = b + 1
  OBVIOUS
<1> QED BY <1>2, <1>4, <1>5, <1>6, Zenon DEF s

LEMMA RoundStart ==
  ASSUME NEW b \in Int, NEW q \in Seq(Events)
  PROVE  Round(b, Len(q) + 1, q, NoEvent) = Line(b, q)
<1>1. Len(q) \in Nat
  OBVIOUS
<1> QED BY <1>1 DEF Round, Line

LEMMA RoundKept ==
  ASSUME NEW b \in Int, NEW q \in Seq(Events), q # <<>>, NEW k \in 2..(Len(q) + 1)
  PROVE  Round(b + 1, k - 1, Tail(q), Head(q)) = Round(b, k, q, NoEvent)
<1> DEFINE s == Tail(q)
           e == Head(q)
<1>1. /\ e = q[1] /\ Len(q) \in Nat \ {0} /\ Len(s) = Len(q) - 1
      /\ \A r \in 1..(Len(q) - 1) : s[r] = q[r + 1]
      /\ e # NoEvent
  BY TailFacts, NoEventIsNone
<1> HIDE DEF s, e
<1>2. ASSUME NEW x \in Round(b + 1, k - 1, s, e) PROVE x \in Round(b, k, q, NoEvent)
  <2>1. CASE x = <<b + 1, e>>
    BY <1>1, <2>1 DEF Round
  <2>2. ASSUME NEW r \in 1..(k - 1 - 1), x = <<b + 1 + r, s[r]>>
        PROVE  x \in Round(b, k, q, NoEvent)
    <3>1. r + 1 \in 1..(k - 1) /\ b + 1 + r = b + (r + 1) /\ s[r] = q[r + 1]
      BY <1>1
    <3> QED BY <2>2, <3>1 DEF Round
  <2>3. ASSUME NEW r \in (k - 1)..Len(s), x = <<b + 1 - Len(s) - 1 + r, s[r]>>
        PROVE  x \in Round(b, k, q, NoEvent)
    <3>1. r + 1 \in k..Len(q) /\ b + 1 - Len(s) - 1 + r = b - Len(q) - 0 + (r + 1) /\ s[r] = q[r + 1]
      BY <1>1
    <3> QED BY <2>3, <3>1 DEF Round
  <2> QED BY <1>1, <2>1, <2>2, <2>3 DEF Round
<1>3. ASSUME NEW x \in Round(b, k, q, NoEvent) PROVE x \in Round(b + 1, k - 1, s, e)
  <2>1. ASSUME NEW r \in 1..(k - 1), x = <<b + r, q[r]>>
        PROVE  x \in Round(b + 1, k - 1, s, e)
    <3>1. CASE r = 1
      BY <1>1, <2>1, <3>1 DEF Round
    <3>2. CASE r # 1
      <4>1. r - 1 \in 1..(k - 1 - 1) /\ r - 1 \in 1..(Len(q) - 1) /\ b + r = b + 1 + (r - 1)
        BY <1>1, <3>2
      <4>2. s[r - 1] = q[r]
        <5>1. s[r - 1] = q[r - 1 + 1]
          BY <1>1, <4>1
        <5> QED BY <5>1
      <4> QED BY <2>1, <4>1, <4>2 DEF Round
    <3> QED BY <3>1, <3>2
  <2>2. ASSUME NEW r \in k..Len(q), x = <<b - Len(q) - 0 + r, q[r]>>
        PROVE  x \in Round(b + 1, k - 1, s, e)
    <3>1. /\ r - 1 \in (k - 1)..Len(s) /\ r - 1 \in 1..(Len(q) - 1)
          /\ b - Len(q) - 0 + r = b + 1 - Len(s) - 1 + (r - 1)
      BY <1>1
    <3>2. s[r - 1] = q[r]
      <4>1. s[r - 1] = q[r - 1 + 1]
        BY <1>1, <3>1
      <4> QED BY <4>1
    <3> QED BY <1>1, <2>2, <3>1, <3>2 DEF Round
  <2> QED BY <2>1, <2>2 DEF Round
<1> QED BY <1>2, <1>3, Zenon DEF s, e

LEMMA RoundPut ==
  ASSUME NEW b \in Int, NEW q \in Seq(Events), NEW h \in Events, NEW k \in 1..(Len(q) + 1)
  PROVE  Round(b, k, Append(q, h), NoEvent) = Round(b, k, q, h)
<1> DEFINE s == Append(q, h)
<1>1. /\ Len(q) \in Nat /\ Len(s) = Len(q) + 1 /\ s[Len(q) + 1] = h /\ h # NoEvent
      /\ \A r \in 1..Len(q) : s[r] = q[r]
  BY AppendProperties, NoEventIsNone
<1> HIDE DEF s
<1>2. ASSUME NEW x \in Round(b, k, s, NoEvent) PROVE x \in Round(b, k, q, h)
  <2>1. ASSUME NEW r \in 1..(k - 1), x = <<b + r, s[r]>> PROVE x \in Round(b, k, q, h)
    <3>1. s[r] = q[r]
      BY <1>1
    <3> QED BY <2>1, <3>1 DEF Round
  <2>2. ASSUME NEW r \in k..Len(s), x = <<b - Len(s) - 0 + r, s[r]>> PROVE x \in Round(b, k, q, h)
    <3>1. CASE r = Len(q) + 1
      <4>1. x = <<b, h>>
        BY <1>1, <2>2, <3>1
      <4> QED BY <1>1, <4>1 DEF Round
    <3>2. CASE r # Len(q) + 1
      <4>1. r \in k..Len(q) /\ b - Len(s) - 0 + r = b - Len(q) - 1 + r /\ s[r] = q[r]
        BY <1>1, <3>2
      <4> QED BY <1>1, <2>2, <4>1 DEF Round
    <3> QED BY <3>1, <3>2
  <2> QED BY <2>1, <2>2 DEF Round
<1>3. ASSUME NEW x \in Round(b, k, q, h) PROVE x \in Round(b, k, s, NoEvent)
  <2>1. CASE x = <<b, h>>
    <3>1. Len(s) \in k..Len(s) /\ b - Len(s) - 0 + Len(s) = b
      BY <1>1
    <3> QED BY <1>1, <2>1, <3>1 DEF Round
  <2>2. ASSUME NEW r \in 1..(k - 1), x = <<b + r, q[r]>> PROVE x \in Round(b, k, s, NoEvent)
    <3>1. s[r] = q[r]
      BY <1>1
    <3> QED BY <2>2, <3>1 DEF Round
  <2>3. ASSUME NEW r \in k..Len(q), x = <<b - Len(q) - 1 + r, q[r]>> PROVE x \in Round(b, k, s, NoEvent)
    <3>1. r \in k..Len(s) /\ b - Len(s) - 0 + r = b - Len(q) - 1 + r /\ s[r] = q[r]
      BY <1>1
    <3> QED BY <2>3, <3>1 DEF Round
  <2> QED BY <1>1, <2>1, <2>2, <2>3 DEF Round
<1> QED BY <1>2, <1>3, Zenon DEF s

LEMMA RoundIdle ==
  ASSUME NEW b, NEW q, NEW k
  PROVE  \A x : x \in Round(b, k, q, NoEvent) <=>
           \/ \E r \in 1..(k - 1) : x = <<b + r, q[r]>>
           \/ \E r \in k..Len(q) : x = <<b - Len(q) - 0 + r, q[r]>>
BY DEF Round


LEMMA RoundDropped ==
  ASSUME NEW b \in Int, NEW q \in Seq(Events), q # <<>>, NEW k \in 2..(Len(q) + 1)
  PROVE  Round(b + 1, k - 1, Tail(q), NoEvent) = Closed(b, Round(b, k, q, NoEvent))
<1> DEFINE s == Tail(q)
           P == Round(b, k, q, NoEvent)
           Q == Round(b + 1, k - 1, s, NoEvent)
<1>1. /\ Len(q) \in Nat \ {0} /\ Len(s) = Len(q) - 1
      /\ \A r \in 1..(Len(q) - 1) : s[r] = q[r + 1]
  BY TailFacts, Zenon
<1> HIDE DEF s
<1>2. \A x : x \in Q <=> \/ \E r \in 1..(k - 1 - 1) : x = <<b + 1 + r, s[r]>>
                        \/ \E r \in (k - 1)..Len(s) : x = <<b + 1 - Len(s) - 0 + r, s[r]>>
  BY RoundIdle, SMTT(30)
<1>3. \A x : x \in P <=> \/ \E r \in 1..(k - 1) : x = <<b + r, q[r]>>
                        \/ \E r \in k..Len(q) : x = <<b - Len(q) - 0 + r, q[r]>>
  BY DEF Round
<1> HIDE DEF P, Q
<1>4. ASSUME NEW x \in Q PROVE x \in Closed(b, P)
  <2>1. ASSUME NEW r \in 1..(k - 1 - 1), x = <<b + 1 + r, s[r]>> PROVE x \in Closed(b, P)
    <3>1. r + 1 \in 1..(k - 1) /\ s[r] = q[r + 1]
      BY <1>1
    <3>2. <<b + (r + 1), q[r + 1]>> \in P
      BY <1>3, <3>1
    <3>3. b + (r + 1) # b + 1 /\ ~(b + (r + 1) <= b) /\ b + (r + 1) = b + 1 + r
      OBVIOUS
    <3> QED BY <2>1, <3>1, <3>2, <3>3 DEF Closed
  <2>2. ASSUME NEW r \in (k - 1)..Len(s), x = <<b + 1 - Len(s) - 0 + r, s[r]>>
        PROVE  x \in Closed(b, P)
    <3>1. r + 1 \in k..Len(q) /\ s[r] = q[r + 1]
      BY <1>1
    <3>2. <<b - Len(q) - 0 + (r + 1), q[r + 1]>> \in P
      BY <1>3, <3>1
    <3>3. /\ b - Len(q) - 0 + (r + 1) # b + 1 /\ b - Len(q) - 0 + (r + 1) <= b
          /\ b - Len(q) - 0 + (r + 1) + 1 = b + 1 - Len(s) - 0 + r
      BY <1>1
    <3> DEFINE o == b - Len(q) - 0 + (r + 1)
               p == <<o, q[r + 1]>>
    <3>4. o # b + 1 /\ o <= b /\ x = <<o + 1, q[r + 1]>>
      BY <2>2, <3>1, <3>3
    <3>5. p \in P
      BY <3>2
    <3>6. p[1] = o /\ p[2] = q[r + 1]
      OBVIOUS
    <3> HIDE DEF o, p
    <3>7. x = <<IF p[1] <= b THEN p[1] + 1 ELSE p[1], p[2]>> /\ p[1] # b + 1
      BY <3>4, <3>6
    <3> QED BY <3>5, <3>7, Zenon DEF Closed
  <2> QED BY <1>2, <2>1, <2>2
<1>5. ASSUME NEW p \in P, p[1] # b + 1
      PROVE  <<IF p[1] <= b THEN p[1] + 1 ELSE p[1], p[2]>> \in Q
  <2>1. ASSUME NEW r \in 1..(k - 1), p = <<b + r, q[r]>>
        PROVE  <<IF p[1] <= b THEN p[1] + 1 ELSE p[1], p[2]>> \in Q
    <3>1. r # 1 /\ ~(b + r <= b) /\ p[1] = b + r /\ p[2] = q[r]
      BY <1>5, <2>1
    <3>2. r - 1 \in 1..(k - 1 - 1) /\ r - 1 \in 1..(Len(q) - 1) /\ b + r = b + 1 + (r - 1)
      BY <1>1, <3>1
    <3>3. s[r - 1] = q[r]
      <4>1. s[r - 1] = q[r - 1 + 1]
        BY <1>1, <3>2
      <4> QED BY <4>1
    <3> QED BY <1>2, <3>1, <3>2, <3>3
  <2>2. ASSUME NEW r \in k..Len(q), p = <<b - Len(q) - 0 + r, q[r]>>
        PROVE  <<IF p[1] <= b THEN p[1] + 1 ELSE p[1], p[2]>> \in Q
    <3>1. p[1] <= b /\ p[1] = b - Len(q) - 0 + r /\ p[2] = q[r]
      BY <1>1, <2>2
    <3>2. /\ r - 1 \in (k - 1)..Len(s) /\ r - 1 \in 1..(Len(q) - 1)
          /\ p[1] + 1 = b + 1 - Len(s) - 0 + (r - 1)
      BY <1>1, <3>1
    <3>3. s[r - 1] = q[r]
      <4>1. s[r - 1] = q[r - 1 + 1]
        BY <1>1, <3>2
      <4> QED BY <4>1
    <3> QED BY <1>2, <3>1, <3>2, <3>3
  <2> QED BY <1>3, <2>1, <2>2
<1>6. \A x \in Closed(b, P) : x \in Q
  BY <1>5 DEF Closed
<1> QED BY <1>4, <1>6, Zenon DEF s, P, Q

LEMMA RoundEnd ==
  ASSUME NEW b \in Int, NEW q \in Seq(Events)
  PROVE  Round(b, 1, q, NoEvent) = Line(b - Len(q), q)
<1>1. Len(q) \in Nat
  OBVIOUS
<1>2. Round(b, 1, q, NoEvent) = {<<b - Len(q) - 0 + r, q[r]>> : r \in 1..Len(q)}
  BY DEF Round
<1> QED BY <1>1, <1>2 DEF Line

\* the packets before the end of the round are those that were turned
LEMMA RoundType ==
  ASSUME NEW b \in Int, NEW q \in Seq(Events), NEW k \in 1..(Len(q) + 1),
         NEW h \in Events \cup {NoEvent}
  PROVE  /\ Round(b, k, q, h) \in SUBSET Packets
         /\ k = 1 => \A p \in Round(b, k, q, h) : p[1] <= b
         /\ k > 1 => <<b + 1, q[1]>> \in Round(b, k, q, h)
         /\ \A p \in Round(b, k, q, NoEvent) : p[1] = b + 1 => k > 1 /\ p = <<b + 1, q[1]>>
<1>1. Len(q) \in Nat /\ \A r \in 1..Len(q) : q[r] \in Events
  OBVIOUS
<1>2. \A r \in 1..(k - 1) : r \in 1..Len(q)
  BY <1>1
<1>3. \A r \in k..Len(q) : r \in 1..Len(q)
  BY <1>1
<1>4. Round(b, k, q, h) \in SUBSET Packets
  BY <1>1, <1>2, <1>3 DEF Round, Packets
<1>5. k = 1 => \A p \in Round(b, k, q, h) : p[1] <= b
  BY <1>1 DEF Round
<1>6. k > 1 => <<b + 1, q[1]>> \in Round(b, k, q, h)
  BY <1>1 DEF Round
<1>7. ASSUME NEW p \in Round(b, k, q, NoEvent), p[1] = b + 1 PROVE k > 1 /\ p = <<b + 1, q[1]>>
  BY <1>1, <1>7 DEF Round
<1> QED BY <1>4, <1>5, <1>6, <1>7

-----------------------------------------------------------------------------
(* The packets, the plan of the service task and what each client is told. *)

Mine(P, a) == {p \in P : p[2].client = a}
Of(e, a) == IF e.client = a THEN e ELSE NoEvent
Connected(a) == conn[a] = "open" /\ hooked[a]

\* each packet is there once; marks differ by client and kind only
Packed(P, s) ==
  /\ \A p, q \in P : p[2] = q[2] => p = q
  /\ \A p \in P : p[2].kind \in {"accept", "clear"} => p[2].client \in Clients /\ p[2].n = 0
  /\ s.kind # "clear" /\ (s.kind = "accept" => s.client \in Clients /\ s.n = 0)
  /\ \A p \in P : p[2] # s

\* The plans of a handler that has not begun to close, and of one that has; then
\* the calls that _recv still makes for the client that its callback has deleted.
Then(s) == {s \o t : t \in Calls}
Asked(S) == {<<"call">> \o p : p \in S}
Shut == Then(Close)
Harmless == Calls \cup Asked(Calls) \cup Shut \cup Asked(Shut) \cup Asked(Asked(Shut))
Unhooked == Then(<<"clear", "close", "delete">>)
Cleared == Then(<<"close", "delete">>)
Gone == {<<"clear", "delete">>}
Doomed == Then(<<"delete">>)
Closing == Unhooked \cup Cleared \cup Gone \cup Doomed

IsRemoved(a) == scan.arg = a
IsClosing(a) == cur = a /\ plan \in Cleared \cup Doomed

Told(P, a) ==
  Known(Mine(P, a), Of(sending, a), object[a], Connected(a), handled[a], pushed[a],
        IsRemoved(a), IsClosing(a))

PlanInv(P) ==
  /\ plan \in Harmless \cup Closing
  /\ plan # <<>> => scan = NoScan /\ (object[cur] = "attached" \/ plan \in Calls)
  /\ plan \in Unhooked \cup Cleared => pcb[cur] /\ ~hooked[cur]
  /\ plan \in Gone \cup Doomed => ~Connected(cur) /\ ~Sent(Of(sending, cur))
  /\ plan \in Cleared => Holds(Mine(P, cur), "clear")
  /\ plan \in Cleared \cup Doomed => Behind(Mine(P, cur), "clear")
  /\ call.op \in {"load", "call"} => plan # <<>> /\ Head(plan) = "call"
  /\ call.op \in {"loadclose", "close"} => plan \in Cleared

Ordered(P) == Packed(P, sending) /\ (\A a \in Clients : Told(P, a)) /\ PlanInv(P)

-----------------------------------------------------------------------------

LEMMA HeadTailConcat ==
  ASSUME NEW S, NEW e \in S, NEW s \in Seq(S)
  PROVE  <<e>> \o s # <<>> /\ Head(<<e>> \o s) = e /\ Tail(<<e>> \o s) = s
<1> DEFINE p == <<e>> \o s
<1>1. <<e>> \in Seq(S) /\ Len(<<e>>) = 1 /\ <<e>>[1] = e
  OBVIOUS
<1>2. /\ p \in Seq(S) /\ Len(p) = 1 + Len(s) /\ Len(s) \in Nat
      /\ \A i \in 1..(1 + Len(s)) : p[i] = IF i <= 1 THEN <<e>>[i] ELSE s[i - 1]
  BY <1>1, ConcatProperties
<1> HIDE DEF p
<1>3. p # <<>> /\ Head(p) = p[1]
  BY <1>2
<1>4. /\ Tail(p) \in Seq(S) /\ Len(Tail(p)) = Len(s)
      /\ \A i \in 1..Len(s) : Tail(p)[i] = p[i + 1]
  BY <1>2, <1>3, HeadTailProperties
<1>5. \A i \in 1..Len(Tail(p)) : Tail(p)[i] = s[i]
  BY <1>2, <1>4
<1>6. Tail(p) = s
  BY <1>4, <1>5, SeqEqual
<1> QED BY <1>1, <1>2, <1>3, <1>6 DEF p

LEMMA CallsAreSteps ==
  /\ Calls \subseteq Seq(Steps) /\ <<>> \in Calls /\ <<"call">> \in Calls
  /\ \A p \in Calls : p # <<>> => Head(p) = "call" /\ Tail(p) \in Calls
  /\ \A p \in Calls : \A i \in DOMAIN p : p[i] = "call"
<1>1. /\ <<>> \in Seq(Steps) /\ <<"call">> \in Seq(Steps) /\ <<"call", "call">> \in Seq(Steps)
  BY DEF Steps
<1>2. Calls \subseteq Seq(Steps) /\ <<>> \in Calls /\ <<"call">> \in Calls
  BY <1>1 DEF Calls
<1>3. ASSUME NEW p \in Calls, p # <<>> PROVE Head(p) = "call" /\ Tail(p) \in Calls
  <2>1. CASE p = <<"call">>
    <3>1. Head(p) = "call" /\ Tail(p) = <<>>
      BY <2>1
    <3> QED BY <1>2, <3>1
  <2>2. CASE p = <<"call", "call">>
    <3>1. Head(p) = "call" /\ Tail(p) = <<"call">>
      BY <2>2
    <3> QED BY <1>2, <3>1
  <2> QED BY <1>3, <2>1, <2>2, Zenon DEF Calls
<1>4. ASSUME NEW p \in Calls, NEW i \in DOMAIN p PROVE p[i] = "call"
  BY <1>4 DEF Calls
<1> QED BY <1>2, <1>3, <1>4

\* What a plan with a step ahead begins with, and what it leaves.
LEMMA ThenTail ==
  ASSUME NEW e \in Steps, NEW s \in Seq(Steps), NEW p \in Then(<<e>> \o s)
  PROVE  p \in Seq(Steps) /\ p # <<>> /\ Head(p) = e /\ Tail(p) \in Then(s)
<1>1. PICK t \in Calls : p = (<<e>> \o s) \o t
  BY Zenon DEF Then
<1>2. t \in Seq(Steps) /\ <<e>> \in Seq(Steps)
  BY CallsAreSteps
<1>3. p = <<e>> \o (s \o t) /\ s \o t \in Seq(Steps)
  BY <1>1, <1>2, ConcatAssociative, ConcatProperties
<1>4. p # <<>> /\ Head(p) = e /\ Tail(p) = s \o t
  BY <1>3, HeadTailConcat
<1>5. p \in Seq(Steps)
  BY <1>2, <1>3, ConcatProperties
<1> QED BY <1>4, <1>5 DEF Then

LEMMA AskedTail ==
  ASSUME NEW S \in SUBSET Seq(Steps), NEW p \in Asked(S)
  PROVE  p \in Seq(Steps) /\ p # <<>> /\ Head(p) = "call" /\ Tail(p) \in S
<1>1. PICK t \in S : p = <<"call">> \o t
  BY Zenon DEF Asked
<1>2. t \in Seq(Steps) /\ "call" \in Steps /\ <<"call">> \in Seq(Steps)
  BY DEF Steps
<1>3. p # <<>> /\ Head(p) = "call" /\ Tail(p) = t
  BY <1>1, <1>2, HeadTailConcat
<1>4. p \in Seq(Steps)
  BY <1>1, <1>2, ConcatProperties
<1> QED BY <1>3, <1>4

\* The steps of closing, one after the other.
LEMMA ClosingSteps ==
  /\ \A p \in Shut : p \in Seq(Steps) /\ p # <<>> /\ Head(p) = "unhook" /\ Tail(p) \in Unhooked
  /\ \A p \in Unhooked : p # <<>> /\ Head(p) = "clear" /\ Tail(p) \in Cleared
  /\ \A p \in Cleared : p # <<>> /\ Head(p) = "close" /\ Tail(p) \in Doomed
  /\ \A p \in Doomed : p # <<>> /\ Head(p) = "delete" /\ Tail(p) \in Calls
  /\ \A p \in Gone : p # <<>> /\ Head(p) = "clear" /\ Tail(p) \in Doomed
<1>1. {"unhook", "clear", "close", "delete"} \subseteq Steps
  BY DEF Steps
<1>2. /\ <<>> \in Seq(Steps) /\ <<"delete">> \in Seq(Steps) /\ <<"close", "delete">> \in Seq(Steps)
      /\ <<"clear", "close", "delete">> \in Seq(Steps)
  BY <1>1
<1>3. /\ <<"delete">> = <<"delete">> \o <<>>
      /\ <<"close", "delete">> = <<"close">> \o <<"delete">>
      /\ <<"clear", "close", "delete">> = <<"clear">> \o <<"close", "delete">>
      /\ Close = <<"unhook">> \o <<"clear", "close", "delete">>
  BY DEF Close
<1>4. Then(<<>>) = Calls
  <2>1. \A t \in Calls : <<>> \o t = t
    BY CallsAreSteps, ConcatEmptySeq
  <2> QED BY <2>1 DEF Then
<1>5. ASSUME NEW p \in Shut
      PROVE  p \in Seq(Steps) /\ p # <<>> /\ Head(p) = "unhook" /\ Tail(p) \in Unhooked
  <2>1. "unhook" \in Steps /\ p \in Then(<<"unhook">> \o <<"clear", "close", "delete">>)
    BY <1>1, <1>3 DEF Shut
  <2> QED BY <1>2, <2>1, ThenTail DEF Unhooked
<1>6. ASSUME NEW p \in Unhooked PROVE p # <<>> /\ Head(p) = "clear" /\ Tail(p) \in Cleared
  <2>1. "clear" \in Steps /\ p \in Then(<<"clear">> \o <<"close", "delete">>)
    BY <1>1, <1>3 DEF Unhooked
  <2> QED BY <1>2, <2>1, ThenTail DEF Cleared
<1>7. ASSUME NEW p \in Cleared PROVE p # <<>> /\ Head(p) = "close" /\ Tail(p) \in Doomed
  <2>1. "close" \in Steps /\ p \in Then(<<"close">> \o <<"delete">>)
    BY <1>1, <1>3 DEF Cleared
  <2> QED BY <1>2, <2>1, ThenTail DEF Doomed
<1>8. ASSUME NEW p \in Doomed PROVE p # <<>> /\ Head(p) = "delete" /\ Tail(p) \in Calls
  <2>1. "delete" \in Steps /\ p \in Then(<<"delete">> \o <<>>)
    BY <1>1, <1>3 DEF Doomed
  <2> QED BY <1>2, <1>4, <2>1, ThenTail
<1>9. ASSUME NEW p \in Gone PROVE p # <<>> /\ Head(p) = "clear" /\ Tail(p) \in Doomed
  <2>1. <<"delete">> \in Doomed
    BY <1>2, CallsAreSteps, ConcatEmptySeq DEF Doomed, Then
  <2>2. p = <<"clear", "delete">>
    BY Zenon DEF Gone
  <2>3. p # <<>> /\ Head(p) = "clear" /\ Tail(p) = <<"delete">>
    BY <2>2
  <2> QED BY <2>1, <2>3
<1> QED BY <1>5, <1>6, <1>7, <1>8, <1>9

LEMMA HarmlessSteps ==
  ASSUME NEW p \in Harmless, p # <<>>
  PROVE  \/ Head(p) = "call" /\ Tail(p) \in Harmless
         \/ p \in Shut /\ Head(p) = "unhook" /\ Tail(p) \in Unhooked
<1>1. Shut \in SUBSET Seq(Steps)
  BY ClosingSteps
<1>2. Asked(Shut) \in SUBSET Seq(Steps)
  BY <1>1, AskedTail
<1>3. CASE p \in Calls
  BY <1>3, CallsAreSteps DEF Harmless
<1>4. CASE p \in Asked(Calls)
  BY <1>4, CallsAreSteps, AskedTail DEF Harmless
<1>5. CASE p \in Shut
  BY <1>5, ClosingSteps
<1>6. CASE p \in Asked(Shut)
  BY <1>1, <1>6, AskedTail DEF Harmless
<1>7. CASE p \in Asked(Asked(Shut))
  BY <1>2, <1>7, AskedTail DEF Harmless
<1> QED BY <1>3, <1>4, <1>5, <1>6, <1>7 DEF Harmless

\* The plans differ by what they begin with.
LEMMA PlanNames ==
  /\ \A p : p \in Closing <=> p \in Unhooked \/ p \in Cleared \/ p \in Gone \/ p \in Doomed
  /\ \A p \in Unhooked : p # <<>> /\ p \notin Cleared /\ p \notin Gone /\ p \notin Doomed
  /\ \A p \in Cleared : p # <<>> /\ p \notin Unhooked /\ p \notin Gone /\ p \notin Doomed
  /\ \A p \in Gone : p # <<>> /\ p \notin Unhooked /\ p \notin Cleared /\ p \notin Doomed
  /\ \A p \in Doomed : p # <<>> /\ p \notin Unhooked /\ p \notin Cleared /\ p \notin Gone
  /\ \A p \in Harmless : p \notin Closing
  /\ <<>> \in Harmless /\ <<>> \in Calls /\ Calls \subseteq Harmless /\ Shut \subseteq Harmless
  /\ \A p \in Shut : p \notin Calls
<1>1. \A p \in Gone : p \notin Unhooked
  <2>1. \A p \in Gone : Tail(p) \in Doomed
    BY ClosingSteps
  <2>2. \A p \in Unhooked : Tail(p) \in Cleared
    BY ClosingSteps
  <2>3. \A p \in Doomed : p \notin Cleared
    BY ClosingSteps
  <2> QED BY <2>1, <2>2, <2>3
<1>2. \A p \in Unhooked : p # <<>> /\ p \notin Cleared /\ p \notin Gone /\ p \notin Doomed
  BY <1>1, ClosingSteps
<1>3. \A p \in Cleared : p # <<>> /\ p \notin Unhooked /\ p \notin Gone /\ p \notin Doomed
  BY ClosingSteps
<1>4. \A p \in Gone : p # <<>> /\ p \notin Unhooked /\ p \notin Cleared /\ p \notin Doomed
  BY <1>1, ClosingSteps
<1>5. \A p \in Doomed : p # <<>> /\ p \notin Unhooked /\ p \notin Cleared /\ p \notin Gone
  BY ClosingSteps
<1>6. \A p : p \in Closing <=> p \in Unhooked \/ p \in Cleared \/ p \in Gone \/ p \in Doomed
  BY DEF Closing
<1>7. \A p \in Harmless : p \notin Closing
  <2>1. \A p \in Harmless : p # <<>> => Head(p) \in {"call", "unhook"}
    BY HarmlessSteps
  <2>2. \A p \in Closing : p # <<>> /\ Head(p) \in {"clear", "close", "delete"}
    BY <1>6, ClosingSteps
  <2> QED BY <2>1, <2>2
<1>8. <<>> \in Harmless /\ <<>> \in Calls /\ Calls \subseteq Harmless /\ Shut \subseteq Harmless
  BY CallsAreSteps DEF Harmless
<1>9. \A p \in Shut : p \notin Calls
  BY CallsAreSteps, ClosingSteps
<1> QED BY <1>2, <1>3, <1>4, <1>5, <1>6, <1>7, <1>8, <1>9

\* What a handler still does when it finds nothing to close.
LEMMA ShutRest ==
  ASSUME NEW p \in Shut
  PROVE  SubSeq(p, Len(Close) + 1, Len(p)) \in Calls
<1>1. PICK t \in Calls : p = Close \o t
  BY Zenon DEF Shut, Then
<1>2. Close \in Seq(Steps) /\ t \in Seq(Steps)
  BY CallsAreSteps DEF Close, Steps
<1>3. SubSeq(Close \o t, Len(Close) + 1, Len(Close \o t)) = t
  <2> DEFINE c == Close
  <2>1. c \in Seq(Steps) /\ Len(c) \in Nat /\ Len(t) \in Nat
    BY <1>2
  <2> HIDE DEF c
  <2>2. /\ c \o t \in Seq(Steps) /\ Len(c \o t) = Len(c) + Len(t)
        /\ \A i \in 1..(Len(c) + Len(t)) : (c \o t)[i] = IF i <= Len(c) THEN c[i] ELSE t[i - Len(c)]
    BY <1>2, <2>1, ConcatProperties
  <2> DEFINE r == SubSeq(c \o t, Len(c) + 1, Len(c \o t))
  <2>3. /\ r \in Seq(Steps) /\ Len(r) = Len(t)
        /\ \A i \in 1..Len(t) : r[i] = (c \o t)[Len(c) + i]
    BY <2>1, <2>2
  <2> HIDE DEF r
  <2>4. \A i \in 1..Len(r) : r[i] = t[i]
    BY <2>1, <2>2, <2>3
  <2>5. r = t
    BY <1>2, <2>3, <2>4, SeqEqual
  <2> QED BY <2>5 DEF c, r
<1> QED BY <1>1, <1>3

\* What the handlers plan, by the event.
LEMMA PlansNames ==
  /\ \A kind \in {"recv", "sent", "poll"} : Plans(kind) \subseteq Harmless
  /\ Plans("fin") \subseteq Gone /\ Plans("error") \subseteq Doomed
<1>1. Asked(Calls) \subseteq Harmless
  BY Zenon DEF Harmless
<1>2. ASSUME NEW c \in Calls \ {<<>>}, NEW d \in Calls \ {<<>>}
      PROVE  c \o Close \o d \in Harmless
  <2>1. Close \o d \in Shut
    BY Zenon DEF Shut, Then
  <2>2. Close \in Seq(Steps) /\ d \in Seq(Steps) /\ <<"call">> \in Seq(Steps) /\ Close \o d \in Seq(Steps)
    BY <2>1, CallsAreSteps, ClosingSteps DEF Close, Steps
  <2>3. CASE c = <<"call">>
    <3>1. c \o Close \o d = <<"call">> \o (Close \o d)
      BY <2>2, <2>3, ConcatAssociative
    <3> QED BY <2>1, <3>1 DEF Harmless, Asked
  <2>4. CASE c = <<"call", "call">>
    <3>1. c = <<"call">> \o <<"call">>
      BY <2>4
    <3>2. c \in Seq(Steps)
      BY CallsAreSteps
    <3>3. c \o Close \o d = c \o (Close \o d)
      BY <2>2, <3>2, ConcatAssociative
    <3>4. c \o (Close \o d) = <<"call">> \o (<<"call">> \o (Close \o d))
      BY <2>2, <3>1, ConcatAssociative
    <3> QED BY <2>1, <3>3, <3>4 DEF Harmless, Asked
  <2> QED BY <2>3, <2>4 DEF Calls
<1>3. Plans("recv") \subseteq Harmless
  <2> SUFFICES ASSUME NEW p \in Plans("recv") PROVE p \in Harmless
    BY Zenon
  <2> HIDE DEF Harmless, Calls, Close
  <2>1. CASE \E c \in Calls : p = <<"call">> \o c
    BY <1>1, <2>1, Zenon DEF Asked
  <2>2. CASE \E c \in Calls \ {<<>>} : \E d \in Calls \ {<<>>} : p = c \o Close \o d
    BY <1>2, <2>2, Zenon
  <2> QED BY <2>1, <2>2 DEF Plans
<1>4. Close \in Shut /\ <<"delete">> \in Doomed
  <2>1. Close \in Seq(Steps) /\ <<"delete">> \in Seq(Steps)
    BY DEF Close, Steps
  <2>2. Close \o <<>> = Close /\ <<"delete">> \o <<>> = <<"delete">>
    BY <2>1, ConcatEmptySeq
  <2> QED BY <2>2, CallsAreSteps, Zenon DEF Shut, Doomed, Then
<1>5. Plans("sent") \subseteq Harmless
  <2>1. Plans("sent") = Calls
    BY DEF Plans
  <2> QED BY <2>1, PlanNames, Zenon
<1>6. Plans("poll") \subseteq Harmless
  <2>1. Plans("poll") = Calls \cup {<<"call">> \o Close, Close}
    BY DEF Plans
  <2>2. <<"call">> \o Close \in Asked(Shut)
    BY <1>4 DEF Asked
  <2> QED BY <1>4, <2>1, <2>2, Zenon DEF Harmless
<1>7. Plans("fin") \subseteq Gone /\ Plans("error") \subseteq Doomed
  BY <1>4 DEF Plans, Gone
<1> QED BY <1>3, <1>5, <1>6, <1>7

\* What concerns one client does not concern the others.
LEMMA ToldOther ==
  ASSUME NEW P, NEW Q, NEW a \in Clients, Told(P, a), Mine(Q, a) = Mine(P, a),
         Of(sending, a)' = Of(sending, a),
         UNCHANGED <<object[a], Connected(a), handled[a], pushed[a], IsRemoved(a), IsClosing(a)>>
  PROVE  Told(Q, a)'
BY Zenon DEF Told

LEMMA PlanOther ==
  ASSUME NEW P, NEW Q, PlanInv(P), UNCHANGED service,
         plan # <<>> /\ object[cur] = "attached" => object'[cur] = "attached",
         plan \in Unhooked \cup Cleared => pcb'[cur] = pcb[cur] /\ hooked'[cur] = hooked[cur],
         plan \in Gone \cup Doomed => 
           (Connected(cur)' => Connected(cur)) /\ (Sent(Of(sending, cur))' => Sent(Of(sending, cur))),
         plan \in Cleared \cup Doomed => (Behind(Mine(P, cur), "clear") => Behind(Mine(Q, cur), "clear")),
         plan \in Cleared => (Holds(Mine(P, cur), "clear") => Holds(Mine(Q, cur), "clear"))
  PROVE  PlanInv(Q)'
<1>1. cur' = cur /\ plan' = plan /\ scan' = scan /\ call' = call
  BY DEF service
<1>2. cur' = cur => (Connected(cur))' = (Connected(cur))'
  OBVIOUS
<1> QED BY <1>1 DEF PlanInv

\* A plan that closes is one for a client that has its request.
LEMMA PlanCloses ==
  ASSUME NEW P, PlanInv(P)
  PROVE  /\ plan \in Unhooked \/ plan \in Cleared \/ plan \in Gone \/ plan \in Doomed => plan \in Closing
         /\ plan \in Unhooked \cup Cleared \/ plan \in Gone \cup Doomed \/ plan \in Cleared \cup Doomed
              => plan \in Closing
         /\ plan \in Closing \cup Shut => plan # <<>> /\ object[cur] = "attached"
<1>1. plan \in Closing => plan # <<>> /\ plan \notin Calls
  BY PlanNames
<1>2. plan \in Shut => plan # <<>> /\ plan \notin Calls
  BY PlanNames, ClosingSteps
<1> QED BY <1>1, <1>2, PlanNames DEF PlanInv

-----------------------------------------------------------------------------
(* An event is sent. *)

For(e, a) == e.client = a

ClosingInv == plan # <<>> => cur \in Clients

\* an event comes to the packets: marks to the front, others to the back
Joins(P, Q, e) ==
  \E r \in Int : Q = Plus(P, r, e) /\
                 \A p \in P : IF e.kind \in {"accept", "clear"} THEN r < p[1] ELSE p[1] < r

Sends(P, Q, e) ==
  \/ sending' = NoEvent /\ Joins(P, Q, e)
  \/ sending' = e /\ Q = P

LEMMA Inserted ==
  ASSUME NEW b \in Int, NEW q \in Seq(Events), NEW e \in Events, e.kind # "clear"
  PROVE  \E d \in Int : Joins(Line(b, q), Line(d, Insert(e, q)), e)
<1>1. CASE e.kind = "accept"
  <2>1. Line(b - 1, Insert(e, q)) = Plus(Line(b, q), b, e)
    BY <1>1, LinePrepend DEF Insert, Plus
  <2>2. \A p \in Line(b, q) : b < p[1]
    BY LineType
  <2>3. b - 1 \in Int
    OBVIOUS
  <2> QED BY <1>1, <2>1, <2>2, <2>3, Zenon DEF Joins
<1>2. CASE e.kind # "accept"
  <2>1. Line(b, Insert(e, q)) = Plus(Line(b, q), b + Len(q) + 1, e)
    BY <1>2, LineAppend DEF Insert, Plus
  <2>2. \A p \in Line(b, q) : p[1] < b + Len(q) + 1
    BY LineType
  <2>3. b + Len(q) + 1 \in Int
    OBVIOUS
  <2> QED BY <1>2, <2>1, <2>2, <2>3 DEF Joins
<1> QED BY <1>1, <1>2

LEMMA SendLine ==
  ASSUME TypeInv, NEW b \in Int, NEW e \in Events, e.kind # "clear",
         sending = NoEvent, SendAsyncEvent(e)
  PROVE  \E d \in Int : Sends(Line(b, queue), Line(d, queue'), e)
<1>1. queue \in Seq(Events)
  BY Zenon DEF TypeInv
<1>2. CASE queue' = Insert(e, queue) /\ UNCHANGED sending
  BY <1>1, <1>2, Inserted, Zenon DEF Sends
<1>3. CASE sending' = e /\ UNCHANGED queue
  BY <1>3, Zenon DEF Sends
<1> QED BY <1>2, <1>3, Zenon DEF SendAsyncEvent

LEMMA MineJoins ==
  ASSUME NEW P, NEW r, NEW e, NEW a
  PROVE  Mine(Plus(P, r, e), a) = IF For(e, a) THEN Plus(Mine(P, a), r, e) ELSE Mine(P, a)
<1>1. <<r, e>>[2] = e
  OBVIOUS
<1> QED BY <1>1 DEF Mine, Plus, For

LEMMA MineType ==
  ASSUME NEW P \in SUBSET Packets, NEW a
  PROVE  Mine(P, a) \in SUBSET Packets
BY DEF Mine

LEMMA OfNone ==
  ASSUME NEW a \in Clients
  PROVE  Of(NoEvent, a) = NoEvent /\ NoEvent.client # a
BY NoClientAssumption DEF Of, NoEvent

\* An event that is not there yet.
LEMMA PackedJoins ==
  ASSUME NEW P, NEW r, NEW e, NEW s, Packed(P, s), \A p \in P : p[2] # e, e # s,
         e.kind \in {"accept", "clear"} => e.client \in Clients /\ e.n = 0
  PROVE  Packed(Plus(P, r, e), s)
<1>1. <<r, e>>[2] = e
  OBVIOUS
<1> QED BY <1>1 DEF Packed, Plus

LEMMA PackedSends ==
  ASSUME NEW P, NEW Q, NEW e \in Events, Packed(P, NoEvent), \A p \in P : p[2] # e, Sends(P, Q, e),
         e.kind # "clear", e.kind = "accept" => e.client \in Clients /\ e.n = 0
  PROVE  Packed(Q, sending')
<1>1. e # NoEvent
  BY NoEventIsNone
<1>2. CASE sending' = NoEvent /\ Joins(P, Q, e)
  <2>1. PICK r \in Int : Q = Plus(P, r, e)
    BY <1>2 DEF Joins
  <2>2. Packed(Q, NoEvent)
    BY <1>1, <2>1, PackedJoins
  <2> QED BY <1>2, <2>1, <2>2
<1>3. CASE sending' = e /\ Q = P
  BY <1>3 DEF Packed
<1> QED BY <1>2, <1>3 DEF Sends

\* The other clients see nothing of it.
LEMMA OtherSends ==
  ASSUME NEW P, NEW Q, NEW e, NEW a \in Clients, ~For(e, a), Sends(P, Q, e), sending = NoEvent
  PROVE  Mine(Q, a) = Mine(P, a) /\ Of(sending, a)' = Of(sending, a)
<1>1. Of(sending, a)' = Of(sending, a)
  BY OfNone DEF Sends, Of, For
<1>2. CASE Joins(P, Q, e)
  <2>1. PICK r \in Int : Q = Plus(P, r, e)
    BY <1>2 DEF Joins
  <2>2. Mine(Q, a) = Mine(P, a)
    BY <2>1, MineJoins
  <2> QED BY <1>1, <2>1, <2>2, Zenon
<1>3. CASE Q = P
  BY <1>1, <1>3
<1> QED BY <1>2, <1>3 DEF Sends

\* An event of a client that lwIP tells things is new.
LEMMA Fresh ==
  ASSUME TypeInv, NEW P \in SUBSET Packets, NEW a \in Clients, Told(P, a), NEW e \in Events,
         For(e, a), e.kind \notin {"accept", "clear"}, e.n = pushed[a] + 1
  PROVE  \A p \in P : p[2] # e
<1> SUFFICES ASSUME NEW p \in P, p[2] = e PROVE FALSE
  OBVIOUS
<1>1. p \in Own(Mine(P, a))
  BY DEF Own, Mine, For
<1>2. p[2].n <= pushed[a]
  BY <1>1, Zenon DEF Told, Known
<1>3. pushed[a] \in Nat
  <2>1. pushed \in [Clients -> 0..MaxEvents]
    BY Zenon DEF TypeInv
  <2> QED BY <2>1, BoundsAssumption
<1> QED BY <1>2, <1>3

\* The types of what is known of a client.
LEMMA ToldTypes ==
  ASSUME TypeInv, NEW P \in SUBSET Packets, NEW a \in Clients
  PROVE  /\ Mine(P, a) \in SUBSET Packets /\ Of(sending, a) \in Events \cup {NoEvent}
         /\ object[a] \in States /\ Connected(a) \in BOOLEAN
         /\ handled[a] \in Nat /\ pushed[a] \in Nat
         /\ IsRemoved(a) \in BOOLEAN /\ IsClosing(a) \in BOOLEAN
<1>1. /\ sending \in Events \cup {NoEvent} /\ object \in [Clients -> {"free", "new", "attached"}]
      /\ handled \in [Clients -> Nat] /\ pushed \in [Clients -> 0..MaxEvents]
      /\ hooked \in [Clients -> BOOLEAN]
  BY Zenon DEF TypeInv
<1>2. Mine(P, a) \in SUBSET Packets
  BY MineType
<1>3. Of(sending, a) \in Events \cup {NoEvent}
  BY <1>1 DEF Of
<1>4. object[a] \in States /\ handled[a] \in Nat /\ pushed[a] \in Nat
  BY <1>1, BoundsAssumption DEF States
<1>5. Connected(a) \in BOOLEAN /\ IsRemoved(a) \in BOOLEAN /\ IsClosing(a) \in BOOLEAN
  BY <1>1 DEF Connected, IsRemoved, IsClosing
<1> QED BY <1>2, <1>3, <1>4, <1>5

LEMMA ToldNotified ==
  ASSUME TypeInv, NEW P \in SUBSET Packets, NEW Q \in SUBSET Packets, NEW a \in Clients,
         NEW e \in Events, For(e, a), e.kind \notin {"accept", "clear"}, e.n = pushed[a] + 1,
         Told(P, a), Connected(a), sending = NoEvent, Sends(P, Q, e),
         IsRemoved(a) = FALSE, IsRemoved(a)' = FALSE, IsClosing(a)' = IsClosing(a),
         object'[a] = object[a], handled'[a] = handled[a], pushed'[a] = pushed[a] + 1,
         Connected(a)' \in BOOLEAN, e.kind \in Last => ~Connected(a)'
  PROVE  Told(Q, a)'
<1>1. Known(Mine(P, a), NoEvent, object[a], TRUE, handled[a], pushed[a], FALSE, IsClosing(a))
  <2>1. Connected(a) = TRUE
    BY DEF Connected
  <2> QED BY <2>1, OfNone DEF Told
<1>2. /\ Mine(P, a) \in SUBSET Packets /\ object[a] \in States
      /\ handled[a] \in Nat /\ pushed[a] \in Nat /\ IsClosing(a) \in BOOLEAN
  BY ToldTypes
<1>3. CASE sending' = NoEvent /\ Joins(P, Q, e)
  <2>1. PICK r \in Int : Q = Plus(P, r, e) /\ \A p \in P : p[1] < r
    BY <1>3 DEF Joins
  <2>2. Mine(Q, a) = Plus(Mine(P, a), r, e)
    BY <2>1, MineJoins
  <2>3. \A p \in Mine(P, a) : p[1] < r
    BY <2>1 DEF Mine
  <2>4. Known(Plus(Mine(P, a), r, e), NoEvent, object[a], Connected(a)', handled[a],
              pushed'[a], FALSE, IsClosing(a))
    BY <1>1, <1>2, <2>3, KnownNotified, ZenonT(40)
  <2> QED BY <1>3, <2>2, <2>4, OfNone DEF Told
<1>4. CASE sending' = e /\ Q = P
  <2>1. Of(e, a) = e
    BY DEF Of, For
  <2>2. Known(Mine(P, a), e, object[a], Connected(a)', handled[a], pushed'[a], FALSE, IsClosing(a))
    BY <1>1, <1>2, KnownBlocked
  <2> QED BY <1>4, <2>1, <2>2 DEF Told
<1> QED BY <1>3, <1>4 DEF Sends

\* lwIP's thread tells a client something, and tells the others nothing.
LEMMA NotifyOrder ==
  ASSUME TypeInv, ClosingInv, NEW P \in SUBSET Packets, NEW Q \in SUBSET Packets, Ordered(P),
         NEW a \in Clients, NEW kind \in {"recv", "sent", "poll", "fin", "error"},
         LwipMay, scan = NoScan, Connected(a),
         Sends(P, Q, Event(kind, a, pushed[a] + 1)), pushed[a] < MaxEvents,
         pushed' = [pushed EXCEPT ![a] = @ + 1], UNCHANGED <<object, handled, service>>,
         \A b \in Clients \ {a} : UNCHANGED <<conn[b], hooked[b], pcb[b]>>,
         kind \in Last => ~Connected(a)', Connected(a)' \in BOOLEAN
  PROVE  Ordered(Q)'
<1> DEFINE e == Event(kind, a, pushed[a] + 1)
<1>1. pushed \in [Clients -> 0..MaxEvents] /\ pushed[a] \in Nat
  <2>1. pushed \in [Clients -> 0..MaxEvents]
    BY Zenon DEF TypeInv
  <2> QED BY <2>1, BoundsAssumption
<1>2. /\ e \in Events /\ For(e, a) /\ e.kind = kind /\ e.n = pushed[a] + 1
      /\ kind \notin {"accept", "clear"}
  BY <1>1, BoundsAssumption DEF Event, Events, Kinds, For
<1> HIDE DEF e
<1>3. sending = NoEvent /\ Sends(P, Q, e) /\ Told(P, a)
  BY DEF LwipMay, e, Ordered
<1>4. Packed(Q, sending')
  BY <1>2, <1>3, Fresh, PackedSends DEF Ordered
<1>5. UNCHANGED <<cur, plan, scan, call, object, handled>>
  BY DEF service
<1>6. ASSUME NEW b \in Clients, b # a PROVE Told(Q, b)'
  <2>1. Mine(Q, b) = Mine(P, b) /\ Of(sending, b)' = Of(sending, b)
    <3>1. ~For(e, b)
      BY <1>2, <1>6 DEF For
    <3> QED BY <1>3, <3>1, OtherSends
  <2>2. pushed'[b] = pushed[b] /\ Connected(b)' = Connected(b)
    BY <1>1, <1>6 DEF Connected
  <2>3. IsRemoved(b)' = IsRemoved(b) /\ IsClosing(b)' = IsClosing(b)
    BY <1>5, Zenon DEF IsRemoved, IsClosing
  <2>4. Told(P, b)
    BY DEF Ordered
  <2> QED BY <1>5, <2>1, <2>2, <2>3, <2>4, ToldOther
<1>7. Told(Q, a)'
  <2>1. pushed'[a] = pushed[a] + 1
    BY <1>1
  <2>2. IsRemoved(a) = FALSE /\ IsRemoved(a)' = FALSE
    BY <1>5, NoClientAssumption DEF IsRemoved, NoScan
  <2>3. object'[a] = object[a] /\ handled'[a] = handled[a] /\ IsClosing(a)' = IsClosing(a)
    BY <1>5, Zenon DEF IsClosing
  <2> QED BY <1>2, <1>3, <2>1, <2>2, <2>3, ToldNotified
<1>8. PlanInv(Q)'
  <2>1. plan \in Closing => cur \in Clients \ {a}
    <3>1. plan \in Closing => plan # <<>>
      BY PlanNames
    <3>2. plan \in Closing => cur # a
      BY PlanNames DEF Ordered, PlanInv, Connected
    <3> QED BY <3>1, <3>2 DEF ClosingInv
  <2>2. ASSUME plan \in Closing
        PROVE  /\ pcb'[cur] = pcb[cur] /\ hooked'[cur] = hooked[cur] /\ Connected(cur)' = Connected(cur)
               /\ Of(sending, cur)' = Of(sending, cur) /\ Mine(Q, cur) = Mine(P, cur)
    <3>1. Of(sending, cur)' = Of(sending, cur) /\ Mine(Q, cur) = Mine(P, cur)
      <4>1. ~For(e, cur)
        BY <1>2, <2>1, <2>2 DEF For
      <4>2. Of(sending, cur)' = Of(sending', cur)
        BY <1>5 DEF Of
      <4> QED BY <1>3, <1>5, <2>1, <2>2, <4>1, <4>2, OtherSends
    <3> QED BY <1>5, <2>1, <2>2, <3>1 DEF Connected
  <2>3. PlanInv(P) /\ UNCHANGED service
    BY DEF Ordered
  <2>4. object' = object
    BY <1>5
  <2> HIDE DEF service
  <2> QED BY <2>2, <2>3, <2>4, PlanCloses, PlanOther
<1> QED BY <1>4, <1>6, <1>7, <1>8 DEF Ordered

-----------------------------------------------------------------------------
(* The steps of lwIP's thread that send none, or another. *)

\* A client has none of the packets of another, and the marks of a client are alike.
LEMMA MarkOf ==
  ASSUME NEW P, NEW s, Packed(P, s), NEW a \in Clients, NEW kind \in {"accept", "clear"},
         NEW p \in Mine(P, a), p[2].kind = kind, p[2] \in Events
  PROVE  p[2] = Event(kind, a, 0)
<1>1. p \in P /\ p[2].client = a
  BY DEF Mine
<1>2. p[2].n = 0
  BY <1>1 DEF Packed
<1> QED BY <1>1, <1>2 DEF Events, Event

\* A client at an address of which nothing is left.
LEMMA AcceptOrder ==
  ASSUME TypeInv, ClosingInv, NEW P \in SUBSET Packets, NEW Q \in SUBSET Packets, Ordered(P),
         NEW a \in Clients, sending = NoEvent, scan = NoScan, object[a] = "free",
         \A p \in P : p[2] # Event("clear", a, 0),
         Sends(P, Q, Event("accept", a, 0)), UNCHANGED service,
         object' = [object EXCEPT ![a] = "new"], conn' = [conn EXCEPT ![a] = "open"],
         pcb' = [pcb EXCEPT ![a] = TRUE], hooked' = [hooked EXCEPT ![a] = TRUE],
         pushed' = [pushed EXCEPT ![a] = 0], handled' = [handled EXCEPT ![a] = 0]
  PROVE  Ordered(Q)'
<1> DEFINE e == Event("accept", a, 0)
<1>1. /\ e \in Events /\ For(e, a) /\ e.kind = "accept" /\ e.n = 0 /\ e.client \in Clients
      /\ \A b \in Clients : b # a => ~For(e, b)
  BY BoundsAssumption DEF Event, Events, Kinds, For
<1>2. Sends(P, Q, e)
  OBVIOUS
<1> HIDE DEF e
<1>3. /\ object \in [Clients -> {"free", "new", "attached"}]
      /\ conn \in [Clients -> {"open", "closed", "reset"}]
      /\ pcb \in [Clients -> BOOLEAN] /\ hooked \in [Clients -> BOOLEAN]
      /\ pushed \in [Clients -> 0..MaxEvents] /\ handled \in [Clients -> Nat]
  BY Zenon DEF TypeInv
<1>4. /\ object'[a] = "new" /\ conn'[a] = "open" /\ hooked'[a] /\ pushed'[a] = 0 /\ handled'[a] = 0
      /\ \A b \in Clients \ {a} : UNCHANGED <<object[b], conn[b], pcb[b], hooked[b], pushed[b], handled[b]>>
  BY <1>3
<1>5. cur' = cur /\ plan' = plan /\ scan' = scan /\ call' = call
  BY DEF service
<1>6. Mine(P, a) = {}
  <2>1. Known(Mine(P, a), NoEvent, "free", Connected(a), handled[a], pushed[a], FALSE, IsClosing(a))
    <3>1. IsRemoved(a) = FALSE
      BY NoClientAssumption DEF IsRemoved, NoScan
    <3> QED BY <3>1, OfNone DEF Ordered, Told
  <2>2. ~Holds(Mine(P, a), "clear")
    <3>1. ASSUME NEW p \in Mine(P, a), p[2].kind = "clear" PROVE FALSE
      <4>1. p \in P /\ p[2] \in Events
        BY DEF Mine, Packets
      <4> QED BY <3>1, <4>1, MarkOf DEF Ordered
    <3> QED BY <3>1 DEF Holds
  <2> QED BY <2>1, <2>2, ToldTypes, KnownEmpty, ZenonT(40)
<1>7. \A p \in P : p[2] # e
  <2> SUFFICES ASSUME NEW p \in P, p[2] = e PROVE FALSE
    OBVIOUS
  <2>1. p \in Mine(P, a)
    BY <1>1 DEF Mine, For
  <2> QED BY <1>6, <2>1
<1>8. Packed(Q, sending')
  BY <1>1, <1>2, <1>7, PackedSends DEF Ordered
<1>9. Told(Q, a)'
  <2>1. IsRemoved(a)' = FALSE
    BY <1>5, NoClientAssumption DEF IsRemoved, NoScan
  <2>2. IsClosing(a)' = FALSE
    <3>1. plan \in Cleared \cup Doomed => cur # a
      BY PlanCloses DEF Ordered
    <3> QED BY <1>5, <3>1 DEF IsClosing
  <2>3. Connected(a)' = TRUE
    BY <1>4 DEF Connected
  <2>4. \A p \in Mine(Q, a) : p[2].kind = "accept"
    <3>1. CASE Joins(P, Q, e)
      <4>1. PICK r \in Int : Q = Plus(P, r, e)
        BY <3>1 DEF Joins
      <4>2. Mine(Q, a) = Plus(Mine(P, a), r, e)
        BY <1>1, <4>1, MineJoins
      <4> QED BY <1>1, <1>6, <4>2 DEF Plus
    <3>2. CASE Q = P
      BY <1>6, <3>2
    <3> QED BY <1>2, <3>1, <3>2 DEF Sends
  <2>5. Of(sending, a)'.kind = "accept" \/ (Of(sending, a)' = NoEvent /\ Mine(Q, a) # {})
    <3>1. CASE sending' = NoEvent /\ Joins(P, Q, e)
      <4>1. PICK r \in Int : Q = Plus(P, r, e)
        BY <3>1 DEF Joins
      <4>2. Mine(Q, a) = Plus(Mine(P, a), r, e)
        BY <1>1, <4>1, MineJoins
      <4> QED BY <3>1, <4>2, OfNone DEF Plus
    <3>2. CASE sending' = e
      BY <1>1, <3>2 DEF Of, For
    <3> QED BY <1>2, <3>1, <3>2 DEF Sends
  <2>6. Known(Mine(Q, a), Of(sending, a)', "new", TRUE, 0, 0, FALSE, FALSE)
    BY <2>4, <2>5, KnownNew
  <2> QED BY <1>4, <2>1, <2>2, <2>3, <2>6 DEF Told
<1>10. ASSUME NEW b \in Clients, b # a PROVE Told(Q, b)'
  <2>1. Mine(Q, b) = Mine(P, b) /\ Of(sending, b)' = Of(sending, b)
    BY <1>1, <1>2, <1>10, OtherSends
  <2>2. Connected(b)' = Connected(b)
    BY <1>4, <1>10 DEF Connected
  <2>3. IsRemoved(b)' = IsRemoved(b) /\ IsClosing(b)' = IsClosing(b)
    BY <1>5, Zenon DEF IsRemoved, IsClosing
  <2>4. Told(P, b)
    BY DEF Ordered
  <2> QED BY <1>4, <1>10, <2>1, <2>2, <2>3, <2>4, ToldOther
<1>11. PlanInv(Q)'
  <2>0. PlanInv(P) /\ UNCHANGED service
    BY DEF Ordered
  <2>1. plan # <<>> /\ object[cur] = "attached" => cur \in Clients \ {a}
    BY DEF ClosingInv
  <2>2. ASSUME cur \in Clients \ {a}
        PROVE  /\ object'[cur] = object[cur] /\ pcb'[cur] = pcb[cur] /\ hooked'[cur] = hooked[cur]
               /\ Connected(cur)' = Connected(cur)
               /\ Of(sending, cur)' = Of(sending, cur) /\ Mine(Q, cur) = Mine(P, cur)
    <3>1. Of(sending, cur)' = Of(sending', cur)
      BY <1>5 DEF Of
    <3>2. Of(sending, cur)' = Of(sending, cur) /\ Mine(Q, cur) = Mine(P, cur)
      BY <1>1, <1>2, <2>2, <3>1, OtherSends
    <3> QED BY <1>4, <1>5, <2>2, <3>2 DEF Connected
  <2>3. plan \in Closing => cur \in Clients \ {a}
    BY <2>0, <2>1, PlanCloses
  <2> HIDE DEF service
  <2> QED BY <2>0, <2>1, <2>2, <2>3, PlanCloses, PlanOther
<1> QED BY <1>8, <1>9, <1>10, <1>11 DEF Ordered

\* The last acknowledgement of a connection concerns no client.
LEMMA LateAckOrder ==
  ASSUME TypeInv, ClosingInv, NEW P \in SUBSET Packets, NEW Q \in SUBSET Packets, Ordered(P),
         sending = NoEvent, \A p \in P : p[2].client # NoClient,
         Sends(P, Q, Event("sent", NoClient, 0)),
         UNCHANGED <<object, network, slots, service, pushed, handled>>
  PROVE  Ordered(Q)'
<1> DEFINE e == Event("sent", NoClient, 0)
<1>1. /\ e \in Events /\ e.kind \notin {"accept", "clear"} /\ e.client = NoClient
      /\ \A b \in Clients : ~For(e, b)
  BY BoundsAssumption, NoClientAssumption DEF Event, Events, Kinds, For
<1>2. Sends(P, Q, e) /\ \A p \in P : p[2] # e
  BY <1>1
<1> HIDE DEF e
<1>3. UNCHANGED <<cur, plan, scan, call, object, conn, hooked, pcb, pushed, handled>>
  BY DEF service, network
<1>4. Packed(Q, sending')
  BY <1>1, <1>2, PackedSends DEF Ordered
<1>5. ASSUME NEW b \in Clients
      PROVE  Mine(Q, b) = Mine(P, b) /\ Of(sending, b)' = Of(sending, b)
  BY <1>1, <1>2, OtherSends
<1>6. ASSUME NEW b \in Clients PROVE Told(Q, b)'
  <2>1. Connected(b)' = Connected(b) /\ IsRemoved(b)' = IsRemoved(b) /\ IsClosing(b)' = IsClosing(b)
    BY <1>3, Zenon DEF IsRemoved, IsClosing, Connected
  <2>2. Told(P, b)
    BY DEF Ordered
  <2> QED BY <1>3, <1>5, <2>1, <2>2, ToldOther
<1>7. PlanInv(Q)'
  <2>1. ASSUME cur \in Clients
        PROVE  Of(sending, cur)' = Of(sending, cur) /\ Mine(Q, cur) = Mine(P, cur)
    <3>1. Of(sending, cur)' = Of(sending', cur)
      BY <1>3 DEF Of
    <3> QED BY <1>1, <1>2, <2>1, <3>1, OtherSends
  <2>2. PlanInv(P) /\ UNCHANGED service
    BY DEF Ordered
  <2>3. Connected(cur)' = Connected(cur)
    BY <1>3 DEF Connected
  <2>4. plan \in Closing => cur \in Clients
    BY <2>2, PlanCloses DEF ClosingInv
  <2>5. object' = object /\ pcb' = pcb /\ hooked' = hooked
    BY <1>3
  <2> HIDE DEF service
  <2> QED BY <2>1, <2>2, <2>3, <2>4, <2>5, PlanCloses, PlanOther
<1> QED BY <1>4, <1>6, <1>7 DEF Ordered

\* A step that changes neither the packets nor what is known of a client.
LEMMA Unconcerned ==
  ASSUME NEW P, Ordered(P), UNCHANGED <<sending, object, pushed, handled>>, PlanInv(P)',
         \A b \in Clients :
           /\ Connected(b)' = Connected(b) \/ Connected(b)' = FALSE
           /\ IsRemoved(b)' = IsRemoved(b) /\ IsClosing(b)' = IsClosing(b)
  PROVE  Ordered(P)'
<1>1. ASSUME NEW b \in Clients PROVE Told(P, b)'
  <2>1. Of(sending, b)' = Of(sending, b)
    BY Zenon DEF Of
  <2>2. Told(P, b)
    BY DEF Ordered
  <2>3. CASE Connected(b)' = Connected(b)
    BY <2>1, <2>2, <2>3, ToldOther
  <2>4. CASE Connected(b)' = FALSE
    <3>1. Known(Mine(P, b), Of(sending, b), object[b], FALSE, handled[b], pushed[b],
                IsRemoved(b), IsClosing(b))
      BY <2>2, KnownUnhooked DEF Told
    <3> QED BY <2>1, <2>4, <3>1 DEF Told
  <2> QED BY <2>3, <2>4
<1> QED BY <1>1 DEF Ordered

LEMMA ResetOrder ==
  ASSUME TypeInv, ClosingInv, NEW P \in SUBSET Packets, Ordered(P), NEW a \in Clients,
         ~hooked[a], conn' = [conn EXCEPT ![a] = "reset"],
         UNCHANGED <<pcb, hooked, sending, object, pushed, handled, service>>
  PROVE  Ordered(P)'
<1>1. cur' = cur /\ plan' = plan /\ scan' = scan /\ call' = call
  BY DEF service
<1>2. \A b \in Clients : Connected(b)' = Connected(b)
  <2>1. conn \in [Clients -> {"open", "closed", "reset"}] /\ hooked \in [Clients -> BOOLEAN]
    BY Zenon DEF TypeInv
  <2> QED BY <2>1 DEF Connected
<1>3. \A b \in Clients : IsRemoved(b)' = IsRemoved(b) /\ IsClosing(b)' = IsClosing(b)
  BY <1>1, Zenon DEF IsRemoved, IsClosing
<1>4. PlanInv(P)'
  <2>1. PlanInv(P)
    BY DEF Ordered
  <2>2. plan \in Closing => Connected(cur)' = Connected(cur)
    BY <1>1, <1>2, <2>1, PlanCloses DEF ClosingInv
  <2>3. Of(sending, cur)' = Of(sending, cur)
    BY <1>1, Zenon DEF Of
  <2>4. object' = object /\ pcb' = pcb /\ hooked' = hooked /\ UNCHANGED service
    OBVIOUS
  <2> HIDE DEF service
  <2> QED BY <2>1, <2>2, <2>3, <2>4, PlanCloses, PlanOther
<1> QED BY <1>2, <1>3, <1>4, Unconcerned

\* The event that waits for a place gets it.
LEMMA UnblockOrder ==
  ASSUME TypeInv, ClosingInv, NEW P \in SUBSET Packets, NEW Q \in SUBSET Packets, Ordered(P),
         scan = NoScan, sending # NoEvent, Joins(P, Q, sending), sending' = NoEvent,
         UNCHANGED <<object, network, slots, service, pushed, handled>>
  PROVE  Ordered(Q)'
<1>0. sending \in Events
  BY DEF TypeInv
<1>1. UNCHANGED <<cur, plan, scan, call, object, conn, hooked, pcb, pushed, handled>>
  BY DEF service, network
<1>2. PICK r \in Int : /\ Q = Plus(P, r, sending)
                       /\ sending.kind # "accept" => \A p \in P : p[1] < r
  <2>1. sending.kind # "clear"
    BY DEF Ordered, Packed
  <2> QED BY <2>1 DEF Joins, Plus
<1>3. Packed(Q, NoEvent)
  <2>1. Packed(P, NoEvent)
    <3>1. \A p \in P : p[2] # NoEvent
      BY NoEventIsNone DEF Packets
    <3> QED BY <3>1 DEF Ordered, Packed, NoEvent
  <2>2. \A p \in P : p[2] # sending
    BY DEF Ordered, Packed
  <2>3. sending.kind \in {"accept", "clear"} => sending.client \in Clients /\ sending.n = 0
    BY DEF Ordered, Packed
  <2> QED BY <1>2, <2>1, <2>2, <2>3, PackedJoins
<1>4. ASSUME NEW b \in Clients, ~For(sending, b)
      PROVE  Mine(Q, b) = Mine(P, b) /\ Of(sending, b) = NoEvent /\ Of(sending, b)' = NoEvent
  BY <1>2, <1>4, MineJoins, OfNone DEF Of, For
<1>5. ASSUME NEW b \in Clients, For(sending, b)
      PROVE  /\ Mine(Q, b) = Plus(Mine(P, b), r, sending) /\ Of(sending, b) = sending
             /\ Of(sending, b)' = NoEvent
  BY <1>2, <1>5, MineJoins, OfNone DEF Of, For
<1>6. ASSUME NEW b \in Clients
      PROVE  Connected(b)' = Connected(b) /\ IsRemoved(b)' = FALSE /\ IsRemoved(b) = FALSE
             /\ IsClosing(b)' = IsClosing(b)
  <2>1. IsRemoved(b)' = FALSE /\ IsRemoved(b) = FALSE
    BY <1>1, NoClientAssumption DEF IsRemoved, NoScan
  <2> QED BY <1>1, <2>1, Zenon DEF IsClosing, Connected
<1>7. ASSUME NEW b \in Clients PROVE Told(Q, b)'
  <2>1. Told(P, b)
    BY DEF Ordered
  <2>2. CASE ~For(sending, b)
    BY <1>1, <1>4, <1>6, <2>1, <2>2, ToldOther
  <2>3. CASE For(sending, b)
    <3>1. Known(Mine(P, b), sending, object[b], Connected(b), handled[b], pushed[b], FALSE, IsClosing(b))
      BY <1>5, <1>6, <2>1, <2>3 DEF Told
    <3>2. /\ Mine(P, b) \in SUBSET Packets /\ object[b] \in States /\ Connected(b) \in BOOLEAN
          /\ handled[b] \in Nat /\ pushed[b] \in Nat /\ IsClosing(b) \in BOOLEAN
      BY ToldTypes
    <3>3. Known(Plus(Mine(P, b), r, sending), NoEvent, object[b], Connected(b), handled[b], pushed[b],
                FALSE, IsClosing(b))
      <4>1. CASE sending.kind = "accept"
        <5>1. object[b] = "new"
          BY <3>1, <4>1, Zenon DEF Known
        <5> QED BY <3>1, <3>2, <4>1, <5>1, KnownAccepted
      <4>2. CASE sending.kind # "accept"
        <5>1. sending.kind \notin {"accept", "clear"}
          BY <4>2 DEF Ordered, Packed
        <5>2. \A p \in Mine(P, b) : p[1] < r
          BY <1>2, <4>2 DEF Mine
        <5> QED BY <1>0, <3>1, <3>2, <5>1, <5>2, KnownUnblocked
      <4> QED BY <4>1, <4>2
    <3> QED BY <1>1, <1>5, <1>6, <2>3, <3>3 DEF Told
  <2> QED BY <2>2, <2>3
<1>8. PlanInv(Q)'
  <2>1. plan \in Closing \/ plan \in Cleared \cup Doomed => cur \in Clients /\ object[cur] = "attached"
    BY PlanCloses DEF Ordered, ClosingInv
  <2>2. Sent(Of(sending, cur)') => Sent(Of(sending, cur))
    BY DEF Sent, Of, NoEvent
  <2>3. Connected(cur)' = Connected(cur)
    BY <1>1 DEF Connected
  <2>4. ASSUME plan \in Cleared \cup Doomed
        PROVE  /\ Behind(Mine(P, cur), "clear") => Behind(Mine(Q, cur), "clear")
               /\ plan \in Cleared => (Holds(Mine(P, cur), "clear") => Holds(Mine(Q, cur), "clear"))
    <3>1. CASE ~For(sending, cur)
      BY <1>4, <2>1, <2>4, <3>1
    <3>2. CASE For(sending, cur)
      <4>1. Mine(Q, cur) = Plus(Mine(P, cur), r, sending) /\ Of(sending, cur) = sending
        BY <1>5, <2>1, <2>4, <3>2
      <4>2. sending.kind # "accept" /\ sending.kind # "none"
        <5>1. Known(Mine(P, cur), sending, object[cur], Connected(cur), handled[cur], pushed[cur],
                    IsRemoved(cur), IsClosing(cur))
          BY <2>1, <2>4, <4>1 DEF Ordered, Told
        <5>2. object[cur] = "attached"
          BY <2>1, <2>4
        <5> QED BY <1>0, <5>1, <5>2 DEF Known, Events, Kinds
      <4>3. plan \in Cleared /\ Holds(Mine(P, cur), "clear")
        <5>1. Sent(Of(sending, cur))
          BY <4>1, <4>2 DEF Sent
        <5> QED BY <2>4, <5>1 DEF Ordered, PlanInv
      <4>4. Holds(Mine(Q, cur), "clear")
        BY <4>1, <4>3 DEF Holds, Plus
      <4>5. ASSUME Behind(Mine(P, cur), "clear") PROVE Behind(Mine(Q, cur), "clear")
        <5>1. \A p \in Mine(P, cur) : p[1] < r
          BY <1>2, <4>2 DEF Mine
        <5> DEFINE M == Mine(P, cur)
        <5> HIDE DEF M
        <5>2. Mine(Q, cur) = M \cup {<<r, sending>>} /\ Holds(M, "clear") /\ Behind(M, "clear")
          BY <4>1, <4>3, <4>5 DEF M, Plus
        <5>3. \A p \in M : p[1] < r
          BY <5>1 DEF M
        <5>4. <<r, sending>>[1] = r
          OBVIOUS
        <5> QED BY <5>2, <5>3, <5>4 DEF Behind, Holds, Own
      <4> QED BY <4>4, <4>5
    <3> QED BY <3>1, <3>2
  <2>5. Sent(Of(sending, cur))' = Sent(Of(sending, cur)')
    BY DEF Sent
  <2> QED BY <1>1, <2>1, <2>2, <2>3, <2>4, <2>5, PlanOther DEF Ordered
<1> QED BY <1>3, <1>7, <1>8 DEF Ordered

-----------------------------------------------------------------------------
(* The steps of a handler. *)

\* What a plan begins with says which plan it is.
LEMMA PlanHeads ==
  ASSUME NEW P, PlanInv(P), plan # <<>>
  PROVE  /\ Head(plan) = "call" => plan \in Harmless /\ Tail(plan) \in Harmless
         /\ plan \in Calls => Head(plan) = "call" /\ Tail(plan) \in Calls
         /\ Head(plan) = "unhook" => plan \in Shut /\ plan \in Harmless /\ Tail(plan) \in Unhooked
         /\ Head(plan) = "clear" => (plan \in Unhooked /\ Tail(plan) \in Cleared)
                                    \/ (plan \in Gone /\ Tail(plan) \in Doomed)
         /\ Head(plan) = "close" => plan \in Cleared /\ Tail(plan) \in Doomed
         /\ Head(plan) = "delete" => plan \in Doomed /\ Tail(plan) \in Calls
<1>1. plan \in Harmless \cup Closing
  BY DEF PlanInv
<1>2. plan \in Harmless => \/ Head(plan) = "call" /\ Tail(plan) \in Harmless
                           \/ plan \in Shut /\ Head(plan) = "unhook" /\ Tail(plan) \in Unhooked
  BY HarmlessSteps, Zenon
<1>3. plan \in Calls => Head(plan) = "call" /\ Tail(plan) \in Calls
  BY CallsAreSteps
<1>4. \/ plan \in Harmless
      \/ plan \in Unhooked /\ Head(plan) = "clear" /\ Tail(plan) \in Cleared
      \/ plan \in Cleared /\ Head(plan) = "close" /\ Tail(plan) \in Doomed
      \/ plan \in Gone /\ Head(plan) = "clear" /\ Tail(plan) \in Doomed
      \/ plan \in Doomed /\ Head(plan) = "delete" /\ Tail(plan) \in Calls
  BY <1>1, ClosingSteps, PlanNames
<1> QED BY <1>2, <1>3, <1>4

\* A harmless plan is not one that closes.
LEMMA HarmlessNames ==
  \A p \in Harmless : p \notin Unhooked /\ p \notin Cleared /\ p \notin Gone /\ p \notin Doomed
BY PlanNames

\* A handler that has not begun to close goes on.
LEMMA HarmlessOrder ==
  ASSUME NEW P, Ordered(P), plan \in Harmless, plan' \in Harmless,
         plan # <<>>, object[cur] = "attached" \/ plan' \in Calls, cur' = cur, UNCHANGED scan,
         call'.op \in {"load", "call"} => plan' # <<>> /\ Head(plan') = "call",
         call'.op \notin {"loadclose", "close"},
         UNCHANGED <<sending, object, pushed, handled>>,
         \A b \in Clients : Connected(b)' = Connected(b) \/ Connected(b)' = FALSE
  PROVE  Ordered(P)'
<1>1. /\ plan \notin Unhooked /\ plan \notin Cleared /\ plan \notin Gone /\ plan \notin Doomed
      /\ plan' \notin Unhooked /\ plan' \notin Cleared /\ plan' \notin Gone /\ plan' \notin Doomed
  BY HarmlessNames
<1>2. PlanInv(P)'
  <2>1. scan = NoScan
    BY DEF Ordered, PlanInv
  <2> QED BY <1>1, <2>1 DEF PlanInv
<1>3. \A b \in Clients : IsRemoved(b)' = IsRemoved(b) /\ IsClosing(b)' = IsClosing(b)
  BY <1>1 DEF IsRemoved, IsClosing
<1> QED BY <1>2, <1>3, Unconcerned

LEMMA ServeCallOrder ==
  ASSUME TypeInv, ClosingInv, NEW P, Ordered(P), ServeCall
  PROVE  Ordered(P)'
<1>1. /\ call.op \in {"call", "close"} /\ call' = NoCall /\ plan' = Tail(plan)
      /\ sending = NoEvent
      /\ UNCHANGED <<queue, sending, object, hooked, slots, cur, scan, pushed, handled>>
  BY Zenon DEF ServeCall
<1>2. plan # <<>> /\ cur \in Clients /\ PlanInv(P)
  <2>1. PlanInv(P)
    BY DEF Ordered
  <2>2. call.op = "call" => plan # <<>>
    BY <2>1 DEF PlanInv
  <2>3. call.op = "close" => plan \in Cleared
    BY <2>1 DEF PlanInv
  <2> QED BY <1>1, <2>1, <2>2, <2>3, PlanNames DEF ClosingInv
<1>3. ASSUME NEW b \in Clients PROVE Connected(b)' = Connected(b) \/ Connected(b)' = FALSE
  <2>1. conn \in [Clients -> {"open", "closed", "reset"}] /\ hooked \in [Clients -> BOOLEAN]
    BY Zenon DEF TypeInv
  <2>2. conn' = conn \/ conn' = [conn EXCEPT ![cur] = "closed"] \/ conn' = [conn EXCEPT ![cur] = @]
    BY Zenon DEF ServeCall
  <2>3. conn'[b] = conn[b] \/ conn'[b] = "closed"
    BY <2>1, <2>2
  <2> QED BY <1>1, <2>3 DEF Connected
<1>4. CASE call.op = "call"
  <2>1. Head(plan) = "call"
    BY <1>2, <1>4 DEF PlanInv
  <2>2. plan \in Harmless /\ plan' \in Harmless /\ (plan \in Calls => plan' \in Calls)
    BY <1>1, <1>2, <2>1, PlanHeads
  <2>3. object[cur] = "attached" \/ plan' \in Calls
    BY <1>2, <2>2 DEF PlanInv
  <2>4. call'.op \notin {"load", "call", "loadclose", "close"}
    BY <1>1 DEF NoCall
  <2> QED BY <1>1, <1>2, <1>3, <2>2, <2>3, <2>4, HarmlessOrder
<1>5. CASE call.op = "close"
  <2>1. plan \in Cleared /\ plan' \in Doomed
    <3>1. plan \in Cleared
      BY <1>2, <1>5 DEF PlanInv
    <3> QED BY <1>1, <3>1, ClosingSteps
  <2>2. \A b \in Clients : IsRemoved(b)' = IsRemoved(b) /\ IsClosing(b)' = IsClosing(b)
    BY <1>1, <2>1 DEF IsRemoved, IsClosing
  <2>3. ~Connected(cur)' /\ ~Sent(Of(sending, cur))'
    <3>1. ~hooked[cur]
      BY <1>2, <2>1 DEF PlanInv
    <3>2. ~Sent(Of(sending, cur))'
      BY <1>1 DEF Of, Sent, NoEvent
    <3> QED BY <1>1, <3>1, <3>2 DEF Connected
  <2>4. /\ plan' \in Closing /\ plan' \notin Unhooked /\ plan' \notin Cleared
        /\ scan' = scan /\ object' = object /\ cur' = cur
    BY <1>1, <2>1, PlanNames
  <2>5. scan = NoScan /\ object[cur] = "attached" /\ Behind(Mine(P, cur), "clear")
    <3>1. scan = NoScan /\ Behind(Mine(P, cur), "clear")
      BY <1>2, <2>1 DEF PlanInv
    <3> QED BY <1>2, <2>1, <3>1, PlanCloses
  <2>6. call'.op \notin {"load", "call", "loadclose", "close"}
    BY <1>1 DEF NoCall
  <2>7. PlanInv(P)'
    BY <2>3, <2>4, <2>5, <2>6 DEF PlanInv
  <2> QED BY <1>1, <1>3, <2>2, <2>7, Unconcerned
<1> QED BY <1>1, <1>4, <1>5

LEMMA LoadPcbOrder ==
  ASSUME NEW P, Ordered(P), LoadPcb
  PROVE  Ordered(P)'
<1>1. UNCHANGED <<queue, sending, object, network, slots, cur, scan, pushed, handled>>
  BY Zenon DEF LoadPcb
<1>2. PlanInv(P) /\ UNCHANGED <<conn, pcb, hooked>>
  BY <1>1 DEF Ordered, network
<1>3. \A b \in Clients : Connected(b)' = Connected(b)
  BY <1>2 DEF Connected
<1>4. CASE Step("call") /\ call' = [NoCall EXCEPT !.op = "load"] /\ UNCHANGED plan
  <2>1. plan # <<>> /\ Head(plan) = "call" /\ call'.op = "load" /\ plan' = plan
    BY <1>4 DEF Step, NoCall
  <2>2. plan \in Harmless /\ (object[cur] = "attached" \/ plan \in Calls)
    <3>1. object[cur] = "attached" \/ plan \in Calls
      BY <1>2, <2>1 DEF PlanInv
    <3> QED BY <1>2, <2>1, <3>1, PlanHeads
  <2> QED BY <1>1, <1>3, <2>1, <2>2, HarmlessOrder
<1>5. CASE Step("call") /\ plan' = Tail(plan) /\ UNCHANGED call
  <2>1. plan # <<>> /\ Head(plan) = "call" /\ call'.op = "none"
    BY <1>5 DEF Step, NoCall
  <2>2. plan \in Harmless /\ plan' \in Harmless /\ (plan \in Calls => plan' \in Calls)
    BY <1>2, <1>5, <2>1, PlanHeads
  <2>3. object[cur] = "attached" \/ plan' \in Calls
    BY <1>2, <2>1, <2>2 DEF PlanInv
  <2> QED BY <1>1, <1>3, <2>1, <2>2, <2>3, HarmlessOrder
<1>6. CASE Step("close") /\ ~pcb[cur]
  <2>1. plan \in Cleared
    BY <1>2, <1>6, PlanHeads DEF Step
  <2>2. pcb[cur]
    BY <1>2, <2>1 DEF PlanInv
  <2> QED BY <1>6, <2>2
<1>7. CASE Step("close") /\ call' = [NoCall EXCEPT !.op = "loadclose"] /\ UNCHANGED plan
  <2>1. plan # <<>> /\ Head(plan) = "close" /\ call'.op = "loadclose" /\ plan' = plan
    BY <1>7 DEF Step, NoCall
  <2>2. plan \in Cleared
    BY <1>2, <2>1, PlanHeads
  <2>3. cur' = cur /\ scan' = scan /\ object' = object /\ sending' = sending
    BY <1>1
  <2>4. PlanInv(P)'
    BY <1>2, <1>3, <2>1, <2>2, <2>3, PlanNames DEF PlanInv
  <2>5. \A b \in Clients : IsRemoved(b)' = IsRemoved(b) /\ IsClosing(b)' = IsClosing(b)
    BY <2>1, <2>3 DEF IsRemoved, IsClosing
  <2> QED BY <1>1, <1>3, <2>4, <2>5, Unconcerned
<1>8. \/ Step("call") /\ call' = [NoCall EXCEPT !.op = "load"] /\ UNCHANGED plan
      \/ Step("call") /\ plan' = Tail(plan) /\ UNCHANGED call
      \/ Step("close") /\ ~pcb[cur]
      \/ Step("close") /\ call' = [NoCall EXCEPT !.op = "loadclose"] /\ UNCHANGED plan
  BY DEF LoadPcb
<1> QED BY <1>4, <1>5, <1>6, <1>7, <1>8

LEMMA LoadSlotOrder ==
  ASSUME NEW P, Ordered(P), LoadSlot
  PROVE  Ordered(P)'
<1>1. /\ call.op \in {"load", "loadclose"}
      /\ call'.op = IF call.op = "load" THEN "call" ELSE "close"
      /\ UNCHANGED <<queue, sending, object, network, slots, cur, plan, scan, pushed, handled>>
  BY DEF LoadSlot
<1>2. PlanInv(P) /\ UNCHANGED <<conn, pcb, hooked>>
  BY <1>1 DEF Ordered, network
<1>3. \A b \in Clients : Connected(b)' = Connected(b)
  BY <1>2 DEF Connected
<1>4. cur' = cur /\ scan' = scan /\ object' = object /\ sending' = sending /\ plan' = plan
  BY <1>1
<1>5. PlanInv(P)'
  <2>1. /\ call'.op \in {"load", "call"} => plan # <<>> /\ Head(plan) = "call"
        /\ call'.op \in {"loadclose", "close"} => plan \in Cleared
    BY <1>1, <1>2 DEF PlanInv
  <2> QED BY <1>2, <1>3, <1>4, <2>1 DEF PlanInv, Connected
<1>6. \A b \in Clients : IsRemoved(b)' = IsRemoved(b) /\ IsClosing(b)' = IsClosing(b)
  BY <1>4 DEF IsRemoved, IsClosing
<1> QED BY <1>1, <1>3, <1>5, <1>6, Unconcerned

LEMMA UnhookOrder ==
  ASSUME TypeInv, ClosingInv, NEW P, Ordered(P), Unhook
  PROVE  Ordered(P)'
<1>1. /\ plan # <<>> /\ Head(plan) = "unhook" /\ call = NoCall /\ call' = call
      /\ UNCHANGED <<queue, sending, object, conn, pcb, slots, cur, scan, call, pushed, handled>>
  BY DEF Unhook, Step
<1>2. PlanInv(P) /\ cur \in Clients
  BY <1>1 DEF Ordered, ClosingInv
<1>3. plan \in Shut /\ plan \in Harmless /\ Tail(plan) \in Unhooked
  BY <1>1, <1>2, PlanHeads
<1>4. cur' = cur /\ scan' = scan /\ object' = object /\ sending' = sending /\ conn' = conn /\ pcb' = pcb
  BY <1>1
<1>5. CASE ~pcb[cur]
  <2>1. plan' \in Calls /\ hooked' = hooked
    BY <1>3, <1>5, ShutRest DEF Unhook
  <2>2. \A b \in Clients : Connected(b)' = Connected(b)
    BY <1>4, <2>1 DEF Connected
  <2>3. plan' \in Harmless /\ call'.op \notin {"load", "call", "loadclose", "close"}
    BY <1>1, <2>1, PlanNames DEF NoCall
  <2> QED BY <1>1, <1>3, <2>1, <2>2, <2>3, HarmlessOrder
<1>6. CASE pcb[cur]
  <2>1. plan' \in Unhooked /\ hooked' = [hooked EXCEPT ![cur] = FALSE]
    BY <1>3, <1>6 DEF Unhook
  <2>2. hooked \in [Clients -> BOOLEAN]
    BY Zenon DEF TypeInv
  <2>3. \A b \in Clients : Connected(b)' = Connected(b) \/ Connected(b)' = FALSE
    <3>1. \A b \in Clients : hooked'[b] = hooked[b] \/ hooked'[b] = FALSE
      BY <2>1, <2>2
    <3> QED BY <1>4, <3>1 DEF Connected
  <2>4. \A b \in Clients : IsRemoved(b)' = IsRemoved(b) /\ IsClosing(b)' = IsClosing(b)
    <3>1. plan \notin Cleared \cup Doomed /\ plan' \notin Cleared \cup Doomed
      BY <1>3, <2>1, HarmlessNames, PlanNames
    <3> QED BY <1>4, <3>1 DEF IsRemoved, IsClosing
  <2>5. PlanInv(P)'
    <3>1. hooked'[cur] = FALSE
      BY <1>2, <2>1, <2>2
    <3>2. /\ plan' \in Closing /\ plan' \notin Cleared /\ plan' \notin Gone /\ plan' \notin Doomed
          /\ call'.op \notin {"load", "call", "loadclose", "close"}
      BY <1>1, <2>1, PlanNames DEF NoCall
    <3>3. scan = NoScan /\ object[cur] = "attached"
      <4>1. scan = NoScan
        BY <1>1, <1>2 DEF PlanInv
      <4> QED BY <1>2, <1>3, <4>1, PlanCloses
    <3> QED BY <1>4, <1>6, <2>1, <3>1, <3>2, <3>3 DEF PlanInv
  <2> QED BY <1>1, <2>3, <2>4, <2>5, Unconcerned
<1> QED BY <1>5, <1>6

\* The handler of a disconnection sends CLEAR to the front.
LEMMA ClearOrder ==
  ASSUME TypeInv, ClosingInv, NEW P \in SUBSET Packets, Ordered(P), NEW b \in Int,
         NEW Q, Q = Plus(P, b, Event("clear", cur, 0)), \A p \in P : b < p[1], ClearEvents
  PROVE  Ordered(Q)'
<1>1. /\ plan # <<>> /\ Head(plan) = "clear" /\ call = NoCall /\ plan' = Tail(plan)
      /\ UNCHANGED <<sending, object, network, slots, cur, scan, call, pushed, handled>>
  BY DEF ClearEvents, Step
<1>2. PlanInv(P) /\ cur \in Clients
  BY <1>1 DEF Ordered, ClosingInv
<1>3. PICK c \in Clients : c = cur
  BY <1>2
<1>4. PICK f : f = Event("clear", c, 0)
  OBVIOUS
<1>5. Q = Plus(P, b, f)
  BY <1>3, <1>4
<1>6. cur = c /\ cur' = c /\ plan' = Tail(plan) /\ sending' = sending /\ object' = object /\ scan' = scan
      /\ call' = call /\ pushed' = pushed /\ handled' = handled /\ conn' = conn /\ pcb' = pcb /\ hooked' = hooked
  BY <1>1, <1>3 DEF network
<1>7. \/ plan \in Unhooked /\ plan' \in Cleared
      \/ plan \in Gone /\ plan' \in Doomed
  BY <1>1, <1>2, PlanHeads, Zenon
<1>8. plan \notin Cleared \cup Doomed /\ plan' \in Cleared \cup Doomed
  BY <1>7, PlanNames
<1>9. scan = NoScan /\ object[c] = "attached"
  <2>1. scan = NoScan
    BY <1>1, <1>2 DEF PlanInv
  <2> QED BY <1>2, <1>6, <1>7, <2>1, PlanCloses
<1>10. IsRemoved(c) = FALSE
  BY <1>9, NoClientAssumption DEF IsRemoved, NoScan
<1>11. IsClosing(c) = FALSE
  BY <1>8 DEF IsClosing
<1>12. Known(Mine(P, c), Of(sending, c), "attached", Connected(c), handled[c], pushed[c], FALSE, FALSE)
  BY <1>9, <1>10, <1>11 DEF Ordered, Told
<1>13. ~Holds(Mine(P, c), "clear")
  BY <1>12 DEF Known
<1>14. f.kind = "clear" /\ f.client = c /\ f.n = 0 /\ For(f, c) /\ \A d \in Clients \ {c} : ~For(f, d)
  BY <1>4 DEF Event, For
<1>15. \A p \in P : p[2] # f
  BY <1>13, <1>14 DEF Holds, Mine
<1>16. Packed(Q, sending)
  <2>1. f # sending
    BY <1>14 DEF Ordered, Packed
  <2> QED BY <1>5, <1>14, <1>15, <2>1, PackedJoins DEF Ordered
<1>17. ASSUME NEW d \in Clients
       PROVE  /\ Connected(d)' = Connected(d) /\ IsRemoved(d)' = IsRemoved(d)
              /\ Of(sending, d)' = Of(sending, d)
  BY <1>6, Zenon DEF Connected, IsRemoved, Of
<1>18. Mine(Q, c) = Plus(Mine(P, c), b, f)
  BY <1>5, <1>14, MineJoins
<1>19. /\ Known(Mine(Q, c), Of(sending, c), "attached", Connected(c), handled[c], pushed[c], FALSE, TRUE)
       /\ Behind(Mine(Q, c), "clear") /\ Holds(Mine(Q, c), "clear")
  <2>1. \A p \in Mine(P, c) : b < p[1]
    BY DEF Mine
  <2>2. "attached" \in States /\ FALSE \in BOOLEAN
    BY DEF States
  <2>3. /\ Known(Mine(Q, c), Of(sending, c), "attached", Connected(c), handled[c], pushed[c], FALSE, TRUE)
        /\ Behind(Mine(Q, c), "clear")
    <3>1. /\ Mine(P, c) \in SUBSET Packets /\ Connected(c) \in BOOLEAN
          /\ handled[c] \in Nat /\ pushed[c] \in Nat
      BY ToldTypes
    <3> DEFINE M == Mine(P, c)
    <3> HIDE DEF M
    <3>2. /\ Known(Plus(M, b, f), Of(sending, c), "attached", Connected(c), handled[c], pushed[c], FALSE, TRUE)
          /\ Behind(Plus(M, b, f), "clear")
      BY <1>12, <1>14, <2>1, <2>2, <3>1, KnownClosing, ZenonT(40) DEF M
    <3> QED BY <1>18, <3>2, Zenon DEF M
  <2>4. Holds(Mine(Q, c), "clear")
    <3>1. <<b, f>>[2] = f
      OBVIOUS
    <3> QED BY <1>14, <1>18, <3>1 DEF Holds, Plus
  <2> QED BY <2>3, <2>4
<1>20. Told(Q, c)'
  <2>1. IsClosing(c)' = TRUE
    BY <1>6, <1>8 DEF IsClosing
  <2> QED BY <1>6, <1>9, <1>10, <1>17, <1>19, <2>1 DEF Told
<1>21. ASSUME NEW d \in Clients, d # c PROVE Told(Q, d)'
  <2>1. Mine(Q, d) = Mine(P, d)
    BY <1>5, <1>14, <1>21, MineJoins
  <2>2. IsClosing(d)' = IsClosing(d)
    BY <1>6, <1>21 DEF IsClosing
  <2>3. Told(P, d)
    BY DEF Ordered
  <2> QED BY <1>6, <1>17, <2>1, <2>2, <2>3, ToldOther
<1>22. PlanInv(Q)'
  <2>1. plan \in Unhooked => pcb[cur] /\ ~hooked[cur]
    BY <1>2 DEF PlanInv
  <2>2. plan \in Gone => ~Connected(cur) /\ ~Sent(Of(sending, cur))
    BY <1>2 DEF PlanInv
  <2>3. plan' \in Doomed => ~Connected(c)' /\ ~Sent(Of(sending, c))'
    <3>1. plan' \in Doomed => plan \in Gone
      BY <1>7, PlanNames
    <3>2. Sent(Of(sending, c))' = Sent(Of(sending, c)')
      BY DEF Sent
    <3> QED BY <1>6, <1>17, <2>2, <3>1, <3>2
  <2>4. plan' \in Cleared => pcb'[c] /\ ~hooked'[c]
    <3>1. plan' \in Cleared => plan \in Unhooked
      BY <1>7, PlanNames
    <3> QED BY <1>6, <2>1, <3>1
  <2>5. plan' \in Closing /\ plan' \notin Unhooked /\ plan' \notin Gone
    BY <1>8, PlanNames
  <2>6. call'.op \notin {"load", "call", "loadclose", "close"}
    BY <1>1, <1>6 DEF NoCall
  <2> QED BY <1>6, <1>8, <1>9, <1>19, <2>3, <2>4, <2>5, <2>6 DEF PlanInv, Connected, Of
<1>23. Packed(Q, sending)'
  BY <1>6, <1>16
<1> QED BY <1>20, <1>21, <1>22, <1>23 DEF Ordered

\* The handler of a disconnection ends: the client is deleted.
LEMMA DeleteOrder ==
  ASSUME TypeInv, ClosingInv, NEW P \in SUBSET Packets, Ordered(P), Delete
  PROVE  Ordered(P)'
<1>1. /\ plan # <<>> /\ Head(plan) = "delete" /\ call = NoCall /\ plan' = Tail(plan)
      /\ UNCHANGED <<queue, sending, network, cur, scan, call, pushed, handled>>
  BY DEF Delete, Step
<1>2. PlanInv(P) /\ cur \in Clients
  BY <1>1 DEF Ordered, ClosingInv
<1>3. PICK c \in Clients : c = cur
  BY <1>2
<1>4. /\ cur = c /\ cur' = c /\ sending' = sending /\ scan' = scan
      /\ call' = call /\ pushed' = pushed /\ handled' = handled /\ conn' = conn /\ pcb' = pcb /\ hooked' = hooked
  BY <1>1, <1>3 DEF network
<1>5. plan \in Doomed /\ plan' \in Calls
  BY <1>1, <1>2, PlanHeads, Zenon
<1>6. /\ scan = NoScan /\ object[c] = "attached" /\ ~Connected(c) /\ ~Sent(Of(sending, c))
      /\ Behind(Mine(P, c), "clear")
  <2>1. /\ scan = NoScan /\ ~Connected(c) /\ ~Sent(Of(sending, c))
        /\ Behind(Mine(P, c), "clear")
    BY <1>1, <1>2, <1>4, <1>5 DEF PlanInv
  <2> QED BY <1>2, <1>4, <1>5, <2>1, PlanCloses
<1>7. IsRemoved(c) = FALSE
  BY <1>6, NoClientAssumption DEF IsRemoved, NoScan
<1>8. /\ plan' \notin Unhooked /\ plan' \notin Cleared /\ plan' \notin Gone /\ plan' \notin Doomed
      /\ plan' \in Harmless /\ call'.op \notin {"load", "call", "loadclose", "close"}
  <2>1. call'.op \notin {"load", "call", "loadclose", "close"}
    BY <1>1 DEF NoCall
  <2>2. plan' \in Harmless
    BY <1>5, PlanNames
  <2> QED BY <2>1, <2>2, HarmlessNames
<1>9. Connected(c) = FALSE
  BY <1>6 DEF Connected
<1>10. Known(Mine(P, c), Of(sending, c), "attached", FALSE, handled[c], pushed[c], FALSE, IsClosing(c))
  BY <1>6, <1>7, <1>9 DEF Ordered, Told
<1>11. Known(Mine(P, c), Of(sending, c), "free", FALSE, handled[c], pushed[c], FALSE, FALSE)
  <2>1. Mine(P, c) \in SUBSET Packets /\ Of(sending, c) \in Events \cup {NoEvent}
    BY ToldTypes
  <2> QED BY <1>6, <1>10, <2>1, KnownDeleted
<1>12. object' = [object EXCEPT ![c] = "free"]
  BY <1>4, <1>6 DEF Delete
<1>13. object'[c] = "free" /\ \A d \in Clients \ {c} : object'[d] = object[d]
  <2>1. object \in [Clients -> {"free", "new", "attached"}]
    BY Zenon DEF TypeInv
  <2> QED BY <1>12, <2>1
<1>14. ASSUME NEW d \in Clients
       PROVE  /\ Connected(d)' = Connected(d) /\ IsRemoved(d)' = IsRemoved(d)
              /\ Of(sending, d)' = Of(sending, d) /\ IsClosing(d)' = FALSE
  <2>1. IsClosing(d)' = FALSE
    BY <1>8 DEF IsClosing
  <2> QED BY <1>4, <2>1, Zenon DEF Connected, IsRemoved, Of
<1>15. Told(P, c)'
  BY <1>4, <1>7, <1>9, <1>11, <1>13, <1>14 DEF Told
<1>16. ASSUME NEW d \in Clients, d # c PROVE Told(P, d)'
  <2>1. IsClosing(d)' = IsClosing(d)
    BY <1>4, <1>14, <1>16 DEF IsClosing
  <2>2. Told(P, d)
    BY DEF Ordered
  <2> QED BY <1>4, <1>13, <1>14, <1>16, <2>1, <2>2, ToldOther
<1>17. PlanInv(P)'
  BY <1>4, <1>5, <1>6, <1>8 DEF PlanInv
<1>18. Packed(P, sending)'
  BY <1>4 DEF Ordered
<1> QED BY <1>15, <1>16, <1>17, <1>18 DEF Ordered

-----------------------------------------------------------------------------
\* A packet goes.
LEMMA MineMinus ==
  ASSUME NEW P, NEW p, NEW a
  PROVE  Mine(Minus(P, p), a) = IF For(p[2], a) THEN Minus(Mine(P, a), p) ELSE Mine(P, a)
BY DEF Mine, Minus, For

LEMMA PackedMinus ==
  ASSUME NEW P, NEW p, NEW s, Packed(P, s)
  PROVE  Packed(Minus(P, p), s)
BY DEF Packed, Minus

\* No plan: then nothing is known of a handler.
LEMMA PlanEmpty ==
  ASSUME NEW P, plan = <<>>
  PROVE  (PlanInv(P) => call.op \notin {"load", "call", "loadclose", "close"})
         /\ \A a \in Clients : IsClosing(a) = FALSE
<1>1. plan \notin Cleared /\ plan \notin Doomed
  BY PlanNames
<1>2. PlanInv(P) => call.op \notin {"load", "call"}
  BY DEF PlanInv
<1>3. PlanInv(P) => call.op \notin {"loadclose", "close"}
  BY <1>1 DEF PlanInv
<1> QED BY <1>1, <1>2, <1>3 DEF IsClosing

LEMMA PlanEnded ==
  ASSUME NEW P, NEW Q, plan = <<>>, PlanInv(P), plan' = plan, call' = call
  PROVE  PlanInv(Q)'
<1>1. /\ plan' \notin Unhooked /\ plan' \notin Cleared /\ plan' \notin Gone /\ plan' \notin Doomed
      /\ plan' \in Harmless
  BY PlanNames, HarmlessNames
<1>2. call.op \notin {"load", "call", "loadclose", "close"}
  BY PlanEmpty
<1> QED BY <1>1, <1>2 DEF PlanInv

\* An event of a connection that has no client any more is taken.
LEMMA TakeStray ==
  ASSUME TypeInv, NEW P \in SUBSET Packets, NEW p \in P, NEW Q, Q = Minus(P, p), Ordered(P),
         plan = <<>>, p[2].client = NoClient,
         UNCHANGED <<sending, conn, hooked, slots, pushed, object, pcb, service, handled>>
  PROVE  Ordered(Q)'
<1>1. UNCHANGED <<cur, plan, scan, call>>
  BY DEF service
<1>2. Packed(Q, sending)
  BY PackedMinus DEF Ordered
<1>3. ASSUME NEW a \in Clients PROVE Told(Q, a)'
  <2>1. ~For(p[2], a)
    BY NoClientAssumption DEF For
  <2>2. Mine(Q, a) = Mine(P, a) /\ Of(sending, a)' = Of(sending, a)
    BY <2>1, MineMinus DEF Of
  <2>3. Connected(a)' = Connected(a) /\ IsRemoved(a)' = IsRemoved(a) /\ IsClosing(a)' = IsClosing(a)
    BY <1>1, Zenon DEF Connected, IsRemoved, IsClosing
  <2>4. Told(P, a)
    BY DEF Ordered
  <2> QED BY <2>2, <2>3, <2>4, ToldOther
<1>4. PlanInv(Q)'
  BY <1>1, PlanEnded DEF Ordered
<1> QED BY <1>2, <1>3, <1>4 DEF Ordered

\* An acceptance is taken: it was the only one of its client.
LEMMA TakeAccept ==
  ASSUME TypeInv, NEW P \in SUBSET Packets, NEW p \in P, NEW Q, Q = Minus(P, p), Ordered(P),
         plan = <<>>, scan = NoScan, p[2].kind = "accept",
         object' = [object EXCEPT ![p[2].client] = "attached"],
         UNCHANGED <<sending, conn, hooked, slots, pushed, pcb, service, handled>>
  PROVE  Ordered(Q)'
<1>1. UNCHANGED <<cur, plan, scan, call>>
  BY DEF service
<1>2. Packed(Q, sending)
  BY PackedMinus DEF Ordered
<1>3. PICK c \in Clients : p[2].client = c
  BY DEF Ordered, Packed
<1>4. For(p[2], c) /\ \A d \in Clients \ {c} : ~For(p[2], d)
  BY <1>3 DEF For
<1>5. object'[c] = "attached" /\ \A d \in Clients \ {c} : object'[d] = object[d]
  <2>1. object \in [Clients -> {"free", "new", "attached"}]
    BY Zenon DEF TypeInv
  <2> QED BY <1>3, <2>1
<1>6. ASSUME NEW d \in Clients
      PROVE  /\ Connected(d)' = Connected(d) /\ IsRemoved(d)' = IsRemoved(d)
             /\ Of(sending, d)' = Of(sending, d) /\ IsClosing(d)' = IsClosing(d)
  BY <1>1, Zenon DEF Connected, IsRemoved, Of, IsClosing
<1>7. ASSUME NEW d \in Clients, d # c PROVE Told(Q, d)'
  <2>1. Mine(Q, d) = Mine(P, d)
    BY <1>4, <1>7, MineMinus
  <2>2. Told(P, d)
    BY DEF Ordered
  <2> QED BY <1>5, <1>6, <1>7, <2>1, <2>2, ToldOther
<1>8. Told(Q, c)'
  <2>1. Mine(Q, c) = Minus(Mine(P, c), p)
    BY <1>4, MineMinus
  <2>2. IsRemoved(c) = FALSE
    BY NoClientAssumption DEF IsRemoved, NoScan
  <2>3. p \in Mine(P, c)
    BY <1>3 DEF Mine
  <2>4. p[2] = Event("accept", c, 0)
    <3>1. p[2] \in Events
      BY DEF Packets
    <3> QED BY <2>3, <3>1, MarkOf DEF Ordered
  <2>5. \A q \in Mine(P, c) : q[2].kind = "accept" => q = p
    <3> SUFFICES ASSUME NEW q \in Mine(P, c), q[2].kind = "accept" PROVE q = p
      OBVIOUS
    <3>1. q[2] \in Events /\ q \in P
      BY DEF Packets, Mine
    <3>2. q[2] = Event("accept", c, 0)
      BY <3>1, MarkOf DEF Ordered
    <3> QED BY <2>4, <3>1, <3>2 DEF Ordered, Packed
  <2>6. Of(sending, c).kind # "accept"
    <3> SUFFICES ASSUME Of(sending, c).kind = "accept" PROVE FALSE
      OBVIOUS
    <3>1. sending.client = c /\ sending.kind = "accept"
      BY DEF Of, NoEvent
    <3>2. sending \in Events /\ sending.n = 0
      <4>1. sending \in Events \cup {NoEvent}
        BY Zenon DEF TypeInv
      <4> QED BY <3>1, <4>1 DEF NoEvent, Ordered, Packed
    <3>3. sending = Event("accept", c, 0)
      BY <3>1, <3>2 DEF Events, Event
    <3> QED BY <2>4, <3>3 DEF Ordered, Packed
  <2>7. Known(Mine(P, c), Of(sending, c), object[c], Connected(c), handled[c], pushed[c], FALSE, IsClosing(c))
    BY <2>2 DEF Ordered, Told
  <2>8. /\ Mine(P, c) \in SUBSET Packets /\ object[c] \in States /\ Connected(c) \in BOOLEAN
        /\ handled[c] \in Nat /\ pushed[c] \in Nat /\ IsClosing(c) \in BOOLEAN
    BY ToldTypes
  <2> DEFINE M == Mine(P, c)
  <2> HIDE DEF M
  <2>9. Known(Minus(M, p), Of(sending, c), "attached", Connected(c), handled[c], pushed[c], FALSE, IsClosing(c))
    BY <2>3, <2>5, <2>6, <2>7, <2>8, KnownAttached DEF M
  <2>10. Known(Mine(Q, c), Of(sending, c), "attached", Connected(c), handled[c], pushed[c], FALSE, IsClosing(c))
    BY <2>1, <2>9, Zenon DEF M
  <2> QED BY <1>5, <1>6, <2>2, <2>10 DEF Told
<1>9. PlanInv(Q)'
  BY <1>1, PlanEnded DEF Ordered
<1> QED BY <1>2, <1>7, <1>8, <1>9 DEF Ordered

\* CLEAR is taken: the events of its client are going to be removed.
LEMMA TakeClear ==
  ASSUME TypeInv, NEW P \in SUBSET Packets, NEW p \in P, NEW Q, Q = Minus(P, p), Ordered(P),
         plan = <<>>, scan = NoScan, p[2].kind = "clear", scan' = [NoScan EXCEPT !.arg = p[2].client],
         UNCHANGED <<sending, conn, hooked, slots, pushed, object, pcb, cur, plan, call, handled>>
  PROVE  Ordered(Q)' /\ p[2].client \in Clients
<1>2. Packed(Q, sending)
  BY PackedMinus DEF Ordered
<1>3. PICK c \in Clients : p[2].client = c
  BY DEF Ordered, Packed
<1>4. For(p[2], c) /\ \A d \in Clients \ {c} : ~For(p[2], d)
  BY <1>3 DEF For
<1>5. scan'.arg = c
  BY <1>3 DEF NoScan
<1>6. ASSUME NEW d \in Clients
      PROVE  /\ Connected(d)' = Connected(d) /\ IsRemoved(d) = FALSE /\ IsRemoved(d)' = (d = c)
             /\ Of(sending, d)' = Of(sending, d) /\ IsClosing(d)' = FALSE /\ IsClosing(d) = FALSE
  <2>1. IsRemoved(d) = FALSE /\ IsRemoved(d)' = (d = c)
    BY <1>5, NoClientAssumption DEF IsRemoved, NoScan
  <2>2. IsClosing(d) = FALSE /\ IsClosing(d)' = FALSE
    BY PlanNames DEF IsClosing
  <2> QED BY <2>1, <2>2, Zenon DEF Connected, Of
<1>7. ASSUME NEW d \in Clients, d # c PROVE Told(Q, d)'
  <2>1. Mine(Q, d) = Mine(P, d)
    BY <1>4, <1>7, MineMinus
  <2>2. Told(P, d)
    BY DEF Ordered
  <2>3. IsRemoved(d)' = IsRemoved(d) /\ IsClosing(d)' = IsClosing(d)
    BY <1>6, <1>7
  <2> QED BY <1>6, <2>1, <2>2, <2>3, ToldOther
<1>8. Told(Q, c)'
  <2>1. Mine(Q, c) = Minus(Mine(P, c), p)
    BY <1>4, MineMinus
  <2>2. p \in Mine(P, c)
    BY <1>3 DEF Mine
  <2>3. Known(Mine(P, c), Of(sending, c), object[c], Connected(c), handled[c], pushed[c], FALSE, FALSE)
    BY <1>6 DEF Ordered, Told
  <2>4. /\ Mine(P, c) \in SUBSET Packets /\ object[c] \in States /\ Connected(c) \in BOOLEAN
        /\ handled[c] \in Nat /\ pushed[c] \in Nat
    BY ToldTypes
  <2> DEFINE M == Mine(P, c)
  <2> HIDE DEF M
  <2>5. Known(Minus(M, p), Of(sending, c), object[c], Connected(c), handled[c], pushed[c], TRUE, FALSE)
    <3>1. p \in M /\ Known(M, Of(sending, c), object[c], Connected(c), handled[c], pushed[c], FALSE, FALSE)
      BY <2>2, <2>3 DEF M
    <3> QED BY <3>1, KnownRemoving
  <2>6. Known(Mine(Q, c), Of(sending, c), object[c], Connected(c), handled[c], pushed[c], TRUE, FALSE)
    BY <2>1, <2>5, Zenon DEF M
  <2>7. IsRemoved(c)' = TRUE /\ IsClosing(c)' = FALSE
    BY <1>6
  <2> QED BY <1>6, <2>6, <2>7 DEF Told
<1>9. PlanInv(Q)'
  BY PlanEnded DEF Ordered
<1> QED BY <1>2, <1>3, <1>7, <1>8, <1>9 DEF Ordered

\* An event of a client is taken: it is the next one, and the handler plans what to do.
LEMMA TakeOwn ==
  ASSUME TypeInv, NEW P \in SUBSET Packets, NEW p \in P, NEW Q, Q = Minus(P, p), Ordered(P),
         First(P, p),
         plan = <<>>, scan = NoScan, p[2].client # NoClient, p[2].kind \notin {"accept", "clear"},
         cur' = p[2].client,
         plan' \in IF p[2].kind = "poll" /\ ~pcb[p[2].client] THEN {<<>>} ELSE Plans(p[2].kind),
         handled' = [handled EXCEPT ![p[2].client] = @ + 1],
         UNCHANGED <<sending, conn, hooked, slots, pushed, object, scan, call>>
  PROVE  Ordered(Q)'
<1>1. p[2] \in Events
  BY DEF Packets
<1>2. Packed(Q, sending)
  BY PackedMinus DEF Ordered
<1>3. PICK c \in Clients : p[2].client = c
  BY <1>1 DEF Events
<1>4. For(p[2], c) /\ \A d \in Clients \ {c} : ~For(p[2], d)
  BY <1>3 DEF For
<1>5. /\ handled'[c] = handled[c] + 1 /\ \A d \in Clients \ {c} : handled'[d] = handled[d]
      /\ handled[c] \in Nat
  <2>1. handled \in [Clients -> Nat]
    BY Zenon DEF TypeInv
  <2> QED BY <1>3, <2>1
<1>6. ASSUME NEW d \in Clients
      PROVE  /\ Connected(d)' = Connected(d) /\ IsRemoved(d) = FALSE /\ IsRemoved(d)' = FALSE
             /\ Of(sending, d)' = Of(sending, d) /\ IsClosing(d) = FALSE
  <2>1. IsRemoved(d) = FALSE /\ IsRemoved(d)' = FALSE
    BY NoClientAssumption DEF IsRemoved, NoScan
  <2>2. IsClosing(d) = FALSE
    BY PlanEmpty
  <2> QED BY <2>1, <2>2, Zenon DEF Connected, Of
<1>7. ASSUME NEW d \in Clients, d # c PROVE Told(Q, d)'
  <2>1. Mine(Q, d) = Mine(P, d)
    BY <1>4, <1>7, MineMinus
  <2>2. Told(P, d)
    BY DEF Ordered
  <2>3. IsRemoved(d)' = IsRemoved(d) /\ IsClosing(d)' = IsClosing(d)
    BY <1>3, <1>6, <1>7 DEF IsClosing
  <2> QED BY <1>5, <1>6, <1>7, <2>1, <2>2, <2>3, ToldOther
<1>8. p \in Own(Mine(P, c))
  BY <1>3 DEF Own, Mine
<1>9. First(Mine(P, c), p)
  BY DEF Mine, First
<1>10. /\ Mine(P, c) \in SUBSET Packets /\ object[c] \in States /\ Connected(c) \in BOOLEAN
       /\ handled[c] \in Nat /\ pushed[c] \in Nat /\ Of(sending, c) \in Events \cup {NoEvent}
  BY ToldTypes
<1>11. Known(Mine(P, c), Of(sending, c), object[c], Connected(c), handled[c], pushed[c], FALSE, FALSE)
  BY <1>6 DEF Ordered, Told
<1>12. Mine(Q, c) = Minus(Mine(P, c), p)
  BY <1>4, MineMinus
<1>13. /\ Known(Mine(Q, c), Of(sending, c), object[c], Connected(c), handled'[c], pushed[c], FALSE, FALSE)
       /\ object[c] = "attached"
       /\ p[2].kind \in Last => ~Connected(c) /\ ~Sent(Of(sending, c)) /\ Own(Mine(Q, c)) = {}
  <2> DEFINE M == Mine(P, c)
  <2> HIDE DEF M
  <2>1. /\ Known(Minus(M, p), Of(sending, c), object[c], Connected(c), handled'[c], pushed[c], FALSE, FALSE)
        /\ object[c] = "attached"
        /\ p[2].kind \in Last => ~Connected(c) /\ ~Sent(Of(sending, c)) /\ Own(Minus(M, p)) = {}
    <3>1. /\ p \in Own(M) /\ First(M, p)
          /\ Known(M, Of(sending, c), object[c], Connected(c), handled[c], pushed[c], FALSE, FALSE)
          /\ M \in SUBSET Packets
      BY <1>8, <1>9, <1>10, <1>11 DEF M
    <3>2. PICK g : g = handled'[c]
      OBVIOUS
    <3>3. g = handled[c] + 1
      BY <1>5, <3>2
    <3>4. /\ Known(Minus(M, p), Of(sending, c), object[c], Connected(c), g, pushed[c], FALSE, FALSE)
          /\ object[c] = "attached"
          /\ p[2].kind \in Last => ~Connected(c) /\ ~Sent(Of(sending, c)) /\ Own(Minus(M, p)) = {}
      <4> HIDE DEF First
      <4>1. Known(Minus(M, p), Of(sending, c), object[c], Connected(c), g, pushed[c], FALSE, FALSE)
        BY <1>10, <3>1, <3>3, KnownHandled, ZenonT(40)
      <4>2. object[c] = "attached"
        BY <1>10, <3>1, <3>3, KnownHandled
      <4>3. p[2].kind \in Last => ~Connected(c) /\ ~Sent(Of(sending, c)) /\ Own(Minus(M, p)) = {}
        BY <1>10, <3>1, <3>3, KnownHandled, ZenonT(40)
      <4> QED BY <4>1, <4>2, <4>3
    <3> QED BY <3>2, <3>4
  <2> QED BY <1>12, <2>1, Zenon DEF M
<1>14. Told(Q, c)'
  <2>1. Known(Mine(Q, c), Of(sending, c), object[c], Connected(c), handled'[c], pushed[c], FALSE, IsClosing(c)')
    BY <1>13 DEF Known
  <2>2. object'[c] = object[c] /\ pushed'[c] = pushed[c]
    OBVIOUS
  <2> QED BY <1>6, <2>1, <2>2 DEF Told
<1>15. p[2].kind \in {"recv", "sent", "poll", "fin", "error"}
  BY <1>1 DEF Events, Kinds
<1>16. \/ plan' \in Harmless
       \/ plan' \in Gone \cup Doomed /\ p[2].kind \in Last
  BY <1>15, PlansNames, PlanNames DEF Last
<1>17. /\ call'.op \notin {"load", "call", "loadclose", "close"} /\ scan' = NoScan
       /\ cur' = c /\ object'[c] = "attached"
  BY <1>3, <1>13, PlanEmpty DEF Ordered
<1>18. PlanInv(Q)'
  <2>1. CASE plan' \in Harmless
    <3>1. plan' \notin Unhooked /\ plan' \notin Cleared /\ plan' \notin Gone /\ plan' \notin Doomed
      BY <2>1, HarmlessNames
    <3> QED BY <1>17, <2>1, <3>1 DEF PlanInv
  <2>2. CASE plan' \in Gone \cup Doomed /\ p[2].kind \in Last
    <3>1. plan' \in Closing /\ plan' \notin Unhooked /\ plan' \notin Cleared
      BY <2>2, PlanNames
    <3>2. ~Connected(c)' /\ Behind(Mine(Q, c), "clear")
      BY <1>6, <1>13, <2>2 DEF Behind
    <3>3. ~Sent(Of(sending, c))'
      <4>1. Sent(Of(sending, c))' = Sent(Of(sending, c)')
        BY DEF Sent
      <4> QED BY <1>6, <1>13, <2>2, <4>1
    <3>4. /\ ~Connected(cur)' /\ ~Sent(Of(sending, cur))' /\ Behind(Mine(Q, cur), "clear")'
          /\ object'[cur'] = "attached"
      BY <1>17, <3>2, <3>3 DEF Connected, Of
    <3> QED BY <1>17, <2>2, <3>1, <3>4 DEF PlanInv
  <2> QED BY <1>16, <2>1, <2>2
<1> QED BY <1>2, <1>7, <1>14, <1>18 DEF Ordered

-----------------------------------------------------------------------------
(* The loop of _remove_events_with_arg. *)

\* The loop takes a packet that it keeps, or puts one back: the packets stay.
LEMMA TurnOrder ==
  ASSUME TypeInv, NEW P \in SUBSET Packets, Ordered(P), plan = <<>>, scan'.arg = scan.arg,
         UNCHANGED <<sending, object, network, slots, cur, plan, call, pushed, handled>>
  PROVE  Ordered(P)'
<1>1. \A d \in Clients : Connected(d)' = Connected(d) /\ IsRemoved(d)' = IsRemoved(d)
                          /\ IsClosing(d)' = IsClosing(d)
  BY Zenon DEF network, Connected, IsRemoved, IsClosing
<1>2. PlanInv(P)'
  BY PlanEnded DEF Ordered
<1> QED BY <1>1, <1>2, Unconcerned

\* It ends when no event of the client is left.
LEMMA TurnEndOrder ==
  ASSUME TypeInv, NEW P \in SUBSET Packets, Ordered(P), plan = <<>>, scan' = NoScan,
         NEW c \in Clients, scan.arg = c, Own(Mine(P, c)) = {},
         UNCHANGED <<sending, object, network, slots, cur, plan, call, pushed, handled>>
  PROVE  Ordered(P)'
<1>1. ASSUME NEW d \in Clients
      PROVE  /\ Connected(d)' = Connected(d) /\ IsRemoved(d) = (d = c) /\ IsRemoved(d)' = FALSE
             /\ Of(sending, d)' = Of(sending, d) /\ IsClosing(d)' = IsClosing(d)
  <2>1. IsRemoved(d) = (d = c) /\ IsRemoved(d)' = FALSE
    BY NoClientAssumption DEF IsRemoved, NoScan
  <2> QED BY <2>1, Zenon DEF network, Connected, Of, IsClosing
<1>2. ASSUME NEW d \in Clients, d # c PROVE Told(P, d)'
  <2>1. Told(P, d)
    BY DEF Ordered
  <2>2. IsRemoved(d)' = IsRemoved(d)
    BY <1>1, <1>2
  <2> QED BY <1>1, <2>1, <2>2, ToldOther
<1>3. Told(P, c)'
  <2>1. Known(Mine(P, c), Of(sending, c), object[c], Connected(c), handled[c], pushed[c], TRUE, IsClosing(c))
    BY <1>1 DEF Ordered, Told
  <2>2. /\ Mine(P, c) \in SUBSET Packets /\ object[c] \in States /\ Connected(c) \in BOOLEAN
        /\ handled[c] \in Nat /\ pushed[c] \in Nat
    BY ToldTypes
  <2>3. Known(Mine(P, c), Of(sending, c), object[c], Connected(c), handled[c], pushed[c], FALSE, IsClosing(c))
    BY <2>1, <2>2, KnownRemoved
  <2> QED BY <1>1, <2>3 DEF Told
<1>4. PlanInv(P)'
  BY PlanEnded DEF Ordered
<1> QED BY <1>2, <1>3, <1>4 DEF Ordered

LEMMA MineClosed ==
  ASSUME NEW P, NEW b, NEW a
  PROVE  Mine(Closed(b, P), a) = Closed(b, Mine(P, a))
<1> DEFINE To(p) == <<IF p[1] <= b THEN p[1] + 1 ELSE p[1], p[2]>>
<1>1. \A p : To(p)[2] = p[2]
  OBVIOUS
<1>2. \A x : x \in Closed(b, P) <=> \E p \in P : p[1] # b + 1 /\ x = To(p)
  BY DEF Closed
<1>3. \A x : x \in Closed(b, Mine(P, a)) <=> \E p \in Mine(P, a) : p[1] # b + 1 /\ x = To(p)
  BY DEF Closed
<1>4. \A x : x \in Mine(Closed(b, P), a) <=> x \in Closed(b, P) /\ x[2].client = a
  BY DEF Mine
<1>5. \A p : p \in Mine(P, a) <=> p \in P /\ p[2].client = a
  BY DEF Mine
<1> HIDE DEF To
<1>6. \A x : x \in Mine(Closed(b, P), a) <=> x \in Closed(b, Mine(P, a))
  BY <1>1, <1>2, <1>3, <1>4, <1>5
<1> QED BY <1>6

LEMMA PackedClosed ==
  ASSUME NEW P, NEW b, NEW s, Packed(P, s)
  PROVE  Packed(Closed(b, P), s)
<1> DEFINE To(p) == <<IF p[1] <= b THEN p[1] + 1 ELSE p[1], p[2]>>
<1>1. \A p : To(p)[2] = p[2]
  OBVIOUS
<1>2. \A x : x \in Closed(b, P) => \E p \in P : x = To(p)
  BY DEF Closed
<1> HIDE DEF To
<1>3. \A x \in Closed(b, P) : \E p \in P : x = To(p) /\ x[2] = p[2]
  BY <1>1, <1>2
<1> QED BY <1>3 DEF Packed

\* It drops an event of the client.
LEMMA DropOrder ==
  ASSUME TypeInv, NEW P \in SUBSET Packets, Ordered(P), plan = <<>>, UNCHANGED scan,
         NEW b \in Int, NEW Q, Q = Closed(b, P),
         \A p \in P : p[1] = b + 1 => p[2].client = scan.arg /\ p[2].kind # "accept",
         UNCHANGED <<sending, object, network, slots, cur, plan, call, pushed, handled>>
  PROVE  Ordered(Q)'
<1>1. Packed(Q, sending)
  BY PackedClosed DEF Ordered
<1>2. ASSUME NEW d \in Clients PROVE Told(Q, d)'
  <2>1. Told(P, d)
    BY DEF Ordered
  <2>2. /\ Connected(d)' = Connected(d) /\ IsRemoved(d)' = IsRemoved(d) /\ IsClosing(d)' = IsClosing(d)
        /\ Of(sending, d)' = Of(sending, d)
    BY Zenon DEF network, Connected, IsRemoved, IsClosing, Of
  <2>3. /\ Mine(P, d) \in SUBSET Packets /\ object[d] \in States /\ Connected(d) \in BOOLEAN
        /\ handled[d] \in Nat /\ pushed[d] \in Nat /\ IsRemoved(d) \in BOOLEAN /\ IsClosing(d) \in BOOLEAN
    BY ToldTypes
  <2>4. \A q \in Mine(P, d) : q[1] = b + 1 => IsRemoved(d) /\ q[2].kind # "accept"
    BY DEF Mine, IsRemoved
  <2> DEFINE M == Mine(P, d)
  <2> HIDE DEF M
  <2>5. Known(Closed(b, M), Of(sending, d), object[d], Connected(d), handled[d], pushed[d],
              IsRemoved(d), IsClosing(d))
    BY <2>1, <2>3, <2>4, KnownDropped DEF M, Told
  <2>6. Mine(Q, d) = Closed(b, M)
    BY MineClosed DEF M
  <2>7. Known(Mine(Q, d), Of(sending, d), object[d], Connected(d), handled[d], pushed[d],
              IsRemoved(d), IsClosing(d))
    BY <2>5, <2>6, Zenon
  <2> QED BY <2>2, <2>7 DEF Told
<1>3. PlanInv(Q)'
  BY PlanEnded DEF Ordered
<1> QED BY <1>1, <1>2, <1>3 DEF Ordered

-----------------------------------------------------------------------------
(* The inductive invariant, and each action. *)

\* The packets of the queue while it is being turned: at k is the first one, which the loop
\* remembers; none that is to be removed has been turned.
Turning(P, b, k) ==
  /\ k \in 1..(Len(queue) + 1)
  /\ P = Round(b, k, queue, scan.held)
  /\ \A p \in Own(Mine(P, scan.arg)) : b < p[1]
  /\ scan.first = NoEvent => k = Len(queue) + 1 /\ scan.held = NoEvent
  /\ scan.first # NoEvent => IF k <= Len(queue) THEN queue[k] = scan.first ELSE scan.held = scan.first

Placed(P) ==
  IF scan = NoScan
    THEN \E b \in Int : P = Line(b, queue)
    ELSE plan = <<>> /\ scan.arg \in Clients /\ \E b \in Int, k \in Nat : Turning(P, b, k)

\* The order of the events: inductive while the network is still during a scan.
OrderInv == \E P \in SUBSET Packets : Ordered(P) /\ Placed(P)

LEMMA PlacedLine ==
  ASSUME NEW P, Placed(P), scan = NoScan
  PROVE  \E b \in Int : P = Line(b, queue)
BY DEF Placed

LEMMA ScanArg ==
  ASSUME NEW a \in Clients, NEW s, s.arg = a
  PROVE  s # NoScan
BY NoClientAssumption DEF NoScan

LEMMA HandleInv ==
  ASSUME TypeInv, OrderInv, HandleAsyncEvent
  PROVE  OrderInv'
<1>1. PICK P \in SUBSET Packets : Ordered(P) /\ Placed(P)
  BY DEF OrderInv
<1>2. plan = <<>> /\ scan = NoScan /\ queue # <<>> /\ queue \in Seq(Events)
  BY Zenon DEF HandleAsyncEvent, Idle, TypeInv
<1>3. PICK b \in Int : P = Line(b, queue)
  BY <1>1, <1>2, PlacedLine
<1>4. PICK e \in Events : e = Head(queue)
  BY <1>2, TailFacts
<1>5. PICK p : p = <<b + 1, e>>
  OBVIOUS
<1>6. PICK Q : Q = Minus(P, p)
  OBVIOUS
<1>7. p[2] = e /\ p[1] = b + 1
  BY <1>5
<1>8. /\ Line(b + 1, Tail(queue)) = Q /\ p \in P
      /\ \A q \in P : q = p \/ b + 1 < q[1]
  BY <1>2, <1>3, <1>4, <1>5, <1>6, LineTail DEF Minus
<1>9. First(P, p)
  BY <1>7, <1>8 DEF First
<1>10. Q \in SUBSET Packets
  BY <1>6 DEF Minus
<1>11. queue' = Tail(queue)
  BY DEF HandleAsyncEvent
<1>12. PICK d \in Int : d = b + 1
  OBVIOUS
<1>13. Q = Line(d, queue')
  BY <1>8, <1>11, <1>12
<1>14. /\ UNCHANGED <<sending, conn, hooked, slots, pushed>>
       /\ \/ /\ e.client = NoClient
             /\ UNCHANGED <<object, pcb, service, handled>>
          \/ /\ e.kind = "accept"
             /\ object' = [object EXCEPT ![e.client] = "attached"]
             /\ UNCHANGED <<pcb, service, handled>>
          \/ /\ e.kind = "clear"
             /\ scan' = [NoScan EXCEPT !.arg = e.client]
             /\ UNCHANGED <<object, pcb, cur, plan, call, handled>>
          \/ /\ e.client # NoClient /\ e.kind \notin {"accept", "clear"}
             /\ cur' = e.client
             /\ plan' \in IF e.kind = "poll" /\ ~pcb[e.client] THEN {<<>>} ELSE Plans(e.kind)
             /\ handled' = [handled EXCEPT ![e.client] = @ + 1]
             /\ UNCHANGED <<object, scan, call>>
  BY <1>4 DEF HandleAsyncEvent
<1>15. ASSUME scan' = scan, Ordered(Q)' PROVE OrderInv'
  <2>1. Placed(Q)'
    BY <1>2, <1>13, <1>15 DEF Placed
  <2> QED BY <1>10, <1>15, <2>1 DEF OrderInv
<1>16. CASE e.client = NoClient /\ UNCHANGED <<object, pcb, service, handled>>
  <2>1. Ordered(Q)'
    BY <1>1, <1>2, <1>6, <1>7, <1>8, <1>14, <1>16, TakeStray
  <2>2. scan' = scan
    BY <1>16 DEF service
  <2> QED BY <1>15, <2>1, <2>2
<1>17. CASE /\ e.kind = "accept"
            /\ object' = [object EXCEPT ![e.client] = "attached"]
            /\ UNCHANGED <<pcb, service, handled>>
  <2>1. Ordered(Q)'
    BY <1>1, <1>2, <1>6, <1>7, <1>8, <1>14, <1>17, TakeAccept
  <2>2. scan' = scan
    BY <1>17 DEF service
  <2> QED BY <1>15, <2>1, <2>2
<1>18. CASE /\ e.kind = "clear"
            /\ scan' = [NoScan EXCEPT !.arg = e.client]
            /\ UNCHANGED <<object, pcb, cur, plan, call, handled>>
  <2>1. Ordered(Q)' /\ e.client \in Clients
    BY <1>1, <1>2, <1>6, <1>7, <1>8, <1>14, <1>18, TakeClear
  <2>2. scan'.arg = e.client /\ scan'.first = NoEvent /\ scan'.held = NoEvent
    BY <1>18 DEF NoScan
  <2>3. queue' \in Seq(Events) /\ Len(queue') \in Nat
    <3>1. Tail(queue) \in Seq(Events)
      BY <1>2, TailFacts
    <3> QED BY <1>11, <3>1
  <2>4. PICK k \in Nat : k = Len(queue') + 1
    BY <2>3
  <2>5. Q = Round(d, k, queue', NoEvent)
    BY <1>13, <2>3, <2>4, RoundStart
  <2>6. \A q \in Q : d < q[1]
    BY <1>13, <2>3, LineType
  <2>7. \A q \in Own(Mine(Q, e.client)) : d < q[1]
    BY <2>6 DEF Own, Mine
  <2>8. Turning(Q, d, k)'
    BY <2>2, <2>3, <2>4, <2>5, <2>7 DEF Turning
  <2>9. Placed(Q)'
    <3>1. scan' # NoScan
      BY <2>1, <2>2, ScanArg
    <3> QED BY <1>2, <1>18, <2>1, <2>2, <2>8, <3>1 DEF Placed
  <2> QED BY <1>10, <2>1, <2>9 DEF OrderInv
<1>19. CASE /\ e.client # NoClient /\ e.kind \notin {"accept", "clear"}
            /\ cur' = e.client
            /\ plan' \in IF e.kind = "poll" /\ ~pcb[e.client] THEN {<<>>} ELSE Plans(e.kind)
            /\ handled' = [handled EXCEPT ![e.client] = @ + 1]
            /\ UNCHANGED <<object, scan, call>>
  <2>1. Ordered(Q)'
    BY <1>1, <1>2, <1>6, <1>7, <1>8, <1>9, <1>14, <1>19, TakeOwn
  <2> QED BY <1>15, <1>19, <2>1
<1> QED BY <1>14, <1>16, <1>17, <1>18, <1>19

\* While the queue is turned nothing else happens.
LEMMA TurningFacts ==
  ASSUME TypeInv, OrderInv, scan # NoScan
  PROVE  /\ plan = <<>> /\ scan.arg \in Clients /\ queue \in Seq(Events) /\ Len(queue) \in Nat
         /\ scan.first \in Events \cup {NoEvent} /\ scan.held \in Events \cup {NoEvent}
         /\ \E P \in SUBSET Packets, b \in Int : \E k \in 1..(Len(queue) + 1) :
              Ordered(P) /\ Turning(P, b, k)
<1>1. PICK P \in SUBSET Packets : Ordered(P) /\ Placed(P)
  BY DEF OrderInv
<1>2. plan = <<>> /\ scan.arg \in Clients /\ \E b \in Int, k \in Nat : Turning(P, b, k)
  BY <1>1 DEF Placed
<1>3. PICK b \in Int, k \in Nat : Turning(P, b, k)
  BY <1>2
<1>4. k \in 1..(Len(queue) + 1)
  BY <1>3 DEF Turning
<1>5. queue \in Seq(Events) /\ scan.first \in Events \cup {NoEvent} /\ scan.held \in Events \cup {NoEvent}
  <2>1. queue \in Seq(Events) /\ scan \in [arg : Clients \cup {NoClient}, first : Events \cup {NoEvent},
                                           held : Events \cup {NoEvent}]
    BY Zenon DEF TypeInv
  <2> QED BY <2>1
<1>6. Len(queue) \in Nat
  BY <1>5
<1> QED BY <1>1, <1>2, <1>3, <1>4, <1>5, <1>6

LEMMA TurnedInv ==
  ASSUME NEW P \in SUBSET Packets, Ordered(P)', NEW b \in Int, NEW k \in Nat, Turning(P, b, k)',
         plan' = <<>>, NEW c \in Clients, scan'.arg = c
  PROVE  OrderInv'
<1>1. scan' # NoScan
  BY ScanArg
<1>2. Placed(P)'
  BY <1>1 DEF Placed
<1> QED BY <1>2 DEF OrderInv

LEMMA ScanPutInv ==
  ASSUME TypeInv, OrderInv, ScanPut
  PROVE  OrderInv'
<1>1. /\ scan.held # NoEvent /\ queue' = Append(queue, scan.held)
      /\ scan' = [scan EXCEPT !.held = NoEvent]
      /\ UNCHANGED <<sending, object, network, slots, cur, plan, call, pushed, handled>>
  BY DEF ScanPut
<1>2. scan # NoScan
  BY <1>1 DEF NoScan
<1>3. /\ plan = <<>> /\ queue \in Seq(Events) /\ Len(queue) \in Nat
      /\ scan.held \in Events
  BY <1>1, <1>2, TurningFacts
<1>4. PICK P \in SUBSET Packets, b \in Int : \E k \in 1..(Len(queue) + 1) : Ordered(P) /\ Turning(P, b, k)
  BY <1>2, TurningFacts, Zenon
<1>5. PICK k \in 1..(Len(queue) + 1) : Ordered(P) /\ Turning(P, b, k)
  BY <1>4
<1>6. PICK c \in Clients : c = scan.arg
  BY <1>2, TurningFacts
<1>7. scan'.arg = c /\ scan'.first = scan.first /\ scan'.held = NoEvent
  <2>1. scan \in [arg : Clients \cup {NoClient}, first : Events \cup {NoEvent}, held : Events \cup {NoEvent}]
    BY Zenon DEF TypeInv
  <2> QED BY <1>1, <1>6, <2>1
<1>8. Ordered(P)'
  BY <1>1, <1>3, <1>5, <1>6, <1>7, TurnOrder
<1>9. Turning(P, b, k)'
  <2>1. /\ Len(queue') = Len(queue) + 1 /\ queue'[Len(queue) + 1] = scan.held
        /\ \A r \in 1..Len(queue) : queue'[r] = queue[r]
    BY <1>1, <1>3, AppendProperties
  <2>2. P = Round(b, k, queue', NoEvent)
    BY <1>1, <1>3, <1>5, RoundPut DEF Turning
  <2>3. scan.first # NoEvent
    BY <1>1, <1>5 DEF Turning
  <2>4. queue'[k] = scan.first
    <3>1. CASE k <= Len(queue)
      BY <1>3, <1>5, <2>1, <2>3, <3>1 DEF Turning
    <3>2. CASE k = Len(queue) + 1
      BY <1>3, <1>5, <2>1, <2>3, <3>2 DEF Turning
    <3> QED BY <1>3, <3>1, <3>2
  <2>5. \A p \in Own(Mine(P, scan'.arg)) : b < p[1]
    BY <1>5, <1>6, <1>7 DEF Turning
  <2>6. k \in 1..(Len(queue') + 1) /\ k <= Len(queue')
    BY <1>3, <2>1
  <2> QED BY <1>7, <2>2, <2>3, <2>4, <2>5, <2>6 DEF Turning
<1>10. plan' = <<>> /\ k \in Nat
  BY <1>1, <1>3
<1> QED BY <1>7, <1>8, <1>9, <1>10, TurnedInv

LEMMA ScanTakeInv ==
  ASSUME TypeInv, OrderInv, ScanTake
  PROVE  OrderInv'
<1>1. /\ scan # NoScan /\ scan.held = NoEvent
      /\ UNCHANGED <<sending, object, network, slots, cur, plan, call, pushed, handled>>
  BY DEF ScanTake
<1>2. plan = <<>> /\ plan' = <<>> /\ queue \in Seq(Events) /\ Len(queue) \in Nat
  BY <1>1, TurningFacts
<1>3. PICK P \in SUBSET Packets, b \in Int : \E k \in 1..(Len(queue) + 1) : Ordered(P) /\ Turning(P, b, k)
  BY <1>1, TurningFacts, Zenon
<1>4. PICK k \in 1..(Len(queue) + 1) : Ordered(P) /\ Turning(P, b, k)
  BY <1>3
<1>5. PICK c \in Clients : c = scan.arg
  BY <1>1, TurningFacts
<1>6. /\ P = Round(b, k, queue, NoEvent)
      /\ \A p \in Own(Mine(P, c)) : b < p[1]
      /\ scan.first = NoEvent => k = Len(queue) + 1
      /\ scan.first # NoEvent => k <= Len(queue) /\ queue[k] = scan.first
  BY <1>1, <1>2, <1>4, <1>5 DEF Turning
<1>7. CASE (queue = <<>> \/ Head(queue) = scan.first) /\ scan' = NoScan /\ UNCHANGED queue
  <2>1. k = 1
    <3>1. CASE queue = <<>>
      BY <3>1
    <3>2. CASE queue # <<>> /\ k > 1
      <4>1. Head(queue) \in Events /\ Head(queue) = queue[1] /\ Head(queue) = scan.first
        BY <1>2, <1>7, <3>2, TailFacts
      <4>2. scan.first # NoEvent
        BY <4>1, NoEventIsNone
      <4>3. k <= Len(queue) /\ queue[k] = queue[1]
        BY <1>6, <4>1, <4>2
      <4>4. <<b + 1, queue[1]>> \in P
        BY <1>2, <1>6, <3>2, RoundType
      <4>5. <<b - Len(queue) - 0 + k, queue[k]>> \in P
        BY <1>2, <1>6, <4>3, RoundIdle
      <4>6. <<b + 1, queue[1]>> = <<b - Len(queue) - 0 + k, queue[k]>>
        BY <1>4, <4>3, <4>4, <4>5 DEF Ordered, Packed
      <4>7. b + 1 = b - Len(queue) - 0 + k
        BY <4>6
      <4> QED BY <1>2, <4>3, <4>7
    <3> QED BY <3>1, <3>2
  <2>2. Own(Mine(P, c)) = {}
    <3>1. \A p \in P : p[1] <= b
      BY <1>2, <1>6, <2>1, RoundType
    <3>2. \A p \in Own(Mine(P, c)) : p[1] <= b /\ p[1] \in Int
      BY <3>1 DEF Own, Mine, Packets
    <3> QED BY <1>6, <3>2
  <2>3. Ordered(P)'
    BY <1>1, <1>2, <1>4, <1>5, <1>7, <2>2, TurnEndOrder
  <2>4. Placed(P)'
    <3>1. PICK d \in Int : d = b - Len(queue)
      BY <1>2
    <3>2. P = Line(d, queue)
      BY <1>2, <1>6, <2>1, <3>1, RoundEnd
    <3> QED BY <1>7, <3>2 DEF Placed
  <2> QED BY <2>3, <2>4 DEF OrderInv
<1>8. ASSUME queue # <<>>, Head(queue) # scan.first
      PROVE  k > 1
  BY <1>2, <1>6, <1>8, TailFacts
<1>9. ASSUME queue # <<>>, Head(queue) # scan.first, queue' = Tail(queue)
      PROVE  /\ Head(queue) \in Events /\ Head(queue) = queue[1] /\ Head(queue) # NoEvent
             /\ Len(queue') = Len(queue) - 1 /\ k \in 2..(Len(queue) + 1)
             /\ \A r \in 1..(Len(queue) - 1) : queue'[r] = queue[r + 1]
             /\ <<b + 1, Head(queue)>> \in P
             /\ \A p \in P : p[1] = b + 1 => p[2] = Head(queue)
             /\ scan.first # NoEvent => k - 1 <= Len(queue') /\ queue'[k - 1] = scan.first
  <2>1. /\ Head(queue) \in Events /\ Head(queue) = queue[1] /\ Head(queue) # NoEvent
        /\ Len(queue') = Len(queue) - 1
        /\ \A r \in 1..(Len(queue) - 1) : queue'[r] = queue[r + 1]
    BY <1>2, <1>9, TailFacts, NoEventIsNone
  <2>2. k \in 2..(Len(queue) + 1) /\ k > 1
    BY <1>2, <1>8, <1>9
  <2>3. <<b + 1, Head(queue)>> \in P
    BY <1>2, <1>6, <2>1, <2>2, RoundType
  <2>4. \A p \in P : p[1] = b + 1 => p[2] = Head(queue)
    <3>1. \A p \in P : p[1] = b + 1 => p = <<b + 1, queue[1]>>
      BY <1>2, <1>6, RoundType
    <3> QED BY <2>1, <3>1
  <2>5. ASSUME scan.first # NoEvent PROVE k - 1 <= Len(queue') /\ queue'[k - 1] = scan.first
    <3>1. k - 1 \in 1..(Len(queue) - 1) /\ queue[k - 1 + 1] = scan.first
      BY <1>2, <1>6, <2>2, <2>5
    <3> QED BY <1>2, <2>1, <3>1
  <2> QED BY <2>1, <2>2, <2>3, <2>4, <2>5
<1>10. scan.arg = c /\ scan \in [arg : Clients \cup {NoClient}, first : Events \cup {NoEvent},
                                 held : Events \cup {NoEvent}]
  BY <1>5, Zenon DEF TypeInv
<1>11. PICK d \in Int : d = b + 1
  OBVIOUS
<1>12. PICK l \in Nat : l = k - 1
  OBVIOUS
<1>13. CASE /\ queue # <<>> /\ Head(queue) # scan.first /\ queue' = Tail(queue)
            /\ ~(Head(queue).client = scan.arg /\ Head(queue).kind # "accept")
            /\ scan' = [scan EXCEPT !.held = Head(queue),
                                    !.first = IF @ = NoEvent THEN Head(queue) ELSE @]
  <2>1. /\ scan'.arg = c /\ scan'.held = Head(queue)
        /\ scan'.first = IF scan.first = NoEvent THEN Head(queue) ELSE scan.first
    BY <1>10, <1>13
  <2>2. Ordered(P)'
    BY <1>1, <1>2, <1>4, <1>5, <2>1, TurnOrder
  <2>3. Turning(P, d, l)'
    <3>1. P = Round(d, l, queue', Head(queue))
      BY <1>2, <1>6, <1>9, <1>11, <1>12, <1>13, RoundKept
    <3>2. \A p \in Own(Mine(P, c)) : d < p[1]
      <4> SUFFICES ASSUME NEW p \in Own(Mine(P, c)) PROVE d < p[1]
        OBVIOUS
      <4>1. p \in P /\ p[2].client = c /\ p[2].kind # "accept" /\ b < p[1] /\ p[1] \in Int
        BY <1>6 DEF Own, Mine, Packets
      <4>2. p[1] # b + 1
        BY <1>5, <1>9, <1>13, <4>1
      <4> QED BY <1>11, <4>1, <4>2
    <3>3. l \in 1..(Len(queue') + 1)
      BY <1>2, <1>9, <1>12, <1>13
    <3>4. scan'.first # NoEvent
      BY <1>9, <1>13, <2>1
    <3>5. CASE scan.first = NoEvent
      <4>1. ~(l <= Len(queue')) /\ scan'.held = scan'.first
        BY <1>2, <1>6, <1>9, <1>12, <1>13, <2>1, <3>5
      <4> QED BY <2>1, <3>1, <3>2, <3>3, <3>4, <4>1 DEF Turning
    <3>6. CASE scan.first # NoEvent
      <4>1. l <= Len(queue') /\ queue'[l] = scan'.first
        BY <1>9, <1>12, <1>13, <2>1, <3>6
      <4> QED BY <2>1, <3>1, <3>2, <3>3, <3>4, <4>1 DEF Turning
    <3> QED BY <3>5, <3>6
  <2> QED BY <1>2, <2>1, <2>2, <2>3, TurnedInv
<1>14. CASE /\ queue # <<>> /\ Head(queue) # scan.first /\ queue' = Tail(queue)
            /\ Head(queue).client = scan.arg /\ Head(queue).kind # "accept" /\ scan' = scan
  <2>1. PICK Q : Q = Closed(b, P)
    OBVIOUS
  <2>2. Ordered(Q)'
    BY <1>1, <1>2, <1>4, <1>9, <1>14, <2>1, DropOrder
  <2>3. Q = Round(d, l, queue', NoEvent)
    BY <1>2, <1>6, <1>9, <1>11, <1>12, <1>14, <2>1, RoundDropped
  <2>4. l \in 1..(Len(queue') + 1) /\ queue' \in Seq(Events)
    <3>1. queue' \in Seq(Events)
      BY <1>2, <1>14, TailFacts
    <3> QED BY <1>2, <1>9, <1>12, <1>14, <3>1
  <2>5. Q \in SUBSET Packets
    BY <2>3, <2>4, RoundType
  <2>6. \A q \in Own(Mine(Q, c)) : d < q[1]
    <3> SUFFICES ASSUME NEW q \in Own(Mine(Q, c)) PROVE d < q[1]
      OBVIOUS
    <3>1. q \in Q /\ q[2].client = c /\ q[2].kind \notin {"accept", "clear"}
      BY DEF Own, Mine
    <3>2. PICK p \in P : p[1] # b + 1 /\ q = <<IF p[1] <= b THEN p[1] + 1 ELSE p[1], p[2]>>
      BY <2>1, <3>1 DEF Closed
    <3>3. p \in Own(Mine(P, c)) /\ p[1] \in Int
      BY <3>1, <3>2 DEF Own, Mine, Packets
    <3>4. b < p[1]
      BY <1>6, <3>3
    <3>5. q[1] = p[1]
      BY <3>2, <3>3, <3>4
    <3> QED BY <1>11, <3>2, <3>3, <3>4, <3>5
  <2>7. Turning(Q, d, l)'
    <3>1. scan'.arg = c /\ scan'.held = NoEvent /\ scan'.first = scan.first
      BY <1>1, <1>10, <1>14
    <3>2. CASE scan.first = NoEvent
      <4>1. l = Len(queue') + 1
        BY <1>2, <1>6, <1>9, <1>12, <1>14, <3>2
      <4> QED BY <2>3, <2>4, <2>6, <3>1, <3>2, <4>1 DEF Turning
    <3>3. CASE scan.first # NoEvent
      <4>1. l <= Len(queue') /\ queue'[l] = scan.first
        BY <1>9, <1>12, <1>14, <3>3
      <4> QED BY <2>3, <2>4, <2>6, <3>1, <3>3, <4>1 DEF Turning
    <3> QED BY <3>2, <3>3
  <2>8. scan'.arg = c
    BY <1>10, <1>14
  <2> QED BY <1>2, <2>2, <2>5, <2>7, <2>8, TurnedInv
<1>15. \/ (queue = <<>> \/ Head(queue) = scan.first) /\ scan' = NoScan /\ UNCHANGED queue
       \/ /\ queue # <<>> /\ Head(queue) # scan.first /\ queue' = Tail(queue)
          /\ ~(Head(queue).client = scan.arg /\ Head(queue).kind # "accept")
          /\ scan' = [scan EXCEPT !.held = Head(queue),
                                  !.first = IF @ = NoEvent THEN Head(queue) ELSE @]
       \/ /\ queue # <<>> /\ Head(queue) # scan.first /\ queue' = Tail(queue)
          /\ Head(queue).client = scan.arg /\ Head(queue).kind # "accept" /\ scan' = scan
  BY Zenon DEF ScanTake
<1> QED BY <1>7, <1>13, <1>14, <1>15

\* The network is still while events are removed, and no client is accepted at an address
\* whose CLEAR is still in the queue.
Undisturbed == {"rotation", "address"} \subseteq Quiet

LEMMA OrderInit == Init => OrderInv
<1> SUFFICES ASSUME Init PROVE OrderInv
  OBVIOUS
<1>1. PICK P \in SUBSET Packets : P = {}
  OBVIOUS
<1>2. sending = NoEvent /\ queue = <<>> /\ plan = <<>> /\ scan = NoScan /\ call = NoCall
  BY DEF Init
<1>3. PlanInv(P)
  <2>1. /\ plan \notin Unhooked /\ plan \notin Cleared /\ plan \notin Gone /\ plan \notin Doomed
        /\ plan \in Harmless
    BY <1>2, PlanNames, HarmlessNames
  <2>2. call.op \notin {"load", "call", "loadclose", "close"}
    BY <1>2 DEF NoCall
  <2> QED BY <1>2, <2>1, <2>2 DEF PlanInv
<1>4. ASSUME NEW a \in Clients PROVE Told(P, a)
  <2>1. /\ Mine(P, a) = {} /\ Of(sending, a) = NoEvent /\ object[a] = "free" /\ Connected(a) = FALSE
        /\ handled[a] = 0 /\ pushed[a] = 0
    BY <1>1, <1>2, OfNone DEF Init, Mine, Connected
  <2>2. IsRemoved(a) = FALSE /\ IsClosing(a) = FALSE
    BY <1>2, PlanEmpty, NoClientAssumption DEF IsRemoved, NoScan
  <2>3. Known({}, NoEvent, "free", FALSE, 0, 0, FALSE, FALSE)
    <3>1. Own({}) = {} /\ ~Holds({}, "accept") /\ ~Holds({}, "clear") /\ Behind({}, "clear")
      BY DEF Own, Holds, Behind
    <3>2. ~Sent(NoEvent) /\ NoEvent.kind # "accept"
      BY DEF Sent, NoEvent
    <3>3. PICK o : o = "free"
      OBVIOUS
    <3>4. PICK M : M = {}
      OBVIOUS
    <3>5. /\ Own(M) = {} /\ ~Holds(M, "accept") /\ ~Holds(M, "clear")
          /\ Behind(M, IF o = "new" THEN "accept" ELSE "clear") /\ o = "free" /\ o # "new" /\ 0 <= 0
      BY <3>1, <3>3, <3>4
    <3>6. Known(M, NoEvent, o, FALSE, 0, 0, FALSE, FALSE)
      BY <3>2, <3>5, Zenon DEF Known
    <3> QED BY <3>3, <3>4, <3>6
  <2> QED BY <2>1, <2>2, <2>3 DEF Told
<1>5. Packed(P, sending)
  BY <1>1, <1>2 DEF Packed, NoEvent
<1>6. Placed(P)
  <2>1. P = Line(0, queue)
    BY <1>1, <1>2 DEF Line
  <2> QED BY <1>2, <2>1 DEF Placed
<1> QED BY <1>3, <1>4, <1>5, <1>6 DEF OrderInv, Ordered

LEMMA LinedInv ==
  ASSUME NEW d \in Int, NEW Q, Q = Line(d, queue'), queue' \in Seq(Events), scan' = NoScan, Ordered(Q)'
  PROVE  OrderInv'
<1>1. Q \in SUBSET Packets
  BY LineType
<1>2. Placed(Q)'
  BY DEF Placed
<1> QED BY <1>1, <1>2 DEF OrderInv

\* lwIP's thread tells a client something.
LEMMA NotifyInv ==
  ASSUME TypeInv, ClosingInv, OrderInv, queue' \in Seq(Events), LwipMay, scan = NoScan,
         NEW a \in Clients, NEW kind \in {"recv", "sent", "poll", "fin", "error"}, Notify(kind, a),
         Connected(a), \A b \in Clients \ {a} : UNCHANGED <<conn[b], hooked[b], pcb[b]>>,
         kind \in Last => ~Connected(a)', Connected(a)' \in BOOLEAN
  PROVE  OrderInv'
<1>1. PICK P \in SUBSET Packets : Ordered(P) /\ Placed(P)
  BY DEF OrderInv
<1>2. PICK b \in Int : P = Line(b, queue)
  BY <1>1, PlacedLine
<1>3. /\ pushed[a] < MaxEvents /\ pushed' = [pushed EXCEPT ![a] = @ + 1]
      /\ SendAsyncEvent(Event(kind, a, pushed[a] + 1)) /\ UNCHANGED <<object, handled, service>>
  BY DEF Notify
<1>4. PICK e : e = Event(kind, a, pushed[a] + 1)
  OBVIOUS
<1>5. e \in Events /\ e.kind # "clear"
  <2>1. pushed[a] \in 0..MaxEvents
    <3>1. pushed \in [Clients -> 0..MaxEvents]
      BY Zenon DEF TypeInv
    <3> QED BY <3>1
  <2> QED BY <1>3, <1>4, <2>1, BoundsAssumption DEF Event, Events, Kinds
<1>6. \E d \in Int : Sends(Line(b, queue), Line(d, queue'), e)
  BY <1>3, <1>4, <1>5, SendLine DEF LwipMay
<1>7. PICK d \in Int : Sends(P, Line(d, queue'), e)
  BY <1>2, <1>6
<1>8. PICK Q : Q = Line(d, queue')
  OBVIOUS
<1>9. Q \in SUBSET Packets
  BY <1>8, LineType
<1>10. Sends(P, Q, Event(kind, a, pushed[a] + 1))
  BY <1>4, <1>7, <1>8
<1>11. Ordered(Q)'
  BY <1>1, <1>3, <1>9, <1>10, NotifyOrder
<1>12. scan' = NoScan
  BY <1>3 DEF service
<1> QED BY <1>8, <1>11, <1>12, LinedInv

LEMMA TrafficInv ==
  ASSUME TypeInv, ClosingInv, OrderInv, queue' \in Seq(Events), Undisturbed,
         NEW a \in Clients, Traffic(a)
  PROVE  OrderInv'
<1>1. LwipMay /\ scan = NoScan
  BY DEF Traffic, LwipMay, Undisturbed
<1>2. PICK kind \in {"recv", "sent", "poll"} : Notify(kind, a)
  BY DEF Traffic
<1>3. conn' = conn /\ hooked' = hooked /\ pcb' = pcb /\ Connected(a)
  BY DEF Traffic, network, Connected
<1>4. Connected(a)' = Connected(a) /\ Connected(a) \in BOOLEAN /\ kind \notin Last
  BY <1>3 DEF Connected, Last
<1> QED BY <1>1, <1>2, <1>3, <1>4, NotifyInv

LEMMA FinInv ==
  ASSUME TypeInv, ClosingInv, OrderInv, queue' \in Seq(Events), Undisturbed,
         NEW a \in Clients, Fin(a)
  PROVE  OrderInv'
<1>1. LwipMay /\ scan = NoScan
  BY DEF Fin, LwipMay, Undisturbed
<1>2. /\ Notify("fin", a) /\ Connected(a) /\ conn' = [conn EXCEPT ![a] = "closed"]
      /\ hooked' = [hooked EXCEPT ![a] = FALSE] /\ pcb' = [pcb EXCEPT ![a] = FALSE]
  BY DEF Fin, Connected
<1>3. /\ conn \in [Clients -> {"open", "closed", "reset"}] /\ hooked \in [Clients -> BOOLEAN]
      /\ pcb \in [Clients -> BOOLEAN]
  BY Zenon DEF TypeInv
<1>4. \A b \in Clients \ {a} : UNCHANGED <<conn[b], hooked[b], pcb[b]>>
  BY <1>2, <1>3
<1>5. Connected(a)' = FALSE
  BY <1>2, <1>3 DEF Connected
<1> QED BY <1>1, <1>2, <1>4, <1>5, NotifyInv

LEMMA ResetInv ==
  ASSUME TypeInv, ClosingInv, OrderInv, queue' \in Seq(Events), Undisturbed,
         NEW a \in Clients, Reset(a)
  PROVE  OrderInv'
<1>1. LwipMay /\ scan = NoScan
  BY DEF Reset, LwipMay, Undisturbed
<1>2. /\ conn[a] = "open" /\ conn' = [conn EXCEPT ![a] = "reset"]
      /\ pcb' = pcb /\ hooked' = hooked
  BY DEF Reset
<1>3. conn \in [Clients -> {"open", "closed", "reset"}]
  BY Zenon DEF TypeInv
<1>4. CASE hooked[a]
  <2>1. Notify("error", a) /\ Connected(a)
    BY <1>2, <1>4 DEF Reset, Connected
  <2>2. \A b \in Clients \ {a} : UNCHANGED <<conn[b], hooked[b], pcb[b]>>
    BY <1>2, <1>3
  <2>3. Connected(a)' = FALSE
    BY <1>2, <1>3 DEF Connected
  <2> QED BY <1>1, <2>1, <2>2, <2>3, NotifyInv
<1>5. CASE ~hooked[a]
  <2>1. UNCHANGED <<queue, sending, object, pushed, handled, service>>
    BY <1>5 DEF Reset
  <2>2. PICK P \in SUBSET Packets : Ordered(P) /\ Placed(P)
    BY DEF OrderInv
  <2>3. PICK b \in Int : P = Line(b, queue)
    BY <1>1, <2>2, PlacedLine
  <2>4. Ordered(P)'
    BY <1>2, <1>5, <2>1, <2>2, ResetOrder
  <2>5. scan' = NoScan /\ queue' = queue
    BY <1>1, <2>1 DEF service
  <2> QED BY <2>3, <2>4, <2>5, LinedInv
<1> QED BY <1>4, <1>5

LEMMA LateAckInv ==
  ASSUME TypeInv, ClosingInv, OrderInv, queue' \in Seq(Events), Undisturbed,
         NEW a \in Clients, LateAck(a)
  PROVE  OrderInv'
<1>1. scan = NoScan /\ sending = NoEvent
  BY DEF LateAck, LwipMay, Undisturbed
<1>2. /\ \A i \in 1..Len(queue) : queue[i].client # NoClient
      /\ SendAsyncEvent(Event("sent", NoClient, 0))
      /\ UNCHANGED <<object, network, slots, service, pushed, handled>>
  BY DEF LateAck
<1>3. PICK P \in SUBSET Packets : Ordered(P) /\ Placed(P)
  BY DEF OrderInv
<1>4. PICK b \in Int : P = Line(b, queue)
  BY <1>1, <1>3, PlacedLine
<1>5. PICK e : e = Event("sent", NoClient, 0)
  OBVIOUS
<1>6. e \in Events /\ e.kind # "clear"
  BY <1>5, BoundsAssumption DEF Event, Events, Kinds
<1>7. PICK d \in Int : Sends(Line(b, queue), Line(d, queue'), e)
  BY <1>1, <1>2, <1>5, <1>6, SendLine
<1>8. PICK Q : Q = Line(d, queue')
  OBVIOUS
<1>9. Q \in SUBSET Packets
  BY <1>8, LineType
<1>10. Sends(P, Q, Event("sent", NoClient, 0))
  BY <1>4, <1>5, <1>7, <1>8
<1>11. \A p \in P : p[2].client # NoClient
  BY <1>2, <1>4 DEF Line
<1>12. Ordered(Q)'
  BY <1>1, <1>2, <1>3, <1>9, <1>10, <1>11, LateAckOrder
<1>13. scan' = NoScan
  BY <1>1, <1>2 DEF service
<1> QED BY <1>8, <1>12, <1>13, LinedInv

LEMMA AcceptInv ==
  ASSUME TypeInv, ClosingInv, OrderInv, queue' \in Seq(Events), Undisturbed,
         NEW a \in Clients, Accept(a)
  PROVE  OrderInv'
<1>1. scan = NoScan /\ sending = NoEvent
  BY DEF Accept, LwipMay, Undisturbed
<1>2. /\ Event("clear", a, 0) \notin {queue[i] : i \in 1..Len(queue)}
      /\ object[a] = "free" /\ SendAsyncEvent(Event("accept", a, 0)) /\ UNCHANGED service
      /\ object' = [object EXCEPT ![a] = "new"] /\ conn' = [conn EXCEPT ![a] = "open"]
      /\ pcb' = [pcb EXCEPT ![a] = TRUE] /\ hooked' = [hooked EXCEPT ![a] = TRUE]
      /\ pushed' = [pushed EXCEPT ![a] = 0] /\ handled' = [handled EXCEPT ![a] = 0]
  BY DEF Accept, Undisturbed
<1>3. PICK P \in SUBSET Packets : Ordered(P) /\ Placed(P)
  BY DEF OrderInv
<1>4. PICK b \in Int : P = Line(b, queue)
  BY <1>1, <1>3, PlacedLine
<1>5. PICK e : e = Event("accept", a, 0)
  OBVIOUS
<1>6. e \in Events /\ e.kind # "clear"
  BY <1>5, BoundsAssumption DEF Event, Events, Kinds
<1>7. PICK d \in Int : Sends(Line(b, queue), Line(d, queue'), e)
  BY <1>1, <1>2, <1>5, <1>6, SendLine
<1>8. PICK Q : Q = Line(d, queue')
  OBVIOUS
<1>9. Q \in SUBSET Packets
  BY <1>8, LineType
<1>10. Sends(P, Q, Event("accept", a, 0))
  BY <1>4, <1>5, <1>7, <1>8
<1>11. \A p \in P : p[2] # Event("clear", a, 0)
  BY <1>2, <1>4 DEF Line
<1>12. Ordered(Q)'
  BY <1>1, <1>2, <1>3, <1>9, <1>10, <1>11, AcceptOrder
<1>13. scan' = NoScan
  BY <1>1, <1>2 DEF service
<1> QED BY <1>8, <1>12, <1>13, LinedInv

LEMMA UnblockInv ==
  ASSUME TypeInv, ClosingInv, OrderInv, queue' \in Seq(Events), Undisturbed, Unblock
  PROVE  OrderInv'
<1>1. /\ scan = NoScan /\ sending # NoEvent /\ queue' = Insert(sending, queue) /\ sending' = NoEvent
      /\ UNCHANGED <<object, network, slots, service, pushed, handled>>
  BY DEF Unblock, Undisturbed
<1>2. PICK P \in SUBSET Packets : Ordered(P) /\ Placed(P)
  BY DEF OrderInv
<1>3. PICK b \in Int : P = Line(b, queue)
  BY <1>1, <1>2, PlacedLine
<1>4. sending \in Events /\ sending.kind # "clear" /\ queue \in Seq(Events)
  <2>1. sending \in Events \cup {NoEvent} /\ queue \in Seq(Events)
    BY Zenon DEF TypeInv
  <2> QED BY <1>1, <1>2, <2>1 DEF Ordered, Packed
<1>5. PICK d \in Int : Joins(Line(b, queue), Line(d, Insert(sending, queue)), sending)
  BY <1>4, Inserted
<1>6. PICK Q : Q = Line(d, queue')
  OBVIOUS
<1>7. Q \in SUBSET Packets
  BY <1>6, LineType
<1>8. Joins(P, Q, sending)
  BY <1>1, <1>3, <1>5, <1>6
<1>9. Ordered(Q)'
  BY <1>1, <1>2, <1>7, <1>8, UnblockOrder
<1>10. scan' = NoScan
  BY <1>1 DEF service
<1> QED BY <1>6, <1>9, <1>10, LinedInv

\* A handler's step that leaves the queue alone.
LEMMA QueueKept ==
  ASSUME TypeInv, OrderInv, plan # <<>>, UNCHANGED <<queue, scan>>,
         \A P \in SUBSET Packets : Ordered(P) => Ordered(P)'
  PROVE  OrderInv'
<1>1. PICK P \in SUBSET Packets : Ordered(P) /\ Placed(P)
  BY DEF OrderInv
<1>2. scan = NoScan
  BY <1>1 DEF Ordered, PlanInv
<1>3. PICK b \in Int : P = Line(b, queue)
  BY <1>1, <1>2, PlacedLine
<1>4. queue' \in Seq(Events) /\ queue' = queue /\ scan' = NoScan
  BY <1>2, Zenon DEF TypeInv
<1>5. Ordered(P)'
  BY <1>1
<1> QED BY <1>3, <1>4, <1>5, LinedInv

LEMMA CallPlan ==
  ASSUME OrderInv, call.op \in {"load", "loadclose", "call", "close"}
  PROVE  plan # <<>>
BY PlanNames DEF OrderInv, Ordered, PlanInv

LEMMA HandlerInv ==
  ASSUME TypeInv, ClosingInv, OrderInv, ServeCall \/ LoadPcb \/ LoadSlot \/ Unhook \/ Delete
  PROVE  OrderInv'
<1>1. plan # <<>>
  BY CallPlan DEF ServeCall, LoadPcb, LoadSlot, Unhook, Delete, Step
<1>2. UNCHANGED <<queue, scan>>
  BY DEF ServeCall, LoadPcb, LoadSlot, Unhook, Delete
<1>3. ASSUME NEW P \in SUBSET Packets, Ordered(P) PROVE Ordered(P)'
  BY <1>3, ServeCallOrder, LoadPcbOrder, LoadSlotOrder, UnhookOrder, DeleteOrder
<1> QED BY <1>1, <1>2, <1>3, QueueKept

LEMMA ClearInv ==
  ASSUME TypeInv, ClosingInv, OrderInv, queue' \in Seq(Events), ClearEvents
  PROVE  OrderInv'
<1>1. /\ plan # <<>> /\ queue' = <<Event("clear", cur, 0)>> \o queue /\ UNCHANGED scan
  BY DEF ClearEvents, Step
<1>2. PICK P \in SUBSET Packets : Ordered(P) /\ Placed(P)
  BY DEF OrderInv
<1>3. scan = NoScan
  BY <1>1, <1>2 DEF Ordered, PlanInv
<1>4. PICK b \in Int : P = Line(b, queue)
  BY <1>2, <1>3, PlacedLine
<1>5. PICK e : e = Event("clear", cur, 0)
  OBVIOUS
<1>6. e \in Events /\ queue \in Seq(Events)
  <2>1. cur \in Clients
    BY <1>1 DEF ClosingInv
  <2>2. e \in Events
    BY <1>5, <2>1, BoundsAssumption DEF Event, Events, Kinds
  <2> QED BY <2>2, Zenon DEF TypeInv
<1>7. PICK d \in Int : d = b - 1
  OBVIOUS
<1>8. PICK Q : Q = Plus(P, b, e)
  OBVIOUS
<1>9. Q = Line(d, queue')
  BY <1>1, <1>4, <1>5, <1>6, <1>7, <1>8, LinePrepend DEF Plus
<1>10. \A p \in P : b < p[1]
  BY <1>4, <1>6, LineType
<1>11. Ordered(Q)'
  BY <1>2, <1>5, <1>8, <1>10, ClearOrder
<1> QED BY <1>1, <1>3, <1>9, <1>11, LinedInv

LEMMA StutterInv ==
  ASSUME OrderInv, UNCHANGED vars
  PROVE  OrderInv'
<1>1. UNCHANGED <<queue, sending, object, conn, pcb, hooked, service, pushed, handled>>
  BY DEF vars, network
<1>2. cur' = cur /\ plan' = plan /\ scan' = scan /\ call' = call
  BY <1>1 DEF service
<1>3. PICK P \in SUBSET Packets : Ordered(P) /\ Placed(P)
  BY DEF OrderInv
<1>4. \A d \in Clients : Connected(d)' = Connected(d) /\ IsRemoved(d)' = IsRemoved(d)
                          /\ IsClosing(d)' = IsClosing(d)
  BY <1>1, <1>2, Zenon DEF Connected, IsRemoved, IsClosing
<1>5. PlanInv(P)'
  <2>1. Connected(cur)' = Connected(cur) /\ Of(sending, cur)' = Of(sending, cur)
    BY <1>1, <1>2, Zenon DEF Connected, Of
  <2> QED BY <1>1, <1>2, <1>3, <2>1, PlanOther DEF Ordered
<1>6. Ordered(P)'
  BY <1>1, <1>3, <1>4, <1>5, Unconcerned
<1>7. Placed(P)'
  BY <1>1, <1>2, <1>3 DEF Placed, Turning
<1> QED BY <1>6, <1>7 DEF OrderInv

LEMMA OrderStep ==
  ASSUME Undisturbed, TypeInv, ClosingInv, OrderInv, TypeInv', [Next]_vars
  PROVE  OrderInv'
<1>1. queue' \in Seq(Events)
  BY Zenon DEF TypeInv
<1>2. CASE UNCHANGED vars
  BY <1>2, StutterInv
<1>3. ASSUME NEW a \in Clients, Accept(a) \/ Traffic(a) \/ Fin(a) \/ Reset(a) \/ LateAck(a)
      PROVE  OrderInv'
  BY <1>1, <1>3, AcceptInv, TrafficInv, FinInv, ResetInv, LateAckInv
<1>4. CASE Unblock
  BY <1>1, <1>4, UnblockInv
<1>5. CASE ServeCall \/ LoadPcb \/ LoadSlot \/ Unhook \/ Delete
  BY <1>5, HandlerInv
<1>6. CASE HandleAsyncEvent
  BY <1>6, HandleInv
<1>7. CASE ScanTake
  BY <1>7, ScanTakeInv
<1>8. CASE ScanPut
  BY <1>8, ScanPutInv
<1>9. CASE ClearEvents
  BY <1>1, <1>9, ClearInv
<1> QED BY <1>2, <1>3, <1>4, <1>5, <1>6, <1>7, <1>8, <1>9, Zenon DEF Next, Network, Lwip, Service

-----------------------------------------------------------------------------
(* What follows from it. *)

\* What is known of a client that exists, when no events are being removed.
LEMMA OrderKnown ==
  ASSUME TypeInv, NEW P \in SUBSET Packets, Ordered(P), scan = NoScan, NEW b \in Int, P = Line(b, queue)
  PROVE  /\ queue \in Seq(Events) /\ Len(queue) \in Nat
         /\ \A i \in 1..Len(queue) : queue[i] \in Events
         /\ \A a \in Clients, i \in 1..Len(queue) : IsOf(queue[i], a) <=> <<b + i, queue[i]>> \in Own(Mine(P, a))
         /\ \A a \in Clients : \A p \in Mine(P, a) : \E i \in 1..Len(queue) : p = <<b + i, queue[i]>>
         /\ \A a \in Clients : Known(Mine(P, a), Of(sending, a), object[a], Connected(a), handled[a],
                                     pushed[a], FALSE, IsClosing(a))
<1>1. queue \in Seq(Events)
  BY Zenon DEF TypeInv
<1>2. Len(queue) \in Nat /\ \A i \in 1..Len(queue) : queue[i] \in Events
  BY <1>1
<1>3. ASSUME NEW a \in Clients, NEW i \in 1..Len(queue)
      PROVE  IsOf(queue[i], a) <=> <<b + i, queue[i]>> \in Own(Mine(P, a))
  <2>1. <<b + i, queue[i]>> \in P
    BY DEF Line
  <2>2. <<b + i, queue[i]>>[2] = queue[i]
    OBVIOUS
  <2> QED BY <2>1, <2>2 DEF IsOf, Own, Mine
<1>4. ASSUME NEW a \in Clients, NEW p \in Mine(P, a) PROVE \E i \in 1..Len(queue) : p = <<b + i, queue[i]>>
  BY DEF Mine, Line
<1>5. ASSUME NEW a \in Clients
      PROVE  Known(Mine(P, a), Of(sending, a), object[a], Connected(a), handled[a], pushed[a], FALSE, IsClosing(a))
  <2>1. IsRemoved(a) = FALSE
    BY NoClientAssumption DEF IsRemoved, NoScan
  <2> QED BY <2>1 DEF Ordered, Told
<1> QED BY <1>1, <1>2, <1>3, <1>4, <1>5

LEMMA OrderFresh ==
  ASSUME TypeInv, OrderInv
  PROVE  NothingStale
<1>1. PICK P \in SUBSET Packets : Ordered(P) /\ Placed(P)
  BY DEF OrderInv
<1>2. plan # <<>> /\ object[cur] # "attached" => \A i \in DOMAIN plan : plan[i] = "call"
  <2>1. plan # <<>> /\ object[cur] # "attached" => plan \in Calls
    BY <1>1 DEF Ordered, PlanInv
  <2> QED BY <2>1, CallsAreSteps
<1>3. ASSUME Idle, NEW i \in DOMAIN queue, NEW a \in Clients, IsOf(queue[i], a), object[a] # "attached"
      PROVE  \E j \in 1..(i - 1) : queue[j] = Event(IF object[a] = "new" THEN "accept" ELSE "clear", a, 0)
  <2>1. scan = NoScan
    BY <1>3 DEF Idle
  <2>2. PICK b \in Int : P = Line(b, queue)
    BY <1>1, <2>1, PlacedLine
  <2>3. queue \in Seq(Events) /\ Len(queue) \in Nat
    BY <1>1, <2>1, <2>2, OrderKnown
  <2>4. i \in 1..Len(queue)
    BY <2>3
  <2>5. <<b + i, queue[i]>> \in Own(Mine(P, a))
    BY <1>1, <1>3, <2>1, <2>2, <2>4, OrderKnown
  <2>6. PICK kind \in {"accept", "clear"} : kind = IF object[a] = "new" THEN "accept" ELSE "clear"
    OBVIOUS
  <2>7. Behind(Mine(P, a), kind)
    <3>1. Known(Mine(P, a), Of(sending, a), object[a], Connected(a), handled[a], pushed[a], FALSE, IsClosing(a))
      BY <1>1, <2>1, <2>2, OrderKnown
    <3> QED BY <1>3, <2>6, <3>1 DEF Known
  <2>8. PICK m \in Mine(P, a) : m[1] < b + i /\ m[2].kind = kind
    BY <2>5, <2>7 DEF Behind
  <2>9. PICK j \in 1..Len(queue) : m = <<b + j, queue[j]>>
    BY <2>2 DEF Mine, Line
  <2>10. m[2] = queue[j] /\ m[1] = b + j
    BY <2>9
  <2>11. m[2] \in Events
    BY <2>3, <2>10
  <2>12. m[2] = Event(kind, a, 0)
    BY <1>1, <2>8, <2>11, MarkOf DEF Ordered
  <2>13. j \in 1..(i - 1)
    BY <2>3, <2>4, <2>8, <2>10
  <2> QED BY <2>6, <2>10, <2>12, <2>13
<1> QED BY <1>2, <1>3 DEF NothingStale

LEMMA OrderKept ==
  ASSUME TypeInv, OrderInv
  PROVE  EventsInOrder
<1> SUFFICES ASSUME scan = NoScan, NEW a \in Clients, object[a] # "free"
             PROVE  LET Mark == {i \in DOMAIN Waiting : IsOf(Waiting[i], a)} IN
                    /\ \A i, j \in Mark : i < j => Waiting[i].n < Waiting[j].n
                    /\ {Waiting[i].n : i \in Mark} = (handled[a] + 1)..pushed[a]
  BY DEF EventsInOrder
<1>1. PICK P \in SUBSET Packets : Ordered(P) /\ Placed(P)
  BY DEF OrderInv
<1>2. PICK b \in Int : P = Line(b, queue)
  BY <1>1, PlacedLine
<1> DEFINE l == Len(queue)
           M == Mine(P, a)
           s == Of(sending, a)
           h == handled[a]
           u == pushed[a]
           c == Connected(a)
           Mark == {i \in DOMAIN Waiting : IsOf(Waiting[i], a)}
<1>3. /\ queue \in Seq(Events) /\ l \in Nat /\ \A i \in 1..l : queue[i] \in Events
      /\ \A i \in 1..l : IsOf(queue[i], a) <=> <<b + i, queue[i]>> \in Own(M)
      /\ \A p \in M : \E i \in 1..l : p = <<b + i, queue[i]>>
      /\ Known(M, s, object[a], c, h, u, FALSE, IsClosing(a))
  BY <1>1, <1>2, OrderKnown
<1>4. DOMAIN Waiting = 1..(l + 1) /\ Waiting[l + 1] = sending /\ \A i \in 1..l : Waiting[i] = queue[i]
  <2>1. queue \in Seq(Events \cup {NoEvent}) /\ sending \in Events \cup {NoEvent}
    <3>1. sending \in Events \cup {NoEvent}
      BY Zenon DEF TypeInv
    <3> QED BY <1>3, <3>1
  <2> QED BY <2>1, AppendProperties DEF Waiting
<1>5. h \in Nat /\ u \in Nat
  BY ToldTypes
<1>6. IsOf(sending, a) <=> Sent(s)
  <2>1. sending \in Events \cup {NoEvent} /\ sending.kind # "clear"
    BY <1>1, Zenon DEF TypeInv, Ordered, Packed
  <2>2. sending = NoEvent => ~IsOf(sending, a) /\ ~Sent(s)
    BY OfNone DEF IsOf, Sent, NoEvent
  <2>3. sending \in Events => (IsOf(sending, a) <=> Sent(s))
    BY <2>1 DEF IsOf, Sent, Of, Events, Kinds, NoEvent
  <2> QED BY <2>1, <2>2, <2>3
<1>7. Sent(s) => s = sending /\ LastSent(M, s, c, h, u)
  <2>1. Sent(s) => s = sending
    BY DEF Sent, Of, NoEvent
  <2>2. Sent(s) => LastSent(M, s, c, h, u)
    BY <1>3, Zenon DEF Known
  <2> QED BY <2>1, <2>2
<1>8. /\ \A p, q \in Own(M) : p[1] < q[1] => p[2].n < q[2].n
      /\ \A p \in Own(M) : p[2].n > h /\ p[2].n <= u
      /\ Complete(M, s, h, u)
  BY <1>3 DEF Known, InTurn
<1> HIDE DEF M, s, h, u, c, l
<1>9. \A i : i \in Mark <=> (i \in 1..l /\ <<b + i, queue[i]>> \in Own(M)) \/ (i = l + 1 /\ Sent(s))
  <2>1. \A i : i \in Mark <=> i \in 1..(l + 1) /\ IsOf(Waiting[i], a)
    BY <1>4
  <2> HIDE DEF Mark
  <2>2. \A i : i \in 1..(l + 1) <=> i \in 1..l \/ i = l + 1
    BY <1>3
  <2>3. \A i \in 1..l : i # l + 1
    BY <1>3
  <2>4. \A i \in 1..l : IsOf(Waiting[i], a) <=> <<b + i, queue[i]>> \in Own(M)
    BY <1>3, <1>4
  <2>5. IsOf(Waiting[l + 1], a) <=> Sent(s)
    BY <1>4, <1>6
  <2> QED BY <2>1, <2>2, <2>3, <2>4, <2>5, Zenon
<1> HIDE DEF Mark
<1>10. \A i \in 1..l : <<b + i, queue[i]>>[1] = b + i /\ <<b + i, queue[i]>>[2] = queue[i]
  OBVIOUS
<1>11. ASSUME NEW i \in Mark, NEW j \in Mark, i < j PROVE Waiting[i].n < Waiting[j].n
  <2>1. i \in 1..l /\ <<b + i, queue[i]>> \in Own(M) /\ Waiting[i] = queue[i]
    <3>1. (i \in 1..l \/ i = l + 1) /\ (j \in 1..l \/ j = l + 1)
      BY <1>9
    <3>2. i # l + 1 /\ i \in 1..l
      BY <1>3, <1>11, <3>1
    <3>3. <<b + i, queue[i]>> \in Own(M)
      BY <1>9, <3>2
    <3> QED BY <1>4, <3>2, <3>3
  <2>2. CASE j \in 1..l /\ <<b + j, queue[j]>> \in Own(M)
    <3>1. b + i < b + j /\ Waiting[j] = queue[j]
      BY <1>4, <1>11, <2>1, <2>2
    <3> QED BY <1>8, <1>10, <2>1, <2>2, <3>1
  <2>3. CASE j = l + 1 /\ Sent(s)
    <3>1. Waiting[j].n = u /\ \A p \in Own(M) : p[2].n < u
      BY <1>4, <1>7, <2>3 DEF LastSent
    <3> QED BY <1>10, <2>1, <3>1
  <2> QED BY <1>9, <2>2, <2>3
<1>12. ASSUME NEW i \in Mark PROVE Waiting[i].n \in (h + 1)..u
  <2>1. CASE i \in 1..l /\ <<b + i, queue[i]>> \in Own(M)
    <3>1. Waiting[i] = queue[i] /\ queue[i].n > h /\ queue[i].n <= u
      BY <1>4, <1>8, <1>10, <2>1
    <3>2. queue[i].n \in Nat
      BY <1>3, <2>1 DEF Events
    <3> QED BY <1>5, <3>1, <3>2
  <2>2. CASE i = l + 1 /\ Sent(s)
    <3>1. Waiting[i].n = u /\ h < u
      BY <1>4, <1>7, <2>2 DEF LastSent
    <3> QED BY <1>5, <3>1
  <2> QED BY <1>9, <2>1, <2>2
<1>13. ASSUME NEW n \in (h + 1)..u PROVE \E i \in Mark : Waiting[i].n = n
  <2>1. CASE Sent(s) /\ s.n = n
    <3>1. l + 1 \in Mark /\ Waiting[l + 1].n = n
      BY <1>4, <1>7, <1>9, <2>1
    <3> QED BY <3>1, Zenon
  <2>2. ASSUME NEW p \in Own(M), p[2].n = n PROVE \E i \in Mark : Waiting[i].n = n
    <3>1. PICK i \in 1..l : p = <<b + i, queue[i]>>
      BY <1>3 DEF Own
    <3>2. i \in Mark /\ Waiting[i] = queue[i] /\ queue[i].n = n
      BY <1>4, <1>9, <1>10, <2>2, <3>1
    <3> QED BY <3>2, Zenon
  <2> QED BY <1>8, <2>1, <2>2, Zenon DEF Complete
<1>14. {Waiting[i].n : i \in Mark} = (h + 1)..u
  BY <1>12, <1>13
<1> QED BY <1>11, <1>14 DEF Mark, h, u

-----------------------------------------------------------------------------
(* Theorems *)

LEMMA OrderAlways ==
  ASSUME Undisturbed
  PROVE  /\ Init => TcpInv /\ OrderInv
         /\ TcpInv /\ OrderInv /\ [Next]_vars => (TcpInv /\ OrderInv)'
<1>1. Init => TcpInv /\ OrderInv
  BY TcpInit, OrderInit
<1>2. ASSUME TcpInv, OrderInv, [Next]_vars PROVE TcpInv' /\ OrderInv'
  <2>1. TcpInv'
    BY <1>2, TcpStep
  <2>2. TypeInv /\ TypeInv' /\ ClosingInv
    BY <1>2, <2>1 DEF TcpInv, CallInv, ClosingInv
  <2>3. OrderInv'
    BY <1>2, <2>2, OrderStep
  <2> QED BY <2>1, <2>3
<1> QED BY <1>1, <1>2

\* While nothing disturbs the removal of events, no event of a client that is deleted, or
\* that has no request yet, is handled: its CLEAR, or its acceptance, comes before.  And with
\* a client that its own handler has deleted, _recv does nothing more than to acknowledge.
THEOREM NeverStale ==
  ASSUME Undisturbed
  PROVE  Spec => []NothingStale
<1>1. TcpInv /\ OrderInv => NothingStale
  BY OrderFresh DEF TcpInv
<1> QED BY <1>1, OrderAlways, PTL DEF Spec

\* Then a client that exists is also told everything, once and in order, however often the
\* events of others are removed from the queue that they share.
THEOREM OrderHolds ==
  ASSUME Undisturbed
  PROVE  Spec => []EventsInOrder
<1>1. TcpInv /\ OrderInv => EventsInOrder
  BY OrderKept DEF TcpInv
<1> QED BY <1>1, OrderAlways, PTL DEF Spec

-----------------------------------------------------------------------------
(* Slots for all: while there are as many slots as clients, and lwIP does  *)
(* not close a connection between the two loads of a call's arguments.     *)

Provided == /\ "load" \in Quiet
            /\ IsFiniteSet(Clients) /\ Cardinality(Clients) <= Slots

\* A new client gets a slot: else each slot had a client of its own, another than it.
LEMMA SlotForAll ==
  ASSUME Provided, TypeInv, SlotsAreOwn, NEW a \in Clients, slot[a] = NoSlot, AllocateClosedSlot(a)
  PROVE  slot'[a] # NoSlot /\ \A b \in Clients \ {a} : slot'[b] = slot[b]
<1>1. slot \in [Clients -> NoSlot..(Slots - 1)] /\ closedSlots \in [0..(Slots - 1) -> Nat]
  BY Zenon DEF TypeInv
<1>2. \/ slot' = [slot EXCEPT ![a] = NoSlot] /\ closedSlots' = closedSlots
      \/ \E s \in 0..(Slots - 1) : slot' = [slot EXCEPT ![a] = s]
  BY <1>1, Allocated
<1>3. \A b \in Clients \ {a} : slot'[b] = slot[b]
  BY <1>1, <1>2
<1>4. CASE \E s \in 0..(Slots - 1) : slot' = [slot EXCEPT ![a] = s]
  BY <1>1, <1>3, <1>4, SlotsAssumption DEF NoSlot
<1>5. CASE {s \in DOMAIN closedSlots : closedSlots[s] # 0} # {}
  <2>1. \E s : closedSlots' = [closedSlots EXCEPT ![s] = 0] /\ slot' = [slot EXCEPT ![a] = s]
               /\ s \in {t \in DOMAIN closedSlots : closedSlots[t] # 0}
    <3> DEFINE F == {s \in 0..(Slots - 1) : closedSlots[s] # 0}
    <3> DEFINE Best(s) == \A t \in F :
                 closedSlots[s] < closedSlots[t] \/ (closedSlots[s] = closedSlots[t] /\ s >= t)
    <3>1. DOMAIN closedSlots = 0..(Slots - 1)
      BY <1>1
    <3>2. \E s \in F : Best(s)
      BY <1>1, <1>5, <3>1, BestExists
    <3>3. (CHOOSE s \in F : Best(s)) \in F
      BY <3>2
    <3>4. /\ slot' = [slot EXCEPT ![a] = CHOOSE s \in F : Best(s)]
          /\ closedSlots' = [closedSlots EXCEPT ![CHOOSE s \in F : Best(s)] = 0]
      BY <1>5, <3>1, Zenon DEF AllocateClosedSlot
    <3> QED BY <3>1, <3>3, <3>4, Zenon
  <2> QED BY <1>1, <1>4, <2>1
<1>6. CASE {s \in DOMAIN closedSlots : closedSlots[s] # 0} = {}
  <2> DEFINE Held == 0..(Slots - 1)
             Others == Clients \ {a}
             f == [s \in Held |-> CHOOSE b \in Others : slot[b] = s]
  <2>1. \A s \in Held : \E b \in Others : slot[b] = s
    <3>1. \A s \in Held : closedSlots[s] = 0
      BY <1>1, <1>6
    <3>2. \A s \in Held : \E b \in Clients : slot[b] = s
      BY <1>1, <3>1 DEF SlotsAreOwn
    <3> QED BY <3>2, SlotsAssumption DEF NoSlot
  <2>2. \A s \in Held : f[s] \in Others /\ slot[f[s]] = s
    BY <2>1
  <2>3. IsFiniteSet(Held) /\ Cardinality(Held) = Slots
    <3>1. 0 \in Int /\ Slots - 1 \in Int /\ ~(0 > Slots - 1) /\ (Slots - 1) - 0 + 1 = Slots
      BY SlotsAssumption
    <3> QED BY <3>1, FS_Interval
  <2>4. IsFiniteSet(Others) /\ Cardinality(Others) < Cardinality(Held)
    <3>1. IsFiniteSet(Others) /\ Cardinality(Others) = Cardinality(Clients) - 1
      BY FS_RemoveElement DEF Provided
    <3>2. Cardinality(Clients) \in Nat
      BY FS_CardinalityType DEF Provided
    <3> QED BY <2>3, <3>1, <3>2, SlotsAssumption DEF Provided
  <2>5. f \in [Held -> Others]
    BY <2>2
  <2> HIDE DEF f, Held, Others
  <2>6. \E x, y \in Held : x # y /\ f[x] = f[y]
    BY <2>3, <2>4, <2>5, FS_PigeonHole
  <2> QED BY <2>2, <2>6
<1> QED BY <1>3, <1>5, <1>6

-----------------------------------------------------------------------------
(* The events that the tasks have between them. *)

Moving == {queue[i] : i \in 1..Len(queue)} \cup {sending, scan.held}
Fins == {e \in Moving : e.kind = "fin" /\ e.client \in Clients}

\* A client that is connected has a slot; one whose end is known to lwIP is not; what is
\* loaded for a call of a client that has its request, or called, is loaded with a slot.
CarryInv ==
  /\ \A a \in Clients : pcb[a] => slot[a] # NoSlot
  /\ \A e \in Fins : ~pcb[e.client]
  /\ plan \in Gone \cup Doomed => ~pcb[cur]
  /\ call.op \in {"load", "loadclose"} /\ object[cur] = "attached" => slot[cur] # NoSlot
  /\ CallsCarryASlot

LEMMA Inserts ==
  ASSUME NEW q \in Seq(Events), NEW e \in Events
  PROVE  {Insert(e, q)[i] : i \in 1..Len(Insert(e, q))} \subseteq {q[i] : i \in 1..Len(q)} \cup {e}
<1>1. <<e>> \in Seq(Events) /\ Len(<<e>>) = 1 /\ <<e>>[1] = e /\ Len(q) \in Nat
  OBVIOUS
<1>2. CASE e.kind = "accept"
  <2>1. /\ Len(<<e>> \o q) = 1 + Len(q)
        /\ \A i \in 1..(1 + Len(q)) : (<<e>> \o q)[i] = IF i <= 1 THEN <<e>>[i] ELSE q[i - 1]
    BY <1>1, ConcatProperties
  <2>2. Insert(e, q) = <<e>> \o q
    BY <1>2 DEF Insert
  <2>3. ASSUME NEW i \in 1..(1 + Len(q)) PROVE (<<e>> \o q)[i] \in {q[j] : j \in 1..Len(q)} \cup {e}
    <3>1. CASE i = 1
      BY <1>1, <2>1, <3>1
    <3>2. CASE i # 1
      <4>1. i - 1 \in 1..Len(q) /\ ~(i <= 1)
        BY <1>1, <3>2
      <4> QED BY <2>1, <4>1
    <3> QED BY <3>1, <3>2
  <2> QED BY <2>1, <2>2, <2>3
<1>3. CASE e.kind # "accept"
  <2>1. /\ Len(Append(q, e)) = Len(q) + 1
        /\ \A i \in 1..Len(q) : Append(q, e)[i] = q[i]
        /\ Append(q, e)[Len(q) + 1] = e
    BY AppendProperties
  <2>2. Insert(e, q) = Append(q, e)
    BY <1>3 DEF Insert
  <2>3. \A i \in 1..(Len(q) + 1) : i \in 1..Len(q) \/ i = Len(q) + 1
    BY <1>1
  <2> HIDE DEF Events
  <2> QED BY <1>1, <2>1, <2>2, <2>3
<1> QED BY <1>2, <1>3

LEMMA Tails ==
  ASSUME NEW q \in Seq(Events), q # <<>>
  PROVE  /\ {Tail(q)[i] : i \in 1..Len(Tail(q))} \subseteq {q[i] : i \in 1..Len(q)}
         /\ Head(q) \in {q[i] : i \in 1..Len(q)} /\ Head(q) \in Events
<1> HIDE DEF Events
<1>1. /\ Len(Tail(q)) = Len(q) - 1 /\ Head(q) = q[1] /\ Head(q) \in Events /\ Len(q) \in Nat /\ Len(q) # 0
      /\ \A i \in 1..(Len(q) - 1) : Tail(q)[i] = q[i + 1]
  BY HeadTailProperties
<1>2. \A i \in 1..(Len(q) - 1) : i + 1 \in 1..Len(q)
  BY <1>1
<1>3. 1 \in 1..Len(q)
  BY <1>1
<1> QED BY <1>1, <1>2, <1>3

\* lwIP's thread adds the event it sends.
LEMMA SendMoving ==
  ASSUME TypeInv, NEW e \in Events, SendAsyncEvent(e), scan' = scan
  PROVE  Moving' \subseteq Moving \cup {e}
<1>1. queue \in Seq(Events)
  BY Zenon DEF TypeInv
<1>2. CASE queue' = Insert(e, queue) /\ UNCHANGED sending
  <2>1. {queue'[i] : i \in 1..Len(queue')} \subseteq {queue[i] : i \in 1..Len(queue)} \cup {e}
    BY <1>1, <1>2, Inserts
  <2> QED BY <1>2, <2>1 DEF Moving
<1>3. CASE sending' = e /\ UNCHANGED queue
  BY <1>3, Zenon DEF Moving
<1> QED BY <1>2, <1>3 DEF SendAsyncEvent

\* A step that makes no handler's plan or call, and no slot, different.
LEMMA CarrySame ==
  ASSUME CarryInv, ClosingInv, UNCHANGED <<slot, cur, plan, call>>, object' = object \/ call.op = "none",
         \A a \in Clients : pcb'[a] => pcb[a], Fins' \subseteq Fins
  PROVE  CarryInv'
<1>1. \A e \in Fins : e.client \in Clients
  BY DEF Fins
<1>2. plan \in Gone \cup Doomed => cur \in Clients
  BY PlanNames DEF ClosingInv
<1>3. slot' = slot /\ cur' = cur /\ plan' = plan /\ call' = call
  OBVIOUS
<1>4. \A a \in Clients : pcb'[a] => slot'[a] # NoSlot
  BY <1>3, Zenon DEF CarryInv
<1>5. \A e \in Fins' : ~pcb'[e.client]
  BY <1>1, Zenon DEF CarryInv
<1>6. plan' \in Gone \cup Doomed => ~pcb'[cur']
  BY <1>2, <1>3, Zenon DEF CarryInv
<1>7. call'.op \in {"load", "loadclose", "call", "close"} => object' = object
  BY <1>3
<1> QED BY <1>3, <1>4, <1>5, <1>6, <1>7 DEF CarryInv, CallsCarryASlot

LEMMA FinsOfMoving ==
  ASSUME Moving' \subseteq Moving \/ \E e : e.kind # "fin" /\ Moving' \subseteq Moving \cup {e}
  PROVE  Fins' \subseteq Fins
BY DEF Fins

LEMMA NetworkCarry ==
  ASSUME TypeInv, ClosingInv, CarryInv, NEW a \in Clients, Traffic(a) \/ Reset(a) \/ LateAck(a)
  PROVE  CarryInv'
<1>1. UNCHANGED <<slot, cur, plan, call, scan, pcb, object>>
  BY DEF Traffic, Reset, LateAck, Notify, slots, network, service
<1>2. \/ UNCHANGED <<queue, sending>>
      \/ \E kind \in {"recv", "sent", "poll", "error"} : Notify(kind, a)
      \/ SendAsyncEvent(Event("sent", NoClient, 0))
  BY Zenon DEF Traffic, Reset, LateAck
<1>3. Moving' \subseteq Moving \/ \E e : e.kind # "fin" /\ Moving' \subseteq Moving \cup {e}
  <2>1. CASE UNCHANGED <<queue, sending>>
    BY <1>1, <2>1 DEF Moving
  <2>2. ASSUME NEW kind \in {"recv", "sent", "poll", "error"}, Notify(kind, a)
        PROVE  \E e : e.kind # "fin" /\ Moving' \subseteq Moving \cup {e}
    <3>1. PICK e : e = Event(kind, a, pushed[a] + 1)
      OBVIOUS
    <3>2. e \in Events
      <4>1. pushed \in [Clients -> 0..MaxEvents] /\ pushed[a] < MaxEvents
        BY <2>2, Zenon DEF TypeInv, Notify
      <4> QED BY <3>1, <4>1, BoundsAssumption DEF Event, Events, Kinds
    <3>3. SendAsyncEvent(e)
      BY <2>2, <3>1 DEF Notify
    <3>4. Moving' \subseteq Moving \cup {e}
      BY <1>1, <3>2, <3>3, SendMoving
    <3>5. e.kind # "fin"
      BY <3>1 DEF Event
    <3> QED BY <3>4, <3>5
  <2>3. CASE SendAsyncEvent(Event("sent", NoClient, 0))
    <3>1. PICK e : e = Event("sent", NoClient, 0)
      OBVIOUS
    <3>2. e \in Events
      BY <3>1, BoundsAssumption DEF Event, Events, Kinds
    <3>3. Moving' \subseteq Moving \cup {e}
      BY <1>1, <2>3, <3>1, <3>2, SendMoving
    <3>4. e.kind # "fin"
      BY <3>1 DEF Event
    <3> QED BY <3>3, <3>4
  <2> QED BY <1>2, <2>1, <2>2, <2>3
<1> QED BY <1>1, <1>3, CarrySame, FinsOfMoving

LEMMA FinCarry ==
  ASSUME Provided, TypeInv, CallInv, CarryInv, NEW a \in Clients, Fin(a)
  PROVE  CarryInv'
<1>1. /\ pcb \in [Clients -> BOOLEAN] /\ slot \in [Clients -> NoSlot..(Slots - 1)]
      /\ pushed \in [Clients -> 0..MaxEvents]
  BY Zenon DEF TypeInv
<1>2. /\ pcb' = [pcb EXCEPT ![a] = FALSE] /\ FreeClosedSlot(a) /\ Notify("fin", a)
      /\ ~(cur = a /\ call.op \in {"load", "loadclose"})
  BY DEF Fin, Provided
<1>3. UNCHANGED <<cur, plan, call, scan, object>>
  BY <1>2 DEF Notify, service
<1>4. ~pcb'[a] /\ \A b \in Clients \ {a} : pcb'[b] = pcb[b] /\ slot'[b] = slot[b]
  BY <1>1, <1>2 DEF FreeClosedSlot, slots
<1>5. PICK e : e = Event("fin", a, pushed[a] + 1)
  OBVIOUS
<1>6. e \in Events /\ SendAsyncEvent(e) /\ e.client = a
  <2>1. pushed[a] < MaxEvents /\ SendAsyncEvent(Event("fin", a, pushed[a] + 1))
    BY <1>2 DEF Notify
  <2>2. e \in Events /\ e.client = a
    BY <1>1, <1>5, <2>1, BoundsAssumption DEF Event, Events, Kinds
  <2> QED BY <1>5, <2>1, <2>2
<1>7. Moving' \subseteq Moving \cup {e}
  BY <1>3, <1>6, SendMoving
<1>8. \A m \in Fins' : m.client \in Clients /\ (m \in Fins \/ m.client = a)
  BY <1>6, <1>7 DEF Fins
<1>9. plan # <<>> => cur \in Clients
  BY DEF CallInv
<1>10. plan \in Gone \cup Doomed => plan # <<>>
  BY PlanNames
<1>11. \A b \in Clients : pcb'[b] => slot'[b] # NoSlot
  BY <1>4, Zenon DEF CarryInv
<1>12. \A m \in Fins' : ~pcb'[m.client]
  BY <1>4, <1>8, Zenon DEF CarryInv
<1>13. plan' \in Gone \cup Doomed => ~pcb'[cur']
  BY <1>3, <1>4, <1>9, <1>10, Zenon DEF CarryInv
<1>14. call'.op \in {"load", "loadclose"} /\ object'[cur'] = "attached" => slot'[cur'] # NoSlot
  <2>1. call.op \in {"load", "loadclose"} => cur \in Clients
    BY <1>9 DEF CallInv
  <2> QED BY <1>2, <1>3, <1>4, <2>1, Zenon DEF CarryInv
<1> QED BY <1>3, <1>11, <1>12, <1>13, <1>14, Zenon DEF CarryInv, CallsCarryASlot

\* A client that is accepted has no events yet: those of another at its address are gone.
LEMMA AcceptCarry ==
  ASSUME Provided, Undisturbed, TypeInv, SlotsAreOwn, CallInv, OrderInv, CarryInv,
         NEW a \in Clients, Accept(a)
  PROVE  CarryInv'
<1>1. /\ pcb \in [Clients -> BOOLEAN] /\ slot \in [Clients -> NoSlot..(Slots - 1)]
      /\ object \in [Clients -> {"free", "new", "attached"}]
  BY Zenon DEF TypeInv
<1>2. /\ scan = NoScan /\ sending = NoEvent /\ object[a] = "free"
      /\ Event("clear", a, 0) \notin {queue[i] : i \in 1..Len(queue)}
      /\ pcb' = [pcb EXCEPT ![a] = TRUE] /\ AllocateClosedSlot(a)
      /\ SendAsyncEvent(Event("accept", a, 0)) /\ UNCHANGED <<cur, plan, call, scan>>
      /\ object' = [object EXCEPT ![a] = "new"]
  BY DEF Accept, LwipMay, Undisturbed, service
<1>3. slot[a] = NoSlot
  BY <1>2 DEF SlotsAreOwn
<1>4. slot'[a] # NoSlot /\ \A b \in Clients \ {a} : pcb'[b] = pcb[b] /\ slot'[b] = slot[b]
  BY <1>1, <1>2, <1>3, SlotForAll
<1>5. PICK P \in SUBSET Packets : Ordered(P) /\ Placed(P)
  BY DEF OrderInv
<1>6. PICK b \in Int : P = Line(b, queue)
  BY <1>2, <1>5, PlacedLine
<1>7. Own(Mine(P, a)) = {}
  <2>1. Known(Mine(P, a), Of(sending, a), object[a], Connected(a), handled[a], pushed[a], FALSE, IsClosing(a))
    BY <1>2, <1>5, <1>6, OrderKnown
  <2>2. Behind(Mine(P, a), "clear")
    BY <1>2, <2>1 DEF Known
  <2>3. ASSUME NEW m \in Mine(P, a), m[2].kind = "clear" PROVE FALSE
    <3>1. PICK i \in 1..Len(queue) : m = <<b + i, queue[i]>>
      BY <1>2, <1>5, <1>6, OrderKnown, ZenonT(40)
    <3>2. m[2] = queue[i] /\ m[2] \in Events
      BY <1>2, <1>5, <1>6, <3>1, OrderKnown
    <3>3. m[2] = Event("clear", a, 0)
      BY <1>5, <2>3, <3>2, MarkOf DEF Ordered
    <3> QED BY <1>2, <3>2, <3>3
  <2> QED BY <2>2, <2>3 DEF Behind
<1>8. \A m \in Fins : m.client # a
  <2> SUFFICES ASSUME NEW m \in Fins, m.client = a PROVE FALSE
    OBVIOUS
  <2>1. m.kind = "fin" /\ m \in Moving
    BY DEF Fins
  <2>2. m # NoEvent /\ scan.held = NoEvent
    BY <1>2, <2>1 DEF NoEvent, NoScan
  <2>3. PICK i \in 1..Len(queue) : m = queue[i]
    BY <1>2, <2>1, <2>2 DEF Moving
  <2>4. IsOf(queue[i], a)
    BY <2>1, <2>3 DEF IsOf
  <2>5. <<b + i, queue[i]>> \in Own(Mine(P, a))
    BY <1>2, <1>5, <1>6, <2>4, OrderKnown
  <2> QED BY <1>7, <2>5
<1>9. PICK e : e = Event("accept", a, 0)
  OBVIOUS
<1>10. e \in Events /\ e.kind # "fin"
  BY <1>9, BoundsAssumption DEF Event, Events, Kinds
<1>11. Moving' \subseteq Moving \cup {e}
  BY <1>2, <1>9, <1>10, SendMoving
<1>12. Fins' \subseteq Fins
  BY <1>10, <1>11, FinsOfMoving
<1>13. plan # <<>> /\ object'[cur] = "attached" => cur \in Clients /\ cur # a
  <2>1. plan # <<>> => cur \in Clients
    BY DEF CallInv
  <2> QED BY <1>1, <1>2, <2>1
<1>14. plan \in Gone \cup Doomed => cur \in Clients /\ cur # a
  <2>1. plan \in Gone \cup Doomed => plan # <<>> /\ object[cur] = "attached"
    BY <1>5, PlanCloses DEF Ordered
  <2> QED BY <1>2, <2>1 DEF CallInv
<1>15. call.op \in {"load", "loadclose", "call", "close"} => plan # <<>>
  BY DEF CallInv
<1>16. \A c \in Clients : pcb'[c] => slot'[c] # NoSlot
  BY <1>4, Zenon DEF CarryInv
<1>17. \A m \in Fins' : ~pcb'[m.client]
  <2>1. \A m \in Fins : m.client \in Clients
    BY DEF Fins
  <2> QED BY <1>4, <1>8, <1>12, <2>1, Zenon DEF CarryInv
<1>18. plan' \in Gone \cup Doomed => ~pcb'[cur']
  BY <1>2, <1>4, <1>14, Zenon DEF CarryInv
<1>19. object'[cur] = "attached" /\ plan # <<>> => object[cur] = "attached" /\ slot'[cur] = slot[cur]
  BY <1>1, <1>2, <1>4, <1>13
<1>20. call'.op \in {"load", "loadclose"} /\ object'[cur'] = "attached" => slot'[cur'] # NoSlot
  BY <1>2, <1>15, <1>19 DEF CarryInv
<1>21. CallsCarryASlot'
  BY <1>2, <1>15, <1>19 DEF CarryInv, CallsCarryASlot
<1> QED BY <1>16, <1>17, <1>18, <1>20, <1>21, Zenon DEF CarryInv

\* The service task turns the queue, and lwIP's thread gets its place in it.
LEMMA QueueCarry ==
  ASSUME TypeInv, CallInv, CarryInv, Unblock \/ ScanTake \/ ScanPut
  PROVE  CarryInv'
<1>1. UNCHANGED <<slot, cur, plan, call, pcb, object>>
  BY DEF Unblock, ScanTake, ScanPut, slots, network, service
<1>2. /\ queue \in Seq(Events) /\ sending \in Events \cup {NoEvent}
      /\ scan \in [arg : Clients \cup {NoClient}, first : Events \cup {NoEvent},
                   held : Events \cup {NoEvent}]
  BY Zenon DEF TypeInv
<1>3. NoEvent.kind # "fin"
  BY DEF NoEvent
<1>4. CASE Unblock
  <2>1. queue' = Insert(sending, queue) /\ sending' = NoEvent /\ scan' = scan /\ sending \in Events
    BY <1>2, <1>4 DEF Unblock, service
  <2>2. {queue'[i] : i \in 1..Len(queue')} \subseteq {queue[i] : i \in 1..Len(queue)} \cup {sending}
    BY <1>2, <2>1, Inserts
  <2>3. Moving' \subseteq Moving \cup {NoEvent}
    BY <2>1, <2>2 DEF Moving
  <2> QED BY <1>1, <1>3, <2>3, CarrySame, FinsOfMoving DEF CallInv, ClosingInv
<1>5. CASE ScanPut
  <2>1. /\ queue' = Append(queue, scan.held) /\ sending' = sending /\ scan.held \in Events
        /\ scan' = [scan EXCEPT !.held = NoEvent]
    BY <1>2, <1>5 DEF ScanPut
  <2>2. /\ Len(queue') = Len(queue) + 1 /\ Len(queue) \in Nat
        /\ \A i \in 1..Len(queue) : queue'[i] = queue[i]
        /\ queue'[Len(queue) + 1] = scan.held
    BY <1>2, <2>1, AppendProperties
  <2>3. \A i \in 1..Len(queue') : i \in 1..Len(queue) \/ i = Len(queue) + 1
    BY <2>2
  <2>4. scan'.held = NoEvent
    BY <1>2, <2>1
  <2>5. Moving' \subseteq Moving \cup {NoEvent}
    BY <2>1, <2>2, <2>3, <2>4 DEF Moving
  <2> QED BY <1>1, <1>3, <2>5, CarrySame, FinsOfMoving DEF CallInv, ClosingInv
<1>6. CASE ScanTake
  <2>1. \/ scan' = NoScan /\ queue' = queue
        \/ /\ queue # <<>> /\ queue' = Tail(queue)
           /\ \/ scan' = scan
              \/ scan' = [scan EXCEPT !.held = Head(queue), !.first = IF @ = NoEvent THEN Head(queue) ELSE @]
    BY <1>6, Zenon DEF ScanTake
  <2>2. sending' = sending
    BY <1>6 DEF ScanTake
  <2>3. CASE scan' = NoScan /\ queue' = queue
    BY <1>1, <1>3, <2>2, <2>3, CarrySame, FinsOfMoving DEF Moving, NoScan, CallInv, ClosingInv
  <2>4. CASE scan' # NoScan \/ queue' # queue
    <3>1. queue # <<>> /\ queue' = Tail(queue)
      BY <2>1, <2>4
    <3>2. /\ {queue'[i] : i \in 1..Len(queue')} \subseteq {queue[i] : i \in 1..Len(queue)}
          /\ Head(queue) \in {queue[i] : i \in 1..Len(queue)}
      BY <1>2, <3>1, Tails
    <3>3. scan'.held = scan.held \/ scan'.held = Head(queue) \/ scan'.held = NoEvent
      <4>1. CASE scan' = scan \/ scan' = NoScan
        BY <4>1 DEF NoScan
      <4>2. CASE scan' = [scan EXCEPT !.held = Head(queue), !.first = IF @ = NoEvent THEN Head(queue) ELSE @]
        <5>1. PICK e : e = Head(queue)
          OBVIOUS
        <5> HIDE DEF Events
        <5>2. scan' = [scan EXCEPT !.held = e, !.first = IF @ = NoEvent THEN e ELSE @]
          BY <4>2, <5>1
        <5>3. scan'.held = e
          BY <1>2, <5>2
        <5> QED BY <5>1, <5>3
      <4> QED BY <2>1, <4>1, <4>2
    <3>4. Moving' \subseteq Moving \cup {NoEvent}
      BY <2>2, <3>2, <3>3 DEF Moving
    <3> QED BY <1>1, <1>3, <3>4, CarrySame, FinsOfMoving DEF CallInv, ClosingInv
  <2> QED BY <2>3, <2>4
<1> QED BY <1>4, <1>5, <1>6

\* An event is taken: the end of a connection, by either side, leaves no connected client.
LEMMA HandleCarry ==
  ASSUME TypeInv, CallInv, CarryInv, HandleAsyncEvent
  PROVE  CarryInv'
<1> DEFINE e == Head(queue)
<1>1. queue \in Seq(Events) /\ queue # <<>> /\ queue' = Tail(queue) /\ pcb \in [Clients -> BOOLEAN]
  BY Zenon DEF TypeInv, HandleAsyncEvent
<1>2. /\ {queue'[i] : i \in 1..Len(queue')} \subseteq {queue[i] : i \in 1..Len(queue)}
      /\ e \in {queue[i] : i \in 1..Len(queue)} /\ e \in Events
  BY <1>1, Tails
<1>3. plan = <<>> /\ scan = NoScan /\ UNCHANGED <<sending, slot>>
  BY DEF HandleAsyncEvent, Idle, slots
<1>4. call' = call /\ call.op = "none"
  <2>1. call' = call
    BY Zenon DEF HandleAsyncEvent, service
  <2> QED BY <1>3, <2>1 DEF CallInv
<1>5. scan'.held = scan.held
  <2>1. scan' = scan \/ scan' = [NoScan EXCEPT !.arg = e.client]
    BY Zenon DEF HandleAsyncEvent, service
  <2> QED BY <1>3, <2>1 DEF NoScan
<1>6. Fins' \subseteq Fins
  <2>1. Moving' \subseteq Moving
    BY <1>2, <1>3, <1>5 DEF Moving
  <2> QED BY <2>1, FinsOfMoving
<1>7. CASE UNCHANGED <<pcb, cur, plan>>
  BY <1>3, <1>4, <1>6, <1>7, CarrySame DEF CallInv, ClosingInv
<1>8. CASE /\ e.client # NoClient /\ e.kind \notin {"accept", "clear"}
           /\ cur' = e.client
           /\ plan' \in IF e.kind = "poll" /\ ~pcb[e.client] THEN {<<>>} ELSE Plans(e.kind)
           /\ pcb' = IF e.kind = "error" THEN [pcb EXCEPT ![e.client] = FALSE] ELSE pcb
  <2>1. e.client \in Clients /\ e.kind \in {"recv", "sent", "poll", "fin", "error"}
    BY <1>2, <1>8 DEF Events, Kinds
  <2>2. \A a \in Clients : pcb'[a] => pcb[a]
    BY <1>1, <1>8, <2>1
  <2>3. plan' \in Gone \cup Doomed => ~pcb'[cur']
    <3>1. CASE e.kind = "fin"
      <4>1. e \in Fins
        BY <1>2, <2>1, <3>1 DEF Fins, Moving
      <4> QED BY <1>8, <3>1, <4>1 DEF CarryInv
    <3>2. CASE e.kind = "error"
      BY <1>1, <1>8, <2>1, <3>2
    <3>3. CASE e.kind \in {"recv", "sent", "poll"}
      <4>1. plan' \in Harmless
        BY <1>8, <3>3, PlansNames, PlanNames
      <4>2. plan' \notin Gone /\ plan' \notin Doomed
        BY <4>1, HarmlessNames
      <4> QED BY <4>2
    <3> QED BY <2>1, <3>1, <3>2, <3>3
  <2>4. \A a \in Clients : pcb'[a] => slot'[a] # NoSlot
    BY <1>3, <2>2, Zenon DEF CarryInv
  <2>5. \A m \in Fins' : ~pcb'[m.client]
    <3>1. \A m \in Fins : m.client \in Clients
      BY DEF Fins
    <3> QED BY <1>6, <2>2, <3>1, Zenon DEF CarryInv
  <2> QED BY <1>4, <2>3, <2>4, <2>5 DEF CarryInv, CallsCarryASlot
<1> QED BY <1>7, <1>8, Zenon DEF HandleAsyncEvent, service

\* The service task goes through its plan: only a handler that has no connection, or has
\* closed it, deletes the client, and gives back its slot.
LEMMA HandlerCarry ==
  ASSUME TypeInv, CallInv, OrderInv, CarryInv,
         ServeCall \/ LoadPcb \/ LoadSlot \/ Unhook \/ ClearEvents \/ Delete
  PROVE  CarryInv'
<1>1. /\ pcb \in [Clients -> BOOLEAN] /\ slot \in [Clients -> NoSlot..(Slots - 1)]
      /\ queue \in Seq(Events)
  BY Zenon DEF TypeInv
<1>2. plan # <<>> /\ cur' = cur /\ UNCHANGED <<sending, scan>>
  BY CallPlan, Zenon DEF ServeCall, LoadPcb, LoadSlot, Unhook, ClearEvents, Delete, Step
<1>3. cur \in Clients
  BY <1>2 DEF CallInv
<1>4. PICK P \in SUBSET Packets : PlanInv(P)
  BY DEF OrderInv, Ordered
<1>5. \A p \in Harmless : p \notin Gone \cup Doomed
  BY HarmlessNames
<1>6. Fins' \subseteq Fins
  <2>1. CASE UNCHANGED queue
    <3>1. Moving' = Moving
      BY <1>2, <2>1 DEF Moving
    <3> QED BY <3>1, FinsOfMoving
  <2>2. CASE ClearEvents
    <3>1. PICK e : e = Event("clear", cur, 0)
      OBVIOUS
    <3>2. e \in Events /\ e.kind # "fin"
      BY <1>3, <3>1, BoundsAssumption DEF Event, Events, Kinds
    <3>3. queue' = <<e>> \o queue
      BY <2>2, <3>1 DEF ClearEvents
    <3>4. /\ Len(<<e>> \o queue) = 1 + Len(queue) /\ Len(queue) \in Nat
          /\ \A i \in 1..(1 + Len(queue)) : (<<e>> \o queue)[i] = IF i <= 1 THEN <<e>>[i] ELSE queue[i - 1]
      <4>1. <<e>> \in Seq(Events) /\ Len(<<e>>) = 1 /\ Len(queue) \in Nat
        BY <1>1, <3>2
      <4> QED BY <1>1, <4>1, ConcatProperties
    <3>5. \A i \in 1..(1 + Len(queue)) : queue'[i] = e \/ (i - 1 \in 1..Len(queue) /\ queue'[i] = queue[i - 1])
      <4>1. <<e>>[1] = e
        OBVIOUS
      <4>2. \A i \in 1..(1 + Len(queue)) : i = 1 \/ (i - 1 \in 1..Len(queue) /\ ~(i <= 1))
        BY <3>4
      <4> QED BY <3>3, <3>4, <4>1, <4>2
    <3>6. Moving' \subseteq Moving \cup {e}
      BY <1>2, <3>3, <3>4, <3>5 DEF Moving
    <3> QED BY <3>2, <3>6, FinsOfMoving
  <2> QED BY <2>1, <2>2 DEF ServeCall, LoadPcb, LoadSlot, Unhook, Delete
<1>7. ASSUME \A a \in Clients : pcb'[a] => pcb[a] /\ slot'[a] = slot[a]
      PROVE  /\ \A a \in Clients : pcb'[a] => slot'[a] # NoSlot
             /\ \A m \in Fins' : ~pcb'[m.client]
  <2>1. \A m \in Fins : m.client \in Clients
    BY DEF Fins
  <2> QED BY <1>6, <1>7, <2>1, Zenon DEF CarryInv
<1>8. CASE ServeCall
  <2>1. slot' = slot /\ call'.op = "none" /\ plan' = Tail(plan)
    BY <1>8 DEF ServeCall, slots, NoCall
  <2>2. \A a \in Clients : pcb'[a] => pcb[a]
    BY <1>1, <1>3, <1>8 DEF ServeCall
  <2>3. plan' \in Gone \cup Doomed => ~pcb'[cur]
    <3>1. CASE call.op = "call"
      <4>1. Tail(plan) \in Harmless
        BY <1>2, <1>4, <3>1, PlanHeads DEF PlanInv
      <4> QED BY <1>5, <2>1, <4>1
    <3>2. CASE call.op = "close"
      BY <1>1, <1>3, <1>8, <3>2 DEF ServeCall
    <3> QED BY <1>8, <3>1, <3>2 DEF ServeCall
  <2>4. \A a \in Clients : pcb'[a] => pcb[a] /\ slot'[a] = slot[a]
    BY <2>1, <2>2
  <2> QED BY <1>2, <1>7, <2>1, <2>3, <2>4 DEF CarryInv, CallsCarryASlot
<1>9. CASE LoadPcb
  <2>1. UNCHANGED <<pcb, slot>> /\ call = NoCall
    BY <1>9 DEF LoadPcb, Step, network, slots
  <2>2. \/ /\ pcb[cur] \/ object'[cur] # "attached"
           /\ plan' = plan /\ call'.op \in {"load", "loadclose"}
        \/ ~pcb[cur] /\ call' = call
    <3>1. object' = object
      BY <1>9, Zenon DEF LoadPcb
    <3> QED BY <1>9, <2>1, <3>1 DEF LoadPcb, Step, NoCall
  <2>3. slot[cur] # NoSlot \/ ~pcb[cur]
    BY <1>3 DEF CarryInv
  <2> QED BY <1>2, <1>7, <2>1, <2>2, <2>3 DEF CarryInv, CallsCarryASlot, NoCall
<1>10. CASE LoadSlot
  <2>1. /\ UNCHANGED <<pcb, slot, plan, object>> /\ call.op \in {"load", "loadclose"}
        /\ object[cur] = "attached" => call'.slot = slot[cur]
        /\ call'.op \in {"call", "close"}
    BY <1>10 DEF LoadSlot, network, slots
  <2> QED BY <1>2, <1>7, <2>1 DEF CarryInv, CallsCarryASlot
<1>11. CASE Unhook
  <2>1. UNCHANGED <<pcb, slot, call>> /\ call = NoCall /\ Head(plan) = "unhook"
    BY <1>11 DEF Unhook, Step, slots
  <2>2. plan \in Shut /\ Tail(plan) \in Unhooked
    BY <1>2, <1>4, <2>1, PlanHeads
  <2>3. plan' \in Calls \/ plan' \in Unhooked
    BY <1>11, <2>2, ShutRest DEF Unhook
  <2>4. plan' \notin Gone /\ plan' \notin Doomed
    BY <2>3, PlanNames, HarmlessNames
  <2> QED BY <1>2, <1>7, <2>1, <2>4 DEF CarryInv, CallsCarryASlot, NoCall
<1>12. CASE ClearEvents
  <2>1. UNCHANGED <<pcb, slot, call>> /\ call = NoCall /\ Head(plan) = "clear" /\ plan' = Tail(plan)
    BY <1>12 DEF ClearEvents, Step, network, slots
  <2>2. plan' \in Gone \cup Doomed => plan \in Gone
    BY <1>2, <1>4, <2>1, PlanHeads, PlanNames
  <2> QED BY <1>2, <1>7, <2>1, <2>2 DEF CarryInv, CallsCarryASlot, NoCall
<1>13. CASE Delete
  <2>1. /\ UNCHANGED <<pcb, call>> /\ call = NoCall /\ Head(plan) = "delete"
        /\ (FreeClosedSlot(cur) \/ slot' = slot) /\ plan' = Tail(plan)
    BY <1>13 DEF Delete, Step, network, slots
  <2>2. plan \in Doomed /\ plan' \in Calls
    BY <1>2, <1>4, <2>1, PlanHeads
  <2>3. ~pcb[cur]
    BY <2>2 DEF CarryInv
  <2>4. \A a \in Clients \ {cur} : slot'[a] = slot[a]
    BY <1>1, <2>1 DEF FreeClosedSlot, slots
  <2>5. \A a \in Clients : pcb'[a] => pcb[a] /\ slot'[a] = slot[a]
    BY <2>1, <2>3, <2>4, Zenon
  <2>6. plan' \notin Gone \cup Doomed /\ call'.op = "none"
    <3>1. call'.op = "none"
      BY <2>1 DEF NoCall
    <3> QED BY <2>2, <3>1, PlanNames, HarmlessNames
  <2> QED BY <1>7, <2>5, <2>6 DEF CarryInv, CallsCarryASlot
<1> QED BY <1>8, <1>9, <1>10, <1>11, <1>12, <1>13

LEMMA CarryStep ==
  ASSUME Provided, Undisturbed, TcpInv, OrderInv, CarryInv, [Next]_vars
  PROVE  CarryInv'
<1>1. TypeInv /\ SlotsAreOwn /\ CallInv /\ ClosingInv
  BY DEF TcpInv, CallInv, ClosingInv
<1>2. CASE UNCHANGED vars
  <2>1. UNCHANGED <<slot, cur, plan, call, pcb, queue, sending, scan, object>>
    BY <1>2 DEF vars, network, slots, service
  <2> QED BY <1>1, <2>1, CarrySame, FinsOfMoving DEF Moving
<1>3. ASSUME NEW a \in Clients, Accept(a) \/ Traffic(a) \/ Fin(a) \/ Reset(a) \/ LateAck(a)
      PROVE  CarryInv'
  BY <1>1, <1>3, AcceptCarry, NetworkCarry, FinCarry
<1>4. CASE Unblock \/ ScanTake \/ ScanPut
  BY <1>1, <1>4, QueueCarry
<1>5. CASE HandleAsyncEvent
  BY <1>1, <1>5, HandleCarry
<1>6. CASE ServeCall \/ LoadPcb \/ LoadSlot \/ Unhook \/ ClearEvents \/ Delete
  BY <1>1, <1>6, HandlerCarry
<1> QED BY <1>2, <1>3, <1>4, <1>5, <1>6, Zenon DEF Next, Network, Lwip, Service

\* With a slot for each client, and no connection closed between the two loads of a call's
\* arguments, every call for a client that exists can be stopped when its connection is gone.
THEOREM CallsHaveSlots ==
  ASSUME Undisturbed, Provided
  PROVE  Spec => []CallsCarryASlot
<1>1. Init => CarryInv
  <2> SUFFICES ASSUME Init PROVE CarryInv
    OBVIOUS
  <2>1. Moving = {NoEvent}
    BY DEF Init, Moving, NoScan
  <2>2. Fins = {}
    BY <2>1 DEF Fins, NoEvent
  <2>3. plan = <<>> /\ call = NoCall /\ pcb = [a \in Clients |-> FALSE]
    BY DEF Init
  <2>4. plan \notin Gone \cup Doomed
    BY <2>3, PlanNames
  <2> QED BY <2>2, <2>3, <2>4 DEF CarryInv, CallsCarryASlot, NoCall
<1>2. TcpInv /\ OrderInv /\ CarryInv /\ [Next]_vars => CarryInv'
  BY CarryStep
<1>3. CarryInv => CallsCarryASlot
  BY DEF CarryInv
<1> QED BY <1>1, <1>2, <1>3, OrderAlways, PTL DEF Spec
=============================================================================
