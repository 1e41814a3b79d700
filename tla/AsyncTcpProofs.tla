--------------------------- MODULE AsyncTcpProofs ---------------------------
(***************************************************************************)
(* What holds of the connections between lwIP's thread and the service     *)
(* task however their steps are interleaved, with every number of clients, *)
(* slots, events and places in the queue, and with Quiet empty as well.    *)
(***************************************************************************)
EXTENDS AsyncTcp, SequenceTheorems, NaturalsInduction, WellFoundedInduction, TLAPS

-----------------------------------------------------------------------------
(* The table of slots *)

\* A nonempty set of natural numbers has a least member.
LEMMA LeastExists ==
  ASSUME NEW S \in SUBSET Nat, S # {}
  PROVE  \E m \in S : \A n \in S : m <= n
<1>1. PICK x \in S : \A y \in S : ~(<<y, x>> \in OpToRel(<, Nat))
  BY NatLessThanWellFounded, WFMin
<1>2. ASSUME NEW y \in S, y < x PROVE <<y, x>> \in OpToRel(<, Nat)
  <2>1. y \in Nat /\ x \in Nat
    OBVIOUS
  <2> QED BY <1>2, <2>1, Zenon DEF OpToRel
<1>3. \A y \in S : ~(y < x)
  BY <1>1, <1>2, Zenon
<1> QED BY <1>3

\* Of the free slots one has been free for longest, and is the last one of those.
LEMMA BestExists ==
  ASSUME NEW F \in SUBSET (0..(Slots - 1)), F # {},
         closedSlots \in [0..(Slots - 1) -> Nat]
  PROVE  \E s \in F : \A t \in F :
            closedSlots[s] < closedSlots[t] \/ (closedSlots[s] = closedSlots[t] /\ s >= t)
<1> DEFINE Ages == {closedSlots[s] : s \in F}
<1>1. Ages \in SUBSET Nat /\ Ages # {}
  BY SlotsAssumption
<1>2. PICK age \in Ages : \A other \in Ages : age <= other
  BY <1>1, LeastExists
<1> DEFINE Oldest == {s \in F : closedSlots[s] = age}
<1> DEFINE Distances == {Slots - 1 - s : s \in Oldest}
<1>3. Distances \in SUBSET Nat /\ Distances # {}
  BY <1>2, SlotsAssumption
<1> HIDE DEF Ages, Distances
<1>4. PICK d \in Distances : \A e \in Distances : d <= e
  BY <1>3, LeastExists
<1>5. PICK s \in Oldest : d = Slots - 1 - s
  BY <1>4 DEF Distances
<1>6. \A t \in Oldest : Slots - 1 - s <= Slots - 1 - t
  BY <1>4, <1>5 DEF Distances
<1>7. \A t \in Oldest : s >= t
  BY <1>6, SlotsAssumption
<1>8. \A t \in F : closedSlots[s] <= closedSlots[t]
  BY <1>2, <1>5 DEF Ages
<1>9. closedSlots[s] \in Nat /\ \A t \in F : closedSlots[t] \in Nat
  OBVIOUS
<1> QED BY <1>5, <1>7, <1>8, <1>9

\* A client without a slot gets none, or one that was free.
LEMMA Allocated ==
  ASSUME NEW a \in Clients, slot \in [Clients -> NoSlot..(Slots - 1)],
         closedSlots \in [0..(Slots - 1) -> Nat], AllocateClosedSlot(a)
  PROVE  \/ slot' = [slot EXCEPT ![a] = NoSlot] /\ closedSlots' = closedSlots
         \/ \E s \in 0..(Slots - 1) :
              /\ closedSlots[s] # 0
              /\ slot' = [slot EXCEPT ![a] = s]
              /\ closedSlots' = [closedSlots EXCEPT ![s] = 0]
<1> DEFINE F == {s \in 0..(Slots - 1) : closedSlots[s] # 0}
<1> DEFINE Best(s) == \A t \in F :
             closedSlots[s] < closedSlots[t] \/ (closedSlots[s] = closedSlots[t] /\ s >= t)
<1>1. DOMAIN closedSlots = 0..(Slots - 1)
  OBVIOUS
<1>2. CASE F = {}
  BY <1>1, <1>2 DEF AllocateClosedSlot
<1>3. CASE F # {}
  <2>1. \E s \in F : Best(s)
    BY <1>3, BestExists
  <2>2. (CHOOSE s \in F : Best(s)) \in F
    BY <2>1
  <2>3. /\ slot' = [slot EXCEPT ![a] = CHOOSE s \in F : Best(s)]
        /\ closedSlots' = [closedSlots EXCEPT ![CHOOSE s \in F : Best(s)] = 0]
    BY <1>1, <1>3, Zenon DEF AllocateClosedSlot
  <2> QED BY <2>2, <2>3
<1> QED BY <1>2, <1>3

\* What a task does to the table: a slot is given to a new client ...
LEMMA AllocationStep ==
  ASSUME TypeInv, SlotsAreOwn, NEW a \in Clients, object[a] = "free",
         AllocateClosedSlot(a), object' = [object EXCEPT ![a] = "new"]
  PROVE  SlotsAreOwn'
<1>1. slot[a] = NoSlot
  BY DEF SlotsAreOwn
<1>2. DOMAIN closedSlots = 0..(Slots - 1) /\ DOMAIN closedSlots' = 0..(Slots - 1)
  BY Allocated DEF TypeInv
<1>3. CASE slot' = [slot EXCEPT ![a] = NoSlot] /\ closedSlots' = closedSlots
  <2>1. slot' = slot
    <3>1. slot \in [Clients -> NoSlot..(Slots - 1)]
      BY Zenon DEF TypeInv
    <3> QED BY <1>1, <1>3, <3>1
  <2>2. \A b \in Clients : object'[b] = "free" => object[b] = "free"
    <3>1. object \in [Clients -> {"free", "new", "attached"}]
      BY Zenon DEF TypeInv
    <3> QED BY <3>1
  <2> QED BY <2>1, <2>2, <1>3 DEF SlotsAreOwn
<1>4. ASSUME NEW s \in 0..(Slots - 1), closedSlots[s] # 0, slot' = [slot EXCEPT ![a] = s],
             closedSlots' = [closedSlots EXCEPT ![s] = 0]
      PROVE  SlotsAreOwn'
  <2>1. \A b \in Clients : slot[b] # s
    BY <1>2, <1>4 DEF SlotsAreOwn
  <2>2. /\ slot'[a] = s /\ \A b \in Clients \ {a} : slot'[b] = slot[b]
        /\ closedSlots'[s] = 0
        /\ \A t \in (0..(Slots - 1)) \ {s} : closedSlots'[t] = closedSlots[t]
    BY <1>4 DEF TypeInv
  <2>3. \A b, c \in Clients : slot'[b] = slot'[c] /\ slot'[b] # NoSlot => b = c
    BY <2>1, <2>2 DEF SlotsAreOwn
  <2>4. \A t \in 0..(Slots - 1) : closedSlots'[t] = 0 <=> \E b \in Clients : slot'[b] = t
    BY <1>1, <1>2, <2>1, <2>2 DEF SlotsAreOwn, NoSlot
  <2>5. \A b \in Clients : object'[b] = "free" => slot'[b] = NoSlot
    <3>1. object \in [Clients -> {"free", "new", "attached"}]
      BY Zenon DEF TypeInv
    <3>2. object'[a] = "new" /\ \A b \in Clients \ {a} : object'[b] = object[b]
      BY <3>1
    <3> QED BY <2>2, <3>2 DEF SlotsAreOwn
  <2> QED BY <1>2, <2>3, <2>4, <2>5 DEF SlotsAreOwn
<1> QED BY <1>3, <1>4, Allocated DEF TypeInv

\* ... and given back, by either task; a client that has no slot gives none back.
LEMMA FreeStep ==
  ASSUME TypeInv, SlotsAreOwn, NEW a \in Clients, FreeClosedSlot(a),
         object' = object \/ object' = [object EXCEPT ![a] = "free"]
  PROVE  SlotsAreOwn'
<1>0. \A b \in Clients \ {a} : object'[b] = object[b]
  <2>1. object \in [Clients -> {"free", "new", "attached"}]
    BY Zenon DEF TypeInv
  <2> QED BY <2>1
<1>1. CASE slot[a] = NoSlot
  <2>1. slot' = slot /\ closedSlots' = closedSlots
    BY <1>1 DEF FreeClosedSlot, slots
  <2>2. \A b \in Clients : object'[b] = "free" => slot[b] = NoSlot
    BY <1>0, <1>1, Zenon DEF SlotsAreOwn
  <2> QED BY <2>1, <2>2, Zenon DEF SlotsAreOwn
<1>2. CASE slot[a] # NoSlot
  <2> DEFINE s == slot[a]
  <2>1. s \in 0..(Slots - 1)
    <3>1. s \in NoSlot..(Slots - 1)
      BY DEF TypeInv
    <3> QED BY <1>2, <3>1, SlotsAssumption DEF NoSlot
  <2>2. /\ closedSlots' = [closedSlots EXCEPT ![s] = closedIndex]
        /\ slot' = [slot EXCEPT ![a] = NoSlot]
    BY <1>2 DEF FreeClosedSlot
  <2>3. DOMAIN closedSlots = 0..(Slots - 1) /\ DOMAIN closedSlots' = 0..(Slots - 1)
    BY <2>2 DEF TypeInv
  <2>4. closedSlots'[s] # 0 /\ \A t \in (0..(Slots - 1)) \ {s} : closedSlots'[t] = closedSlots[t]
    BY <2>1, <2>2 DEF TypeInv
  <2>5. slot'[a] = NoSlot /\ \A b \in Clients \ {a} : slot'[b] = slot[b] /\ slot[b] # s
    <3>1. \A b \in Clients \ {a} : slot[b] # slot[a]
      BY <1>2 DEF SlotsAreOwn
    <3>2. slot \in [Clients -> NoSlot..(Slots - 1)]
      BY DEF TypeInv
    <3> QED BY <2>2, <3>1, <3>2
  <2> HIDE DEF s
  <2>6. \A t \in 0..(Slots - 1) : closedSlots'[t] = 0 <=> \E b \in Clients : slot'[b] = t
    <3>1. TAKE t \in 0..(Slots - 1)
    <3>2. CASE t = s
      BY <3>2, <2>1, <2>4, <2>5 DEF NoSlot
    <3>3. CASE t # s
      BY <3>3, <2>3, <2>4, <2>5 DEF SlotsAreOwn, NoSlot, s
    <3> QED BY <3>2, <3>3
  <2>7. \A b, c \in Clients : slot'[b] = slot'[c] /\ slot'[b] # NoSlot => b = c
    BY <2>5 DEF SlotsAreOwn
  <2>8. \A b \in Clients : object'[b] = "free" => slot'[b] = NoSlot
    BY <1>0, <2>5, Zenon DEF SlotsAreOwn
  <2> QED BY <2>3, <2>6, <2>7, <2>8 DEF SlotsAreOwn
<1> QED BY <1>1, <1>2

-----------------------------------------------------------------------------
(* Types *)

\* What a call in preparation or under way relies on: it belongs to an event of a client;
\* the client is still connected, unless it has lost its slot; only an open connection,
\* or one that lwIP has freed, is one that a client knows.
CallInv ==
  /\ plan # <<>> => cur \in Clients
  /\ call.op # "none" => plan # <<>>
  /\ call.op # "none" /\ slot[cur] # NoSlot => pcb[cur]
  /\ \A a \in Clients : pcb[a] => conn[a] # "closed"

\* The inductive invariant.
TcpInv == TypeInv /\ SlotsAreOwn /\ CallInv

LEMMA TcpInit == Init => TcpInv
<1> SUFFICES ASSUME Init PROVE TcpInv
  OBVIOUS
<1>1. TypeInv
  BY SlotsAssumption, QueueAssumption, BoundsAssumption, NoClientAssumption
     DEF Init, TypeInv, NoEvent, NoScan, NoCall, NoSlot
<1>2. SlotsAreOwn
  BY SlotsAssumption DEF Init, SlotsAreOwn, NoSlot
<1>3. CallInv
  BY DEF Init, CallInv, NoCall
<1> QED BY <1>1, <1>2, <1>3 DEF TcpInv

\* An event goes into the queue, or waits for a place in it.
LEMMA SendType ==
  ASSUME TypeInv, NEW e \in Events, SendAsyncEvent(e)
  PROVE  /\ queue' \in Seq(Events) /\ Len(queue') <= QueueLen
         /\ sending' \in Events \cup {NoEvent}
<1>1. queue \in Seq(Events) /\ sending \in Events \cup {NoEvent} /\ Len(queue) <= QueueLen
  BY DEF TypeInv
<1>2. Insert(e, queue) \in Seq(Events) /\ Len(Insert(e, queue)) = Len(queue) + 1
  <2>1. <<e>> \in Seq(Events) /\ Len(<<e>>) = 1
    OBVIOUS
  <2>2. <<e>> \o queue \in Seq(Events) /\ Len(<<e>> \o queue) = Len(queue) + 1
    BY <1>1, <2>1, ConcatProperties
  <2>3. Append(queue, e) \in Seq(Events) /\ Len(Append(queue, e)) = Len(queue) + 1
    BY <1>1, AppendProperties
  <2> QED BY <2>2, <2>3 DEF Insert
<1> HIDE DEF Events
<1> QED BY <1>1, <1>2, QueueAssumption DEF SendAsyncEvent

\* The handlers do steps that the service task knows.
LEMMA PlansType ==
  ASSUME NEW kind \in Kinds \ {"accept", "clear"}
  PROVE  Plans(kind) \subseteq Seq(Steps)
<1>1. /\ <<>> \in Seq(Steps) /\ <<"call">> \in Seq(Steps) /\ <<"call", "call">> \in Seq(Steps)
      /\ Close \in Seq(Steps) /\ <<"clear", "delete">> \in Seq(Steps) /\ <<"delete">> \in Seq(Steps)
  BY DEF Steps, Close
<1>2. Calls \subseteq Seq(Steps)
  BY <1>1 DEF Calls
<1>3. ASSUME NEW c \in Calls, NEW d \in Calls PROVE c \o Close \o d \in Seq(Steps)
  <2>1. c \in Seq(Steps) /\ d \in Seq(Steps) /\ Close \in Seq(Steps)
    BY <1>1, <1>2
  <2>2. c \o Close \in Seq(Steps)
    BY <2>1, ConcatProperties
  <2> QED BY <2>1, <2>2, ConcatProperties
<1>4. {<<"call">> \o c : c \in Calls} \subseteq Seq(Steps)
  BY <1>1, <1>2, ConcatProperties
<1>5. Plans("recv") \subseteq Seq(Steps)
  <2> SUFFICES ASSUME NEW p \in Plans("recv") PROVE p \in Seq(Steps)
    BY Zenon
  <2>1. CASE p \in {<<"call">> \o c : c \in Calls}
    BY <1>4, <2>1, Zenon
  <2>2. CASE \E c, d \in Calls \ {<<>>} : p = c \o Close \o d
    <3>1. PICK c \in Calls, d \in Calls : p = c \o Close \o d
      BY <2>2, Zenon
    <3> QED BY <1>3, <3>1, Zenon
  <2> HIDE DEF Calls, Close
  <2> QED BY <2>1, <2>2 DEF Plans
<1>6. <<"call">> \o Close \in Seq(Steps)
  BY <1>1, ConcatProperties
<1>7. /\ Plans("sent") \subseteq Seq(Steps)
      /\ Plans("poll") \subseteq Seq(Steps)
      /\ Plans("fin") \subseteq Seq(Steps)
      /\ Plans("error") \subseteq Seq(Steps)
  <2>1. Plans("sent") = Calls /\ Plans("poll") = Calls \cup {<<"call">> \o Close, Close}
    BY DEF Plans
  <2>2. Plans("fin") = {<<"clear", "delete">>} /\ Plans("error") = {<<"delete">>}
    BY DEF Plans
  <2> HIDE DEF Close, Calls, Plans
  <2> QED BY <1>1, <1>2, <1>6, <2>1, <2>2, Zenon
<1>8. kind \in {"recv", "sent", "poll", "fin", "error"}
  BY DEF Kinds
<1> QED BY <1>5, <1>7, <1>8, Zenon

\* lwIP's thread keeps the types.
LEMMA NotifyType ==
  ASSUME TypeInv, NEW kind \in Kinds, NEW a \in Clients, Notify(kind, a)
  PROVE  /\ queue' \in Seq(Events) /\ Len(queue') <= QueueLen
         /\ sending' \in Events \cup {NoEvent}
         /\ pushed' \in [Clients -> 0..MaxEvents]
         /\ UNCHANGED <<object, handled, cur, plan, scan, call>>
<1>1. pushed[a] + 1 \in 0..MaxEvents /\ pushed \in [Clients -> 0..MaxEvents]
  <2>1. pushed \in [Clients -> 0..MaxEvents]
    BY Zenon DEF TypeInv
  <2>2. pushed[a] < MaxEvents
    BY Zenon DEF Notify
  <2> QED BY <2>1, <2>2, BoundsAssumption
<1>2. Event(kind, a, pushed[a] + 1) \in Events
  BY <1>1 DEF Event, Events
<1>3. pushed' \in [Clients -> 0..MaxEvents]
  BY <1>1 DEF Notify
<1> QED BY <1>2, <1>3, SendType DEF Notify, service

\* The slot a client gets is one of the table.
LEMMA SlotTypes ==
  ASSUME TypeInv, NEW a \in Clients,
         (AllocateClosedSlot(a) /\ UNCHANGED closedIndex) \/ FreeClosedSlot(a)
  PROVE  /\ slot' \in [Clients -> NoSlot..(Slots - 1)]
         /\ closedSlots' \in [0..(Slots - 1) -> Nat]
         /\ closedIndex' \in Nat \ {0}
<1>1. /\ NoSlot \in NoSlot..(Slots - 1)
      /\ \A s \in 0..(Slots - 1) : s \in NoSlot..(Slots - 1)
      /\ slot \in [Clients -> NoSlot..(Slots - 1)]
      /\ closedSlots \in [0..(Slots - 1) -> Nat]
      /\ closedIndex \in Nat \ {0}
  <2>1. NoSlot \in NoSlot..(Slots - 1) /\ \A s \in 0..(Slots - 1) : s \in NoSlot..(Slots - 1)
    BY SlotsAssumption DEF NoSlot
  <2> QED BY <2>1, Zenon DEF TypeInv
<1>2. CASE AllocateClosedSlot(a) /\ UNCHANGED closedIndex
  BY <1>1, <1>2, Allocated
<1>3. CASE FreeClosedSlot(a)
  BY <1>1, <1>3 DEF FreeClosedSlot, slots
<1> QED BY <1>2, <1>3

LEMMA AcceptType ==
  ASSUME TypeInv, NEW a \in Clients, Accept(a)
  PROVE  TypeInv'
<1>1. Event("accept", a, 0) \in Events
  BY BoundsAssumption DEF Event, Events, Kinds
<1>2. /\ queue' \in Seq(Events) /\ Len(queue') <= QueueLen
      /\ sending' \in Events \cup {NoEvent}
  BY <1>1, SendType DEF Accept
<1>3. /\ slot' \in [Clients -> NoSlot..(Slots - 1)]
      /\ closedSlots' \in [0..(Slots - 1) -> Nat]
      /\ closedIndex' \in Nat \ {0}
  BY SlotTypes DEF Accept
<1>4. pushed' \in [Clients -> 0..MaxEvents]
  <2>1. pushed \in [Clients -> 0..MaxEvents] /\ pushed' = [pushed EXCEPT ![a] = 0]
    BY Zenon DEF Accept, TypeInv
  <2> QED BY <2>1, BoundsAssumption
<1> HIDE DEF Events
<1> QED BY <1>2, <1>3, <1>4 DEF Accept, TypeInv, service

LEMMA NetworkType ==
  ASSUME TypeInv, NEW a \in Clients, Traffic(a) \/ Fin(a) \/ Reset(a) \/ LateAck(a)
  PROVE  TypeInv'
<1>1. CASE Traffic(a)
  <2>1. PICK kind \in {"recv", "sent", "poll"} : Notify(kind, a)
    BY <1>1 DEF Traffic
  <2>2. kind \in Kinds
    BY DEF Kinds
  <2> QED BY <1>1, <2>1, <2>2, NotifyType DEF Traffic, TypeInv, network, slots
<1>2. CASE Fin(a)
  <2>1. "fin" \in Kinds
    BY DEF Kinds
  <2> QED BY <1>2, <2>1, NotifyType, SlotTypes DEF Fin, TypeInv
<1>3. CASE Reset(a)
  <2>1. "error" \in Kinds
    BY DEF Kinds
  <2>2. CASE hooked[a]
    BY <1>3, <2>1, <2>2, NotifyType DEF Reset, TypeInv, slots
  <2>3. CASE ~hooked[a]
    BY <1>3, <2>3 DEF Reset, TypeInv, slots, service
  <2> QED BY <2>2, <2>3
<1>4. CASE LateAck(a)
  <2>1. Event("sent", NoClient, 0) \in Events
    BY BoundsAssumption DEF Event, Events, Kinds
  <2> QED BY <1>4, <2>1, SendType DEF LateAck, TypeInv, network, slots, service
<1> QED BY <1>1, <1>2, <1>3, <1>4

LEMMA LwipType ==
  ASSUME TypeInv, CallInv, Lwip
  PROVE  TypeInv'
<1>1. CASE Unblock
  <2>1. sending \in Events
    BY <1>1 DEF Unblock, TypeInv
  <2>2. <<sending>> \o queue \in Seq(Events) /\ Len(<<sending>> \o queue) = Len(queue) + 1
    <3>1. <<sending>> \in Seq(Events) /\ Len(<<sending>>) = 1
      BY <2>1
    <3>2. queue \in Seq(Events)
      BY Zenon DEF TypeInv
    <3> QED BY <3>1, <3>2, ConcatProperties
  <2>3. Append(queue, sending) \in Seq(Events) /\ Len(Append(queue, sending)) = Len(queue) + 1
    BY <2>1, AppendProperties DEF TypeInv
  <2>4. queue' \in Seq(Events) /\ Len(queue') = Len(queue) + 1
    BY <1>1, <2>2, <2>3 DEF Unblock, Insert
  <2>5. Len(queue) \in Nat
    <3>1. queue \in Seq(Events)
      BY Zenon DEF TypeInv
    <3> QED BY <3>1
  <2>6. Len(queue') <= QueueLen
    BY <1>1, <2>4, <2>5, QueueAssumption DEF Unblock
  <2>7. sending' \in Events \cup {NoEvent}
    BY <1>1 DEF Unblock
  <2> QED BY <1>1, <2>4, <2>6, <2>7 DEF Unblock, TypeInv, network, slots, service
<1>2. CASE ServeCall
  <2>1. plan # <<>>
    BY <1>2 DEF ServeCall, CallInv
  <2>2. plan' \in Seq(Steps)
    <3>1. plan \in Seq(Steps) /\ plan' = Tail(plan)
      BY <1>2, Zenon DEF ServeCall, TypeInv
    <3> QED BY <2>1, <3>1
  <2>3. call' \in [op : {"none", "load", "loadclose", "call", "close"}, slot : NoSlot..(Slots - 1)]
    BY <1>2, SlotsAssumption DEF ServeCall, NoCall, NoSlot
  <2>4. pcb' \in [Clients -> BOOLEAN] /\ conn' \in [Clients -> {"open", "closed", "reset"}]
    <3>1. pcb \in [Clients -> BOOLEAN] /\ conn \in [Clients -> {"open", "closed", "reset"}]
      BY Zenon DEF TypeInv
    <3>2. CASE call.op = "close"
      BY <1>2, <3>1, <3>2 DEF ServeCall
    <3>3. CASE call.op # "close"
      BY <1>2, <3>1, <3>3 DEF ServeCall
    <3> QED BY <3>2, <3>3
  <2> QED BY <1>2, <2>2, <2>3, <2>4 DEF ServeCall, TypeInv, slots
<1> QED BY <1>1, <1>2 DEF Lwip

\* The service task keeps the types: it takes an event ...
LEMMA HandleType ==
  ASSUME TypeInv, HandleAsyncEvent
  PROVE  TypeInv'
<1> DEFINE e == Head(queue)
<1>1. queue \in Seq(Events) /\ Len(queue) <= QueueLen /\ queue # <<>> /\ queue' = Tail(queue)
  BY Zenon DEF TypeInv, HandleAsyncEvent
<1>2. e \in Events /\ queue' \in Seq(Events) /\ Len(queue') <= QueueLen
  <2> HIDE DEF Events
  <2> QED BY <1>1, QueueAssumption, HeadTailProperties
<1>3. e.kind \in Kinds /\ e.client \in Clients \cup {NoClient}
  BY <1>2 DEF Events
<1>4. CASE e.client = NoClient /\ UNCHANGED <<object, pcb, service, handled>>
  BY <1>2, <1>4, Zenon DEF TypeInv, HandleAsyncEvent, service, slots
<1>5. CASE object' = [object EXCEPT ![e.client] = "attached"] /\ UNCHANGED <<pcb, service, handled>>
  <2>1. object' \in [Clients -> {"free", "new", "attached"}]
    <3>1. object \in [Clients -> {"free", "new", "attached"}]
      BY Zenon DEF TypeInv
    <3> QED BY <1>5, <3>1
  <2> QED BY <1>2, <1>5, <2>1, Zenon DEF TypeInv, HandleAsyncEvent, service, slots
<1>6. CASE /\ scan' = [NoScan EXCEPT !.arg = e.client]
           /\ UNCHANGED <<object, pcb, cur, plan, call, handled>>
  <2>1. scan' \in [arg : Clients \cup {NoClient}, first : Events \cup {NoEvent},
                   held : Events \cup {NoEvent}]
    BY <1>3, <1>6 DEF NoScan
  <2> QED BY <1>2, <1>6, <2>1, Zenon DEF TypeInv, HandleAsyncEvent, slots
<1>7. CASE /\ e.client # NoClient /\ e.kind \notin {"accept", "clear"}
           /\ cur' = e.client
           /\ plan' \in IF e.kind = "poll" /\ ~pcb[e.client] THEN {<<>>} ELSE Plans(e.kind)
           /\ pcb' = IF e.kind = "error" THEN [pcb EXCEPT ![e.client] = FALSE] ELSE pcb
           /\ handled' = [handled EXCEPT ![e.client] = @ + 1]
           /\ UNCHANGED <<object, scan, call>>
  <2>1. plan' \in Seq(Steps)
    <3>1. Plans(e.kind) \subseteq Seq(Steps) /\ <<>> \in Seq(Steps)
      BY <1>3, <1>7, PlansType
    <3> QED BY <1>7, <3>1
  <2>2. pcb' \in [Clients -> BOOLEAN] /\ handled' \in [Clients -> Nat]
    <3>1. pcb \in [Clients -> BOOLEAN] /\ handled \in [Clients -> Nat]
      BY Zenon DEF TypeInv
    <3>2. e.client \in Clients
      BY <1>3, <1>7
    <3>3. handled' \in [Clients -> Nat]
      BY <1>7, <3>1, <3>2
    <3>4. CASE e.kind = "error"
      BY <1>7, <3>1, <3>3, <3>4
    <3>5. CASE e.kind # "error"
      BY <1>7, <3>1, <3>3, <3>5
    <3> QED BY <3>4, <3>5
  <2>3. cur' \in Clients \cup {NoClient}
    BY <1>3, <1>7
  <2> QED BY <1>2, <1>7, <2>1, <2>2, <2>3, Zenon DEF TypeInv, HandleAsyncEvent, slots
<1> QED BY <1>4, <1>5, <1>6, <1>7, Zenon DEF HandleAsyncEvent

\* ... turns the queue round ...
LEMMA ScanType ==
  ASSUME TypeInv, ScanTake \/ ScanPut
  PROVE  TypeInv'
<1>1. /\ queue \in Seq(Events) /\ Len(queue) <= QueueLen
      /\ scan \in [arg : Clients \cup {NoClient}, first : Events \cup {NoEvent},
                   held : Events \cup {NoEvent}]
  BY Zenon DEF TypeInv
<1>2. /\ queue' \in Seq(Events) /\ Len(queue') <= QueueLen
      /\ scan' \in [arg : Clients \cup {NoClient}, first : Events \cup {NoEvent},
                   held : Events \cup {NoEvent}]
  <2>1. CASE ScanTake /\ queue' = queue
    BY <1>1, <2>1, NoClientAssumption DEF ScanTake, NoScan
  <2>2. CASE ScanTake /\ queue # <<>> /\ queue' = Tail(queue)
    <3>1. Head(queue) \in Events /\ queue' \in Seq(Events) /\ Len(queue') <= QueueLen
      <4> HIDE DEF Events
      <4> QED BY <1>1, <2>2, QueueAssumption, HeadTailProperties
    <3>2. \/ scan' = scan \/ scan' = NoScan
          \/ scan' = [scan EXCEPT !.held = Head(queue),
                                  !.first = IF @ = NoEvent THEN Head(queue) ELSE @]
      BY <2>2, Zenon DEF ScanTake
    <3> DEFINE Held == Events \cup {NoEvent}
    <3>3. scan \in [arg : Clients \cup {NoClient}, first : Held, held : Held]
      BY <1>1
    <3>4. Head(queue) \in Held /\ NoEvent \in Held
      BY <3>1
    <3> HIDE DEF Held
    <3>5. CASE scan' = scan
      BY <3>1, <3>3, <3>5, Zenon DEF Held
    <3>6. CASE scan' = NoScan
      <4>1. scan' \in [arg : Clients \cup {NoClient}, first : Held, held : Held]
        BY <3>4, <3>6 DEF NoScan
      <4> QED BY <3>1, <4>1, Zenon DEF Held
    <3>7. CASE scan' = [scan EXCEPT !.held = Head(queue), !.first = IF @ = NoEvent THEN Head(queue) ELSE @]
      <4>1. scan' \in [arg : Clients \cup {NoClient}, first : Held, held : Held]
        BY <3>3, <3>4, <3>7
      <4> QED BY <3>1, <4>1, Zenon DEF Held
    <3> QED BY <3>1, <3>2, <3>5, <3>6, <3>7
  <2>3. CASE ScanPut
    <3>1. scan.held \in Events
      BY <1>1, <2>3 DEF ScanPut
    <3>2. /\ queue' = Append(queue, scan.held) /\ scan' = [scan EXCEPT !.held = NoEvent]
          /\ Len(queue) < QueueLen
      BY <2>3, Zenon DEF ScanPut
    <3> HIDE DEF Events
    <3>3. queue' \in Seq(Events) /\ Len(queue') = Len(queue) + 1
      BY <1>1, <3>1, <3>2, AppendProperties
    <3> QED BY <1>1, <3>2, <3>3, QueueAssumption
  <2> QED BY <2>1, <2>2, <2>3 DEF ScanTake
<1> QED BY <1>2, Zenon DEF TypeInv, ScanTake, ScanPut, network, slots

\* ... and goes through the plan of its handler.
LEMMA HandlerType ==
  ASSUME TypeInv, CallInv, LoadPcb \/ LoadSlot \/ Unhook \/ ClearEvents \/ Delete
  PROVE  TypeInv'
<1> DEFINE CallType == [op : {"none", "load", "loadclose", "call", "close"},
                        slot : NoSlot..(Slots - 1)]
<1> HIDE DEF CallType
<1>1. plan \in Seq(Steps) /\ call \in CallType
  BY Zenon DEF TypeInv, CallType
<1>2. <<>> \in Seq(Steps) /\ (plan # <<>> => Tail(plan) \in Seq(Steps))
  BY <1>1
<1>3. CASE LoadPcb
  <2>1. plan' \in Seq(Steps)
    BY <1>1, <1>2, <1>3 DEF LoadPcb, Step
  <2>2. call' = call \/ call' = [NoCall EXCEPT !.op = "load"] \/ call' = [NoCall EXCEPT !.op = "loadclose"]
    BY <1>3, Zenon DEF LoadPcb
  <2>3. call' \in CallType
    <3>1. NoSlot \in NoSlot..(Slots - 1)
      BY SlotsAssumption DEF NoSlot
    <3> QED BY <1>1, <2>2, <3>1 DEF NoCall, CallType
  <2> QED BY <1>3, <2>1, <2>3, Zenon DEF TypeInv, LoadPcb, network, slots, CallType
<1>4. CASE LoadSlot
  <2>1. plan # <<>> /\ cur \in Clients
    BY <1>4 DEF LoadSlot, CallInv
  <2>2. slot[cur] \in NoSlot..(Slots - 1)
    <3>1. slot \in [Clients -> NoSlot..(Slots - 1)]
      BY Zenon DEF TypeInv
    <3> QED BY <2>1, <3>1
  <2>3. PICK s \in NoSlot..(Slots - 1) :
            call' = [op |-> IF call.op = "load" THEN "call" ELSE "close", slot |-> s]
    <3>1. \E s \in IF object[cur] = "free" THEN NoSlot..(Slots - 1) ELSE {slot[cur]} :
            call' = [op |-> IF call.op = "load" THEN "call" ELSE "close", slot |-> s]
      BY <1>4 DEF LoadSlot
    <3> QED BY <2>2, <3>1
  <2>4. call' \in CallType
    BY <2>3 DEF CallType
  <2> QED BY <1>4, <2>4, Zenon DEF TypeInv, LoadSlot, network, slots, CallType
<1>5. CASE Unhook
  <2>1. plan' \in Seq(Steps)
    <3>1. SubSeq(plan, Len(Close) + 1, Len(plan)) \in Seq(Steps)
      <4>1. Len(Close) + 1 = 5 /\ Len(plan) \in Nat
        BY <1>1 DEF Close
      <4>2. \A i \in 5..Len(plan) : plan[i] \in Steps
        BY <1>1, <4>1
      <4> QED BY <1>1, <4>1, <4>2, SubSeqProperties
    <3> QED BY <1>2, <1>5, <3>1 DEF Unhook, Step
  <2>2. hooked' \in [Clients -> BOOLEAN]
    <3>1. hooked \in [Clients -> BOOLEAN]
      BY Zenon DEF TypeInv
    <3> QED BY <1>5, <3>1 DEF Unhook
  <2> QED BY <1>5, <2>1, <2>2, Zenon DEF TypeInv, Unhook, slots
<1>6. CASE ClearEvents
  <2>1. cur \in Clients /\ plan' \in Seq(Steps)
    BY <1>2, <1>6 DEF ClearEvents, Step, CallInv
  <2>2. <<Event("clear", cur, 0)>> \in Seq(Events) /\ Len(<<Event("clear", cur, 0)>>) = 1
    <3>1. Event("clear", cur, 0) \in Events
      BY <2>1, BoundsAssumption DEF Event, Events, Kinds
    <3> QED BY <3>1
  <2>3. queue \in Seq(Events) /\ queue' = <<Event("clear", cur, 0)>> \o queue /\ Len(queue) < QueueLen
    BY <1>6, Zenon DEF ClearEvents, TypeInv
  <2>4. queue' \in Seq(Events) /\ Len(queue') = 1 + Len(queue)
    BY <2>2, <2>3, ConcatProperties
  <2>5. Len(queue') <= QueueLen
    BY <2>3, <2>4, QueueAssumption
  <2> QED BY <1>6, <2>1, <2>4, <2>5, Zenon DEF TypeInv, ClearEvents, network, slots
<1>7. CASE Delete
  <2>1. cur \in Clients /\ plan' \in Seq(Steps)
    BY <1>2, <1>7 DEF Delete, Step, CallInv
  <2>2. CASE object[cur] = "attached"
    <3>1. object' \in [Clients -> {"free", "new", "attached"}]
      <4>1. object \in [Clients -> {"free", "new", "attached"}]
        BY Zenon DEF TypeInv
      <4> QED BY <1>7, <2>2, <4>1 DEF Delete
    <3>2. FreeClosedSlot(cur)
      BY <1>7, <2>2 DEF Delete
    <3>3. /\ slot' \in [Clients -> NoSlot..(Slots - 1)]
          /\ closedSlots' \in [0..(Slots - 1) -> Nat]
          /\ closedIndex' \in Nat \ {0}
      BY <2>1, <3>2, SlotTypes
    <3> QED BY <1>7, <2>1, <3>1, <3>3, Zenon DEF TypeInv, Delete, network
  <2>3. CASE object[cur] # "attached"
    BY <1>7, <2>1, <2>3, Zenon DEF TypeInv, Delete, network, slots
  <2> QED BY <2>2, <2>3
<1> QED BY <1>3, <1>4, <1>5, <1>6, <1>7

LEMMA TypeStep ==
  ASSUME TypeInv, CallInv, [Next]_vars
  PROVE  TypeInv'
<1>1. CASE UNCHANGED vars
  BY <1>1, Zenon DEF TypeInv, vars, network, slots, service
<1>2. CASE Next
  BY <1>2, AcceptType, NetworkType, LwipType, HandleType, ScanType, HandlerType, Zenon
     DEF Next, Network, Service
<1> QED BY <1>1, <1>2

-----------------------------------------------------------------------------
(* Slots *)

\* A step that does not touch the table, and frees no client.
LEMMA SlotsUntouched ==
  ASSUME TypeInv, SlotsAreOwn, UNCHANGED slots,
         \/ object' = object
         \/ \E a : object' = [object EXCEPT ![a] = "attached"]
  PROVE  SlotsAreOwn'
<1>1. \A b \in Clients : object'[b] = "free" => object[b] = "free"
  <2>1. object \in [Clients -> {"free", "new", "attached"}]
    BY Zenon DEF TypeInv
  <2> QED BY <2>1
<1>2. slot' = slot /\ closedSlots' = closedSlots
  BY DEF slots
<1> QED BY <1>1, <1>2, Zenon DEF SlotsAreOwn

LEMMA SlotsStep ==
  ASSUME TypeInv, SlotsAreOwn, CallInv, [Next]_vars
  PROVE  SlotsAreOwn'
<1>1. ASSUME NEW a \in Clients, Accept(a) PROVE SlotsAreOwn'
  BY <1>1, AllocationStep DEF Accept
<1>2. ASSUME NEW a \in Clients, Fin(a) PROVE SlotsAreOwn'
  <2>1. FreeClosedSlot(a) /\ object' = object
    BY <1>2, Zenon DEF Fin, Notify
  <2> QED BY <2>1, FreeStep
<1>3. ASSUME NEW a \in Clients, Traffic(a) \/ Reset(a) \/ LateAck(a) PROVE SlotsAreOwn'
  <2>1. UNCHANGED slots /\ object' = object
    BY <1>3, Zenon DEF Traffic, Reset, LateAck, Notify
  <2> QED BY <2>1, SlotsUntouched
<1>4. CASE Lwip \/ ScanTake \/ ScanPut \/ LoadPcb \/ LoadSlot \/ Unhook \/ ClearEvents
             \/ UNCHANGED vars
  <2>1. UNCHANGED slots /\ object' = object
    BY <1>4, Zenon DEF Lwip, Unblock, ServeCall, ScanTake, ScanPut, LoadPcb, LoadSlot, Unhook,
                       ClearEvents, vars
  <2> QED BY <2>1, SlotsUntouched
<1>5. CASE HandleAsyncEvent
  <2>1. /\ UNCHANGED slots
        /\ object' = object \/ \E a : object' = [object EXCEPT ![a] = "attached"]
    BY <1>5, Zenon DEF HandleAsyncEvent
  <2> QED BY <2>1, SlotsUntouched
<1>6. CASE Delete
  <2>1. cur \in Clients
    BY <1>6 DEF Delete, Step, CallInv
  <2>2. CASE object[cur] = "attached"
    BY <1>6, <2>1, <2>2, FreeStep DEF Delete
  <2>3. CASE object[cur] # "attached"
    BY <1>6, <2>3, SlotsUntouched DEF Delete
  <2> QED BY <2>2, <2>3
<1> QED BY <1>1, <1>2, <1>3, <1>4, <1>5, <1>6, Zenon DEF Next, Network, Service

-----------------------------------------------------------------------------
(* Calls *)

\* lwIP's thread disturbs no call: what it closes, it takes the slot of.
LEMMA NetworkCall ==
  ASSUME TypeInv, SlotsAreOwn, CallInv, NEW a \in Clients,
         Accept(a) \/ Traffic(a) \/ Fin(a) \/ Reset(a) \/ LateAck(a)
  PROVE  CallInv'
<1>1. /\ conn \in [Clients -> {"open", "closed", "reset"}] /\ pcb \in [Clients -> BOOLEAN]
      /\ slot \in [Clients -> NoSlot..(Slots - 1)]
  BY Zenon DEF TypeInv
<1>2. UNCHANGED <<plan, cur, call>>
  BY Zenon DEF Accept, Traffic, Fin, Reset, LateAck, Notify, service
<1>3. CASE Accept(a)
  <2>1. /\ conn' = [conn EXCEPT ![a] = "open"] /\ pcb' = [pcb EXCEPT ![a] = TRUE]
    BY <1>3, Zenon DEF Accept
  <2>2. \A b \in Clients \ {a} : slot'[b] = slot[b]
    <3>1. closedSlots \in [0..(Slots - 1) -> Nat] /\ AllocateClosedSlot(a)
      BY <1>3, Zenon DEF TypeInv, Accept
    <3>2. \E s : slot' = [slot EXCEPT ![a] = s]
      BY <1>1, <3>1, Allocated
    <3> QED BY <1>1, <3>2
  <2>3. \A b \in Clients : pcb'[b] => conn'[b] # "closed"
    BY <1>1, <2>1 DEF CallInv
  <2>4. \A b \in Clients : pcb[b] => pcb'[b]
    BY <1>1, <2>1
  <2>5. pcb'[a]
    BY <1>1, <2>1
  <2> QED BY <1>2, <2>2, <2>3, <2>4, <2>5, Zenon DEF CallInv
<1>4. CASE Fin(a)
  <2>1. conn' = [conn EXCEPT ![a] = "closed"] /\ pcb' = [pcb EXCEPT ![a] = FALSE]
    BY <1>4, Zenon DEF Fin
  <2>2. slot'[a] = NoSlot /\ \A b \in Clients \ {a} : slot'[b] = slot[b]
    <3>1. FreeClosedSlot(a)
      BY <1>4 DEF Fin
    <3> QED BY <1>1, <3>1 DEF FreeClosedSlot, slots
  <2>3. \A b \in Clients : pcb'[b] => conn'[b] # "closed"
    BY <1>1, <2>1 DEF CallInv
  <2>4. \A b \in Clients \ {a} : pcb'[b] = pcb[b]
    BY <1>1, <2>1
  <2> QED BY <1>2, <2>2, <2>3, <2>4, Zenon DEF CallInv
<1>5. CASE Traffic(a) \/ Reset(a) \/ LateAck(a)
  <2>1. UNCHANGED <<pcb, slot>> /\ (conn' = conn \/ conn' = [conn EXCEPT ![a] = "reset"])
    BY <1>5, Zenon DEF Traffic, Reset, LateAck, slots, network
  <2>2. \A b \in Clients : conn'[b] = conn[b] \/ conn'[b] = "reset"
    BY <1>1, <2>1
  <2>3. \A b \in Clients : pcb'[b] => conn'[b] # "closed"
    BY <2>1, <2>2 DEF CallInv
  <2> QED BY <1>2, <2>1, <2>3, Zenon DEF CallInv
<1> QED BY <1>3, <1>4, <1>5

LEMMA LwipCall ==
  ASSUME TypeInv, CallInv, Lwip
  PROVE  CallInv'
<1>1. CASE Unblock
  BY <1>1, Zenon DEF Unblock, CallInv, network, slots, service
<1>2. CASE ServeCall
  <2>1. /\ conn \in [Clients -> {"open", "closed", "reset"}] /\ pcb \in [Clients -> BOOLEAN]
        /\ plan \in Seq(Steps)
    BY Zenon DEF TypeInv
  <2>2. cur \in Clients /\ call'.op = "none" /\ cur' = cur
    BY <1>2 DEF ServeCall, CallInv, NoCall
  <2>3. \A b \in Clients : pcb'[b] => conn'[b] # "closed"
    <3>1. CASE call.op = "close"
      BY <1>2, <2>1, <2>2, <3>1 DEF ServeCall, CallInv
    <3>2. CASE call.op # "close"
      BY <1>2, <3>2 DEF ServeCall, CallInv
    <3> QED BY <3>1, <3>2
  <2> QED BY <2>2, <2>3, Zenon DEF CallInv
<1> QED BY <1>1, <1>2 DEF Lwip

\* The service task prepares a call for a client that is connected when it looks, and
\* deletes a client only when it has no call under way.
LEMMA ServiceCall ==
  ASSUME TypeInv, SlotsAreOwn, CallInv, Service
  PROVE  CallInv'
<1>1. /\ pcb \in [Clients -> BOOLEAN] /\ slot \in [Clients -> NoSlot..(Slots - 1)]
  BY Zenon DEF TypeInv
<1>2. CASE HandleAsyncEvent
  <2>1. plan = <<>> /\ call.op = "none"
    BY <1>2 DEF HandleAsyncEvent, Idle, CallInv
  <2>2. call' = call /\ conn' = conn
    BY <1>2, Zenon DEF HandleAsyncEvent, service
  <2>3. pcb' = pcb \/ pcb' = [pcb EXCEPT ![cur'] = FALSE]
    BY <1>2, Zenon DEF HandleAsyncEvent
  <2>4. \A b \in Clients : pcb'[b] => conn'[b] # "closed"
    BY <1>1, <2>2, <2>3 DEF CallInv
  <2>5. plan' = plan \/ cur' \in Clients
    <3>1. queue \in Seq(Events) /\ queue # <<>>
      BY <1>2, Zenon DEF TypeInv, HandleAsyncEvent
    <3>2. Head(queue).client \in Clients \cup {NoClient}
      <4>1. Head(queue) \in Events
        BY <3>1, HeadTailProperties
      <4> QED BY <4>1 DEF Events
    <3>3. plan' = plan \/ (cur' = Head(queue).client /\ Head(queue).client # NoClient)
      BY <1>2, Zenon DEF HandleAsyncEvent, service
    <3> QED BY <3>2, <3>3
  <2> QED BY <2>1, <2>2, <2>4, <2>5, Zenon DEF CallInv
<1>3. CASE ScanTake \/ ScanPut
  BY <1>3, Zenon DEF ScanTake, ScanPut, CallInv, network, slots
<1>4. CASE LoadPcb
  <2>1. plan # <<>> /\ UNCHANGED <<cur, slot, pcb, conn>>
    BY <1>4, Zenon DEF LoadPcb, Step, network, slots
  <2>2. \/ plan' = Tail(plan) /\ call' = call /\ call = NoCall
        \/ plan' = plan /\ (pcb[cur] \/ object[cur] = "free")
    BY <1>4, Zenon DEF LoadPcb, Step
  <2>3. object[cur] = "free" => slot[cur] = NoSlot
    BY <2>1 DEF CallInv, SlotsAreOwn
  <2>4. NoCall.op = "none"
    BY DEF NoCall
  <2> QED BY <2>1, <2>2, <2>3, <2>4, Zenon DEF CallInv
<1>5. CASE LoadSlot
  <2>1. plan # <<>> /\ call.op # "none" /\ UNCHANGED <<cur, slot, pcb, conn, plan>>
    BY <1>5 DEF LoadSlot, CallInv, network, slots
  <2> QED BY <2>1, Zenon DEF CallInv
<1>6. CASE Unhook \/ ClearEvents
  <2>1. /\ plan # <<>> /\ UNCHANGED <<cur, slot, pcb, conn, call>> /\ call = NoCall
    BY <1>6, Zenon DEF Unhook, ClearEvents, Step, network, slots
  <2>2. NoCall.op = "none"
    BY DEF NoCall
  <2> QED BY <2>1, <2>2, Zenon DEF CallInv
<1>7. CASE Delete
  <2>1. /\ plan # <<>> /\ UNCHANGED <<cur, pcb, conn, call>> /\ call = NoCall
    BY <1>7, Zenon DEF Delete, Step, network
  <2>2. NoCall.op = "none"
    BY DEF NoCall
  <2> QED BY <2>1, <2>2, Zenon DEF CallInv
<1> QED BY <1>2, <1>3, <1>4, <1>5, <1>6, <1>7 DEF Service

LEMMA TcpStep ==
  ASSUME TcpInv, [Next]_vars
  PROVE  TcpInv'
<1>1. TypeInv' /\ SlotsAreOwn'
  BY TypeStep, SlotsStep DEF TcpInv
<1>2. CallInv'
  <2>1. CASE UNCHANGED vars
    BY <2>1, Zenon DEF TcpInv, CallInv, vars, network, slots, service
  <2>2. CASE Next
    BY <2>2, NetworkCall, LwipCall, ServiceCall, Zenon DEF TcpInv, Next, Network
  <2> QED BY <2>1, <2>2
<1> QED BY <1>1, <1>2 DEF TcpInv

-----------------------------------------------------------------------------
(* Theorems *)

\* The state of both tasks has its types: the queue is never longer than it is, and every
\* event, call and slot is one that exists.
THEOREM TypeCorrect == Spec => []TypeInv
<1>1. TcpInv => TypeInv
  BY DEF TcpInv
<1>2. TcpInv /\ [Next]_vars => TcpInv'
  BY TcpStep
<1> QED BY <1>1, <1>2, TcpInit, PTL DEF Spec

\* Although both tasks give slots back, without a lock of their own, no slot is held
\* twice, lost, or freed under a client that has it.
THEOREM SlotsStayOwn == Spec => []SlotsAreOwn
<1>1. TcpInv => SlotsAreOwn
  BY DEF TcpInv
<1>2. TcpInv /\ [Next]_vars => TcpInv'
  BY TcpStep
<1> QED BY <1>1, <1>2, TcpInit, PTL DEF Spec

\* The check of _closed_slots is enough: a call that passes it does not meet the
\* connection that _lwip_fin has closed since, unless the slot has a new owner.
THEOREM CallsAreStopped == Spec => []CallsFindTheirConnection
<1>1. ASSUME TcpInv PROVE CallsFindTheirConnection
  <2> SUFFICES ASSUME call.op \in {"call", "close"}, call.slot # NoSlot, Passes(call.slot),
                      \A b \in Clients : slot[b] = call.slot => b = cur
               PROVE  conn[cur] # "closed"
    BY DEF CallsFindTheirConnection
  <2>1. cur \in Clients /\ closedSlots[call.slot] = 0
    BY <1>1 DEF TcpInv, CallInv, Passes
  <2>2. call.slot \in DOMAIN closedSlots
    <3>1. /\ call \in [op : {"none", "load", "loadclose", "call", "close"},
                       slot : NoSlot..(Slots - 1)]
          /\ closedSlots \in [0..(Slots - 1) -> Nat]
      BY <1>1, Zenon DEF TcpInv, TypeInv
    <3>2. call.slot \in NoSlot..(Slots - 1) /\ DOMAIN closedSlots = 0..(Slots - 1)
      BY <3>1
    <3> QED BY <3>2, SlotsAssumption DEF NoSlot
  <2>3. PICK b \in Clients : slot[b] = call.slot
    BY <1>1, <2>1, <2>2, Zenon DEF TcpInv, SlotsAreOwn
  <2>4. slot[cur] # NoSlot
    BY <2>3
  <2>5. pcb[cur]
    BY <1>1, <2>4 DEF TcpInv, CallInv
  <2> QED BY <1>1, <2>1, <2>5 DEF TcpInv, CallInv
<1>2. TcpInv /\ [Next]_vars => TcpInv'
  BY TcpStep
<1> QED BY <1>1, <1>2, TcpInit, PTL DEF Spec
=============================================================================
