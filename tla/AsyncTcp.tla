------------------------------ MODULE AsyncTcp ------------------------------
(***************************************************************************)
(* AsyncTCP.cpp: the connections of the web server between two tasks.      *)
(* lwIP's thread owns the connections and turns what happens to them into  *)
(* events; the service task takes the events from one queue, calls the     *)
(* web server's handlers and asks lwIP, by calls that it waits for, to     *)
(* write, acknowledge or close.  An AsyncClient is deleted by the handler  *)
(* of its disconnection, while events that name it may still be queued and *)
(* while lwIP may just have closed its connection: a CLEAR event removes   *)
(* the former, the table _closed_slots stops calls on the latter.          *)
(*                                                                         *)
(* An action is what one task does between two points at which the other   *)
(* may interfere: a call of the queue, of lwIP, a load of a shared field.  *)
(***************************************************************************)
EXTENDS Integers, Sequences, FiniteSets

CONSTANTS
  Clients,    \* addresses of AsyncClient objects; the heap uses them again
  NoClient,   \* NULL
  Slots,      \* _number_of_closed_slots
  QueueLen,   \* length of _async_queue
  MaxEvents,  \* bound: events per connection
  MaxClients, \* bound: connections accepted
  Quiet       \* points at which the other task is assumed to be still

ASSUME NoClientAssumption == NoClient \notin Clients
ASSUME SlotsAssumption == Slots \in Nat \ {0}
ASSUME QueueAssumption == QueueLen \in Nat \ {0}
ASSUME BoundsAssumption == MaxEvents \in Nat /\ MaxClients \in Nat
ASSUME QuietAssumption == Quiet \subseteq {"rotation", "load", "address"}

VARIABLES
  queue,       \* _async_queue
  sending,     \* the event lwIP's thread waits to put into the full queue
  object,      \* the client at an address: "free", "new", or "attached" to a request
  conn,        \* its connection in lwIP: "open", "closed", or "reset"
  pcb,         \* whether _pcb is set
  hooked,      \* whether the connection knows its client (tcp_arg)
  slot,        \* _closed_slot
  closedSlots, \* _closed_slots: 0 for a slot in use
  closedIndex, \* _closed_index
  cur,         \* the client whose event the service task handles
  plan,        \* what it has still to do for that event
  scan,        \* the loop of _remove_events_with_arg, while it runs
  call,        \* the lwIP call in preparation or under way
  pushed,      \* observer: events lwIP has made for the client
  handled      \* observer: those that have been handled

service == <<cur, plan, scan, call>>
network == <<conn, pcb, hooked>>
slots == <<slot, closedSlots, closedIndex>>
vars == <<queue, sending, object, network, slots, service, pushed, handled>>

NoSlot == -1
NoEvent == [kind |-> "none", client |-> NoClient, n |-> 0]
NoScan == [arg |-> NoClient, first |-> NoEvent, held |-> NoEvent]
NoCall == [op |-> "none", slot |-> NoSlot]
Event(kind, a, n) == [kind |-> kind, client |-> a, n |-> n]

Init ==
  /\ queue = <<>> /\ sending = NoEvent
  /\ object = [a \in Clients |-> "free"]
  /\ conn = [a \in Clients |-> "closed"]
  /\ pcb = [a \in Clients |-> FALSE]
  /\ hooked = [a \in Clients |-> FALSE]
  /\ slot = [a \in Clients |-> NoSlot]
  /\ closedSlots = [s \in 0..(Slots - 1) |-> 1]
  /\ closedIndex = 1
  /\ cur = NoClient /\ plan = <<>> /\ scan = NoScan /\ call = NoCall
  /\ pushed = [a \in Clients |-> 0]
  /\ handled = [a \in Clients |-> 0]

-----------------------------------------------------------------------------
(* The table of slots. *)

\* faulty variant: the first free slot is never taken, because no value is below the least
AllocateClosedSlotNone(a) ==
  slot' = [slot EXCEPT ![a] = NoSlot] /\ UNCHANGED closedSlots

\* the free slot that has been free for longest; the last one of those
AllocateClosedSlot(a) ==
  LET Free == {s \in DOMAIN closedSlots : closedSlots[s] # 0}
      best == CHOOSE s \in Free : \A t \in Free :
                closedSlots[s] < closedSlots[t] \/ (closedSlots[s] = closedSlots[t] /\ s >= t)
  IN IF Free = {}
       THEN slot' = [slot EXCEPT ![a] = NoSlot] /\ UNCHANGED closedSlots
       ELSE /\ slot' = [slot EXCEPT ![a] = best]
            /\ closedSlots' = [closedSlots EXCEPT ![best] = 0]

\* faulty variant: the client keeps the number of the slot it has freed
FreeClosedSlotTwice(a) ==
  IF slot[a] = NoSlot
    THEN UNCHANGED slots
    ELSE /\ closedSlots' = [closedSlots EXCEPT ![slot[a]] = closedIndex]
         /\ closedIndex' = closedIndex + 1
         /\ UNCHANGED slot

FreeClosedSlot(a) ==
  IF slot[a] = NoSlot
    THEN UNCHANGED slots
    ELSE /\ closedSlots' = [closedSlots EXCEPT ![slot[a]] = closedIndex]
         /\ closedIndex' = closedIndex + 1
         /\ slot' = [slot EXCEPT ![a] = NoSlot]

-----------------------------------------------------------------------------
(* lwIP's thread.  While it waits for a place in the queue it does nothing *)
(* else.                                                                   *)

LwipMay == sending = NoEvent /\ ("rotation" \in Quiet => scan = NoScan)

Insert(e, q) == IF e.kind = "accept" THEN <<e>> \o q ELSE Append(q, e)

\* faulty variant: one event too many
SendAsyncEventOver(e) ==
  IF Len(queue) <= QueueLen
    THEN queue' = Insert(e, queue) /\ UNCHANGED sending
    ELSE sending' = e /\ UNCHANGED queue

SendAsyncEvent(e) ==
  IF Len(queue) < QueueLen
    THEN queue' = Insert(e, queue) /\ UNCHANGED sending
    ELSE sending' = e /\ UNCHANGED queue

\* AsyncServer::_accept: the client may get the address of a deleted one
Accept(a) ==
  /\ LwipMay
  /\ object[a] = "free"
  /\ closedIndex + Cardinality({b \in Clients : object[b] # "free"}) <= MaxClients
  /\ "address" \in Quiet => Event("clear", a, 0) \notin {queue[i] : i \in 1..Len(queue)}
  /\ object' = [object EXCEPT ![a] = "new"]
  /\ conn' = [conn EXCEPT ![a] = "open"]
  /\ pcb' = [pcb EXCEPT ![a] = TRUE]
  /\ hooked' = [hooked EXCEPT ![a] = TRUE]
  /\ AllocateClosedSlot(a)
  /\ pushed' = [pushed EXCEPT ![a] = 0]
  /\ handled' = [handled EXCEPT ![a] = 0]
  /\ SendAsyncEvent(Event("accept", a, 0))
  /\ UNCHANGED <<closedIndex, service>>

Notify(kind, a) ==
  /\ pushed[a] < MaxEvents
  /\ pushed' = [pushed EXCEPT ![a] = @ + 1]
  /\ SendAsyncEvent(Event(kind, a, pushed[a] + 1))
  /\ UNCHANGED <<object, handled, service>>

\* _tcp_recv with data, _tcp_sent, _tcp_poll
Traffic(a) ==
  /\ LwipMay
  /\ conn[a] = "open" /\ hooked[a]
  /\ \E kind \in {"recv", "sent", "poll"} : Notify(kind, a)
  /\ UNCHANGED <<network, slots>>

\* _tcp_recv without data: _lwip_fin closes before the event is sent
Fin(a) ==
  /\ LwipMay
  /\ "load" \in Quiet => ~(cur = a /\ call.op \in {"load", "loadclose"})
  /\ conn[a] = "open" /\ hooked[a] /\ pcb[a]
  /\ conn' = [conn EXCEPT ![a] = "closed"]
  /\ hooked' = [hooked EXCEPT ![a] = FALSE]
  /\ pcb' = [pcb EXCEPT ![a] = FALSE]
  /\ FreeClosedSlot(a)
  /\ Notify("fin", a)

\* the peer resets: lwIP frees the connection, then calls _tcp_error
Reset(a) ==
  /\ LwipMay
  /\ conn[a] = "open"
  /\ conn' = [conn EXCEPT ![a] = "reset"]
  /\ IF hooked[a] THEN Notify("error", a)
                  ELSE UNCHANGED <<queue, sending, object, pushed, handled, service>>
  /\ UNCHANGED <<pcb, hooked, slots>>

\* the last acknowledgement of a connection that _lwip_fin has closed: its arg is NULL
LateAck(a) ==
  /\ LwipMay
  /\ conn[a] = "closed" /\ object[a] = "attached"
  /\ \A i \in 1..Len(queue) : queue[i].client # NoClient
  /\ SendAsyncEvent(Event("sent", NoClient, 0))
  /\ UNCHANGED <<object, network, slots, service, pushed, handled>>

\* xQueueSend returns
Unblock ==
  /\ sending # NoEvent
  /\ "rotation" \in Quiet => scan = NoScan
  /\ Len(queue) < QueueLen
  /\ queue' = Insert(sending, queue)
  /\ sending' = NoEvent
  /\ UNCHANGED <<object, network, slots, service, pushed, handled>>

\* faulty variant: calls are not checked
PassesAlways(s) == TRUE

Passes(s) == s = NoSlot \/ closedSlots[s] = 0

\* _tcp_recved_api, _tcp_write_api, _tcp_output_api, _tcp_close_api; a close
\* that fails becomes an abort, and _close() clears _pcb afterwards
ServeCall ==
  /\ sending = NoEvent
  /\ call.op \in {"call", "close"}
  /\ IF call.op = "close"
       THEN /\ pcb' = [pcb EXCEPT ![cur] = FALSE]
            /\ conn' = [conn EXCEPT ![cur] = IF Passes(call.slot) THEN "closed" ELSE @]
       ELSE UNCHANGED <<pcb, conn>>
  /\ call' = NoCall
  /\ plan' = Tail(plan)
  /\ UNCHANGED <<queue, sending, object, hooked, slots, cur, scan, pushed, handled>>

Lwip == Unblock \/ ServeCall
Network == \E a \in Clients : Accept(a) \/ Traffic(a) \/ Fin(a) \/ Reset(a) \/ LateAck(a)

-----------------------------------------------------------------------------
(* The service task.  Its handlers are those of an AsyncWebServerRequest.  *)

Calls == {<<>>, <<"call">>, <<"call", "call">>}
\* faulty variant: _close() does not tell _discard_cb
CloseUntold == <<"unhook", "clear", "close">>

Close == <<"unhook", "clear", "close", "delete">>

\* What the handlers may do: answer and acknowledge; close a request that begins
\* with an empty line, or that has timed out.  _recv goes on after its callback
\* has closed: it acknowledges this packet, and others that came with it, for a
\* client that has been deleted.
Plans(kind) ==
  CASE kind = "recv"  -> {<<"call">> \o c : c \in Calls}
                           \cup UNION {{c \o Close \o d : d \in Calls \ {<<>>}} : c \in Calls \ {<<>>}}
    [] kind = "sent"  -> Calls
    [] kind = "poll"  -> Calls \cup {<<"call">> \o Close, Close}
    [] kind = "fin"   -> {<<"clear", "delete">>}
    [] kind = "error" -> {<<"delete">>}

Idle == plan = <<>> /\ scan = NoScan

\* _async_service_task takes an event, _handle_async_event dispatches it
HandleAsyncEvent ==
  /\ Idle
  /\ queue # <<>>
  /\ queue' = Tail(queue)
  /\ LET e == Head(queue) IN
       \/ /\ e.client = NoClient
          /\ UNCHANGED <<object, pcb, service, handled>>
       \/ /\ e.kind = "accept"
          /\ object' = [object EXCEPT ![e.client] = "attached"]
          /\ UNCHANGED <<pcb, service, handled>>
       \/ /\ e.kind = "clear"
          /\ scan' = [NoScan EXCEPT !.arg = e.client]
          /\ UNCHANGED <<object, pcb, cur, plan, call, handled>>
       \/ /\ e.client # NoClient /\ e.kind \notin {"accept", "clear"}
          /\ cur' = e.client
          /\ plan' \in IF e.kind = "poll" /\ ~pcb[e.client] THEN {<<>>} ELSE Plans(e.kind)
          /\ pcb' = IF e.kind = "error" THEN [pcb EXCEPT ![e.client] = FALSE] ELSE pcb
          /\ handled' = [handled EXCEPT ![e.client] = @ + 1]
          /\ UNCHANGED <<object, scan, call>>
  /\ UNCHANGED <<sending, conn, hooked, slots, pushed>>

\* faulty variant: the loop ends as soon as the first packet is known
ScanTakeOnce ==
  /\ scan # NoScan /\ scan.held = NoEvent
  /\ IF queue = <<>> \/ scan.first # NoEvent
       THEN scan' = NoScan /\ UNCHANGED queue
       ELSE /\ queue' = Tail(queue)
            /\ LET e == Head(queue) IN
               scan' = IF e.client = scan.arg /\ e.kind # "accept" THEN scan
                       ELSE [scan EXCEPT !.held = e, !.first = e]
  /\ UNCHANGED <<sending, object, network, slots, cur, plan, call, pushed, handled>>

\* _remove_events_with_arg: the queue is turned round once, to its first packet
ScanTake ==
  /\ scan # NoScan /\ scan.held = NoEvent
  /\ IF queue = <<>> \/ Head(queue) = scan.first
       THEN scan' = NoScan /\ UNCHANGED queue
       ELSE /\ queue' = Tail(queue)
            /\ LET e == Head(queue) IN
               scan' = IF e.client = scan.arg /\ e.kind # "accept" THEN scan
                       ELSE [scan EXCEPT !.held = e,
                                         !.first = IF @ = NoEvent THEN e ELSE @]
  /\ UNCHANGED <<sending, object, network, slots, cur, plan, call, pushed, handled>>

ScanPut ==
  /\ scan.held # NoEvent
  /\ Len(queue) < QueueLen
  /\ queue' = Append(queue, scan.held)
  /\ scan' = [scan EXCEPT !.held = NoEvent]
  /\ UNCHANGED <<sending, object, network, slots, cur, plan, call, pushed, handled>>

Step(s) == plan # <<>> /\ Head(plan) = s /\ call = NoCall

\* The arguments of a call: _pcb, which may be NULL, then _closed_slot.  Those of
\* a deleted client are whatever the heap has left at its address.
LoadPcb ==
  /\ \E s \in {"call", "close"} :
       /\ Step(s)
       /\ \/ /\ pcb[cur] \/ object[cur] = "free"
             /\ call' = [NoCall EXCEPT !.op = IF s = "call" THEN "load" ELSE "loadclose"]
             /\ UNCHANGED plan
          \/ ~pcb[cur] /\ plan' = Tail(plan) /\ UNCHANGED call
  /\ UNCHANGED <<queue, sending, object, network, slots, cur, scan, pushed, handled>>

LoadSlot ==
  /\ call.op \in {"load", "loadclose"}
  /\ \E s \in IF object[cur] = "free" THEN NoSlot..(Slots - 1) ELSE {slot[cur]} :
       call' = [op |-> IF call.op = "load" THEN "call" ELSE "close", slot |-> s]
  /\ UNCHANGED <<queue, sending, object, network, slots, cur, plan, scan, pushed, handled>>

\* _close(): nothing happens to a client whose _pcb is NULL
Unhook ==
  /\ Step("unhook")
  /\ IF pcb[cur]
       THEN hooked' = [hooked EXCEPT ![cur] = FALSE] /\ plan' = Tail(plan)
       ELSE plan' = SubSeq(plan, Len(Close) + 1, Len(plan)) /\ UNCHANGED hooked
  /\ UNCHANGED <<queue, sending, object, conn, pcb, slots, cur, scan, call, pushed, handled>>

\* faulty variant: CLEAR is sent to the back of the queue
ClearEventsBehind ==
  /\ Step("clear")
  /\ Len(queue) < QueueLen
  /\ queue' = Append(queue, Event("clear", cur, 0))
  /\ plan' = Tail(plan)
  /\ UNCHANGED <<sending, object, network, slots, cur, scan, call, pushed, handled>>

\* _tcp_clear_events
ClearEvents ==
  /\ Step("clear")
  /\ Len(queue) < QueueLen
  /\ queue' = <<Event("clear", cur, 0)>> \o queue
  /\ plan' = Tail(plan)
  /\ UNCHANGED <<sending, object, network, slots, cur, scan, call, pushed, handled>>

\* _discard_cb, set by the request, deletes the request and the client
Delete ==
  /\ Step("delete")
  /\ plan' = Tail(plan)
  /\ IF object[cur] = "attached"
       THEN object' = [object EXCEPT ![cur] = "free"] /\ FreeClosedSlot(cur)
       ELSE UNCHANGED <<object, slots>>
  /\ UNCHANGED <<queue, sending, network, cur, scan, call, pushed, handled>>

Service == HandleAsyncEvent \/ ScanTake \/ ScanPut \/ LoadPcb \/ LoadSlot
             \/ Unhook \/ ClearEvents \/ Delete

Next == Network \/ Lwip \/ Service

Spec == Init /\ [][Next]_vars
FairSpec == Spec /\ WF_vars(Lwip) /\ WF_vars(Service)
-----------------------------------------------------------------------------
(* Properties. *)

Kinds == {"accept", "recv", "sent", "poll", "fin", "error", "clear"}
Events == [kind : Kinds, client : Clients \cup {NoClient}, n : 0..MaxEvents]
Steps == {"call", "unhook", "clear", "close", "delete"}

\* Every variable stays in its range; in particular the queue never holds more than it can.
TypeInv ==
  /\ queue \in Seq(Events) /\ Len(queue) <= QueueLen
  /\ sending \in Events \cup {NoEvent}
  /\ object \in [Clients -> {"free", "new", "attached"}]
  /\ conn \in [Clients -> {"open", "closed", "reset"}]
  /\ pcb \in [Clients -> BOOLEAN] /\ hooked \in [Clients -> BOOLEAN]
  /\ slot \in [Clients -> NoSlot..(Slots - 1)]
  /\ closedSlots \in [0..(Slots - 1) -> Nat]
  /\ closedIndex \in Nat \ {0}
  /\ cur \in Clients \cup {NoClient}
  /\ plan \in Seq(Steps)
  /\ scan \in [arg : Clients \cup {NoClient}, first : Events \cup {NoEvent},
               held : Events \cup {NoEvent}]
  /\ call \in [op : {"none", "load", "loadclose", "call", "close"}, slot : NoSlot..(Slots - 1)]
  /\ pushed \in [Clients -> 0..MaxEvents] /\ handled \in [Clients -> Nat]

IsOf(e, a) == e.client = a /\ e.kind \notin {"accept", "clear"}

\* the events that are still to be handled
Waiting == Append(queue, sending)

\* _remove_events_with_arg keeps the order of the events that it does not remove.
KeepsOrder ==
  scan = NoScan => \A a \in Clients : \A i, j \in DOMAIN Waiting :
    i < j /\ IsOf(Waiting[i], a) /\ IsOf(Waiting[j], a) => Waiting[i].n < Waiting[j].n

\* A client that exists is told everything lwIP noticed of its connection, once
\* and in order: removing the events of one client takes none from another.
EventsInOrder ==
  scan = NoScan => \A a \in Clients : object[a] # "free" =>
    LET Own == {i \in DOMAIN Waiting : IsOf(Waiting[i], a)} IN
    /\ \A i, j \in Own : i < j => Waiting[i].n < Waiting[j].n
    /\ {Waiting[i].n : i \in Own} = (handled[a] + 1)..pushed[a]

\* No event is handled for a client that is deleted, or that has no request yet:
\* its removal, or its acceptance, is ahead of it in the queue.  Nor does a handler
\* close or delete a second time: all that is still done with a client that its own
\* handler has deleted is what _recv does after its callback, acknowledge.
NothingStale ==
  /\ Idle => \A i \in DOMAIN queue : \A a \in Clients : IsOf(queue[i], a) =>
       \/ object[a] = "attached"
       \/ \E j \in 1..(i - 1) :
            queue[j] = Event(IF object[a] = "new" THEN "accept" ELSE "clear", a, 0)
  /\ plan # <<>> /\ object[cur] # "attached" => \A i \in DOMAIN plan : plan[i] = "call"

\* No two clients share a slot, a slot in use belongs to a client that exists,
\* and it is given back: neither task's frees disturb the other's clients.
SlotsAreOwn ==
  /\ \A a, b \in Clients : slot[a] = slot[b] /\ slot[a] # NoSlot => a = b
  /\ \A s \in DOMAIN closedSlots : closedSlots[s] = 0 <=> \E a \in Clients : slot[a] = s
  /\ \A a \in Clients : object[a] = "free" => slot[a] = NoSlot

\* A call that lwIP lets through with the slot of its client finds the connection
\* it was meant for, although lwIP may have closed it since the call was made;
\* unless the slot was given away again, or the peer has reset the connection.
CallsFindTheirConnection ==
  /\ call.op \in {"call", "close"} /\ call.slot # NoSlot /\ Passes(call.slot)
  /\ \A b \in Clients : slot[b] = call.slot => b = cur
  => conn[cur] # "closed"

\* A call for a client that exists is made with a slot, so that the check can stop
\* it; the calls that _recv makes for a deleted one carry what is at its address.
CallsCarryASlot ==
  call.op \in {"call", "close"} /\ object[cur] = "attached" => call.slot # NoSlot

\* The tasks wait for each other, or the service task for itself: the queue is full.
Stuck ==
  /\ Len(queue) = QueueLen
  /\ \/ sending # NoEvent /\ call.op \in {"call", "close"}
     \/ Step("clear")
     \/ scan.held # NoEvent

\* A client whose connection is gone is deleted, and what it holds with it.
GoneClientsAreDeleted ==
  \A a \in Clients :
    object[a] # "free" /\ conn[a] # "open" ~> object[a] = "free" \/ Stuck
=============================================================================
