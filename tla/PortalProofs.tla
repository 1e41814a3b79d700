---------------------------- MODULE PortalProofs ----------------------------
(***************************************************************************)
(* Proofs about the captive portal with one client at a time, for any      *)
(* number of stations, requests and departures that wait.                  *)
(***************************************************************************)
EXTENDS Portal, SequenceTheorems, FiniteSetTheorems, TLAPS

\* MAX_CLIENTS is 1, as in the code.
OneByOne == MaxClients = 1

\* What the steps do to the queue of requests.
Queue(q) == q \in Seq(Requests) /\ \A n \in DOMAIN q : q[n].from \in joined \cup {Nobody}

LEMMA QueueAppend ==
    ASSUME NEW q, Queue(q), NEW r \in Requests, r.from \in joined
    PROVE  Queue(Append(q, r))
<1>1. /\ Append(q, r) \in Seq(Requests) /\ Len(Append(q, r)) = Len(q) + 1
      /\ \A n \in 1..Len(q) : Append(q, r)[n] = q[n]
      /\ Append(q, r)[Len(q) + 1] = r
    BY AppendProperties DEF Queue
<1>2. /\ Len(q) \in Nat /\ DOMAIN q = 1..Len(q)
      /\ DOMAIN Append(q, r) = 1..Len(Append(q, r))
    BY <1>1, LenProperties DEF Queue
<1>. QED
    BY <1>1, <1>2 DEF Queue

LEMMA QueueTail ==
    ASSUME NEW q, Queue(q), q # <<>>
    PROVE  Queue(Tail(q)) /\ Head(q) \in Requests /\ Head(q).from \in joined \cup {Nobody}
<1>1. /\ Tail(q) \in Seq(Requests) /\ Len(Tail(q)) = Len(q) - 1
      /\ \A n \in 1..Len(Tail(q)) : Tail(q)[n] = q[n + 1]
      /\ Head(q) \in Requests
    BY HeadTailProperties DEF Queue
<1>2. /\ Len(q) \in Nat \ {0} /\ DOMAIN q = 1..Len(q)
      /\ DOMAIN Tail(q) = 1..Len(Tail(q))
    BY <1>1, LenProperties, EmptySeq DEF Queue
<1>3. Head(q) = q[1]
    BY DEF Queue
<1>. QED
    BY <1>1, <1>2, <1>3 DEF Queue

\* What the observer and the flag say of each other
FlagInv ==
    /\ ~portalOpened => escaped \subseteq overtaken
    /\ portalOpened => escaped # {} \/ leftOpen \/ departures > 0

Flags == portalOpened \in BOOLEAN /\ leftOpen \in BOOLEAN

\* ... and the other conditions of the invariant.
RestInv ==
    /\ joined \subseteq Stations /\ escaped \subseteq joined /\ overtaken \subseteq joined
    /\ setup \in {"access point", "serving", "done"}
    /\ departures \in 0..MaxDepartures
    /\ shown \in [Stations -> Shown]
    /\ Queue(requests)
    /\ Cardinality(joined) <= 1
    /\ departures > 0 => joined \subseteq overtaken

LEMMA Parts == PortalInv => Flags /\ FlagInv /\ RestInv
<1>1. PortalInv => Flags
    BY Zenon DEF PortalInv, PortalTypeInv, Flags
<1>2. PortalInv => FlagInv
    BY Zenon DEF PortalInv, FlagInv
<1>3. PortalInv => RestInv
    BY DEF PortalInv, PortalTypeInv, RestInv, Queue
<1>. QED
    BY <1>1, <1>2, <1>3

LEMMA Together ==
    ASSUME Flags', FlagInv', RestInv'
    PROVE  PortalInv'
<1>1. (joined \subseteq Stations /\ escaped \subseteq joined /\ overtaken \subseteq joined)'
    BY Zenon DEF RestInv
<1>2. (setup \in {"access point", "serving", "done"} /\ shown \in [Stations -> Shown])'
    BY Zenon DEF RestInv
<1>3. (/\ departures \in 0..MaxDepartures /\ Cardinality(joined) <= 1
       /\ departures > 0 => joined \subseteq overtaken)'
    BY Zenon DEF RestInv
<1>4. (requests \in Seq(Requests) /\ \A n \in DOMAIN requests : requests[n].from \in joined \cup {Nobody})'
    BY Zenon DEF RestInv, Queue
<1>5. PortalTypeInv'
    BY <1>1, <1>2, <1>3, <1>4, Zenon DEF Flags, PortalTypeInv
<1>. QED
    BY <1>3, <1>4, <1>5, Zenon DEF PortalInv, FlagInv

\* One station at most
LEMMA AtMostOne ==
    ASSUME PortalInv, NEW c \in joined
    PROVE  joined = {c}
<1>1. IsFiniteSet(joined) /\ Cardinality(joined) \in Nat
    BY FS_Subset, FS_CardinalityType, PortalAssumption DEF PortalInv, PortalTypeInv
<1>2. IsFiniteSet(joined \ {c}) /\ Cardinality(joined \ {c}) = Cardinality(joined) - 1
    BY <1>1, FS_RemoveElement
<1>3. Cardinality(joined \ {c}) \in Nat
    BY <1>2, FS_CardinalityType
<1>4. Cardinality(joined \ {c}) = 0
    BY <1>1, <1>2, <1>3 DEF PortalInv
<1>5. joined \ {c} = {}
    BY <1>2, <1>4, FS_EmptySet
<1>. QED
    BY <1>5

LEMMA PortalInit == Init => PortalInv
<1>. SUFFICES ASSUME Init PROVE PortalInv
    OBVIOUS
<1>1. requests = <<>> /\ <<>> \in Seq(Requests) /\ DOMAIN requests = {}
  <2>1. <<>> \in Seq(Requests) /\ Len(<<>>) = 0
      BY EmptySeq
  <2>2. DOMAIN <<>> = 1..0
      BY <2>1, LenProperties
  <2>3. 1..0 = {}
      OBVIOUS
  <2>4. requests = <<>>
      BY DEF Init
  <2>. QED
      BY <2>1, <2>2, <2>3, <2>4, Zenon
<1>2. /\ joined = {} /\ escaped = {} /\ overtaken = {}
      /\ Cardinality(joined) = 0 /\ departures = 0
    BY FS_EmptySet DEF Init
<1>3. portalOpened = FALSE /\ leftOpen = FALSE
    BY DEF Init
<1>4. portalOpened \in BOOLEAN /\ leftOpen \in BOOLEAN
    BY <1>3
<1>5. shown \in [Stations -> Shown] /\ setup \in {"access point", "serving", "done"}
    BY DEF Init, Shown
<1>6. 0 \in 0..MaxDepartures /\ 0 <= 1 /\ ~(0 > 0)
    BY PortalAssumption
<1>7. PortalTypeInv
    BY <1>1, <1>2, <1>4, <1>5, <1>6, Zenon DEF PortalTypeInv
<1>. QED
    BY <1>1, <1>2, <1>3, <1>6, <1>7, Zenon DEF PortalInv

LEMMA JoinStep ==
    ASSUME OneByOne, PortalInv, NEW c \in Stations, Join(c)
    PROVE  PortalInv'
<1>1. IsFiniteSet(joined) /\ Cardinality(joined) \in Nat
    BY FS_Subset, FS_CardinalityType, PortalAssumption DEF PortalInv, PortalTypeInv
<1>2. Cardinality(joined) = 0
    BY <1>1 DEF Join, OneByOne
<1>3. joined = {} /\ joined' = {c}
    BY <1>1, <1>2, FS_EmptySet DEF Join
<1>4. Cardinality(joined') <= 1
    BY <1>3, FS_Singleton
<1>5. /\ escaped = {} /\ escaped' = {}
      /\ overtaken' = IF departures > 0 THEN {c} ELSE {}
      /\ UNCHANGED departures /\ UNCHANGED setup /\ UNCHANGED requests
    BY <1>3, Parts DEF Join, RestInv
<1>6. Queue(requests)'
    BY <1>3, <1>5, Parts DEF RestInv, Queue
<1>7. shown' \in [Stations -> Shown]
    BY DEF Join, PortalInv, PortalTypeInv, Shown
<1>8. RestInv'
    BY <1>3, <1>4, <1>5, <1>6, <1>7, Parts DEF RestInv
<1>9. UNCHANGED portalOpened /\ UNCHANGED leftOpen
    BY DEF Join
<1>10. Flags' /\ FlagInv'
    BY <1>5, <1>9, Parts DEF Flags, FlagInv
<1>. QED
    BY <1>8, <1>10, Together

\* The requests of the station that leaves become those of nobody.
LEMMA LeaveStep ==
    ASSUME PortalInv, NEW c \in Stations, Leave(c)
    PROVE  PortalInv'
<1>1. joined = {c} /\ joined' = {}
    BY AtMostOne DEF Leave
<1>2. Queue(requests)'
  <2>1. requests \in Seq(Requests) /\ \A n \in DOMAIN requests : requests[n].from \in {c, Nobody}
      BY <1>1, Parts DEF RestInv, Queue
  <2>2. Len(requests) \in Nat /\ DOMAIN requests = 1..Len(requests)
        /\ \A n \in 1..Len(requests) : requests[n] \in Requests
      BY <2>1, LenProperties, ElementOfSeq
  <2>3. \A n \in DOMAIN requests :
            (IF requests[n].from = c THEN [requests[n] EXCEPT !.from = Nobody] ELSE requests[n])
                \in {r \in Requests : r.from = Nobody}
    <3>. SUFFICES ASSUME NEW n \in DOMAIN requests
                  PROVE  (IF requests[n].from = c THEN [requests[n] EXCEPT !.from = Nobody]
                                                  ELSE requests[n])
                             \in {r \in Requests : r.from = Nobody}
        OBVIOUS
    <3>1. requests[n] \in Requests /\ requests[n].from \in {c, Nobody}
        BY <2>1, <2>2
    <3>. QED
        BY <3>1 DEF Requests
  <2>4. requests' \in [1..Len(requests) -> {r \in Requests : r.from = Nobody}]
      BY <2>2, <2>3 DEF Leave
  <2>5. requests' \in Seq(Requests)
      BY <2>2, <2>4, SeqDef
  <2>6. \A n \in DOMAIN requests' : requests'[n].from = Nobody
      BY <2>4
  <2>. QED
      BY <2>5, <2>6 DEF Queue
<1>3. escaped' = {} /\ overtaken' = {} /\ Cardinality(joined') <= 1
  <2>1. escaped' = {} /\ overtaken' = {}
      BY <1>1, Parts DEF Leave, RestInv
  <2>2. Cardinality(joined') <= 1
      BY <1>1, FS_EmptySet
  <2>. QED
      BY <2>1, <2>2
<1>4. departures' \in 0..MaxDepartures /\ departures' > 0
  <2>1. departures < MaxDepartures /\ departures' = departures + 1
      BY Zenon DEF Leave
  <2>2. departures \in 0..MaxDepartures /\ MaxDepartures \in Nat
      BY Parts, PortalAssumption, Zenon DEF RestInv
  <2>. QED
      BY <2>1, <2>2
<1>5. shown' \in [Stations -> Shown]
    BY DEF Leave, PortalInv, PortalTypeInv, Shown
<1>6. RestInv'
    BY <1>1, <1>2, <1>3, <1>4, <1>5, Parts DEF Leave, RestInv
<1>7. UNCHANGED portalOpened /\ UNCHANGED leftOpen
    BY DEF Leave
<1>8. Flags' /\ FlagInv'
    BY <1>3, <1>4, <1>7, Parts, Zenon DEF Flags, FlagInv
<1>. QED
    BY <1>6, <1>8, Together

LEMMA StaDisconnectedStep ==
    ASSUME PortalInv, StaDisconnected
    PROVE  PortalInv'
<1>1. joined \subseteq overtaken
    BY Parts DEF StaDisconnected, RestInv
<1>2. /\ UNCHANGED joined /\ UNCHANGED overtaken /\ UNCHANGED escaped
      /\ UNCHANGED requests /\ UNCHANGED setup /\ UNCHANGED shown
    BY DEF StaDisconnected
<1>3. departures' \in 0..MaxDepartures
  <2>1. departures > 0 /\ departures' = departures - 1
      BY Zenon DEF StaDisconnected
  <2>2. departures \in 0..MaxDepartures /\ MaxDepartures \in Nat
      BY Parts, PortalAssumption, Zenon DEF RestInv
  <2>. QED
      BY <2>1, <2>2
<1>4. RestInv'
    BY <1>1, <1>2, <1>3, Parts DEF RestInv, Queue
<1>5. escaped' \subseteq overtaken'
    BY <1>1, <1>2, Parts DEF RestInv
<1>6. portalOpened' \in BOOLEAN /\ leftOpen' \in BOOLEAN /\ (portalOpened' => leftOpen')
    BY Parts, Zenon DEF StaDisconnected, Flags
<1>. QED
    BY <1>4, <1>5, <1>6, Together, Zenon DEF Flags, FlagInv

LEMMA RequestStep ==
    ASSUME PortalInv, NEW c \in Stations, BackgroundRequest(c) \/ Follow(c)
    PROVE  PortalInv'
<1>1. PICK kind \in Kinds, browsing \in BOOLEAN : Request(c, kind, browsing)
  <2>1. CASE BackgroundRequest(c)
      BY <2>1 DEF BackgroundRequest
  <2>2. CASE Follow(c)
      BY <2>2 DEF Follow, Kinds
  <2>. QED
      BY <2>1, <2>2
<1>2. /\ [from |-> c, kind |-> kind, browsing |-> browsing] \in Requests
      /\ [from |-> c, kind |-> kind, browsing |-> browsing].from \in joined \cup {Nobody}
    BY <1>1 DEF Request, Requests
<1>3. Queue(requests')
    BY <1>1, <1>2, Parts, QueueAppend DEF Request, RestInv
<1>4. RestInv'
    BY <1>1, <1>3, Parts DEF Request, RestInv, Queue
<1>5. /\ UNCHANGED portalOpened /\ UNCHANGED leftOpen /\ UNCHANGED departures
      /\ UNCHANGED escaped /\ UNCHANGED overtaken
    BY <1>1 DEF Request
<1>6. Flags' /\ FlagInv'
    BY <1>5, Parts, Zenon DEF Flags, FlagInv
<1>. QED
    BY <1>4, <1>6, Together

\* The web server answers the station that is connected, or nobody.
LEMMA AnswerStep ==
    ASSUME PortalInv, NEW kind, NEW answer \in Shown, Answer(kind, answer)
    PROVE  /\ Head(requests).from \in joined \cup {Nobody}
           /\ RestInv'
           /\ UNCHANGED departures /\ UNCHANGED overtaken
           /\ answer # "main" => UNCHANGED escaped
           /\ answer = "main" => escaped' # {} \/ Head(requests).from = Nobody
<1>1. Queue(Tail(requests)) /\ Head(requests).from \in joined \cup {Nobody}
    BY Parts, QueueTail DEF Answer, RestInv
<1>2. Nobody \notin joined
    BY PortalAssumption DEF PortalInv, PortalTypeInv
<1>3. /\ escaped' \subseteq joined
      /\ answer # "main" => UNCHANGED escaped
      /\ answer = "main" => escaped' # {} \/ Head(requests).from = Nobody
    BY <1>1, <1>2 DEF Answer, PortalInv, PortalTypeInv
<1>4. shown' \in [Stations -> Shown]
    BY DEF Answer, PortalInv, PortalTypeInv
<1>5. Queue(requests)'
    BY <1>1 DEF Answer, Queue
<1>6. RestInv'
    BY <1>3, <1>4, <1>5, Parts DEF Answer, RestInv
<1>. QED
    BY <1>1, <1>3, <1>6 DEF Answer

LEMMA WebServerStep ==
    ASSUME PortalInv, WebServer
    PROVE  PortalInv'
<1>1. CASE Redirect \/ ServeSuccess \/ ServeCaptive
  <2>1. PICK kind \in Kinds, answer \in Shown \ {"main"} : Answer(kind, answer)
      BY <1>1 DEF Redirect, ServeSuccess, ServeCaptive, Kinds, Shown
  <2>2. RestInv' /\ UNCHANGED departures /\ UNCHANGED escaped /\ UNCHANGED overtaken
      BY <2>1, AnswerStep
  <2>3. UNCHANGED portalOpened /\ UNCHANGED leftOpen
      BY <1>1, Zenon DEF Redirect, ServeSuccess, ServeCaptive
  <2>4. Flags' /\ FlagInv'
      BY <2>2, <2>3, Parts, Zenon DEF Flags, FlagInv
  <2>. QED
      BY <2>2, <2>4, Together
<1>2. CASE ServeMain
  <2>1. RestInv' /\ (escaped' # {} \/ Head(requests).from = Nobody)
      BY <1>2, AnswerStep DEF ServeMain, Shown
  <2>2. portalOpened' = TRUE /\ leftOpen' = (leftOpen \/ Head(requests).from = Nobody)
      BY <1>2, Zenon DEF ServeMain
  <2>3. leftOpen' \in BOOLEAN
      BY <2>2, Zenon
  <2>4. Flags' /\ FlagInv'
      BY <2>1, <2>2, <2>3, Zenon DEF Flags, FlagInv
  <2>. QED
      BY <2>1, <2>4, Together
<1>3. CASE SendStatus
  <2>1. Queue(Tail(requests))
      BY <1>3, Parts, QueueTail DEF SendStatus, RestInv
  <2>2. RestInv'
      BY <1>3, <2>1, Parts DEF SendStatus, RestInv, Queue
  <2>3. /\ UNCHANGED portalOpened /\ UNCHANGED leftOpen /\ UNCHANGED departures
        /\ UNCHANGED escaped /\ UNCHANGED overtaken
      BY <1>3 DEF SendStatus
  <2>4. Flags' /\ FlagInv'
      BY <2>3, Parts, Zenon DEF Flags, FlagInv
  <2>. QED
      BY <2>2, <2>4, Together
<1>. QED
    BY <1>1, <1>2, <1>3 DEF WebServer, ProcessRequest

LEMMA PortalStep ==
    ASSUME OneByOne, PortalInv, [Next]_vars
    PROVE  PortalInv'
<1>1. CASE ServerBegin \/ OnEvent \/ UNCHANGED vars
  <2>1. /\ UNCHANGED joined /\ UNCHANGED departures /\ UNCHANGED requests
        /\ UNCHANGED shown /\ UNCHANGED escaped /\ UNCHANGED overtaken
      BY <1>1 DEF ServerBegin, OnEvent, vars
  <2>2. setup' \in {"access point", "serving", "done"}
      BY <1>1, Parts DEF ServerBegin, OnEvent, vars, RestInv
  <2>3. RestInv'
      BY <2>1, <2>2, Parts DEF RestInv, Queue
  <2>4. UNCHANGED portalOpened /\ UNCHANGED leftOpen
      BY <1>1 DEF ServerBegin, OnEvent, vars
  <2>5. Flags' /\ FlagInv'
      BY <2>1, <2>4, Parts, Zenon DEF Flags, FlagInv
  <2>. QED
      BY <2>3, <2>5, Together
<1>. QED
    BY <1>1, JoinStep, LeaveStep, StaDisconnectedStep, RequestStep, WebServerStep DEF Next

\* With one client at a time, as MAX_CLIENTS says, portalOpened is about the
\* station that is connected, whatever stations do and whenever they leave, but
\* for what was left open and for departures that have still to be dispatched.
THEOREM PortalInvariant == ASSUME OneByOne PROVE Spec => []PortalInv
<1>1. PortalInv /\ [Next]_vars => PortalInv'
    BY PortalStep
<1>. QED
    BY <1>1, PortalInit, PTL DEF Spec

\* With one client at a time every station that joins is shown the captive page
\* until it has got the status page, and the success page from then on, unless it
\* joined before a departure was dispatched or found the portal left open.
THEOREM PortalLetsEscape == ASSUME OneByOne PROVE Spec => CaptiveUntilEscape
<1>1. ASSUME PortalInv, ServeSuccess, ~leftOpen, Head(requests).from \notin overtaken,
             Head(requests).from # Nobody
      PROVE  Head(requests).from \in escaped
  <2>1. Head(requests).from \in joined
      BY <1>1, AnswerStep DEF ServeSuccess, Shown
  <2>2. joined = {Head(requests).from}
      BY <1>1, <2>1, AtMostOne
  <2>3. ~(departures > 0)
      BY <1>1, <2>1, Parts DEF RestInv
  <2>4. escaped # {}
      BY <1>1, <2>3, Parts, Zenon DEF ServeSuccess, FlagInv
  <2>5. escaped \subseteq joined
      BY <1>1, Parts, Zenon DEF RestInv
  <2>. QED
      BY <2>2, <2>4, <2>5
<1>2. ASSUME PortalInv, ServeCaptive
      PROVE  Head(requests).from \notin escaped \ overtaken
  <2>1. escaped \subseteq overtaken
      BY <1>2, Parts, Zenon DEF ServeCaptive, FlagInv
  <2>. QED
      BY <2>1
<1>3. PortalInv =>
        [/\ ServeSuccess => leftOpen \/ Head(requests).from \in escaped \cup overtaken \cup {Nobody}
         /\ ServeCaptive => Head(requests).from \notin escaped \ overtaken]_vars
    BY <1>1, <1>2
<1>4. PortalInv /\ [Next]_vars => PortalInv'
    BY PortalStep
<1>. QED
    BY <1>3, <1>4, PortalInit, PTL DEF Spec, CaptiveUntilEscape
=============================================================================
