------------------------------- MODULE Portal -------------------------------
(***************************************************************************)
(* The captive portal (class LocalHost).  A device that joins the access   *)
(* point probes for the internet; every name resolves to the cutter, which *)
(* redirects the probe to its own root page.  There it serves              *)
(*   captive: the page that makes the device open its portal browser,      *)
(*   success: the page that lets it leave that browser again,              *)
(*   main:    the status page, to the link that both of them lead to.      *)
(* One flag, portalOpened, says which of the first two is due.  It is set  *)
(* by the web server's task and reset by the task that dispatches the WiFi *)
(* events, when a station has disconnected.                                *)
(***************************************************************************)
EXTENDS Integers, Sequences, FiniteSets

CONSTANTS Stations,      \* the devices around
          MaxClients,    \* MAX_CLIENTS: how many of them the access point accepts
          MaxRequests,   \* bound: with this many waiting requests, no others are made in the
                         \* background; with more, no station leaves
          MaxDepartures  \* bound: disconnections waiting to be dispatched

CONSTANT Nobody  \* the sender of a request who has left since

ASSUME PortalAssumption ==
    /\ IsFiniteSet(Stations) /\ Nobody \notin Stations
    /\ MaxClients \in Nat /\ MaxRequests \in Nat /\ MaxDepartures \in Nat

VARIABLES portalOpened,
          setup,       \* how far LocalHost::setup() has got
          joined,      \* the stations that are connected
          departures,  \* disconnections that have not been dispatched
          requests,    \* requests that wait for the web server, in order
          shown,       \* what the browser of a station shows since it joined
          escaped,     \* (observer) who has got the status page since it joined
          overtaken,   \* (observer) who has joined before the departure of another was dispatched
          leftOpen     \* (observer) someone who had left opened the portal, or a departure was lost

vars == <<portalOpened, setup, joined, departures, requests, shown, escaped, overtaken, leftOpen>>

\* What is asked for: a probe for the internet, something that is only answered
\* with a status code, "/", "/" with the parameter redirect, or "/" on a host of
\* citrix.
Kinds == {"probe", "status", "root", "redirect", "citrix"}

Shown == {"none", "toRoot", "captive", "success", "main"}

Requests == [from: Stations \cup {Nobody}, kind: Kinds, browsing: BOOLEAN]

-----------------------------------------------------------------------------
Init ==
    /\ portalOpened = FALSE
    /\ setup = "access point"
    /\ joined = {}
    /\ departures = 0
    /\ requests = <<>>
    /\ shown = [c \in Stations |-> "none"]
    /\ escaped = {}
    /\ overtaken = {}
    /\ leftOpen = FALSE

\* LocalHost::setup(): the web server begins before the event is listened to.
ServerBegin ==
    /\ setup = "access point" /\ setup' = "serving"
    /\ UNCHANGED <<portalOpened, joined, departures, requests, shown, escaped, overtaken, leftOpen>>

OnEvent ==
    /\ setup = "serving" /\ setup' = "done"
    /\ UNCHANGED <<portalOpened, joined, departures, requests, shown, escaped, overtaken, leftOpen>>

\* WiFi.softAP: the access point accepts MaxClients stations, as soon as it
\* runs, and does not wait until the departure of another has been dispatched.
JoinOneMore(c) ==  \* faulty variant: one station too many
    /\ c \notin joined /\ Cardinality(joined) <= MaxClients
    /\ joined' = joined \cup {c}
    /\ shown' = [shown EXCEPT ![c] = "none"]
    /\ overtaken' = IF departures > 0 THEN overtaken \cup {c} ELSE overtaken
    /\ UNCHANGED <<portalOpened, setup, departures, requests, escaped, leftOpen>>

Join(c) ==
    /\ c \notin joined /\ Cardinality(joined) < MaxClients
    /\ joined' = joined \cup {c}
    /\ shown' = [shown EXCEPT ![c] = "none"]
    /\ overtaken' = IF departures > 0 THEN overtaken \cup {c} ELSE overtaken
    /\ UNCHANGED <<portalOpened, setup, departures, requests, escaped, leftOpen>>

\* A station leaves; what it has asked for is answered all the same.
Leave(c) ==
    /\ c \in joined
    /\ departures < MaxDepartures /\ Len(requests) <= MaxRequests
    /\ joined' = joined \ {c}
    /\ departures' = departures + 1
    /\ requests' = [n \in DOMAIN requests |->
                        IF requests[n].from = c THEN [requests[n] EXCEPT !.from = Nobody]
                                                ELSE requests[n]]
    /\ shown' = [shown EXCEPT ![c] = "none"]
    /\ escaped' = escaped \ {c}
    /\ overtaken' = overtaken \ {c}
    /\ UNCHANGED <<portalOpened, setup, leftOpen>>

\* ARDUINO_EVENT_WIFI_AP_STADISCONNECTED, which is lost as long as nothing
\* listens to it
StaDisconnectedKeeps ==  \* faulty variant: the flag is never reset
    /\ departures > 0 /\ departures' = departures - 1
    /\ leftOpen' = (setup # "done")
    /\ UNCHANGED <<portalOpened, setup, joined, requests, shown, escaped, overtaken>>

StaDisconnected ==
    /\ departures > 0 /\ departures' = departures - 1
    /\ portalOpened' = (portalOpened /\ setup # "done")
    /\ leftOpen' = (setup # "done")
    /\ UNCHANGED <<setup, joined, requests, shown, escaped, overtaken>>

Request(c, kind, browsing) ==
    /\ c \in joined
    /\ requests' = Append(requests, [from |-> c, kind |-> kind, browsing |-> browsing])
    /\ UNCHANGED <<portalOpened, setup, joined, departures, shown, escaped, overtaken, leftOpen>>

\* Something else on the station probes, opens a page or asks for an icon.
BackgroundRequest(c) ==
    Len(requests) < MaxRequests /\ \E kind \in Kinds : Request(c, kind, FALSE)

\* The browser probes, and follows what it is shown: a redirection, the refresh
\* of the captive and of the success page, and that of the status page.
Follow(c) ==
    /\ \A n \in DOMAIN requests : ~(requests[n].from = c /\ requests[n].browsing)
    /\ \/ shown[c] = "none" /\ Request(c, "probe", TRUE)
       \/ shown[c] = "toRoot" /\ Request(c, "root", TRUE)
       \/ shown[c] \in {"captive", "success", "main"} /\ Request(c, "redirect", TRUE)

\* The web server takes the next request and answers it ...
Answer(kind, answer) ==
    /\ setup # "access point"
    /\ requests # <<>> /\ Head(requests).kind = kind
    /\ requests' = Tail(requests)
    /\ shown' = [c \in Stations |->
                    IF c = Head(requests).from /\ Head(requests).browsing THEN answer ELSE shown[c]]
    /\ escaped' = IF answer = "main" THEN escaped \cup ({Head(requests).from} \ {Nobody}) ELSE escaped
    /\ UNCHANGED <<setup, joined, departures, overtaken>>

\* ... by the handlers of setUpWebserver ...
Redirect == Answer("probe", "toRoot") /\ UNCHANGED <<portalOpened, leftOpen>>

SendStatus ==
    /\ setup # "access point"
    /\ requests # <<>> /\ Head(requests).kind \in {"status", "citrix"}
    /\ requests' = Tail(requests)
    /\ UNCHANGED <<portalOpened, setup, joined, departures, shown, escaped, overtaken, leftOpen>>

\* ... or by processRequest.
ServeMainOnly ==  \* faulty variant: the flag is not set
    /\ Answer("redirect", "main")
    /\ leftOpen' = (leftOpen \/ Head(requests).from = Nobody)
    /\ UNCHANGED portalOpened

ServeMainOnce ==  \* faulty variant: portalOpened is looked at before the parameter
    \/ ~portalOpened /\ Answer("redirect", "main") /\ portalOpened' = TRUE /\ UNCHANGED leftOpen
    \/ portalOpened /\ Answer("redirect", "success") /\ UNCHANGED <<portalOpened, leftOpen>>

ServeMain ==
    /\ Answer("redirect", "main")
    /\ portalOpened' = TRUE
    /\ leftOpen' = (leftOpen \/ Head(requests).from = Nobody)

ServeSuccess == portalOpened /\ Answer("root", "success") /\ UNCHANGED <<portalOpened, leftOpen>>

ServeCaptive == ~portalOpened /\ Answer("root", "captive") /\ UNCHANGED <<portalOpened, leftOpen>>

ProcessRequest == ServeMain \/ ServeSuccess \/ ServeCaptive

WebServer == Redirect \/ SendStatus \/ ProcessRequest

Next ==
    \/ ServerBegin \/ OnEvent \/ StaDisconnected \/ WebServer
    \/ \E c \in Stations : Join(c) \/ Leave(c) \/ BackgroundRequest(c) \/ Follow(c)

Spec == Init /\ [][Next]_vars

\* setup() gets done, both tasks keep running, and a browser follows.
FairSpec ==
    /\ Spec
    /\ WF_vars(ServerBegin) /\ WF_vars(OnEvent)
    /\ WF_vars(WebServer) /\ WF_vars(StaDisconnected)
    /\ \A c \in Stations : WF_vars(Follow(c))

-----------------------------------------------------------------------------
(* Properties *)

PortalTypeInv ==
    /\ portalOpened \in BOOLEAN /\ leftOpen \in BOOLEAN
    /\ setup \in {"access point", "serving", "done"}
    /\ joined \subseteq Stations /\ escaped \subseteq joined /\ overtaken \subseteq joined
    /\ departures \in 0..MaxDepartures
    /\ requests \in Seq(Requests)
    /\ shown \in [Stations -> Shown]

\* With MAX_CLIENTS 1 a station is led to the portal when it joins and can leave
\* it afterwards (LocalHost::processRequest): it gets the success page only when
\* it has got the status page, and the captive page only until then, although
\* one flag serves all stations, requests of those who have left are still
\* answered, and departures are dispatched by another task.  Exceptions are a
\* station that joins before the departure of another has been dispatched, and,
\* of the success page, that someone who had left has opened the portal since the
\* last departure was dispatched, or that this departure came to nobody, during
\* setup().
CaptiveUntilEscape ==
    [][/\ ServeSuccess => leftOpen \/ Head(requests).from \in escaped \cup overtaken \cup {Nobody}
       /\ ServeCaptive => Head(requests).from \notin escaped \ overtaken]_vars

\* Why this holds: portalOpened (LocalHost.h) is the state of the one station
\* that is connected, once the departures have been dispatched.  Late answers and
\* lost departures can only leave the portal open, and only a departure that is
\* still to be dispatched can close it under the station that has joined since.
PortalInv ==
    /\ PortalTypeInv
    /\ Cardinality(joined) <= 1
    /\ \A n \in DOMAIN requests : requests[n].from \in joined \cup {Nobody}
    /\ departures > 0 => joined \subseteq overtaken
    /\ ~portalOpened => escaped \subseteq overtaken
    /\ portalOpened => escaped # {} \/ leftOpen \/ departures > 0

\* A browser that follows its pages reaches the status page, if its station
\* stays, whatever other stations do and whatever else this one asks for.
FollowerReachesMain ==
    \A c \in Stations : c \in joined ~> (shown[c] = "main" \/ c \notin joined)
=============================================================================
