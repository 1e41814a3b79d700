----------------------------- MODULE StatusPage -----------------------------
(***************************************************************************)
(* The status page: class Webpages is written by the loop task             *)
(* (LocalHost::updatePageInfo) and read by the web server's task           *)
(* (getMainHTML) without any synchronisation, on a chip with two cores.    *)
(*                                                                         *)
(* The three stores of updatePageInfo are inlined and not ordered by       *)
(* anything, so they may become visible in any order.  getMainHTML reads   *)
(* the fields one after another, running twice (for the colour of the box  *)
(* and for its text), and fills them into a static copy of the template.   *)
(***************************************************************************)
EXTENDS PageFeed, FiniteSets

CONSTANT MaxWindow  \* bound: the pages that are current during one request

ASSUME StatusPageAssumption == MaxWindow \in Nat

VARIABLES stored,   \* Webpages: rPerKit, kits, running
          toStore,  \* the fields the current updatePageInfo() has still to store
          html,     \* htmlCopy: what stands at each placeholder
          next,     \* the placeholder getMainHTML() fills next, or "idle"
          window    \* (observer) the pages that were current during the request

vars == <<page, stored, toStore, html, next, window>>

Placeholders == {"rPerKit", "kits", "cuttingClass", "cuttingText"}

Hole == -1  \* the placeholder itself

\* The field of Webpages that is filled in for a placeholder
FieldOf == [rPerKit |-> 1, kits |-> 2, cuttingClass |-> 3, cuttingText |-> 3]

After == [rPerKit |-> "kits", kits |-> "cuttingClass",
          cuttingClass |-> "cuttingText", cuttingText |-> "idle"]

\* The pages of a request include those that are published during it.
Observe ==
    \/ next = "idle" /\ UNCHANGED window
    \/ next # "idle" /\ window' = window \cup {page'} /\ Cardinality(window') <= MaxWindow

Template == [p \in Placeholders |-> Hole]

-----------------------------------------------------------------------------
\* The constructor of Webpages stores zeros, that of Interface publishes the first
\* page; the server starts later, in setup().
Init ==
    /\ FeedInit
    /\ stored = page
    /\ toStore = {}
    /\ html = Template
    /\ next = "idle"
    /\ window = {}

\* The loop task calls updatePageInfo() ...
UpdatePageInfoTwoFields ==  \* faulty variant: two values change in one call
    /\ toStore = {}
    /\ page' \in Pages /\ \E f \in 1..3 : page'[f] = page[f]
    /\ toStore' = 1..3
    /\ Observe
    /\ UNCHANGED <<stored, html, next>>

UpdatePageInfo ==
    /\ toStore = {}
    /\ Publish
    /\ toStore' = 1..3
    /\ Observe
    /\ UNCHANGED <<stored, html, next>>

\* ... which stores the values.
SetField ==
    /\ \E f \in toStore :
         /\ stored' = [stored EXCEPT ![f] = page[f]]
         /\ toStore' = toStore \ {f}
    /\ UNCHANGED <<page, html, next, window>>

\* getMainHTML() begins with a fresh copy of the template ...
CopyTemplateOnce ==  \* faulty variant: the static copy is initialised, not assigned
    /\ next = "idle"
    /\ next' = "rPerKit"
    /\ window' = {stored, page}
    /\ UNCHANGED <<page, stored, toStore, html>>

CopyTemplate ==
    /\ next = "idle"
    /\ html' = Template
    /\ next' = "rPerKit"
    /\ window' = {stored, page}
    /\ UNCHANGED <<page, stored, toStore>>

\* ... and replaces each placeholder it finds.
Replace ==
    /\ next # "idle"
    /\ html' = [html EXCEPT ![next] = IF @ = Hole THEN stored[FieldOf[next]] ELSE @]
    /\ next' = After[next]
    /\ UNCHANGED <<page, stored, toStore, window>>

Next == UpdatePageInfo \/ SetField \/ CopyTemplate \/ Replace

Spec == Init /\ [][Next]_vars

-----------------------------------------------------------------------------
(* Properties *)

StatusPageTypeInv ==
    /\ page \in Pages /\ stored \in Pages
    /\ toStore \subseteq 1..3
    /\ html \in [Placeholders -> {Hole} \cup Int]
    /\ next \in Placeholders \cup {"idle"}
    /\ window \subseteq Pages

\* A page that has been filled in
Served == next = "idle" /\ window # {}

\* Every value on a page was current at some time during its own request,
\* nothing is left from an earlier one (getMainHTML, with its static copy).
ValuesAreRecent ==
    Served => \A p \in Placeholders : \E w \in window : html[p] = w[FieldOf[p]]

\* If the values change once during a request, numbers and text are those of
\* one moment: the torn pages that the missing synchronisation allows need two
\* changes (updatePageInfo against getMainHTML).
OneChangeDoesNotTear ==
    Served => \A v, w \in window :
        window = {v, w} => <<html["rPerKit"], html["kits"], html["cuttingText"]>> \in {v, w}

\* The placeholders that have been filled when getMainHTML() has got to next
Filled == [rPerKit |-> {}, kits |-> {"rPerKit"}, cuttingClass |-> {"rPerKit", "kits"},
           cuttingText |-> {"rPerKit", "kits", "cuttingClass"}, idle |-> Placeholders]

\* Why they hold: class Webpages is one value behind the loop task at most, so
\* what it stores is always a page, of the last two.
StatusPageInv ==
    /\ StatusPageTypeInv
    /\ Neighbours(stored, page)
    /\ \A f \in (1..3) \ toStore : stored[f] = page[f]
    /\ next # "idle" => {stored, page} \subseteq window
    /\ \A v, w \in window : window = {v, w} => Neighbours(v, w)
    /\ window # {} =>
          /\ \A p \in Filled[next] : \E w \in window : html[p] = w[FieldOf[p]]
          /\ \A p \in Placeholders \ Filled[next] : html[p] = Hole
=============================================================================
