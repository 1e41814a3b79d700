-------------------------- MODULE StatusPageProofs --------------------------
(***************************************************************************)
(* Proofs about the status page, for every menu, for every number of calls *)
(* of updatePageInfo() during a request and every order of their stores.   *)
(***************************************************************************)
EXTENDS StatusPage, TLAPS

LEMMA NeighboursSymmetric ==
    ASSUME NEW v \in Pages, NEW w \in Pages, Neighbours(v, w)
    PROVE  Neighbours(w, v)
    BY DEF Neighbours

\* The fields of a page, and what it is made of.
LEMMA Fields ==
    ASSUME NEW w \in Pages
    PROVE  /\ w = <<w[1], w[2], w[3]>>
           /\ \A f \in 1..3 : w[f] \in Int /\ w[f] # Hole
    BY PageFeedAssumption DEF Pages, Hole

LEMMA FieldOfType == \A p \in Placeholders : FieldOf[p] \in 1..3
    BY DEF Placeholders, FieldOf

\* One store makes class Webpages equal to the current page, or changes nothing.
LEMMA StoreCatchesUp ==
    ASSUME StatusPageInv, NEW f \in toStore, stored' = [stored EXCEPT ![f] = page[f]]
    PROVE  stored' \in {stored, page}
<1>1. stored \in Pages /\ page \in Pages /\ f \in 1..3
    BY DEF StatusPageInv, StatusPageTypeInv
<1>2. PICK h \in 1..3 : \A g \in (1..3) \ {h} : stored[g] = page[g]
    BY DEF StatusPageInv, Neighbours
<1>3. stored = <<stored[1], stored[2], stored[3]>> /\ page = <<page[1], page[2], page[3]>>
    BY <1>1, Fields
<1>4. CASE f = h
  <2>1. \A g \in 1..3 : stored'[g] = page[g]
      BY <1>1, <1>2, <1>4 DEF Pages
  <2>2. stored' = <<stored'[1], stored'[2], stored'[3]>>
      BY <1>1 DEF Pages
  <2>. QED
      BY <1>3, <2>1, <2>2
<1>5. CASE f # h
  <2>1. \A g \in 1..3 : stored'[g] = stored[g]
      BY <1>1, <1>2, <1>5 DEF Pages
  <2>2. stored' = <<stored'[1], stored'[2], stored'[3]>>
      BY <1>1 DEF Pages
  <2>. QED
      BY <1>3, <2>1, <2>2
<1>. QED
    BY <1>4, <1>5

LEMMA StatusPageInit == Init => StatusPageInv
<1>. SUFFICES ASSUME Init PROVE StatusPageInv
    OBVIOUS
<1>1. page = <<1, 1, 0>> /\ page \in Pages /\ stored = page /\ window = {} /\ next = "idle"
    BY PageFeedAssumption DEF Init, FeedInit, Pages
<1>2. html \in [Placeholders -> {Hole} \cup Int] /\ toStore = {}
    BY DEF Init, Template
<1>. QED
    BY <1>1, <1>2 DEF StatusPageInv, StatusPageTypeInv, Neighbours

LEMMA UpdatePageInfoStep ==
    ASSUME StatusPageInv, UpdatePageInfo
    PROVE  StatusPageInv'
<1>1. /\ stored = page /\ page \in Pages /\ page' \in Pages /\ Neighbours(page, page')
      /\ UNCHANGED <<stored, html, next>> /\ toStore' = 1..3
    <2>1. stored \in Pages /\ page \in Pages /\ \A f \in 1..3 : stored[f] = page[f]
        BY DEF UpdatePageInfo, StatusPageInv, StatusPageTypeInv
    <2>. QED
        BY <2>1, Fields DEF UpdatePageInfo, Publish
<1>2. CASE next = "idle"
  <2>1. window' = window
      BY <1>2 DEF UpdatePageInfo, Observe
  <2>. QED
      BY <1>1, <1>2, <2>1 DEF StatusPageInv, StatusPageTypeInv
<1>3. CASE next # "idle"
  <2>1. window' = window \cup {page'} /\ page \in window
      BY <1>3 DEF UpdatePageInfo, Observe, StatusPageInv
  <2>2. StatusPageTypeInv' /\ Neighbours(stored, page)' /\ {stored, page}' \subseteq window'
      BY <1>1, <2>1 DEF StatusPageInv, StatusPageTypeInv
  <2>3. ASSUME NEW v \in window', NEW w \in window', window' = {v, w}
        PROVE  Neighbours(v, w)
    <3>1. CASE page' \in window
        BY <2>1, <2>3, <3>1 DEF StatusPageInv
    <3>2. CASE page' \notin window
      <4>1. (v = page /\ w = page') \/ (v = page' /\ w = page)
          BY <2>1, <2>3, <3>2
      <4>. QED
          BY <1>1, <4>1, NeighboursSymmetric
    <3>. QED
        BY <3>1, <3>2
  <2>4. /\ \A p \in Filled[next'] : \E w \in window' : html'[p] = w[FieldOf[p]]
        /\ \A p \in Placeholders \ Filled[next'] : html'[p] = Hole
      BY <1>1, <2>1 DEF StatusPageInv
  <2>. QED
      BY <1>1, <2>2, <2>3, <2>4 DEF StatusPageInv
<1>. QED
    BY <1>2, <1>3

LEMMA SetFieldStep ==
    ASSUME StatusPageInv, SetField
    PROVE  StatusPageInv'
<1>1. PICK f \in toStore : stored' = [stored EXCEPT ![f] = page[f]] /\ toStore' = toStore \ {f}
    BY DEF SetField
<1>2. stored' \in {stored, page} /\ UNCHANGED <<page, html, next, window>>
    BY <1>1, StoreCatchesUp DEF SetField
<1>3. stored \in Pages /\ page \in Pages /\ toStore \subseteq 1..3
    BY DEF StatusPageInv, StatusPageTypeInv
<1>4. \A g \in (1..3) \ toStore' : stored'[g] = page'[g]
    BY <1>1, <1>2, <1>3 DEF StatusPageInv, Pages
<1>5. StatusPageTypeInv' /\ Neighbours(stored, page)'
    BY <1>1, <1>2, <1>3 DEF StatusPageInv, StatusPageTypeInv, Neighbours
<1>. QED
    BY <1>2, <1>4, <1>5 DEF StatusPageInv

LEMMA CopyTemplateStep ==
    ASSUME StatusPageInv, CopyTemplate
    PROVE  StatusPageInv'
<1>1. stored \in Pages /\ page \in Pages /\ Neighbours(stored, page)
    BY DEF StatusPageInv, StatusPageTypeInv
<1>2. /\ html' = Template /\ next' = "rPerKit" /\ window' = {stored, page}
      /\ UNCHANGED <<page, stored, toStore>>
    BY DEF CopyTemplate
<1>3. StatusPageTypeInv'
    BY <1>1, <1>2 DEF StatusPageInv, StatusPageTypeInv, Template, Placeholders
<1>4. ASSUME NEW v \in window', NEW w \in window', window' = {v, w}
      PROVE  Neighbours(v, w)
  <2>1. (v = stored /\ w = page) \/ (v = page /\ w = stored)
      BY <1>2, <1>4
  <2>. QED
      BY <1>1, <2>1, NeighboursSymmetric
<1>5. Filled[next'] = {} /\ \A p \in Placeholders : html'[p] = Hole
    BY <1>2 DEF Filled, Template
<1>. QED
    BY <1>1, <1>2, <1>3, <1>4, <1>5 DEF StatusPageInv

LEMMA ReplaceStep ==
    ASSUME StatusPageInv, Replace
    PROVE  StatusPageInv'
<1>1. next \in Placeholders /\ stored \in window /\ stored \in Pages
    BY DEF Replace, StatusPageInv, StatusPageTypeInv
<1>2. UNCHANGED <<page, stored, toStore, window>> /\ next' = After[next]
    BY DEF Replace
<1>3. html' = [html EXCEPT ![next] = stored[FieldOf[next]]]
  <2>1. html[next] = Hole
      BY <1>1 DEF StatusPageInv, Filled, Placeholders
  <2>. QED
      BY <2>1 DEF Replace
<1>4. stored[FieldOf[next]] \in Int
    BY <1>1, Fields, FieldOfType
<1>5. html \in [Placeholders -> {Hole} \cup Int]
    BY DEF StatusPageInv, StatusPageTypeInv
<1>6. StatusPageTypeInv'
    BY <1>1, <1>2, <1>3, <1>4, <1>5 DEF StatusPageInv, StatusPageTypeInv, After, Placeholders
<1>7. /\ Filled[next'] = Filled[next] \cup {next}
      /\ Filled[next] \subseteq Placeholders
    BY <1>1, <1>2 DEF Filled, After, Placeholders
<1>8. \A p \in Filled[next'] : \E w \in window' : html'[p] = w[FieldOf[p]]
    BY <1>1, <1>2, <1>3, <1>5, <1>7 DEF StatusPageInv
<1>9. \A p \in Placeholders \ Filled[next'] : html'[p] = Hole
    BY <1>1, <1>2, <1>3, <1>5, <1>7 DEF StatusPageInv
<1>10. /\ Neighbours(stored, page)'
       /\ \A f \in (1..3) \ toStore' : stored'[f] = page'[f]
       /\ {stored, page}' \subseteq window'
       /\ \A v, w \in window' : window' = {v, w} => Neighbours(v, w)
  <2>1. {stored, page} \subseteq window
      BY DEF Replace, StatusPageInv
  <2>. QED
      BY <1>2, <2>1 DEF StatusPageInv, Neighbours
<1>. QED
    BY <1>6, <1>8, <1>9, <1>10 DEF StatusPageInv

LEMMA StatusPageStep ==
    ASSUME StatusPageInv, [Next]_vars
    PROVE  StatusPageInv'
<1>1. CASE UNCHANGED vars
    BY <1>1 DEF vars, StatusPageInv, StatusPageTypeInv
<1>. QED
    BY <1>1, UpdatePageInfoStep, SetFieldStep, CopyTemplateStep, ReplaceStep DEF Next

\* At every moment of a request the stored fields make up, but for one change that is
\* being stored, a page of its time, and so does what has been filled in.
THEOREM StatusPageInvariant == Spec => []StatusPageInv
<1>. QED
    BY StatusPageInit, StatusPageStep, PTL DEF Spec

\* Nothing on a page is older than its request.
THEOREM PagesAreRecent == Spec => []ValuesAreRecent
<1>1. StatusPageInv => ValuesAreRecent
    BY DEF StatusPageInv, ValuesAreRecent, Served, Filled
<1>. QED
    BY <1>1, StatusPageInit, StatusPageStep, PTL DEF Spec

\* One change during a request leaves its page whole: numbers and text are
\* those before the change or those after it.
THEOREM PagesAreWhole == Spec => []OneChangeDoesNotTear
<1>1. ASSUME StatusPageInv, Served, NEW v \in window, NEW w \in window, window = {v, w}
      PROVE  <<html["rPerKit"], html["kits"], html["cuttingText"]>> \in {v, w}
  <2>1. v \in Pages /\ w \in Pages
      BY <1>1 DEF StatusPageInv, StatusPageTypeInv
  <2>2. PICK f \in 1..3 : \A g \in (1..3) \ {f} : v[g] = w[g]
      BY <1>1 DEF StatusPageInv, Neighbours
  <2>3. /\ html["rPerKit"] \in {v[1], w[1]}
        /\ html["kits"] \in {v[2], w[2]}
        /\ html["cuttingText"] \in {v[3], w[3]}
      BY <1>1 DEF StatusPageInv, Served, Filled, Placeholders, FieldOf
  <2>4. v = <<v[1], v[2], v[3]>> /\ w = <<w[1], w[2], w[3]>>
      BY <2>1, Fields
  <2>5. \/ html["rPerKit"] = v[1] /\ html["kits"] = v[2] /\ html["cuttingText"] = v[3]
        \/ html["rPerKit"] = w[1] /\ html["kits"] = w[2] /\ html["cuttingText"] = w[3]
    <3>1. CASE f = 1
        BY <2>2, <2>3, <3>1
    <3>2. CASE f = 2
        BY <2>2, <2>3, <3>2
    <3>3. CASE f = 3
        BY <2>2, <2>3, <3>3
    <3>. QED
        BY <3>1, <3>2, <3>3
  <2>. QED
      BY <2>4, <2>5
<1>2. StatusPageInv => OneChangeDoesNotTear
    BY <1>1 DEF OneChangeDoesNotTear
<1>. QED
    BY <1>2, StatusPageInit, StatusPageStep, PTL DEF Spec
=============================================================================
