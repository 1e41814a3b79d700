------------------------------ MODULE PageFeed ------------------------------
(***************************************************************************)
(* What the status page is fed with: the calls of updatePageInfo() that    *)
(* the loop task makes.  Interface implements this module, StatusPage      *)
(* builds on it, so that what StatusPage shows of the page holds of the    *)
(* pages of the real loop task.                                            *)
(***************************************************************************)
EXTENDS Integers

CONSTANTS MaxRPerKit,  \* largest number of resistors per kit (10 in the code)
          MaxKits      \* largest number of kits (50 in the code)

ASSUME PageFeedAssumption ==
    /\ MaxRPerKit \in Nat \ {0}
    /\ MaxKits \in Nat \ {0}

VARIABLE page  \* the arguments of the last call: rPerKit, kits, running

Pages == (1..MaxRPerKit) \X (1..MaxKits) \X (0..2)

FeedInit == page = <<1, 1, 0>>

\* Two pages that differ in one value at most
Neighbours(p, q) == \E f \in 1..3 : \A g \in 1..3 \ {f} : p[g] = q[g]

\* The loop task changes one value between two calls.
Publish == page' \in Pages /\ Neighbours(page, page')

FeedSpec == FeedInit /\ [][Publish]_page
=============================================================================
