------------------------------- MODULE Cutter -------------------------------
(***************************************************************************)
(* What the machine promises its operator, as an abstract specification:   *)
(* a job is started for an order, performs the steps 0..Steps one after    *)
(* the other, may be paused and resumed any number of times without a step *)
(* being lost or repeated, and ends when the operator stops it or when its *)
(* last step is done.  Interface implements this specification as long as  *)
(* every resume follows a pause.                                           *)
(***************************************************************************)
EXTENDS Integers

CONSTANTS Orders,  \* the orders a job can be started for
          Steps    \* a job has the steps 0..Steps

VARIABLES cutting,  \* is there a job that is neither finished nor stopped?
          paused,   \* is the machine paused?
          order,    \* the order of the job, <<>> when there is none
          done      \* how many steps of the job have been performed

vars == <<cutting, paused, order, done>>

NoJob == cutting' = FALSE /\ order' = <<>> /\ done' = 0

Init ==
    /\ cutting = FALSE /\ order = <<>> /\ done = 0
    /\ paused = FALSE

Start ==
    /\ ~cutting /\ ~paused
    /\ cutting' = TRUE
    /\ order' \in Orders
    /\ done' = 0
    /\ UNCHANGED paused

Perform ==
    /\ cutting /\ ~paused /\ done <= Steps
    /\ done' = done + 1
    /\ UNCHANGED <<cutting, paused, order>>

Stop == cutting /\ ~paused /\ NoJob /\ UNCHANGED paused

\* The last step may be followed by a pause before the job is wound up.
Finish == cutting /\ done = Steps + 1 /\ NoJob /\ UNCHANGED paused

Pause == ~paused /\ paused' = TRUE /\ UNCHANGED <<cutting, order, done>>

Resume == paused /\ paused' = FALSE /\ UNCHANGED <<cutting, order, done>>

Next == Start \/ Perform \/ Stop \/ Finish \/ Pause \/ Resume

Spec == Init /\ [][Next]_vars
=============================================================================
