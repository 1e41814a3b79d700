------------------------ MODULE InterfaceProperties ------------------------
(***************************************************************************)
(* What the loop task must guarantee.  The first group holds whatever the  *)
(* switch and the console do.  The second needs an environment in which    *)
(* every resume follows a pause: no "resume" on the console and a safety   *)
(* switch that is still between the two reads of one update() and from     *)
(* the constructors to the first update(); so do the last, about what must *)
(* happen in the end.                                                      *)
(***************************************************************************)
EXTENDS Interface

\* The machine has a job to go on with, now or when it is resumed.
Cutting == running = 1 \/ (running = 2 /\ prevRunning = 1)

\* Has update() dealt with the level the last poll read?
Polled == pc \notin {"setup", "confirm"}

-----------------------------------------------------------------------------
(* In every environment *)

\* Types of the loop task's state.  prevRunning is never 2: pausing a paused
\* machine must not forget what to go back to (Interface::setPausedStatus).
TypeInv ==
    /\ MenuTypeInv
    /\ pin \in BOOLEAN
    /\ prevState \in BOOLEAN
    /\ running \in 0..2
    /\ prevRunning \in 0..1
    /\ percent \in 0..Steps
    /\ switchPressed \in BOOLEAN
    /\ jobs \in Seq(Jobs)
    /\ Len(jobs) <= MaxJobs
    /\ pc \in Points
    /\ page \in (1..MaxRPerKit) \X (1..MaxKits) \X (0..2)

\* The end of an iteration is reached inside a loop only, and only the loop of
\* the innermost job can be at step -1, there, between its i-- and its i++: the
\* others are inside update(i) (handleStateChange).
StackInv ==
    /\ pc = "advance" => InJob
    /\ \A n \in 1..Len(jobs) : jobs[n].i = -1 => n = Len(jobs) /\ pc = "advance"

\* The button is reached by a machine that is not paused (the early return of
\* update()).
ButtonInv == pc = "button" => running # 2

\* Display and status page never lag behind the machine: whichever path led
\* here, the screen is the paused screen exactly when the machine is paused,
\* otherwise it shows the menu as it is and the right button, and the page's
\* values are the machine's (every handler ends in the two update calls).
OutputsAgree ==
    /\ page = <<rPerKit, kits, running>>
    /\ IF running = 1
       THEN \E p \in -1..Steps : lcd = UpdateAll(currentSelection, rPerKit, kits, p, 1)
       ELSE lcd = UpdateAll(currentSelection, rPerKit, kits, 0, running)

\* While the machine stays paused the operator can change nothing: menu and
\* button state are frozen, no job is started, and no step is shown.
PausedIsFrozen ==
    [][running = 2 /\ running' = 2 =>
          /\ UNCHANGED <<menuVars, switchPressed>>
          /\ Len(jobs') <= Len(jobs)
          /\ percent' \in {percent, 0}]_vars

\* A machine that is cutting is inside the loop of a job, and the job is
\* cutting the order that was announced when it was started
\* (Interface::update, handleStateChange).
CuttingHasItsJob == Cutting => InJob /\ Top.order = <<rPerKit, kits>>

\* A resume that finds the machine not running sets it running all the same
\* when prevRunning is a leftover of an earlier pause: after a pause and a
\* resume the end of the job, or Stop, clears running only.
UntimelyResume == pc \in {"confirm", "serial"} /\ running = 0 /\ running' = 1

\* Such a resume is the ONLY way in which a cutting machine can lose its job:
\* pausing, resuming a paused machine, bouncing of the switch, stopping,
\* restarting inside the loop of a stopped job, the end of a job, also while
\* it is paused, and the loops around it never leave the machine cutting
\* outside the loop of its job, or another order than was announced
\* (setPausedStatus, doneRunning, handleStateChange).
CuttingKeepsItsJob ==
    [][CuttingHasItsJob /\ ~UntimelyResume => CuttingHasItsJob']_vars

Feed == INSTANCE PageFeed

\* Of the three values that the loop task passes to the status page it changes
\* one at a time (the calls of LocalHost::updatePageInfo in Interface).  This
\* is what keeps pages from being torn by a single call, see StatusPage.
ImplementsFeed == Feed!FeedSpec

-----------------------------------------------------------------------------
(* When every resume follows a pause *)

Disciplined ==
    /\ "resume" \notin SerialLines
    /\ QuietPoints = {"setup", "confirm"}

\* The safety interlock: once update() has dealt with a switch that it read
\* as flipped, the machine is paused, and stays so until a poll reads the
\* switch as released (Interface::update, SafetySwitch::getChange).
Interlock == Polled /\ prevState => running = 2

\* What is known of the machine at the points of update(): the first poll is
\* sure to see a change; a confirmed release resumes a paused machine or is the
\* first poll.
AtPoints ==
    /\ pc = "setup" => prevState = ~pin /\ running = 0 /\ prevRunning = 0
    /\ pc = "confirm" /\ ~pin => ~prevState /\ (running = 2 \/ (running = 0 /\ prevRunning = 0))

\* The inductive invariant of the loop task in a disciplined environment.
IInv == TypeInv /\ StackInv /\ ButtonInv /\ AtPoints /\ Interlock /\ CuttingHasItsJob

\* Cutting begins and ends by the button or by the end of the job, never by
\* the safety switch or the console (Interface::setPausedStatus).
OnlyButtonOrEndChangesCutting ==
    [][Cutting' # Cutting => pc \in {"button", "advance"}]_vars

\* The abstract machine.  The steps performed: the step of a job counts once
\* update() has shown it, and is taken back when update() found the machine
\* paused before it could.
Done ==
    IF ~Cutting THEN 0
    ELSE IF pc \in {"button", "advance"} \/ (pc = "serial" /\ running = 1)
         THEN Top.i + 1
         ELSE Top.i

Machine == INSTANCE Cutter
           WITH cutting <- Cutting,
                paused  <- running = 2,
                order   <- IF Cutting THEN <<rPerKit, kits>> ELSE <<>>,
                done    <- Done

\* The loop task implements the abstract machine: every job performs each of
\* its steps once and in order, however it is paused and resumed, and only
\* the operator ends it earlier (the i-- of handleStateChange).
ImplementsCutter == Machine!Spec

-----------------------------------------------------------------------------
(* Liveness *)

\* A switch that stays flipped pauses the machine for good
\* (SafetySwitch::getChange, Interface::handleSafetySwitch).
SwitchPauses == <>[]pin => <>[](running = 2)

\* A switch that stays released does not leave the machine paused.
ReleaseResumes == <>[]~pin => <>[](running # 2)

\* Unless the switch is flipped again and again, every job loop ends, nested
\* ones included (the loop of handleStateChange repeats a step while paused).
JobsEnd == <>[]~pin => [](InJob => <>~InJob)

=============================================================================
