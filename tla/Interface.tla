------------------------------ MODULE Interface ------------------------------
(***************************************************************************)
(* The loop task of the resistor cutter: the class Interface, the safety   *)
(* switch it polls, and the sketch ResistorCutter.ino that drives it.      *)
(*                                                                         *)
(* Everything here runs in one thread, Arduino's loopTask, so the program  *)
(* counter pc is a single value.  Its call stack matters: the Start button *)
(* is handled INSIDE update(), and its callback handleStateChange() runs a *)
(* whole job, a loop that calls update() again, before it returns.  jobs   *)
(* is the stack of those loops, the innermost last.                        *)
(*                                                                         *)
(* Around the task are the safety switch, whose level may change between   *)
(* any two reads of the pin, the button and the joystick, read once per    *)
(* update, and the serial console.                                         *)
(***************************************************************************)
EXTENDS Menu, Display, Sequences

CONSTANTS Steps,        \* a job is the loop i = 0..Steps (100 in the code)
          MaxJobs,      \* bound: the button is not pressed with this many loops active
          SerialLines,  \* the commands that may arrive on the serial console
          QuietPoints   \* program points at which the safety switch is assumed still

ASSUME InterfaceAssumption ==
    /\ Steps \in Nat
    /\ MaxJobs \in Nat \ {0}
    /\ SerialLines \subseteq {"pause", "resume"}
    /\ QuietPoints \subseteq {"setup", "confirm"}

VARIABLES pin,            \* the level of the safety switch, TRUE when it is flipped
          prevState,      \* SafetySwitch: the level getChange() saw last
          running,        \* 0 = not running, 1 = running, 2 = paused
          prevRunning,    \* what running was when the machine was paused
          percent,        \* Interface's percent: the step last shown
          switchPressed,  \* has the current press of the button been handled?
          jobs,           \* the active loops of handleStateChange, innermost last
          pc,             \* where the task is in update(), or after it
          lcd,            \* what the Nokia display shows
          page            \* the values the status page is generated from

machineVars == <<running, prevRunning>>
outputs == <<lcd, page>>
vars == <<menuVars, pin, prevState, machineVars, percent, switchPressed, jobs, pc, outputs>>

\* update() polls the switch ("poll", and "setup" the first time), confirms a
\* change, handles the joystick or shows progress ("act"), then the button;
\* after it come the serial console and, in a job, the end of the iteration.
Points == {"setup", "poll", "confirm", "act", "button", "serial", "advance"}

Orders == (1..MaxRPerKit) \X (1..MaxKits)

Jobs == [i: -1..Steps, order: Orders]

-----------------------------------------------------------------------------
(* The outputs *)

\* The pair of calls display.updateAll(...) and localHost.updatePageInfo(...)
Refresh ==
    /\ lcd' = UpdateAll(currentSelection', rPerKit', kits', percent', running')
    /\ page' = <<rPerKit', kits', running'>>

-----------------------------------------------------------------------------
(* Interface::setPausedStatus and Interface::doneRunning.  Each operator is   *)
(* preceded by faulty variants, what it would be after a plausible slip: the  *)
(* properties of InterfaceProperties are validated by failing on them.        *)

SetPausedStatusForgets(paused) ==  \* pausing twice overwrites prevRunning
    /\ running' = IF paused THEN 2 ELSE prevRunning
    /\ prevRunning' = IF paused THEN running ELSE prevRunning

SetPausedStatusStarts(paused) ==  \* "resume" means "run"
    /\ running' = IF paused THEN 2 ELSE 1
    /\ prevRunning' = IF paused /\ running # 2 THEN running ELSE prevRunning

SetPausedStatusDrops(paused) ==  \* prevRunning is not saved
    /\ running' = IF paused THEN 2 ELSE prevRunning
    /\ UNCHANGED prevRunning

SetPausedStatus(paused) ==
    /\ running' = IF paused THEN 2 ELSE prevRunning
    /\ prevRunning' = IF paused /\ running # 2 THEN running ELSE prevRunning

DoneRunningSilently ==  \* the outputs are not refreshed
    \/ running = 0 /\ UNCHANGED <<machineVars, percent, outputs>>
    \/ running = 1 /\ running' = 0 /\ percent' = 0 /\ UNCHANGED <<prevRunning, outputs>>
    \/ running = 2 /\ prevRunning' = 0 /\ percent' = 0 /\ UNCHANGED <<running, outputs>>

DoneRunningUnlessPaused ==  \* a paused machine keeps the job to go back to
    \/ running # 1 /\ UNCHANGED <<machineVars, percent, outputs>>
    \/ running = 1 /\ running' = 0 /\ percent' = 0 /\ UNCHANGED prevRunning /\ Refresh

DoneRunning ==
    \/ running = 0 /\ UNCHANGED <<machineVars, percent, outputs>>
    \/ running = 1 /\ running' = 0 /\ percent' = 0 /\ UNCHANGED prevRunning /\ Refresh
    \/ running = 2 /\ prevRunning' = 0 /\ percent' = 0 /\ UNCHANGED running /\ Refresh

-----------------------------------------------------------------------------
(* The stack of job loops *)

InJob == jobs # <<>>

Top == jobs[Len(jobs)]

WithStep(i) == [jobs EXCEPT ![Len(jobs)].i = i]

Popped == SubSeq(jobs, 1, Len(jobs) - 1)

-----------------------------------------------------------------------------
(* The constructors: all objects are globals, so what they do not assign is 0;
   prevState starts as the opposite of the pin. *)
Init ==
    /\ MenuInit
    /\ pin \in BOOLEAN
    /\ prevState = ~pin
    /\ running = 0 /\ prevRunning = 0
    /\ percent = 0
    /\ switchPressed = FALSE
    /\ jobs = <<>>
    /\ pc = "setup"
    /\ lcd = UpdateAll(0, 1, 1, 0, 0)
    /\ page = <<1, 1, 0>>

GetChangeWhileRunning ==  \* a machine that is not running ignores the switch
    /\ pc \in {"setup", "poll"}
    /\ prevState' = pin
    /\ pc' = IF pin # prevState /\ running # 0 THEN "confirm" ELSE "act"
    /\ UNCHANGED <<menuVars, pin, machineVars, percent, switchPressed, jobs, outputs>>

GetChangeForgets ==  \* prevState is not updated
    /\ pc \in {"setup", "poll"}
    /\ pc' = IF pin # prevState THEN "confirm" ELSE "act"
    /\ UNCHANGED <<menuVars, pin, prevState, machineVars, percent, switchPressed, jobs, outputs>>

\* update(), first lines: safetySwitch.getChange() reads the pin ...
GetChange ==
    /\ pc \in {"setup", "poll"}
    /\ prevState' = pin
    /\ pc' = IF pin # prevState THEN "confirm" ELSE "act"
    /\ UNCHANGED <<menuVars, pin, machineVars, percent, switchPressed, jobs, outputs>>

HandleSafetySwitchPauses ==  \* only a flip is handled, never a release
    /\ pc = "confirm"
    /\ pc' = "act"
    /\ UNCHANGED <<menuVars, pin, prevState, percent, switchPressed, jobs>>
    /\ IF pin THEN SetPausedStatus(TRUE) /\ Refresh ELSE UNCHANGED <<machineVars, outputs>>

\* ... and handleSafetySwitch() reads it again.
HandleSafetySwitch ==
    /\ pc = "confirm"
    /\ SetPausedStatus(pin)
    /\ pc' = "act"
    /\ UNCHANGED <<menuVars, pin, prevState, percent, switchPressed, jobs>>
    /\ Refresh

\* update() returns at once while paused.
ReturnPaused ==
    /\ pc = "act" /\ running = 2
    /\ pc' = "serial"
    /\ UNCHANGED <<menuVars, pin, prevState, machineVars, percent, switchPressed, jobs, outputs>>

HandleJoystickWhilePaused ==  \* without the early return of update()
    /\ pc = "act" /\ running # 1
    /\ pc' = "button"
    /\ UNCHANGED <<pin, prevState, machineVars, percent, switchPressed, jobs>>
    /\ \/ Move /\ Refresh
       \/ UNCHANGED <<menuVars, outputs>>

HandleJoystickOnLcd ==  \* a movement is shown on the display, but not sent to the status page
    /\ pc = "act" /\ running = 0
    /\ pc' = "button"
    /\ UNCHANGED <<pin, prevState, machineVars, percent, switchPressed, jobs, page>>
    /\ \/ Move /\ lcd' = UpdateAll(currentSelection', rPerKit', kits', percent, running)
       \/ UNCHANGED <<menuVars, lcd>>

\* Not running: the joystick is read; at most one movement is accepted.
HandleJoystick ==
    /\ pc = "act" /\ running = 0
    /\ pc' = "button"
    /\ UNCHANGED <<pin, prevState, machineVars, percent, switchPressed, jobs>>
    /\ \/ Move /\ Refresh
       \/ UNCHANGED <<menuVars, outputs>>

\* Running: a job passes its step to update(), loop() passes -1, which is
\* shown but not stored.
ShowProgress ==
    /\ pc = "act" /\ running = 1
    /\ percent' = IF InJob THEN Top.i ELSE percent
    /\ lcd' = PrintProgress(lcd, IF InJob THEN Top.i ELSE -1, running)
    /\ pc' = "button"
    /\ UNCHANGED <<menuVars, pin, prevState, machineVars, switchPressed, jobs, page>>

ButtonUp ==
    /\ pc = "button"
    /\ switchPressed' = FALSE
    /\ pc' = "serial"
    /\ UNCHANGED <<menuVars, pin, prevState, machineVars, percent, jobs, outputs>>

\* handleSwitch() with a press it has handled already, or on another line
ButtonHeld ==
    /\ pc = "button"
    /\ switchPressed \/ currentSelection # 2
    /\ pc' = "serial"
    /\ UNCHANGED <<menuVars, pin, prevState, machineVars, percent, switchPressed, jobs, outputs>>

\* handleSwitch() when the machine is not running: handleStateChange(1)
\* announces the order and enters its loop.
StartPressed ==
    /\ pc = "button" /\ ~switchPressed /\ currentSelection = 2
    /\ running = 0
    /\ Len(jobs) < MaxJobs
    /\ switchPressed' = TRUE
    /\ running' = 1
    /\ jobs' = Append(jobs, [i |-> 0, order |-> <<rPerKit, kits>>])
    /\ pc' = "poll"
    /\ UNCHANGED <<menuVars, pin, prevState, prevRunning, percent>>
    /\ Refresh

\* handleSwitch() when it is running: handleStateChange(0) just returns.
StopPressed ==
    /\ pc = "button" /\ ~switchPressed /\ currentSelection = 2
    /\ running = 1
    /\ switchPressed' = TRUE
    /\ running' = 0
    /\ pc' = "serial"
    /\ UNCHANGED <<menuVars, pin, prevState, prevRunning, percent, jobs>>
    /\ Refresh

CheckPauseSkipsStep ==  \* without the i--
    /\ pc = "serial"
    /\ pc' = IF InJob THEN "advance" ELSE "poll"
    /\ UNCHANGED <<menuVars, pin, prevState, percent, switchPressed, jobs>>
    /\ \/ \E line \in SerialLines : SetPausedStatus(line = "pause") /\ Refresh
       \/ UNCHANGED <<machineVars, outputs>>

CheckPauseRepeatsStep ==  \* the i-- also when the machine is not running
    /\ pc = "serial"
    /\ jobs' = IF InJob /\ running # 1 THEN WithStep(Top.i - 1) ELSE jobs
    /\ pc' = IF InJob THEN "advance" ELSE "poll"
    /\ UNCHANGED <<menuVars, pin, prevState, percent, switchPressed>>
    /\ \/ \E line \in SerialLines : SetPausedStatus(line = "pause") /\ Refresh
       \/ UNCHANGED <<machineVars, outputs>>

\* After update(): a job that finds the machine paused takes its step back;
\* then checkPause() reads a line of the console, if there is one.
CheckPause ==
    /\ pc = "serial"
    /\ jobs' = IF InJob /\ running = 2 THEN WithStep(Top.i - 1) ELSE jobs
    /\ pc' = IF InJob THEN "advance" ELSE "poll"
    /\ UNCHANGED <<menuVars, pin, prevState, percent, switchPressed>>
    /\ \/ \E line \in SerialLines : SetPausedStatus(line = "pause") /\ Refresh
       \/ UNCHANGED <<machineVars, outputs>>

\* End of an iteration of a job: the next step ...
NextStep ==
    /\ pc = "advance" /\ Top.i < Steps
    /\ jobs' = WithStep(Top.i + 1)
    /\ pc' = "poll"
    /\ UNCHANGED <<menuVars, pin, prevState, machineVars, percent, switchPressed, outputs>>

\* ... or the end of its loop: doneRunning(), and the update() in which the
\* job was started returns to whichever loop called it.
FinishJob ==
    /\ pc = "advance" /\ Top.i = Steps
    /\ jobs' = Popped
    /\ pc' = "serial"
    /\ UNCHANGED <<menuVars, pin, prevState, switchPressed>>
    /\ DoneRunning

FlipSwitch ==
    /\ pc \notin QuietPoints
    /\ pin' = ~pin
    /\ UNCHANGED <<menuVars, prevState, machineVars, percent, switchPressed, jobs, pc, outputs>>

LoopTask ==
    \/ GetChange \/ HandleSafetySwitch \/ ReturnPaused \/ HandleJoystick \/ ShowProgress
    \/ ButtonUp \/ ButtonHeld \/ StartPressed \/ StopPressed
    \/ CheckPause \/ NextStep \/ FinishJob

Next == LoopTask \/ FlipSwitch

Spec == Init /\ [][Next]_vars

\* The loop task is never suspended for ever: delay() and readStringUntil()
\* both time out.  Nothing is assumed of the switch, the user or the console.
FairSpec == Spec /\ WF_vars(LoopTask)
=============================================================================
