--------------------------- MODULE InterfaceProofs ---------------------------
(***************************************************************************)
(* Proofs about the loop task, for every size of menu and of job and every *)
(* bound on nested jobs: first with every console, then in an environment  *)
(* in which every resume follows a pause.                                  *)
(***************************************************************************)
EXTENDS InterfaceProperties, SequenceTheorems, TLAPS

USE MenuAssumption, InterfaceAssumption

-----------------------------------------------------------------------------
(* The menu *)

\* Turning an input keeps it in its range.
LEMMA TurnsStayInRange ==
    ASSUME NEW max \in Nat \ {0}, NEW v \in 1..max
    PROVE  TurnedDown(v, max) \in 1..max /\ TurnedUp(v, max) \in 1..max
<1>1. v + max - 2 \in Nat
    OBVIOUS
<1>2. ASSUME NEW n \in Nat
      PROVE  n % max \in 0..(max - 1)
    OBVIOUS
<1>. QED
    BY <1>1, <1>2 DEF TurnedDown, TurnedUp

\* Whatever the joystick does, the menu stays in range (handleJoystick).
LEMMA MoveKeepsMenu ==
    ASSUME MenuTypeInv, Move
    PROVE  MenuTypeInv'
<1>1. /\ LineAbove(currentSelection) \in 0..2
      /\ LineBelow(currentSelection) \in 0..2
    BY DEF MenuTypeInv, LineAbove, LineBelow
<1>. QED
    BY <1>1, TurnsStayInRange, MenuAssumption DEF MenuTypeInv, Move, Up, Down, Left, Right

-----------------------------------------------------------------------------
(* The stack of job loops *)

\* The innermost loop is a loop.
LEMMA TopIsAJob ==
    ASSUME jobs \in Seq(Jobs), InJob
    PROVE  /\ Len(jobs) \in Nat \ {0}
           /\ Top \in Jobs
           /\ Top.i \in -1..Steps
<1>1. Len(jobs) \in Nat \ {0}
    BY EmptySeq DEF InJob
<1>2. Top \in Jobs
    BY <1>1, ElementOfSeq DEF Top
<1>. QED
    BY <1>1, <1>2 DEF Jobs

\* The order on the menu is one a job can be started for.
LEMMA NewJob ==
    ASSUME MenuTypeInv
    PROVE  [i |-> 0, order |-> <<rPerKit, kits>>] \in Jobs
<1>1. <<rPerKit, kits>> \in Orders
    BY DEF MenuTypeInv, Orders
<1>2. 0 \in -1..Steps
    OBVIOUS
<1>. QED
    BY <1>1, <1>2 DEF Jobs

\* Starting a job leaves the loops around it alone.
LEMMA PushJob ==
    ASSUME jobs \in Seq(Jobs), NEW job \in Jobs
    PROVE  /\ Append(jobs, job) \in Seq(Jobs)
           /\ Append(jobs, job) # <<>>
           /\ Len(Append(jobs, job)) = Len(jobs) + 1
           /\ \A n \in 1..Len(jobs) : Append(jobs, job)[n] = jobs[n]
           /\ Append(jobs, job)[Len(jobs) + 1] = job
    BY AppendProperties

\* A job that changes its step keeps its order, and the other loops are left alone.
LEMMA SetStep ==
    ASSUME jobs \in Seq(Jobs), InJob, NEW i \in -1..Steps
    PROVE  /\ WithStep(i) \in Seq(Jobs)
           /\ WithStep(i) # <<>>
           /\ Len(WithStep(i)) = Len(jobs)
           /\ \A n \in 1..Len(jobs) : n # Len(jobs) => WithStep(i)[n] = jobs[n]
           /\ WithStep(i)[Len(jobs)].i = i
           /\ WithStep(i)[Len(jobs)].order = Top.order
<1>. DEFINE job == [Top EXCEPT !.i = i]
<1>1. Len(jobs) \in 1..Len(jobs) /\ Top \in Jobs
    BY TopIsAJob
<1>2. job \in Jobs /\ job.i = i /\ job.order = Top.order
    BY <1>1 DEF Jobs
<1>3. WithStep(i) = [jobs EXCEPT ![Len(jobs)] = job]
    BY DEF WithStep, Top
<1>4. /\ [jobs EXCEPT ![Len(jobs)] = job] \in Seq(Jobs)
      /\ Len([jobs EXCEPT ![Len(jobs)] = job]) = Len(jobs)
      /\ \A n \in 1..Len(jobs) :
             [jobs EXCEPT ![Len(jobs)] = job][n] = IF n = Len(jobs) THEN job ELSE jobs[n]
    BY <1>1, <1>2, ExceptSeq
<1>5. WithStep(i) # <<>>
    BY <1>1, <1>3, <1>4, EmptySeq
<1>. QED
    BY <1>1, <1>2, <1>3, <1>4, <1>5

\* When a job ends the loops around it are left.
LEMMA PopJob ==
    ASSUME jobs \in Seq(Jobs), InJob
    PROVE  /\ Popped \in Seq(Jobs)
           /\ Len(Popped) = Len(jobs) - 1
           /\ \A n \in 1..(Len(jobs) - 1) : Popped[n] = jobs[n]
<1>1. Len(jobs) \in Nat \ {0}
    BY TopIsAJob
<1>2. \A n \in 1..(Len(jobs) - 1) : jobs[n] \in Jobs
    BY <1>1, ElementOfSeq
<1>. DEFINE n == Len(jobs) - 1
            p == SubSeq(jobs, 1, n)
<1>3. n \in Nat /\ n \in Int /\ 1 \in Int
    BY <1>1
<1>4. /\ p \in Seq(Jobs)
      /\ Len(p) = IF 1 <= n THEN n - 1 + 1 ELSE 0
      /\ \A k \in 1..(n - 1 + 1) : p[k] = jobs[1 + k - 1]
    BY <1>2, <1>3, SubSeqProperties
<1>5. Popped = p
    BY DEF Popped
<1>. HIDE DEF n, p
<1>6. n - 1 + 1 = n /\ Len(p) = n
    BY <1>3, <1>4
<1>7. ASSUME NEW k \in 1..n PROVE p[k] = jobs[k]
  <2>1. 1 + k - 1 = k
      OBVIOUS
  <2>. QED
      BY <1>4, <1>6, <2>1
<1>8. Popped \in Seq(Jobs) /\ Len(Popped) = n /\ \A k \in 1..n : Popped[k] = jobs[k]
    BY <1>4, <1>5, <1>6, <1>7
<1>. QED
    BY <1>8 DEF n

-----------------------------------------------------------------------------
(* Types, in every environment *)

TInv == TypeInv /\ StackInv /\ ButtonInv

\* What the two functions that change running leave behind.
LEMMA MachineTypes ==
    ASSUME running \in 0..2, prevRunning \in 0..1, percent \in 0..Steps
    PROVE  /\ \A b \in BOOLEAN : SetPausedStatus(b) => running' \in 0..2 /\ prevRunning' \in 0..1
           /\ DoneRunning =>
                /\ running' \in 0..2 /\ prevRunning' \in 0..1 /\ percent' \in 0..Steps
                /\ page' = page \/ page' = <<rPerKit', kits', running'>>
    BY DEF SetPausedStatus, DoneRunning, Refresh, machineVars, outputs

LEMMA ButtonStep ==
    ASSUME ButtonInv, [Next]_vars
    PROVE  ButtonInv'
    BY DEF ButtonInv, Next, LoopTask, GetChange, HandleSafetySwitch, ReturnPaused, HandleJoystick,
           ShowProgress, ButtonUp, ButtonHeld, StartPressed, StopPressed, CheckPause, NextStep,
           FinishJob, FlipSwitch, vars, machineVars

LEMMA TypeStep ==
    ASSUME TInv, [Next]_vars
    PROVE  (TypeInv /\ StackInv)'
<1>. USE DEF TInv
<1>1. ASSUME UNCHANGED jobs, pc # "advance", pc' = "advance" => InJob
      PROVE  StackInv'
    BY <1>1 DEF StackInv, InJob
<1>2. CASE UNCHANGED vars
    BY <1>2 DEF TypeInv, StackInv, InJob, MenuTypeInv, vars, menuVars, machineVars, outputs
<1>3. CASE GetChange
  <2>1. TypeInv'
      BY <1>3 DEF GetChange, TypeInv, MenuTypeInv, menuVars, machineVars, outputs, Points
  <2>. QED
      BY <1>1, <1>3, <2>1 DEF GetChange
<1>4. CASE HandleSafetySwitch
  <2>1. running' \in 0..2 /\ prevRunning' \in 0..1
      BY <1>4, MachineTypes DEF HandleSafetySwitch, TypeInv
  <2>2. TypeInv'
      BY <1>4, <2>1 DEF HandleSafetySwitch, Refresh, TypeInv, MenuTypeInv, menuVars, Points
  <2>. QED
      BY <1>1, <1>4, <2>2 DEF HandleSafetySwitch
<1>5. CASE ReturnPaused
  <2>1. TypeInv'
      BY <1>5 DEF ReturnPaused, TypeInv, MenuTypeInv, menuVars, machineVars, outputs, Points
  <2>. QED
      BY <1>1, <1>5, <2>1 DEF ReturnPaused
<1>6. CASE HandleJoystick
  <2>1. MenuTypeInv'
      BY <1>6, MoveKeepsMenu DEF HandleJoystick, TypeInv, MenuTypeInv, menuVars
  <2>2. page' \in (1..MaxRPerKit) \X (1..MaxKits) \X (0..2)
      BY <1>6, <2>1 DEF HandleJoystick, Refresh, TypeInv, MenuTypeInv, machineVars, outputs
  <2>3. TypeInv'
      BY <1>6, <2>1, <2>2 DEF HandleJoystick, TypeInv, machineVars, Points
  <2>. QED
      BY <1>1, <1>6, <2>3 DEF HandleJoystick
<1>7. CASE ShowProgress
  <2>1. percent' \in 0..Steps
    <3>1. CASE InJob
      <4>1. Top.i \in -1..Steps /\ Len(jobs) \in 1..Len(jobs)
          BY <3>1, TopIsAJob DEF TypeInv
      <4>2. Top.i # -1
          BY <1>7, <4>1 DEF ShowProgress, StackInv, Top
      <4>. QED
          BY <1>7, <3>1, <4>1, <4>2 DEF ShowProgress
    <3>2. CASE ~InJob
        BY <1>7, <3>2 DEF ShowProgress, TypeInv
    <3>. QED
        BY <3>1, <3>2
  <2>2. TypeInv'
      BY <1>7, <2>1 DEF ShowProgress, TypeInv, MenuTypeInv, menuVars, machineVars, Points
  <2>. QED
      BY <1>1, <1>7, <2>2 DEF ShowProgress
<1>8. CASE ButtonUp
  <2>1. TypeInv'
      BY <1>8 DEF ButtonUp, TypeInv, MenuTypeInv, menuVars, machineVars, outputs, Points
  <2>. QED
      BY <1>1, <1>8, <2>1 DEF ButtonUp
<1>9. CASE ButtonHeld
  <2>1. TypeInv'
      BY <1>9 DEF ButtonHeld, TypeInv, MenuTypeInv, menuVars, machineVars, outputs, Points
  <2>. QED
      BY <1>1, <1>9, <2>1 DEF ButtonHeld
<1>10. CASE StartPressed
  <2>. DEFINE job == [i |-> 0, order |-> <<rPerKit, kits>>]
  <2>1. job \in Jobs /\ job.i # -1
      BY NewJob DEF TypeInv
  <2>2. /\ jobs' = Append(jobs, job)
        /\ Append(jobs, job) \in Seq(Jobs)
        /\ Len(Append(jobs, job)) = Len(jobs) + 1
        /\ \A n \in 1..Len(jobs) : Append(jobs, job)[n] = jobs[n]
        /\ Append(jobs, job)[Len(jobs) + 1] = job
      BY <1>10, <2>1, PushJob DEF StartPressed, TypeInv
  <2>3. Len(jobs) \in Nat /\ Len(jobs') <= MaxJobs
      BY <1>10, <2>2, LenProperties DEF StartPressed, TypeInv
  <2>4. TypeInv'
      BY <1>10, <2>2, <2>3 DEF StartPressed, Refresh, TypeInv, MenuTypeInv, menuVars, Points
  <2>5. \A n \in 1..Len(jobs') : jobs'[n].i # -1
      BY <1>10, <2>1, <2>2, <2>3 DEF StartPressed, StackInv
  <2>6. pc' # "advance"
      BY <1>10 DEF StartPressed
  <2>. QED
      BY <2>4, <2>5, <2>6 DEF StackInv
<1>11. CASE StopPressed
  <2>1. TypeInv'
      BY <1>11 DEF StopPressed, Refresh, TypeInv, MenuTypeInv, menuVars, Points
  <2>. QED
      BY <1>1, <1>11, <2>1 DEF StopPressed
<1>12. CASE CheckPause
  <2>1. /\ running' \in 0..2 /\ prevRunning' \in 0..1
        /\ page' \in (1..MaxRPerKit) \X (1..MaxKits) \X (0..2)
    <3>1. CASE UNCHANGED <<machineVars, outputs>>
        BY <3>1 DEF TypeInv, machineVars, outputs
    <3>2. CASE \E line \in SerialLines : SetPausedStatus(line = "pause") /\ Refresh
      <4>1. running' \in 0..2 /\ prevRunning' \in 0..1
          BY <3>2, MachineTypes DEF TypeInv
      <4>. QED
          BY <1>12, <3>2, <4>1 DEF CheckPause, Refresh, TypeInv, MenuTypeInv, menuVars
    <3>. QED
        BY <1>12, <3>1, <3>2 DEF CheckPause
  <2>2. CASE InJob /\ running = 2
    <3>1. Top.i \in -1..Steps /\ Len(jobs) \in 1..Len(jobs) /\ Len(jobs) \in Nat
        BY <2>2, TopIsAJob DEF TypeInv
    <3>2. Top.i - 1 \in -1..Steps
        BY <1>12, <3>1 DEF CheckPause, StackInv, Top
    <3>3. /\ jobs' = WithStep(Top.i - 1)
          /\ WithStep(Top.i - 1) \in Seq(Jobs)
          /\ WithStep(Top.i - 1) # <<>>
          /\ Len(WithStep(Top.i - 1)) = Len(jobs)
          /\ \A n \in 1..Len(jobs) : n # Len(jobs) => WithStep(Top.i - 1)[n] = jobs[n]
        BY <1>12, <2>2, <3>2, SetStep DEF CheckPause, TypeInv
    <3>4. TypeInv'
        BY <1>12, <2>1, <3>3 DEF CheckPause, TypeInv, MenuTypeInv, menuVars, Points
    <3>5. StackInv'
        BY <1>12, <2>2, <3>1, <3>3 DEF CheckPause, StackInv, InJob
    <3>. QED
        BY <3>4, <3>5
  <2>3. CASE ~(InJob /\ running = 2)
    <3>1. UNCHANGED jobs
        BY <1>12, <2>3 DEF CheckPause
    <3>2. TypeInv'
        BY <1>12, <2>1, <3>1 DEF CheckPause, TypeInv, MenuTypeInv, menuVars, Points
    <3>. QED
        BY <1>1, <1>12, <3>1, <3>2 DEF CheckPause
  <2>. QED
      BY <2>2, <2>3
<1>13. CASE NextStep
  <2>1. InJob
      BY <1>13 DEF NextStep, StackInv
  <2>2. Top.i \in -1..Steps /\ Len(jobs) \in 1..Len(jobs) /\ Len(jobs) \in Nat
      BY <2>1, TopIsAJob DEF TypeInv
  <2>3. Top.i + 1 \in 0..Steps
      BY <1>13, <2>2 DEF NextStep
  <2>4. /\ jobs' = WithStep(Top.i + 1)
        /\ WithStep(Top.i + 1) \in Seq(Jobs)
        /\ Len(WithStep(Top.i + 1)) = Len(jobs)
        /\ \A n \in 1..Len(jobs) : n # Len(jobs) => WithStep(Top.i + 1)[n] = jobs[n]
        /\ WithStep(Top.i + 1)[Len(jobs)].i = Top.i + 1
      BY <1>13, <2>1, <2>3, SetStep DEF NextStep, TypeInv
  <2>5. TypeInv'
      BY <1>13, <2>4 DEF NextStep, TypeInv, MenuTypeInv, menuVars, machineVars, outputs, Points
  <2>6. \A n \in 1..Len(jobs') : jobs'[n].i # -1
      BY <2>2, <2>3, <2>4 DEF StackInv
  <2>7. pc' # "advance"
      BY <1>13 DEF NextStep
  <2>. QED
      BY <2>5, <2>6, <2>7 DEF StackInv
<1>14. CASE FinishJob
  <2>1. InJob
      BY <1>14 DEF FinishJob, StackInv
  <2>2. /\ jobs' = Popped
        /\ Popped \in Seq(Jobs)
        /\ Len(Popped) = Len(jobs) - 1
        /\ \A n \in 1..(Len(jobs) - 1) : Popped[n] = jobs[n]
      BY <1>14, <2>1, PopJob DEF FinishJob, TypeInv
  <2>3. Len(jobs) \in Nat
      BY LenProperties DEF TypeInv
  <2>4. /\ running' \in 0..2 /\ prevRunning' \in 0..1 /\ percent' \in 0..Steps
        /\ page' = page \/ page' = <<rPerKit', kits', running'>>
      BY <1>14, MachineTypes DEF FinishJob, TypeInv
  <2>5. MenuTypeInv' /\ page' \in (1..MaxRPerKit) \X (1..MaxKits) \X (0..2)
      BY <1>14, <2>4 DEF FinishJob, TypeInv, MenuTypeInv, menuVars
  <2>6. TypeInv'
      BY <1>14, <2>2, <2>3, <2>4, <2>5 DEF FinishJob, TypeInv, Points
  <2>7. \A n \in 1..Len(jobs') : jobs'[n].i # -1
      BY <2>2, <2>3 DEF StackInv
  <2>8. pc' # "advance"
      BY <1>14 DEF FinishJob
  <2>. QED
      BY <2>6, <2>7, <2>8 DEF StackInv
<1>15. CASE FlipSwitch
  <2>1. TypeInv'
      BY <1>15 DEF FlipSwitch, TypeInv, MenuTypeInv, menuVars, machineVars, outputs
  <2>. QED
      BY <1>15, <2>1 DEF FlipSwitch, StackInv, InJob
<1>. QED
    BY <1>2, <1>3, <1>4, <1>5, <1>6, <1>7, <1>8, <1>9, <1>10, <1>11, <1>12, <1>13, <1>14, <1>15
       DEF Next, LoopTask

LEMMA TInvStep ==
    ASSUME TInv, [Next]_vars
    PROVE  TInv'
    BY TypeStep, ButtonStep DEF TInv

LEMMA TypeInit == Init => TInv
<1>. SUFFICES ASSUME Init PROVE TInv
    OBVIOUS
<1>1. jobs = <<>> /\ <<>> \in Seq(Jobs) /\ Len(<<>>) = 0
    BY EmptySeq DEF Init
<1>2. TypeInv
  <2>1. pin \in BOOLEAN /\ prevState \in BOOLEAN /\ switchPressed \in BOOLEAN
      BY Zenon DEF Init
  <2>2. MenuTypeInv
      BY DEF Init, MenuInit, MenuTypeInv
  <2>3. page \in (1..MaxRPerKit) \X (1..MaxKits) \X (0..2)
      BY DEF Init
  <2>4. pc \in Points /\ running \in 0..2 /\ prevRunning \in 0..1 /\ percent \in 0..Steps
      BY DEF Init, Points
  <2>5. jobs \in Seq(Jobs) /\ Len(jobs) <= MaxJobs
      BY <1>1
  <2>. QED
      BY <2>1, <2>2, <2>3, <2>4, <2>5 DEF TypeInv
<1>3. StackInv
    BY <1>1 DEF Init, StackInv
<1>. QED
    BY <1>2, <1>3 DEF TInv, ButtonInv, Init

\* The state of the loop task has its types, for every size of menu and job,
\* whatever the safety switch and the console do: in particular prevRunning
\* is never 2 and no loop takes its step below 0 and keeps it there.
THEOREM TypeCorrect == Spec => []TypeInv
<1>1. TInv => TypeInv
    BY DEF TInv
<1>. QED
    BY <1>1, TypeInit, TInvStep, PTL DEF Spec

-----------------------------------------------------------------------------
(* Display and status page, in every environment *)

\* What the two ways of writing the screen have to do with each other.
LEMMA Screens ==
    ASSUME NEW s, NEW r, NEW k, NEW p, NEW q, NEW run
    PROVE  /\ run \in {0, 2} => UpdateAll(s, r, k, p, run) = UpdateAll(s, r, k, q, run)
           /\ PrintProgress(UpdateAll(s, r, k, p, 1), q, 1) = UpdateAll(s, r, k, q, 1)
<1>1. run \in {0, 2} => UpdateAll(s, r, k, p, run) = UpdateAll(s, r, k, q, run)
    BY DEF UpdateAll, Bar
<1>2. PrintProgress(UpdateAll(s, r, k, p, 1), q, 1) = UpdateAll(s, r, k, q, 1)
    BY DEF UpdateAll, PrintProgress
<1>. QED
    BY <1>1, <1>2

\* The two update calls bring the outputs up to date, whatever was shown.
LEMMA RefreshAgrees ==
    ASSUME TInv', Refresh
    PROVE  OutputsAgree'
<1>1. percent' \in -1..Steps
    BY DEF TInv, TypeInv
<1>2. running' # 1 => lcd' = UpdateAll(currentSelection', rPerKit', kits', 0, running')
    BY Screens DEF Refresh, TInv, TypeInv
<1>. QED
    BY <1>1, <1>2 DEF OutputsAgree, Refresh

LEMMA OutputsStep ==
    ASSUME TInv, TInv', OutputsAgree, [Next]_vars
    PROVE  OutputsAgree'
<1>1. CASE UNCHANGED <<menuVars, running, lcd, page>>
    BY <1>1 DEF OutputsAgree, menuVars
<1>2. CASE Refresh
    BY <1>2, RefreshAgrees
<1>3. CASE ShowProgress
  <2>. DEFINE q == IF InJob THEN Top.i ELSE -1
  <2>1. q \in -1..Steps
      BY TopIsAJob DEF TInv, TypeInv
  <2>2. PICK p \in -1..Steps : lcd = UpdateAll(currentSelection, rPerKit, kits, p, 1)
      BY <1>3 DEF ShowProgress, OutputsAgree
  <2>3. lcd' = UpdateAll(currentSelection, rPerKit, kits, q, 1)
      BY <1>3, <2>2, Screens DEF ShowProgress
  <2>. QED
      BY <1>3, <2>1, <2>3 DEF ShowProgress, OutputsAgree, menuVars, machineVars
<1>4. CASE FinishJob
  <2>1. DoneRunning /\ UNCHANGED menuVars
      BY <1>4 DEF FinishJob
  <2>. QED
      BY <1>1, <1>2, <2>1 DEF DoneRunning, machineVars, outputs
<1>5. CASE CheckPause
    BY <1>1, <1>2, <1>5 DEF CheckPause, machineVars, outputs
<1>6. CASE HandleJoystick
    BY <1>1, <1>2, <1>6 DEF HandleJoystick, machineVars, outputs
<1>7. CASE HandleSafetySwitch \/ StartPressed \/ StopPressed
    BY <1>2, <1>7 DEF HandleSafetySwitch, StartPressed, StopPressed
<1>8. CASE GetChange \/ ReturnPaused \/ ButtonUp \/ ButtonHeld \/ NextStep \/ FlipSwitch
    BY <1>1, <1>8 DEF GetChange, ReturnPaused, ButtonUp, ButtonHeld, NextStep, FlipSwitch,
                      machineVars, outputs
<1>9. CASE UNCHANGED vars
    BY <1>1, <1>9 DEF vars, machineVars, outputs
<1>. QED
    BY <1>3, <1>4, <1>5, <1>6, <1>7, <1>8, <1>9 DEF Next, LoopTask

\* No path through the loop task leaves the display or the values of the
\* status page behind the machine, whatever the switch and the console do.
THEOREM OutputsNeverLag == Spec => []OutputsAgree
<1>1. Init => OutputsAgree
    BY DEF Init, MenuInit, OutputsAgree
<1>2. TInv /\ TInv' /\ OutputsAgree /\ [Next]_vars => OutputsAgree'
    BY OutputsStep
<1>. QED
    BY <1>1, <1>2, TypeInit, TInvStep, PTL DEF Spec

\* What module DisplayScreen knows of its caller: whole screens, and progress on the
\* menu of a running machine only.
DisplayCalled ==
    \/ \E h \in 0..2, r \in 1..MaxRPerKit, k \in 1..MaxKits, p \in 0..Steps, run \in 0..2 :
           lcd' = UpdateAll(h, r, k, p, run)
    \/ /\ lcd.view = "menu" /\ lcd.bar # NoBar
       /\ \E p \in -1..Steps : lcd' = PrintProgress(lcd, p, 1)

\* The loop task never shows progress on the screen of a paused machine, nor where the
\* menu has no bar (Interface::update, Display::printProgress): all that changes the
\* display are the calls that DisplayScreen is about.
THEOREM DisplayIsCalledAsMeant == Spec => [][DisplayCalled]_lcd
<1>1. ASSUME TInv, TInv', OutputsAgree, [Next]_vars, lcd' # lcd
      PROVE  DisplayCalled
  <2>1. CASE Refresh
    <3>1. /\ currentSelection' \in 0..2 /\ rPerKit' \in 1..MaxRPerKit /\ kits' \in 1..MaxKits
          /\ percent' \in 0..Steps /\ running' \in 0..2
        BY <1>1 DEF TInv, TypeInv, MenuTypeInv
    <3>. QED
        BY <2>1, <3>1 DEF Refresh, DisplayCalled
  <2>2. CASE ShowProgress
    <3>. DEFINE q == IF InJob THEN Top.i ELSE -1
    <3>1. q \in -1..Steps
        BY <1>1, TopIsAJob DEF TInv, TypeInv
    <3>2. lcd' = PrintProgress(lcd, q, 1)
        BY <2>2 DEF ShowProgress
    <3>3. PICK p \in -1..Steps : lcd = UpdateAll(currentSelection, rPerKit, kits, p, 1)
        BY <1>1, <2>2 DEF ShowProgress, OutputsAgree
    <3>4. lcd.view = "menu" /\ lcd.bar # NoBar
        BY <3>3 DEF UpdateAll, Bar, NoBar, FullBar
    <3>. QED
        BY <3>1, <3>2, <3>4 DEF DisplayCalled
  <2>3. Refresh \/ ShowProgress
      BY <1>1 DEF Next, LoopTask, GetChange, HandleSafetySwitch, ReturnPaused, HandleJoystick,
             ButtonUp, ButtonHeld, StartPressed, StopPressed, CheckPause, NextStep, FinishJob,
             DoneRunning, FlipSwitch, vars, outputs
  <2>. QED
      BY <2>1, <2>2, <2>3
<1>2. TInv /\ TInv' /\ OutputsAgree /\ [Next]_vars => [DisplayCalled]_lcd
    BY <1>1
<1>. QED
    BY <1>2, TypeInit, TInvStep, OutputsNeverLag, PTL DEF Spec

-----------------------------------------------------------------------------
(* Pausing and the end of jobs, in every environment *)

\* A movement of the joystick changes one input, all else changes none.
LEMMA OneValueChanges ==
    ASSUME [Next]_vars
    PROVE  \/ UNCHANGED <<rPerKit, kits>>
           \/ UNCHANGED <<rPerKit, running>>
           \/ UNCHANGED <<kits, running>>
<1>1. CASE HandleJoystick
    BY <1>1 DEF HandleJoystick, machineVars, menuVars, Move, Up, Down, Left, Right
<1>2. CASE UNCHANGED menuVars
    BY <1>2 DEF menuVars
<1>3. HandleJoystick \/ UNCHANGED menuVars
    BY DEF Next, LoopTask, GetChange, HandleSafetySwitch, ReturnPaused, ShowProgress, ButtonUp,
           ButtonHeld, StartPressed, StopPressed, CheckPause, NextStep, FinishJob, FlipSwitch, vars
<1>. QED
    BY <1>1, <1>2, <1>3

\* The status page is fed one change at a time, whatever the switch, the
\* operator and the console do.
THEOREM PageIsFed == Spec => ImplementsFeed
<1>1. Init => Feed!FeedInit
    BY DEF Init, Feed!FeedInit
<1>2. ASSUME OutputsAgree, OutputsAgree', TInv', [Next]_vars
      PROVE  Feed!Publish
  <2>1. page' \in Feed!Pages
      BY <1>2 DEF TInv, TypeInv, Feed!Pages
  <2>2. page = <<rPerKit, kits, running>> /\ page' = <<rPerKit', kits', running'>>
      BY <1>2 DEF OutputsAgree
  <2>3. \/ UNCHANGED <<rPerKit, kits>>
        \/ UNCHANGED <<rPerKit, running>>
        \/ UNCHANGED <<kits, running>>
      BY <1>2, OneValueChanges
  <2>4. \E f \in 1..3 : \A g \in (1..3) \ {f} : page[g] = page'[g]
    <3>1. CASE UNCHANGED <<rPerKit, kits>>
        BY <2>2, <3>1 DEF Feed!Pages
    <3>2. CASE UNCHANGED <<rPerKit, running>>
      <4>1. \A g \in (1..3) \ {2} : page[g] = page'[g]
          BY <2>2, <3>2
      <4>. QED
          BY <4>1
    <3>3. CASE UNCHANGED <<kits, running>>
      <4>1. \A g \in (1..3) \ {1} : page[g] = page'[g]
          BY <2>2, <3>3
      <4>. QED
          BY <4>1
    <3>. QED
        BY <2>3, <3>1, <3>2, <3>3
  <2>. QED
      BY <2>1, <2>4 DEF Feed!Publish, Feed!Neighbours
<1>3. OutputsAgree /\ OutputsAgree' /\ TInv' /\ [Next]_vars => [Feed!Publish]_page
    BY <1>2
<1>. QED
    BY <1>1, <1>3, TypeInit, TInvStep, OutputsNeverLag, PTL DEF Spec, ImplementsFeed, Feed!FeedSpec

\* The stack of loops changes its height by the Start button and the end of a
\* job only.
LEMMA StackHeight ==
    ASSUME TInv, [Next]_vars
    PROVE  \/ Len(jobs') = Len(jobs)
           \/ StartPressed /\ Len(jobs') = Len(jobs) + 1
           \/ FinishJob /\ Len(jobs') = Len(jobs) - 1
<1>1. InJob => Top.i \in -1..Steps /\ Len(jobs) \in 1..Len(jobs)
    BY TopIsAJob DEF TInv, TypeInv
<1>2. ASSUME NEW i \in -1..Steps, InJob
      PROVE  Len(WithStep(i)) = Len(jobs)
    BY <1>2, SetStep DEF TInv, TypeInv
<1>3. CASE StartPressed
    BY <1>3, NewJob, PushJob DEF StartPressed, TInv, TypeInv
<1>4. CASE FinishJob
    BY <1>4, PopJob DEF FinishJob, TInv, TypeInv, StackInv
<1>5. CASE CheckPause
  <2>1. InJob => Top.i # -1
      BY <1>1, <1>5 DEF CheckPause, TInv, StackInv, Top
  <2>2. InJob => Top.i - 1 \in -1..Steps
      BY <1>1, <2>1
  <2>. QED
      BY <1>2, <1>5, <2>2 DEF CheckPause
<1>6. CASE NextStep
  <2>1. InJob
      BY <1>6 DEF NextStep, TInv, StackInv
  <2>2. Top.i + 1 \in -1..Steps
      BY <1>1, <1>6, <2>1 DEF NextStep
  <2>. QED
      BY <1>2, <1>6, <2>1, <2>2 DEF NextStep
<1>7. [Next]_vars => FinishJob \/ StartPressed \/ CheckPause \/ NextStep \/ UNCHANGED jobs
    BY DEF Next, LoopTask, GetChange, HandleSafetySwitch, ReturnPaused, HandleJoystick,
           ShowProgress, ButtonUp, ButtonHeld, StopPressed, FlipSwitch, vars
<1>. QED
    BY <1>3, <1>4, <1>5, <1>6, <1>7

\* Changing the step of the innermost job leaves it innermost, with its order.
LEMMA TopOfSetStep ==
    ASSUME jobs \in Seq(Jobs), InJob, NEW i \in -1..Steps, jobs' = WithStep(i)
    PROVE  InJob' /\ Top'.i = i /\ Top'.order = Top.order
    BY SetStep DEF InJob, Top

\* The end of an iteration: the loop takes a step back, goes on, or stays.
LEMMA LoopSteps ==
    ASSUME TInv
    PROVE  /\ InJob => Top.i \in -1..Steps
           /\ InJob /\ pc # "advance" => Top.i \in 0..Steps
           /\ CheckPause /\ InJob /\ running = 2 =>
                InJob' /\ Top'.i = Top.i - 1 /\ Top'.order = Top.order
           /\ NextStep => InJob /\ InJob' /\ Top'.i = Top.i + 1 /\ Top'.order = Top.order
           /\ StartPressed => InJob' /\ Top'.i = 0 /\ Top'.order = <<rPerKit, kits>>
<1>1. jobs \in Seq(Jobs) /\ MenuTypeInv
    BY DEF TInv, TypeInv
<1>2. InJob => Top.i \in -1..Steps /\ Len(jobs) \in 1..Len(jobs)
    BY <1>1, TopIsAJob
<1>3. InJob /\ pc # "advance" => Top.i \in 0..Steps
    BY <1>2 DEF TInv, StackInv, Top
<1>4. ASSUME CheckPause, InJob, running = 2
      PROVE  InJob' /\ Top'.i = Top.i - 1 /\ Top'.order = Top.order
  <2>1. Top.i - 1 \in -1..Steps /\ jobs' = WithStep(Top.i - 1)
      BY <1>3, <1>4, InterfaceAssumption DEF CheckPause
  <2>. QED
      BY <1>1, <1>4, <2>1, TopOfSetStep
<1>5. ASSUME NextStep
      PROVE  InJob /\ InJob' /\ Top'.i = Top.i + 1 /\ Top'.order = Top.order
  <2>1. InJob
      BY <1>5 DEF NextStep, TInv, StackInv
  <2>2. Top.i + 1 \in -1..Steps /\ jobs' = WithStep(Top.i + 1)
      BY <1>2, <1>5, <2>1, InterfaceAssumption DEF NextStep
  <2>. QED
      BY <1>1, <2>1, <2>2, TopOfSetStep
<1>6. ASSUME StartPressed
      PROVE  InJob' /\ Top'.i = 0 /\ Top'.order = <<rPerKit, kits>>
    BY <1>1, <1>6, NewJob, PushJob DEF StartPressed, InJob, Top
<1>. QED
    BY <1>2, <1>3, <1>4, <1>5, <1>6

\* A cutting machine keeps its job, unless it is set running by a resume that
\* finds it neither paused nor running.
LEMMA KeepsJobStep ==
    ASSUME TInv, [Next]_vars, CuttingHasItsJob, ~UntimelyResume
    PROVE  CuttingHasItsJob'
<1>. USE DEF CuttingHasItsJob, Cutting
<1>1. running \in 0..2 /\ prevRunning \in 0..1
    BY DEF TInv, TypeInv
<1>2. ASSUME UNCHANGED <<menuVars, machineVars, jobs>> PROVE CuttingHasItsJob'
    BY <1>2 DEF menuVars, machineVars, InJob, Top
<1>3. ASSUME NEW b \in BOOLEAN, SetPausedStatus(b), pc \in {"confirm", "serial"}
      PROVE  Cutting' => Cutting
    BY <1>1, <1>3 DEF SetPausedStatus, UntimelyResume
<1>4. CASE HandleSafetySwitch
  <2>1. Cutting' => Cutting
      BY <1>3, <1>4 DEF HandleSafetySwitch, TInv, TypeInv
  <2>. QED
      BY <1>4, <2>1 DEF HandleSafetySwitch, menuVars, InJob, Top
<1>5. CASE HandleJoystick
    BY <1>5 DEF HandleJoystick, machineVars
<1>6. CASE StartPressed
    BY <1>6, LoopSteps DEF StartPressed, menuVars
<1>7. CASE StopPressed
    BY <1>7 DEF StopPressed
<1>8. CASE CheckPause
  <2>1. (\E b \in BOOLEAN : SetPausedStatus(b)) \/ UNCHANGED <<running, prevRunning>>
      BY <1>8 DEF CheckPause, machineVars
  <2>2. Cutting' => Cutting
      BY <1>3, <1>8, <2>1 DEF CheckPause
  <2>3. Cutting => InJob' /\ Top'.order = Top.order
      BY <1>8, LoopSteps DEF CheckPause, InJob, Top
  <2>. QED
      BY <1>8, <2>2, <2>3 DEF CheckPause, menuVars
<1>9. CASE NextStep
    BY <1>9, LoopSteps DEF NextStep, menuVars, machineVars
<1>10. CASE FinishJob
    BY <1>1, <1>10 DEF FinishJob, DoneRunning, machineVars
<1>11. CASE GetChange \/ ReturnPaused \/ ShowProgress \/ ButtonUp \/ ButtonHeld \/ FlipSwitch \/ UNCHANGED vars
    BY <1>2, <1>11 DEF GetChange, ReturnPaused, ShowProgress, ButtonUp, ButtonHeld, FlipSwitch, vars
<1>. QED
    BY <1>4, <1>5, <1>6, <1>7, <1>8, <1>9, <1>10, <1>11 DEF Next, LoopTask

\* Whatever the switch and the console do, only such a resume makes the machine
\* cut without its job.
THEOREM JobsAreKept == Spec => CuttingKeepsItsJob
<1>1. TInv /\ [Next]_vars =>
          [CuttingHasItsJob /\ ~UntimelyResume => CuttingHasItsJob']_vars
    BY KeepsJobStep
<1>. QED
    BY <1>1, TypeInit, TInvStep, PTL DEF Spec, CuttingKeepsItsJob

\* While the machine stays paused the operator can change nothing, and no job
\* is started or makes progress (the early return of update()).
THEOREM PauseFreezes == Spec => PausedIsFrozen
<1>1. ASSUME TInv, [Next]_vars, running = 2, running' = 2
      PROVE  /\ UNCHANGED <<menuVars, switchPressed>>
             /\ Len(jobs') <= Len(jobs)
             /\ percent' \in {percent, 0}
  <2>1. ~(HandleJoystick \/ ShowProgress \/ StartPressed \/ StopPressed)
      BY <1>1 DEF HandleJoystick, ShowProgress, StartPressed, StopPressed, machineVars
  <2>2. ~(ButtonUp \/ ButtonHeld)
      BY <1>1 DEF ButtonUp, ButtonHeld, TInv, ButtonInv
  <2>3. /\ UNCHANGED <<menuVars, switchPressed>>
        /\ percent' \in {percent, 0}
      BY <1>1, <2>1, <2>2 DEF Next, LoopTask, GetChange, HandleSafetySwitch, ReturnPaused,
         CheckPause, NextStep, FinishJob, DoneRunning, FlipSwitch, vars
  <2>4. Len(jobs) \in Nat
      BY <1>1, LenProperties DEF TInv, TypeInv
  <2>5. Len(jobs') <= Len(jobs)
      BY <1>1, <2>1, <2>4, StackHeight
  <2>. QED
      BY <2>3, <2>5
<1>2. TInv /\ [Next]_vars =>
          [running = 2 /\ running' = 2 =>
               /\ UNCHANGED <<menuVars, switchPressed>>
               /\ Len(jobs') <= Len(jobs)
               /\ percent' \in {percent, 0}]_vars
    BY <1>1
<1>. QED
    BY <1>2, TypeInit, TInvStep, PTL DEF Spec, PausedIsFrozen

-----------------------------------------------------------------------------
(* In an environment in which every resume follows a pause: the safety     *)
(* interlock, and the implementation of the abstract machine Cutter.       *)

\* In such an environment the console can only pause.
LEMMA ConsolePauses ==
    ASSUME Disciplined
    PROVE  \A line \in SerialLines : line = "pause"
    BY InterfaceAssumption DEF Disciplined

LEMMA DisciplinedInit ==
    ASSUME Init
    PROVE  IInv
<1>1. TypeInv /\ StackInv /\ ButtonInv
    BY TypeInit DEF TInv
<1>2. AtPoints /\ Interlock /\ CuttingHasItsJob
    BY DEF Init, AtPoints, Interlock, Polled, CuttingHasItsJob, Cutting
<1>. QED
    BY <1>1, <1>2 DEF IInv

-----------------------------------------------------------------------------
(* The interlock *)

LEMMA InterlockStep ==
    ASSUME IInv, Disciplined, [Next]_vars
    PROVE  Interlock' /\ AtPoints'
<1>. USE DEF IInv, Interlock, AtPoints, Polled
<1>1. pin \in BOOLEAN /\ prevState \in BOOLEAN /\ running \in 0..2
    BY DEF TypeInv
<1>2. CASE UNCHANGED vars
    BY <1>2 DEF vars, machineVars
<1>3. CASE GetChange
    BY <1>1, <1>3 DEF GetChange, machineVars
<1>4. CASE HandleSafetySwitch
    BY <1>1, <1>4 DEF HandleSafetySwitch, SetPausedStatus
<1>5. CASE ReturnPaused \/ HandleJoystick \/ ShowProgress \/ ButtonUp \/ ButtonHeld \/ NextStep
    BY <1>5 DEF ReturnPaused, HandleJoystick, ShowProgress, ButtonUp, ButtonHeld, NextStep, machineVars
<1>6. CASE StartPressed \/ StopPressed
    BY <1>6 DEF StartPressed, StopPressed
<1>7. CASE CheckPause
    BY <1>7, ConsolePauses DEF CheckPause, SetPausedStatus, machineVars
<1>8. CASE FinishJob
    BY <1>8 DEF FinishJob, DoneRunning, machineVars
<1>9. CASE FlipSwitch
    BY <1>9 DEF FlipSwitch, Disciplined, machineVars
<1>. QED
    BY <1>2, <1>3, <1>4, <1>5, <1>6, <1>7, <1>8, <1>9 DEF Next, LoopTask

-----------------------------------------------------------------------------
(* A cutting machine and its job *)

\* There every resume is timely.
LEMMA CuttingStep ==
    ASSUME IInv, Disciplined, [Next]_vars
    PROVE  CuttingHasItsJob'
<1>1. running \in 0..2 /\ prevRunning \in 0..1 /\ pin \in BOOLEAN
    BY DEF IInv, TypeInv
<1>2. ASSUME UntimelyResume
      PROVE  HandleSafetySwitch \/ CheckPause
    BY <1>2 DEF UntimelyResume, Next, LoopTask, GetChange, ReturnPaused, HandleJoystick,
       ShowProgress, ButtonUp, ButtonHeld, StartPressed, StopPressed, NextStep, FinishJob,
       FlipSwitch, machineVars, vars
<1>3. ASSUME HandleSafetySwitch
      PROVE  ~UntimelyResume
    BY <1>1, <1>3 DEF HandleSafetySwitch, SetPausedStatus, UntimelyResume, IInv, AtPoints
<1>4. ASSUME CheckPause
      PROVE  ~UntimelyResume
  <2>1. \/ \E line \in SerialLines : SetPausedStatus(line = "pause")
        \/ UNCHANGED <<running, prevRunning>>
      BY <1>4 DEF CheckPause, machineVars
  <2>2. SetPausedStatus(TRUE) \/ UNCHANGED <<running, prevRunning>>
      BY <2>1, ConsolePauses
  <2>. QED
      BY <1>1, <2>2 DEF SetPausedStatus, UntimelyResume
<1>. QED
    BY <1>2, <1>3, <1>4, KeepsJobStep DEF IInv, TInv

LEMMA DisciplinedStep ==
    ASSUME IInv, Disciplined, [Next]_vars
    PROVE  IInv'
<1>1. (TypeInv /\ StackInv /\ ButtonInv)'
    BY TInvStep DEF IInv, TInv
<1>. QED
    BY <1>1, InterlockStep, CuttingStep DEF IInv

\* In a disciplined environment the machine is paused whenever update() has
\* dealt with a flipped safety switch.
THEOREM InterlockHolds == ASSUME Disciplined PROVE Spec => []Interlock
<1>1. IInv => Interlock
    BY DEF IInv
<1>. QED
    BY <1>1, DisciplinedInit, DisciplinedStep, PTL DEF Spec

\* In a disciplined environment a cutting machine is in the loop of its own
\* job, with the order it was started for.
THEOREM CuttingMeansJob == ASSUME Disciplined PROVE Spec => []CuttingHasItsJob
<1>1. IInv => CuttingHasItsJob
    BY DEF IInv
<1>. QED
    BY <1>1, DisciplinedInit, DisciplinedStep, PTL DEF Spec

-----------------------------------------------------------------------------
(* The abstract machine *)

OrderOf == IF Cutting THEN <<rPerKit, kits>> ELSE <<>>

\* A step that changes nothing the abstract machine sees.
LEMMA Stutters ==
    ASSUME UNCHANGED <<Cutting, running = 2, OrderOf, Done>>
    PROVE  UNCHANGED Machine!vars
    BY Zenon DEF Machine!vars, OrderOf

LEMMA RefinementInit ==
    ASSUME Init
    PROVE  Machine!Init
    BY DEF Init, Machine!Init, Cutting, Done

LEMMA RefinementStep ==
    ASSUME IInv, IInv', Disciplined, [Next]_vars
    PROVE  [Machine!Next]_(Machine!vars)
<1>. USE DEF Cutting, OrderOf, Done
<1>1. /\ running \in 0..2 /\ prevRunning \in 0..1
      /\ Cutting => InJob /\ Top.i \in -1..Steps /\ Top.order = <<rPerKit, kits>>
      /\ Cutting /\ pc # "advance" => Top.i \in 0..Steps
    BY LoopSteps DEF IInv, TInv, TypeInv, CuttingHasItsJob
<1>2. CASE GetChange \/ ReturnPaused \/ ButtonUp \/ ButtonHeld \/ FlipSwitch \/ UNCHANGED vars
  <2>1. UNCHANGED <<menuVars, machineVars, jobs>>
      BY <1>2 DEF GetChange, ReturnPaused, ButtonUp, ButtonHeld, FlipSwitch, vars
  <2>2. Done' = Done
      BY <1>1, <1>2, <2>1 DEF GetChange, ReturnPaused, ButtonUp, ButtonHeld, FlipSwitch, vars,
                              machineVars, Top, IInv, ButtonInv
  <2>. QED
      BY <2>1, <2>2, Stutters DEF menuVars, machineVars
<1>3. CASE HandleSafetySwitch
  <2>1. UNCHANGED <<menuVars, jobs>>
      BY <1>3 DEF HandleSafetySwitch
  <2>2. Cutting' <=> Cutting
      BY <1>1, <1>3 DEF HandleSafetySwitch, SetPausedStatus, IInv, AtPoints
  <2>3. Done' = Done
      BY <1>3, <2>1, <2>2 DEF HandleSafetySwitch, Top
  <2>4. UNCHANGED <<Cutting, OrderOf, Done>>
      BY <2>1, <2>2, <2>3 DEF menuVars
  <2>. QED
      BY <1>1, <2>4, Stutters DEF Machine!Next, Machine!Pause, Machine!Resume, OrderOf
<1>4. CASE HandleJoystick
  <2>1. ~Cutting /\ ~Cutting' /\ running = 0 /\ running' = 0
      BY <1>4 DEF HandleJoystick, machineVars
  <2>. QED
      BY <2>1, Stutters
<1>5. CASE ShowProgress
  <2>1. /\ Cutting /\ Cutting' /\ running = 1 /\ running' = 1
        /\ UNCHANGED <<menuVars, jobs>> /\ pc = "act" /\ pc' = "button"
      BY <1>5 DEF ShowProgress, machineVars
  <2>2. Done = Top.i /\ Done' = Top.i + 1
      BY <2>1 DEF Top
  <2>. QED
      BY <1>1, <2>1, <2>2 DEF Machine!Next, Machine!Perform, menuVars
<1>6. CASE StartPressed
  <2>1. /\ running = 0 /\ running' = 1 /\ UNCHANGED menuVars /\ pc' = "poll"
      BY <1>6 DEF StartPressed
  <2>2. Done' = 0
      BY <1>6, <2>1, LoopSteps DEF IInv, TInv
  <2>3. <<rPerKit, kits>>' \in Orders
      BY <2>1 DEF menuVars, IInv, TypeInv, MenuTypeInv, Orders
  <2>. QED
      BY <2>1, <2>2, <2>3 DEF Machine!Next, Machine!Start
<1>7. CASE StopPressed
    BY <1>7 DEF StopPressed, Machine!Next, Machine!Stop, Machine!NoJob
<1>8. CASE CheckPause
  <2>1. /\ UNCHANGED menuVars /\ pc = "serial" /\ pc' = IF InJob THEN "advance" ELSE "poll"
        /\ UNCHANGED <<running, prevRunning>> \/ SetPausedStatus(TRUE)
      BY <1>8, ConsolePauses DEF CheckPause, machineVars
  <2>2. Cutting' <=> Cutting
      BY <1>1, <2>1 DEF SetPausedStatus
  <2>3. Done' = Done
    <3>1. CASE ~Cutting
        BY <2>2, <3>1
    <3>2. CASE Cutting /\ running = 2
      <4>1. Top'.i = Top.i - 1
          BY <1>1, <1>8, <3>2, LoopSteps DEF IInv, TInv
      <4>2. Done = Top.i /\ Done' = Top'.i + 1
          BY <1>1, <2>1, <2>2, <3>2
      <4>. QED
          BY <1>1, <3>2, <4>1, <4>2
    <3>3. CASE Cutting /\ running # 2
      <4>1. running = 1 /\ UNCHANGED jobs
          BY <1>8, <3>3 DEF CheckPause
      <4>2. Done = Top.i + 1 /\ Done' = Top'.i + 1
          BY <1>1, <2>1, <2>2, <3>3, <4>1
      <4>. QED
          BY <4>1, <4>2 DEF Top
    <3>. QED
        BY <3>1, <3>2, <3>3
  <2>4. UNCHANGED <<Cutting, OrderOf, Done>>
      BY <2>1, <2>2, <2>3 DEF menuVars
  <2>5. running' = 2 \/ UNCHANGED running
      BY <2>1 DEF SetPausedStatus
  <2>. QED
      BY <2>4, <2>5, Stutters DEF Machine!Next, Machine!Pause, OrderOf
<1>9. CASE NextStep
  <2>1. /\ UNCHANGED <<menuVars, running, prevRunning>> /\ pc = "advance" /\ pc' = "poll"
        /\ Top'.i = Top.i + 1
      BY <1>9, LoopSteps DEF NextStep, machineVars, IInv, TInv
  <2>. QED
      BY <2>1, Stutters DEF menuVars
<1>10. CASE FinishJob
  <2>1. UNCHANGED menuVars /\ pc = "advance" /\ Top.i = Steps /\ DoneRunning
      BY <1>10 DEF FinishJob
  <2>2. ~Cutting' /\ (running' = 2 <=> running = 2)
      BY <1>1, <2>1 DEF DoneRunning, machineVars
  <2>3. CASE Cutting
      BY <2>1, <2>2, <2>3 DEF Machine!Next, Machine!Finish, Machine!NoJob
  <2>4. CASE ~Cutting
      BY <2>2, <2>4, Stutters
  <2>. QED
      BY <2>3, <2>4
<1>. QED
    BY <1>2, <1>3, <1>4, <1>5, <1>6, <1>7, <1>8, <1>9, <1>10 DEF Next, LoopTask

\* In a disciplined environment the loop task implements the abstract machine:
\* jobs perform their steps in order, pausing neither loses nor repeats one,
\* and only the Stop button ends a job before its last step.
THEOREM Implementation == ASSUME Disciplined PROVE Spec => ImplementsCutter
<1>1. IInv /\ [Next]_vars => IInv'
    BY DisciplinedStep
<1>2. IInv /\ IInv' /\ [Next]_vars => [Machine!Next]_(Machine!vars)
    BY RefinementStep
<1>. QED
    BY <1>1, <1>2, DisciplinedInit, RefinementInit, PTL DEF Spec, ImplementsCutter, Machine!Spec

\* In a disciplined environment neither the switch nor the console begins or
\* ends the cutting of a job.
THEOREM NoOtherHandCuts == ASSUME Disciplined PROVE Spec => OnlyButtonOrEndChangesCutting
<1>1. ASSUME IInv, [Next]_vars, Cutting' # Cutting
      PROVE  pc \in {"button", "advance"}
  <2>1. running \in 0..2 /\ prevRunning \in 0..1
      BY <1>1 DEF IInv, TypeInv
  <2>2. ~HandleSafetySwitch
      BY <1>1, <2>1 DEF HandleSafetySwitch, SetPausedStatus, Cutting, IInv, AtPoints
  <2>3. ~CheckPause
      BY <1>1, <2>1, ConsolePauses DEF CheckPause, SetPausedStatus, machineVars, Cutting
  <2>. QED
      BY <1>1, <2>2, <2>3 DEF Next, LoopTask, GetChange, ReturnPaused, HandleJoystick, ShowProgress,
         ButtonUp, ButtonHeld, StartPressed, StopPressed, NextStep, FinishJob, FlipSwitch,
         vars, machineVars, Cutting
<1>2. IInv /\ [Next]_vars => [Cutting' # Cutting => pc \in {"button", "advance"}]_vars
    BY <1>1
<1>. QED
    BY <1>2, DisciplinedInit, DisciplinedStep, PTL DEF Spec, OnlyButtonOrEndChangesCutting
=============================================================================
