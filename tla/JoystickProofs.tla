--------------------------- MODULE JoystickProofs ---------------------------
(***************************************************************************)
(* Proofs about the joystick, for every pair of pauses and every clock,    *)
(* and about the menu it moves on, for every number of resistors and kits. *)
(***************************************************************************)
EXTENDS Joystick, TLAPS

-----------------------------------------------------------------------------
(* The menu *)

\* Turning an input keeps it in its range, and turning it back restores it,
\* also across the ends of the range (the modulo arithmetic of handleJoystick).
THEOREM TurnsAreInverse ==
    ASSUME NEW max \in Nat \ {0}, NEW v \in 1..max
    PROVE  /\ TurnedDown(v, max) \in 1..max
           /\ TurnedUp(v, max) \in 1..max
           /\ TurnedUp(TurnedDown(v, max), max) = v
           /\ TurnedDown(TurnedUp(v, max), max) = v
<1>1. CASE v = 1
  <2>1. v + max - 2 = max - 1 /\ (max - 1) % max = max - 1 /\ max % max = 0
      BY <1>1
  <2>2. TurnedDown(v, max) = max /\ TurnedUp(max, max) = v
      BY <1>1, <2>1 DEF TurnedDown, TurnedUp
  <2>. QED
      BY <1>1, <2>2 DEF TurnedDown, TurnedUp
<1>2. CASE v > 1
  <2>1. v + max - 2 = max + (v - 2) /\ (v - 2) % max = v - 2
      BY <1>2
  <2>. QED
      BY <1>2, <2>1 DEF TurnedDown, TurnedUp
<1>. QED
    BY <1>1, <1>2

\* Whatever the joystick does, the menu stays in range (handleJoystick).
LEMMA MoveKeepsMenu ==
    ASSUME MenuTypeInv, Move
    PROVE  MenuTypeInv'
<1>1. /\ LineAbove(currentSelection) \in 0..2
      /\ LineBelow(currentSelection) \in 0..2
    BY DEF MenuTypeInv, LineAbove, LineBelow
<1>2. ASSUME NEW max \in Nat \ {0}, NEW v \in 1..max
      PROVE  TurnedDown(v, max) \in 1..max /\ TurnedUp(v, max) \in 1..max
    BY <1>2, TurnsAreInverse
<1>. QED
    BY <1>1, <1>2, MenuAssumption DEF MenuTypeInv, Move, Up, Down, Left, Right

-----------------------------------------------------------------------------
(* The joystick *)

\* A stick that is not tilted in both axes at once: then it cannot pass from
\* one axis to the other without being centred.
OneAxis == Diagonals = FALSE

\* The time the code computes, without the case distinction.
LEMMA ElapsedType ==
    ASSUME JoystickTypeInv
    PROVE  Elapsed \in 0..(ClockSize - 1)
    BY JoystickAssumption DEF JoystickTypeInv, Elapsed

\* As the clock advances, also when it wraps, the code sees at most the time
\* that passes.
LEMMA ElapsedOnTick ==
    ASSUME JoystickTypeInv, Tick, Elapsed <= since
    PROVE  Elapsed' <= since' /\ since <= since'
<1>1. /\ clock \in 0..(ClockSize - 1) /\ lastUpdate \in 0..(ClockSize - 1)
      /\ since \in 0..ClockSize /\ ClockSize \in Nat
    BY JoystickAssumption DEF JoystickTypeInv
<1>2. /\ clock' = IF clock + 1 = ClockSize THEN 0 ELSE clock + 1
      /\ since' = IF since < ClockSize THEN since + 1 ELSE since
      /\ lastUpdate' = lastUpdate
    BY DEF Tick
<1>3. /\ Elapsed \in 0..(ClockSize - 1) /\ Elapsed' \in 0..(ClockSize - 1)
      /\ Elapsed' <= Elapsed + 1
    BY <1>1, <1>2 DEF Elapsed
<1>4. since' \in Nat
    BY <1>1, <1>2
<1>. QED
    BY <1>1, <1>2, <1>3, <1>4

LEMMA JoystickInit ==
    ASSUME Init
    PROVE  JoystickInv
<1>1. JoystickTypeInv
  <2>1. MenuTypeInv
      BY MenuAssumption DEF Init, MenuInit, MenuTypeInv
  <2>2. /\ clock \in 0..(ClockSize - 1) /\ lastUpdate \in 0..(ClockSize - 1)
        /\ pass \in 0..MaxPass /\ since \in 0..ClockSize
      BY JoystickAssumption DEF Init
  <2>3. busy \in BOOLEAN /\ debounced \in BOOLEAN /\ rested \in BOOLEAN
      BY Zenon DEF Init
  <2>. QED
      BY <2>1, <2>2, <2>3 DEF Init, JoystickTypeInv, Calls
<1>. QED
    BY <1>1, ElapsedType, JoystickAssumption DEF Init, JoystickInv

LEMMA JoystickTypeStep ==
    ASSUME JoystickTypeInv, [Next]_vars
    PROVE  JoystickTypeInv'
<1>1. CASE Update
  <2>1. MenuTypeInv'
    <3>1. Move \/ UNCHANGED menuVars
        BY <1>1 DEF Update, GetUncentered, GetUncenteredX, GetVertical, GetUp, GetDown,
                    GetHorizontal, NotGetVertical, GetLeft, Move
    <3>. QED
        BY <3>1, MoveKeepsMenu DEF JoystickTypeInv, MenuTypeInv, menuVars
  <2>2. at' \in Calls /\ UNCHANGED <<stick, busy, clock>>
      BY <1>1 DEF Update, GetUncentered, GetUncenteredX, GetVertical, GetUp, GetDown,
                  GetHorizontal, NotGetVertical, GetLeft, Call, Calls, Accept, NoAccept, time
  <2>3. \/ Accept
        \/ NoAccept
        \/ /\ debounced' \in BOOLEAN /\ UNCHANGED <<lastUpdate, rested, since>>
           /\ pass' \in 0..MaxPass
    <3>1. CASE GetUncentered
        BY <3>1, JoystickAssumption DEF GetUncentered, JoystickTypeInv
    <3>2. CASE GetUncenteredX
        BY <3>2 DEF GetUncenteredX, JoystickTypeInv, time
    <3>3. CASE GetVertical \/ GetUp \/ GetDown \/ GetHorizontal \/ NotGetVertical \/ GetLeft
        BY <3>3 DEF GetVertical, GetUp, GetDown, GetHorizontal, NotGetVertical, GetLeft
    <3>. QED
        BY <1>1, <3>1, <3>2, <3>3 DEF Update
  <2>4. /\ lastUpdate' \in 0..(ClockSize - 1) /\ since' \in 0..ClockSize /\ pass' \in 0..MaxPass
      BY <2>3, JoystickAssumption DEF Accept, NoAccept, JoystickTypeInv, time
  <2>5. debounced' \in BOOLEAN /\ rested' \in BOOLEAN
      BY <2>3, Zenon DEF Accept, NoAccept, JoystickTypeInv
  <2>. QED
      BY <2>1, <2>2, <2>4, <2>5 DEF JoystickTypeInv, stick
<1>2. CASE MoveStick
  <2>1. rested' \in BOOLEAN
      BY <1>2, Zenon DEF MoveStick, JoystickTypeInv
  <2>. QED
      BY <1>2, <2>1 DEF MoveStick, JoystickTypeInv, MenuTypeInv, menuVars, time
<1>3. CASE Tick
    BY <1>3, JoystickAssumption DEF Tick, JoystickTypeInv, MenuTypeInv, menuVars, stick
<1>4. CASE StartOrStop
  <2>1. busy' \in BOOLEAN
      BY <1>4, Zenon DEF StartOrStop
  <2>. QED
      BY <1>4, <2>1 DEF StartOrStop, JoystickTypeInv, MenuTypeInv, menuVars, stick, time
<1>5. CASE UNCHANGED vars
    BY <1>5 DEF vars, JoystickTypeInv, MenuTypeInv, menuVars
<1>. QED
    BY <1>1, <1>2, <1>3, <1>4, <1>5 DEF Next

\* A movement is accepted only when it is due: the stick has been centred or
\* the pause is over.
LEMMA DueMeans ==
    ASSUME JoystickInv, NEW pause \in Nat, Due(pause)
    PROVE  rested \/ since >= pause
<1>1. CASE debounced
    BY <1>1, Zenon DEF JoystickInv
<1>2. CASE Elapsed >= pause
  <2>1. Elapsed <= since /\ Elapsed \in 0..(ClockSize - 1) /\ since \in 0..ClockSize
      BY ElapsedType DEF JoystickInv, JoystickTypeInv
  <2>2. since >= pause
      BY <1>2, <2>1, JoystickAssumption
  <2>. QED
      BY <2>2
<1>. QED
    BY <1>1, <1>2 DEF Due

LEMMA JoystickStep ==
    ASSUME OneAxis, JoystickInv, [Next]_vars
    PROVE  JoystickInv'
<1>1. JoystickTypeInv /\ JoystickTypeInv'
    BY JoystickTypeStep DEF JoystickInv
<1>2. Elapsed' <= since'
  <2>1. CASE Accept
      BY <2>1, <1>1 DEF Accept, Elapsed, JoystickTypeInv
  <2>2. CASE UNCHANGED <<clock, lastUpdate, since>>
      BY <2>2 DEF Elapsed, JoystickInv
  <2>3. CASE Tick
      BY <1>1, <2>3, ElapsedOnTick DEF JoystickInv
  <2>. QED
      BY <2>1, <2>2, <2>3 DEF Next, Update, GetUncentered, GetUncenteredX, GetVertical, GetUp,
         GetDown, GetHorizontal, NotGetVertical, GetLeft, MoveStick, StartOrStop, NoAccept, time, vars
<1>3. (x = "centre" /\ y = "centre" => rested)'
  <2>1. CASE MoveStick
      BY <2>1 DEF MoveStick
  <2>2. CASE Accept /\ UNCHANGED stick
      BY <2>2 DEF Accept, stick
  <2>3. CASE UNCHANGED <<stick, rested>>
      BY <2>3 DEF stick, JoystickInv
  <2>. QED
      BY <2>1, <2>2, <2>3 DEF Next, Update, GetUncentered, GetUncenteredX, GetVertical, GetUp,
         GetDown, GetHorizontal, NotGetVertical, GetLeft, Tick, StartOrStop, NoAccept, Call, vars, stick
<1>4. (at = "getUncenteredX" => y = "centre" \/ rested)'
  <2>1. CASE MoveStick
    <3>1. x' = "centre" \/ y' = "centre"
        BY <2>1 DEF MoveStick, OneAxis
    <3>. QED
        BY <1>1, <2>1, <3>1 DEF MoveStick, JoystickInv, JoystickTypeInv
  <2>2. CASE Update
      BY <2>2 DEF Update, GetUncentered, GetUncenteredX, GetVertical, GetUp, GetDown,
                  GetHorizontal, NotGetVertical, GetLeft, Call, stick
  <2>3. CASE Tick \/ StartOrStop \/ UNCHANGED vars
      BY <2>3 DEF Tick, StartOrStop, vars, stick, JoystickInv
  <2>. QED
      BY <2>1, <2>2, <2>3 DEF Next
<1>5. (debounced => rested)'
  <2>1. CASE GetUncenteredX
      BY <2>1 DEF GetUncenteredX, Call, JoystickInv
  <2>2. CASE Accept
      BY <2>2 DEF Accept
  <2>3. CASE UNCHANGED debounced /\ (rested => rested')
      BY <2>3, Zenon DEF JoystickInv
  <2>4. MoveStick => UNCHANGED debounced /\ (rested => rested')
      BY Zenon DEF MoveStick
  <2>5. NoAccept \/ GetUncentered \/ Tick \/ StartOrStop \/ UNCHANGED vars
            => UNCHANGED debounced /\ (rested => rested')
    <3>1. NoAccept \/ GetUncentered \/ Tick \/ StartOrStop \/ UNCHANGED vars
              => UNCHANGED debounced /\ UNCHANGED rested
        BY DEF NoAccept, GetUncentered, Tick, StartOrStop, vars
    <3>. QED
        BY <3>1, Zenon
  <2>6. \/ GetUncenteredX \/ Accept \/ MoveStick
        \/ NoAccept \/ GetUncentered \/ Tick \/ StartOrStop \/ UNCHANGED vars
      BY Zenon DEF Next, Update, GetVertical, GetUp, GetDown, GetHorizontal, NotGetVertical, GetLeft
  <2>. QED
      BY <2>1, <2>2, <2>3, <2>4, <2>5, <2>6, Zenon
<1>6. (at = "not getVertical" => rested \/ since >= HorizontalPause)'
  <2>1. CASE GetHorizontal
    <3>1. Due(HorizontalPause) => rested \/ since >= HorizontalPause
        BY DueMeans, JoystickAssumption
    <3>. QED
        BY <2>1, <3>1 DEF GetHorizontal, NoAccept, time, Call
  <2>2. CASE MoveStick \/ StartOrStop \/ UNCHANGED vars
      BY <2>2 DEF MoveStick, StartOrStop, vars, time, JoystickInv
  <2>3. CASE Tick
    <3>1. UNCHANGED <<at, rested>> /\ since <= since'
        BY <1>1, <2>3, ElapsedOnTick DEF Tick, JoystickInv
    <3>2. since \in Int /\ since' \in Int /\ HorizontalPause \in Int
        BY <1>1, JoystickAssumption DEF JoystickTypeInv
    <3>3. since >= HorizontalPause => since' >= HorizontalPause
        BY <3>1, <3>2
    <3>. QED
        BY <3>1, <3>3 DEF JoystickInv
  <2>4. CASE Update /\ ~GetHorizontal
      BY <2>4 DEF Update, GetUncentered, GetUncenteredX, GetVertical, GetUp, GetDown,
                  NotGetVertical, GetLeft, Call
  <2>. QED
      BY <2>1, <2>2, <2>3, <2>4 DEF Next
<1>. QED
    BY <1>1, <1>2, <1>3, <1>4, <1>5, <1>6 DEF JoystickInv

\* What handleJoystick() computes in unsigned arithmetic from millis() is never more than
\* the time that has passed, and a debounced stick has been centred since its last movement.
THEOREM JoystickInvariant == ASSUME OneAxis PROVE Spec => []JoystickInv
<1>1. JoystickInv /\ [Next]_vars => JoystickInv'
    BY JoystickStep
<1>. QED
    BY <1>1, JoystickInit, PTL DEF Spec

\* One movement of the stick is one movement in the menu, for every length of
\* the pauses and although the clock wraps.
THEOREM RepeatRateHolds == ASSUME OneAxis PROVE Spec => RepeatRate
<1>1. ASSUME JoystickInv, at = "getVertical", at' = "getUp", [Next]_vars
      PROVE  rested \/ since >= VerticalPause
  <2>1. GetVertical
      BY <1>1 DEF Next, Update, GetUncentered, GetUncenteredX, GetUp, GetDown, GetHorizontal,
         NotGetVertical, GetLeft, MoveStick, Tick, StartOrStop, Call, vars
  <2>2. Due(VerticalPause)
      BY <1>1, <2>1 DEF GetVertical, Call
  <2>. QED
      BY <1>1, <2>2, DueMeans, JoystickAssumption
<1>2. ASSUME JoystickInv, at = "not getVertical"
      PROVE  rested \/ since >= HorizontalPause
    BY <1>2 DEF JoystickInv
<1>3. JoystickInv /\ [Next]_vars =>
          [/\ at = "getVertical" /\ at' = "getUp" => rested \/ since >= VerticalPause
           /\ at = "not getVertical" /\ at' = "getLeft" => rested \/ since >= HorizontalPause]_vars
    BY <1>1, <1>2
<1>4. JoystickInv /\ [Next]_vars => JoystickInv'
    BY JoystickStep
<1>. QED
    BY <1>3, <1>4, JoystickInit, PTL DEF Spec, RepeatRate

\* A movement that is under way has been booked, by a machine that is idle.
MovingInv ==
    /\ at # "getUncentered" => ~busy
    /\ at \in {"getUp", "getDown", "getLeft"} => ~debounced

LEMMA MovingStep ==
    ASSUME MovingInv, [Next]_vars
    PROVE  MovingInv'
<1>1. CASE GetUncentered
    BY <1>1 DEF GetUncentered, Call, MovingInv
<1>2. CASE GetUncenteredX
  <2>1. ~busy /\ UNCHANGED busy /\ at' \in {"getVertical", "getUncentered"}
      BY <1>2 DEF GetUncenteredX, Call, MovingInv
  <2>. QED
      BY <2>1 DEF MovingInv
<1>3. CASE GetVertical \/ GetUp \/ GetDown
    BY <1>3 DEF GetVertical, GetUp, GetDown, Call, Accept, NoAccept, MovingInv
<1>4. CASE GetHorizontal \/ GetLeft
  <2>1. ~busy /\ UNCHANGED busy /\ at' \in {"not getVertical", "getUncentered"}
      BY <1>4 DEF GetHorizontal, GetLeft, Call, MovingInv
  <2>. QED
      BY <2>1 DEF MovingInv
<1>5. CASE NotGetVertical
  <2>1. ~busy /\ UNCHANGED busy
      BY <1>5 DEF NotGetVertical, Call, MovingInv
  <2>2. at' = "getUncentered" \/ ~debounced'
      BY <1>5 DEF NotGetVertical, Call, Accept
  <2>. QED
      BY <2>1, <2>2 DEF MovingInv
<1>6. CASE MoveStick \/ Tick \/ StartOrStop \/ UNCHANGED vars
    BY <1>6 DEF MoveStick, Tick, StartOrStop, vars, MovingInv
<1>. QED
    BY <1>1, <1>2, <1>3, <1>4, <1>5, <1>6 DEF Next, Update

\* The modulo arithmetic of the inputs steps round the ring 1..max, of every size.
LEMMA TurnsAreSteps ==
    ASSUME NEW max \in Nat \ {0}, NEW v \in 1..max
    PROVE  /\ Follows(v, TurnedDown(v, max), 1, max)
           /\ Follows(TurnedUp(v, max), v, 1, max)
<1>1. ASSUME v = 1
      PROVE  Follows(v, TurnedDown(v, max), 1, max)
  <2>1. v + max - 2 = max - 1 /\ (max - 1) % max = max - 1
      BY <1>1
  <2>2. TurnedDown(v, max) = max
      BY <2>1 DEF TurnedDown
  <2>. QED
      BY <1>1, <2>2 DEF Follows
<1>2. ASSUME v > 1
      PROVE  Follows(v, TurnedDown(v, max), 1, max)
  <2>1. v + max - 2 = max + (v - 2) /\ (max + (v - 2)) % max = v - 2
      BY <1>2
  <2>2. TurnedDown(v, max) = v - 1
      BY <1>2, <2>1 DEF TurnedDown
  <2>. QED
      BY <1>2, <2>2 DEF Follows
<1>3. Follows(TurnedUp(v, max), v, 1, max)
  <2>1. CASE v = max
    <3>1. v % max = 0
        BY <2>1
    <3>. QED
        BY <2>1, <3>1 DEF TurnedUp, Follows
  <2>2. CASE v < max
    <3>1. v % max = v
        BY <2>2
    <3>. QED
        BY <2>2, <3>1 DEF TurnedUp, Follows
  <2>. QED
      BY <2>1, <2>2
<1>. QED
    BY <1>1, <1>2, <1>3

\* Every movement changes one thing by one step, in the direction of the stick,
\* for every number of resistors and kits.
THEOREM MovementsAreSteps == Spec => MovesByOne
<1>1. ASSUME JoystickTypeInv, MovingInv, [Next]_vars, ~UNCHANGED menuVars
      PROVE  /\ ~busy /\ ~debounced
             /\ \/ /\ UNCHANGED <<rPerKit, kits>>
                   /\ \/ y = "up" /\ Follows(currentSelection, currentSelection', 0, 2)
                      \/ y = "down" /\ Follows(currentSelection', currentSelection, 0, 2)
                \/ /\ UNCHANGED <<currentSelection, kits>>
                   /\ InputTurns(0, rPerKit, rPerKit', MaxRPerKit)
                \/ /\ UNCHANGED <<currentSelection, rPerKit>>
                   /\ InputTurns(1, kits, kits', MaxKits)
  <2>1. GetUp \/ GetDown \/ GetLeft
      BY <1>1 DEF Next, Update, GetUncentered, GetUncenteredX, GetVertical, GetHorizontal,
         NotGetVertical, MoveStick, Tick, StartOrStop, vars
  <2>2. ~busy /\ ~debounced
      BY <1>1, <2>1 DEF GetUp, GetDown, GetLeft, Call, MovingInv
  <2>3. currentSelection \in 0..2 /\ rPerKit \in 1..MaxRPerKit /\ kits \in 1..MaxKits
      BY <1>1 DEF JoystickTypeInv, MenuTypeInv
  <2>4. CASE GetUp
    <3>1. y = "up" /\ Up
        BY <1>1, <2>4 DEF GetUp
    <3>. QED
        BY <2>2, <2>3, <3>1 DEF Up, LineAbove, Follows
  <2>5. CASE GetDown
    <3>1. y = "down" /\ Down
        BY <1>1, <2>5 DEF GetDown
    <3>. QED
        BY <2>2, <2>3, <3>1 DEF Down, LineBelow, Follows
  <2>6. CASE GetLeft
    <3>1. \/ x = "left" /\ Left
          \/ x # "left" /\ Right
        BY <2>6 DEF GetLeft
    <3>2. /\ Follows(rPerKit, TurnedDown(rPerKit, MaxRPerKit), 1, MaxRPerKit)
          /\ Follows(TurnedUp(rPerKit, MaxRPerKit), rPerKit, 1, MaxRPerKit)
          /\ Follows(kits, TurnedDown(kits, MaxKits), 1, MaxKits)
          /\ Follows(TurnedUp(kits, MaxKits), kits, 1, MaxKits)
        BY <2>3, TurnsAreSteps, MenuAssumption
    <3>. QED
        BY <1>1, <2>2, <2>3, <3>1, <3>2 DEF Left, Right, InputTurns, menuVars
  <2>. QED
      BY <2>1, <2>4, <2>5, <2>6
<1>2. JoystickTypeInv /\ MovingInv /\ [Next]_vars =>
          [/\ ~busy /\ ~debounced
           /\ \/ /\ UNCHANGED <<rPerKit, kits>>
                 /\ \/ y = "up" /\ Follows(currentSelection, currentSelection', 0, 2)
                    \/ y = "down" /\ Follows(currentSelection', currentSelection, 0, 2)
              \/ /\ UNCHANGED <<currentSelection, kits>>
                 /\ InputTurns(0, rPerKit, rPerKit', MaxRPerKit)
              \/ /\ UNCHANGED <<currentSelection, rPerKit>>
                 /\ InputTurns(1, kits, kits', MaxKits)]_menuVars
    BY <1>1
<1>3. Init => JoystickTypeInv /\ MovingInv
    BY JoystickInit DEF JoystickInv, Init, MovingInv
<1>4. JoystickTypeInv /\ MovingInv /\ [Next]_vars => JoystickTypeInv' /\ MovingInv'
    BY JoystickTypeStep, MovingStep
<1>. QED
    BY <1>2, <1>3, <1>4, PTL DEF Spec, MovesByOne
=============================================================================
