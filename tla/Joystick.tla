------------------------------ MODULE Joystick ------------------------------
(***************************************************************************)
(* How movements of the joystick become movements in the menu: the first   *)
(* part of Interface::update (the machine not running) and the whole of    *)
(* Interface::handleJoystick, with the functions of class Joystick they    *)
(* call.  Every one of those reads the converter anew, so the stick may    *)
(* move between any two of them; a movement is accepted at once when the   *)
(* stick has been seen centred since the last one ("debounced") and        *)
(* repeated after a pause when it is held.  The pauses are measured with   *)
(* millis(), an unsigned counter that wraps.                               *)
(***************************************************************************)
EXTENDS Menu

CONSTANTS VerticalPause,    \* pause before a vertical movement is repeated (500 ms)
          HorizontalPause,  \* the same for a horizontal one (250 ms)
          ClockSize,        \* millis() counts modulo this (2^32)
          MaxPass,          \* bound: ticks during one call of update()
          Diagonals         \* can the stick be tilted in both axes at once?

ASSUME JoystickAssumption ==
    /\ VerticalPause \in Nat /\ HorizontalPause \in Nat
    /\ MaxPass \in Nat \ {0}
    /\ ClockSize \in Nat
    /\ VerticalPause + MaxPass < ClockSize /\ HorizontalPause + MaxPass < ClockSize
    /\ Diagonals \in BOOLEAN

VARIABLES x, y,        \* the position of the stick, per axis
          busy,        \* is the machine running or paused, so that the stick is not read?
          clock,       \* millis()
          lastUpdate,  \* when the last movement was accepted
          debounced,   \* has the stick been seen centred since?
          at,          \* the function of Joystick that is called next
          pass,        \* ticks since update() was called
          since,       \* (observer) the time since the last movement, however long
          rested       \* (observer) has the stick been centred since the last movement?

stick == <<x, y>>
time == <<clock, pass, since>>
vars == <<menuVars, x, y, busy, clock, lastUpdate, debounced, at, pass, since, rested>>

Calls == {"getUncentered", "getUncenteredX", "getVertical", "getUp", "getDown",
          "getHorizontal", "not getVertical", "getLeft"}

\* millis() - lastUpdate in unsigned arithmetic
Elapsed == IF clock >= lastUpdate THEN clock - lastUpdate ELSE clock + ClockSize - lastUpdate

Due(pause) == debounced \/ Elapsed >= pause

\* A movement is accepted.  since is saturated: beyond ClockSize it says nothing.
AcceptStaysDebounced ==  \* faulty variant: debounced is not reset
    /\ lastUpdate' = clock /\ UNCHANGED debounced
    /\ since' = 0 /\ rested' = (x = "centre" /\ y = "centre")
    /\ UNCHANGED <<clock, pass>>

Accept ==
    /\ lastUpdate' = clock /\ debounced' = FALSE
    /\ since' = 0 /\ rested' = (x = "centre" /\ y = "centre")
    /\ UNCHANGED <<clock, pass>>

Call(f, g) == at = f /\ at' = g /\ UNCHANGED <<stick, busy>>

NoAccept == UNCHANGED <<time, lastUpdate, debounced, rested>>

-----------------------------------------------------------------------------
Init ==
    /\ MenuInit
    /\ x = "centre" /\ y = "centre"
    /\ busy = FALSE
    /\ clock \in 0..(ClockSize - 1)  \* setup() waits for the console, however long
    /\ lastUpdate = 0
    /\ debounced = TRUE
    /\ at = "getUncentered"
    /\ pass = 0
    /\ since = ClockSize
    /\ rested = TRUE

\* update(): getUncentered() asks getUp() and getDown() first ...
GetUncentered ==
    /\ ~busy
    /\ Call("getUncentered", IF y # "centre" THEN "getVertical" ELSE "getUncenteredX")
    /\ pass' = 0
    /\ UNCHANGED <<menuVars, clock, since, lastUpdate, debounced, rested>>

\* ... and then getLeft() and getRight(); a centred stick is debounced.
GetUncenteredX ==
    /\ \/ x # "centre" /\ Call("getUncenteredX", "getVertical") /\ UNCHANGED debounced
       \/ x = "centre" /\ Call("getUncenteredX", "getUncentered") /\ debounced' = TRUE
    /\ UNCHANGED <<menuVars, time, lastUpdate, rested>>

\* handleJoystick(), first branch
GetVerticalRestarts ==  \* faulty variant: lastUpdate is set before the pause is looked at
    /\ \/ y # "centre" /\ Due(VerticalPause) /\ Call("getVertical", "getUp") /\ Accept
       \/ /\ ~(y # "centre" /\ Due(VerticalPause)) /\ Call("getVertical", "getHorizontal")
          /\ lastUpdate' = clock /\ UNCHANGED <<time, debounced, rested>>
    /\ UNCHANGED menuVars

GetVertical ==
    /\ \/ y # "centre" /\ Due(VerticalPause) /\ Call("getVertical", "getUp") /\ Accept
       \/ ~(y # "centre" /\ Due(VerticalPause)) /\ Call("getVertical", "getHorizontal") /\ NoAccept
    /\ UNCHANGED menuVars

GetUp ==
    /\ \/ y = "up" /\ Call("getUp", "getUncentered") /\ Up
       \/ y # "up" /\ Call("getUp", "getDown") /\ UNCHANGED menuVars
    /\ NoAccept

GetDown ==
    /\ Call("getDown", "getUncentered")
    /\ \/ y = "down" /\ Down
       \/ y # "down" /\ UNCHANGED menuVars
    /\ NoAccept

\* handleJoystick(), second branch: getHorizontal() and the pause, then
\* !getVertical() ...
GetHorizontalOnce ==  \* faulty variant: a held stick is not repeated
    /\ \/ x # "centre" /\ debounced /\ Call("getHorizontal", "not getVertical")
       \/ ~(x # "centre" /\ debounced) /\ Call("getHorizontal", "getUncentered")
    /\ NoAccept /\ UNCHANGED menuVars

GetHorizontal ==
    /\ \/ x # "centre" /\ Due(HorizontalPause) /\ Call("getHorizontal", "not getVertical")
       \/ ~(x # "centre" /\ Due(HorizontalPause)) /\ Call("getHorizontal", "getUncentered")
    /\ NoAccept /\ UNCHANGED menuVars

NotGetVertical ==
    /\ \/ y = "centre" /\ Call("not getVertical", "getLeft") /\ Accept
       \/ y # "centre" /\ Call("not getVertical", "getUncentered") /\ NoAccept
    /\ UNCHANGED menuVars

\* ... then getLeft() on the two input lines: what is not left is taken as right.
GetLeft ==
    /\ Call("getLeft", "getUncentered")
    /\ \/ x = "left" /\ Left
       \/ x # "left" /\ Right
    /\ NoAccept

\* The stick moves, each axis through its centre.
MoveStick ==
    /\ \/ x' \in (IF x = "centre" THEN {"left", "right"} ELSE {"centre"}) /\ UNCHANGED y
       \/ y' \in (IF y = "centre" THEN {"up", "down"} ELSE {"centre"}) /\ UNCHANGED x
    /\ Diagonals \/ x' = "centre" \/ y' = "centre"
    /\ rested' = (rested \/ (x' = "centre" /\ y' = "centre"))
    /\ UNCHANGED <<menuVars, busy, time, lastUpdate, debounced, at>>

\* A millisecond passes.
Tick ==
    /\ busy \/ pass < MaxPass
    /\ clock' = IF clock + 1 = ClockSize THEN 0 ELSE clock + 1
    /\ pass' = IF pass < MaxPass THEN pass + 1 ELSE pass
    /\ since' = IF since < ClockSize THEN since + 1 ELSE since
    /\ UNCHANGED <<menuVars, stick, busy, lastUpdate, debounced, at, rested>>

\* Between two calls of update() the machine starts or stops running.
StartOrStop ==
    /\ at = "getUncentered"
    /\ busy' = ~busy
    /\ UNCHANGED <<menuVars, stick, time, lastUpdate, debounced, at, rested>>

Update ==
    \/ GetUncentered \/ GetUncenteredX
    \/ GetVertical \/ GetUp \/ GetDown
    \/ GetHorizontal \/ NotGetVertical \/ GetLeft

Next == Update \/ MoveStick \/ Tick \/ StartOrStop

Spec == Init /\ [][Next]_vars

\* The loop task keeps calling update(), and time passes.
FairSpec == Spec /\ WF_vars(Update) /\ WF_vars(Tick)

-----------------------------------------------------------------------------
(* Properties *)

JoystickTypeInv ==
    /\ MenuTypeInv
    /\ x \in {"left", "centre", "right"} /\ y \in {"up", "centre", "down"}
    /\ busy \in BOOLEAN /\ debounced \in BOOLEAN /\ rested \in BOOLEAN
    /\ clock \in 0..(ClockSize - 1) /\ lastUpdate \in 0..(ClockSize - 1)
    /\ pass \in 0..MaxPass
    /\ since \in 0..ClockSize
    /\ at \in Calls

\* What the code knows of time and stick is true of them, although the clock
\* wraps and the stick moves while it is read: the time it computes is never
\* more than has passed, and it takes for centred only a stick that has been.
JoystickInv ==
    /\ JoystickTypeInv
    /\ Elapsed <= since
    /\ x = "centre" /\ y = "centre" => rested
    /\ at = "getUncenteredX" => y = "centre" \/ rested
    /\ debounced => rested
    /\ at = "not getVertical" => rested \/ since >= HorizontalPause

\* One movement of the stick is one movement in the menu: unless the stick has
\* been centred since the last accepted movement, the next one is accepted
\* only after the pause, even if millis() has wrapped in between
\* (Interface::handleJoystick).
RepeatRate ==
    [][/\ at = "getVertical" /\ at' = "getUp" => rested \/ since >= VerticalPause
       /\ at = "not getVertical" /\ at' = "getLeft" => rested \/ since >= HorizontalPause]_vars

\* From a to b is one step forward on the ring of the numbers first..last.
Follows(b, a, first, last) == b = IF a = last THEN first ELSE a + 1

\* An input of the line that is shown goes one step round its ring, down when
\* the stick is left at that moment, up when it is not.
InputTurns(line, v, w, max) ==
    /\ currentSelection = line /\ v \in 1..max
    /\ IF x = "left" THEN Follows(v, w, 1, max) ELSE Follows(w, v, 1, max)

\* However the stick moves between the reads, a movement changes one thing by
\* one: the line, in the direction of the stick, or the input of the current
\* line, and at both ends of its range an input goes on at the other end (the
\* three ways of counting modulo in Interface::handleJoystick).  It happens on
\* an idle machine only, and never without being booked as the movement from
\* which the next one is counted.
MovesByOne ==
    [][/\ ~busy /\ ~debounced
       /\ \/ /\ UNCHANGED <<rPerKit, kits>>
             /\ \/ y = "up" /\ Follows(currentSelection, currentSelection', 0, 2)
                \/ y = "down" /\ Follows(currentSelection', currentSelection, 0, 2)
          \/ /\ UNCHANGED <<currentSelection, kits>>
             /\ InputTurns(0, rPerKit, rPerKit', MaxRPerKit)
          \/ /\ UNCHANGED <<currentSelection, rPerKit>>
             /\ InputTurns(1, kits, kits', MaxKits)]_menuVars

\* A stick that is held up on an idle machine keeps moving the selection
\* through the lines of the menu (the repeat of Interface::handleJoystick).
HeldUpCycles ==
    <>[](y = "up" /\ ~busy) => \A s \in 0..2 : []<>(currentSelection = s)

\* A stick that is held left on the first line keeps turning its input.
HeldLeftTurns ==
    <>[](x = "left" /\ y = "centre" /\ ~busy /\ currentSelection = 0)
        => \A r \in 1..MaxRPerKit : []<>(rPerKit = r)
=============================================================================
