-------------------------------- MODULE Menu --------------------------------
(***************************************************************************)
(* The three-line menu of the resistor cutter (Interface::handleJoystick): *)
(* line 0 edits rPerKit, line 1 edits kits, line 2 is the Start/Stop       *)
(* button.  This module says what ONE accepted joystick movement does to   *)
(* the menu; when a movement is accepted (reads of the stick, debouncing,  *)
(* repeat rate) is the business of Joystick.                               *)
(***************************************************************************)
EXTENDS Integers

CONSTANTS MaxRPerKit,  \* largest number of resistors per kit (10 in the code)
          MaxKits      \* largest number of kits (50 in the code)

ASSUME MenuAssumption ==
    /\ MaxRPerKit \in Nat \ {0}
    /\ MaxKits \in Nat \ {0}

VARIABLES currentSelection,  \* the highlighted line: 0, 1 or 2
          rPerKit,           \* resistors per kit
          kits               \* number of kits

menuVars == <<currentSelection, rPerKit, kits>>

MenuTypeInv ==
    /\ currentSelection \in 0..2
    /\ rPerKit \in 1..MaxRPerKit
    /\ kits \in 1..MaxKits

MenuInit ==
    /\ currentSelection = 0
    /\ rPerKit = 1
    /\ kits = 1

-----------------------------------------------------------------------------
LineAbove(s) == (s + 2) % 3
LineBelow(s) == (s + 1) % 3

TurnedDownFromZero(v, max) == (v + max - 2) % max  \* faulty variant: without the + 1

\* The cyclic counters 1..max: (v + 8) % 10 + 1 and v % 10 + 1 in the code.
TurnedDown(v, max) == ((v + max - 2) % max) + 1
TurnedUp(v, max) == (v % max) + 1

Up == currentSelection' = LineAbove(currentSelection) /\ UNCHANGED <<rPerKit, kits>>

Down == currentSelection' = LineBelow(currentSelection) /\ UNCHANGED <<rPerKit, kits>>

Left ==
    /\ \/ currentSelection = 0 /\ rPerKit' = TurnedDown(rPerKit, MaxRPerKit) /\ UNCHANGED kits
       \/ currentSelection = 1 /\ kits' = TurnedDown(kits, MaxKits) /\ UNCHANGED rPerKit
       \/ currentSelection = 2 /\ UNCHANGED <<rPerKit, kits>>
    /\ UNCHANGED currentSelection

Right ==
    /\ \/ currentSelection = 0 /\ rPerKit' = TurnedUp(rPerKit, MaxRPerKit) /\ UNCHANGED kits
       \/ currentSelection = 1 /\ kits' = TurnedUp(kits, MaxKits) /\ UNCHANGED rPerKit
       \/ currentSelection = 2 /\ UNCHANGED <<rPerKit, kits>>
    /\ UNCHANGED currentSelection

Move == Up \/ Down \/ Left \/ Right
=============================================================================
