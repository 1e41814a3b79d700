SPECIFICATION FairSpec
CONSTANTS
    MaxRPerKit = 3
    MaxKits = 2
    VerticalPause = 2
    HorizontalPause = 1
    ClockSize = 6
    MaxPass = 2
    Diagonals = FALSE
INVARIANT JoystickInv
PROPERTIES RepeatRate MovesByOne HeldUpCycles HeldLeftTurns
