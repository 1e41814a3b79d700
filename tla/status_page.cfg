SPECIFICATION Spec
CONSTANTS
    MaxRPerKit = 2
    MaxKits = 2
    MaxWindow = 3
INVARIANTS ValuesAreRecent OneChangeDoesNotTear
