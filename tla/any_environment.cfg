SPECIFICATION Spec
CONSTANTS
    MaxRPerKit = 2
    MaxKits = 2
    Steps = 2
    MaxJobs = 2
    SerialLines = {"pause", "resume"}
    QuietPoints = {}
INVARIANTS TypeInv OutputsAgree
PROPERTIES PausedIsFrozen CuttingKeepsItsJob ImplementsFeed
