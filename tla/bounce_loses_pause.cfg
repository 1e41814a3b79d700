SPECIFICATION FairSpec
CONSTANTS
    MaxRPerKit = 1
    MaxKits = 1
    Steps = 2
    MaxJobs = 2
    SerialLines = {}
    QuietPoints = {"setup"}
PROPERTY SwitchPauses
