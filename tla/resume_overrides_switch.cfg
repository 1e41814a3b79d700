SPECIFICATION Spec
CONSTANTS
    MaxRPerKit = 1
    MaxKits = 1
    Steps = 2
    MaxJobs = 2
    SerialLines = {"resume"}
    QuietPoints = {"setup", "confirm"}
INVARIANT Interlock
