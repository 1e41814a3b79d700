SPECIFICATION FairSpec
CONSTANTS
    MaxRPerKit = 3
    MaxKits = 2
    Steps = 3
    MaxJobs = 3
    SerialLines = {}
    QuietPoints = {"setup", "confirm"}
INVARIANTS Interlock CuttingHasItsJob
PROPERTIES OnlyButtonOrEndChangesCutting ImplementsCutter SwitchPauses ReleaseResumes JobsEnd
