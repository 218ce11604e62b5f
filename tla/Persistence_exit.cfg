SPECIFICATION Spec
CONSTANTS
    Procs = {p1}
    ConfigFiles <- MCConfigFiles
    ShaPrefix <- MCShaPrefix
    MaxSecond = 1
    MaxFaults = 1
    PlotStops = {3}
    BaseDir = BaseDir
    None = None
    NonStrings = {"5"}
INVARIANT IoFailureExitsWith3
CHECK_DEADLOCK FALSE
