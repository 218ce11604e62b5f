SPECIFICATION Spec
CONSTANTS
    Procs = {p1, p2}
    ConfigFiles <- MCConfigFiles
    ShaPrefix <- MCShaPrefix
    MaxSecond = 1
    MaxFaults = 1
    PlotStops = {3}
    BaseDir = BaseDir
    None = None
    NonStrings = {"5"}
SYMMETRY MCSymmetry
INVARIANTS
    TypeOK
    ManifestMeansComplete
    RunRepeatsFromDisk
    PairedAndIndependent
    NoDebris
    ManifestTellsSuccess
PROPERTY
    PublishedIsFinal
CHECK_DEADLOCK FALSE
