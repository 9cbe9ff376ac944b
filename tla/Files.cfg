SPECIFICATION AllSpec
CONSTANTS
    Parts = {"writes", "paths", "log", "command", "csv", "fixture"}
    Runs <- ThreeRuns
    Plan <- ThreePlans
    Old = Old
    Missing = Missing
    Names <- FiveNames
    Fold <- LowerCase
    Input = "data"
    Backup <- Rotations
    NumFiles = 3
    MaxFiles = 6
    NumEvents = 5
    BackupCount = 2
    MaxBytes = 4
    Sizes = {1, 2, 4}
    NumBars = 4
    Clocks <- FourClocks
    Symbols = {"A", "B"}
    MaxGap = 1
    MaxRows = 3
    NumRows = 3
    MaxChanges = 2
    Forged = Forged
    Absent = Absent
    None = None
CHECK_DEADLOCK FALSE
INVARIANTS
    ArtifactsSurvive
    LogIsHonest
    CommandIsHonest
    LoadedIsTheFile
    OnlyTheFixture
PROPERTY ImplementsStore
