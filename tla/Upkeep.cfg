SPECIFICATION Spec
CONSTANTS
    Kinds = {"portable", "installer"}
    MaxFaults = 2
    MaxRuns = 2
    FileNames <- TwoFiles
    Settings = {"s1", "s2"}
    MaxErrors = 2
CHECK_DEADLOCK FALSE
INVARIANTS
    AVersionIsKept
    EndedMeansInPlace
    MigrationLosesNothing
    NoSilentReset
