SPECIFICATION FairSpec
CONSTANTS
    P1 = P1
    P2 = P2
    Proxies = {P1, P2}
    Local = Local
    Torn = Torn
    NoBackup = NoBackup
    Attempts = 2
    OsFails = TRUE
    MaxWrites = 1
    MaxLaunches = 2
    MaxStops = 2
    MaxRaces = 0
CHECK_DEADLOCK FALSE
INVARIANTS
    TypeOK
    QuietMeansClean
    LiveIsTakenOver
    UnracedExitRestores
    RetriesAbsorbWrites
PROPERTIES
    ImplementsLoan
    CommandsEnd
