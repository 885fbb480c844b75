SPECIFICATION Spec
CONSTANTS
    P1 = P1
    P2 = P2
    Proxies = {P1, P2}
    Local = Local
    Torn = Torn
    NoBackup = NoBackup
    Attempts = 2
    OsFails = FALSE
    MaxWrites = 0
    MaxLaunches = 1
    MaxStops = 2
    MaxRaces = 1
CHECK_DEADLOCK FALSE
SYMMETRY Symmetry
INVARIANTS
    NormalExitRestores
