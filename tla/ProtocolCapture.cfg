SPECIFICATION FairSpec
CONSTANTS
    c1 = c1
    c2 = c2
    Conns = {c1, c2}
    MaxMessages = 2
    MaxFails = 2
CHECK_DEADLOCK FALSE
INVARIANTS
    RecordsAreTrue
    StopLosesNothing
    SummaryIsFinal
PROPERTIES
    StopsReturn
