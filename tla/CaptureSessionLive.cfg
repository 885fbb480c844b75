SPECIFICATION FairSpec
CONSTANTS
    A = A
    B = B
    c1 = c1
    c2 = c2
    Accounts = {A, B}
    Conns = {c1, c2}
    NoAccount = NoAccount
    NoCode = NoCode
    MaxSessions = 1
    ChanCap = 2
    AutoSync = {1}
    Friends = {1}
    Buttons = {"cleanup"}
    Overlap = FALSE
CHECK_DEADLOCK FALSE
PROPERTIES
    ClaimsAreResolved
    StartsEnd
