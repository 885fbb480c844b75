SPECIFICATION Spec
CONSTANTS
    A = A
    B = B
    c1 = c1
    c2 = c2
    Accounts = {A, B}
    Conns = {c1, c2}
    NoAccount = NoAccount
    NoCode = NoCode
    MaxSessions = 2
    ChanCap = 2
    AutoSync = {2}
    Friends = {2}
    Buttons = {"stop"}
    Overlap = FALSE
CHECK_DEADLOCK FALSE
SYMMETRY Symmetry
INVARIANTS
    TypeOK
    LockedIsSelected
    SyncsTheShownRow
    RefusalHasCause
    NoEventIsDropped
    ReadyMeansDisarmed
    OfferedCodeIsThere
PROPERTIES
    ImplementsExchange
