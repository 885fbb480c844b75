SPECIFICATION Spec
CONSTANTS
    A = A
    B = B
    c1 = c1
    c2 = c2
    Accounts = {A, B}
    Conns = {c1, c2}
    NoAccount = NoAccount
    NoCode = NoCode
    MaxSessions = 1
    ChanCap = 2
    AutoSync = {1}
    Friends = {1}
    Buttons = {"stop"}
    Overlap = FALSE
CHECK_DEADLOCK FALSE
INVARIANT RecordedToTheChosen
