SPECIFICATION Spec
CONSTANTS
    h1 = h1
    h2 = h2
    h3 = h3
    admin = admin
    admin2 = admin2
    user = user
    q1 = q1
    q2 = q2
    friend = friend
    NoOne = NoOne
    Helpers = {h1, h2, h3}
    User <- TheirUsers
    QQs <- TheirQQs
    Admins = {admin, admin2}
    Captures <- TheirCaptures
    InitialLists <- Lists
    MaxLogins = 3
    MaxDeletes = 1
    MaxLate = 1
    MaxPolls = 1
    MaxGids = 2
CHECK_DEADLOCK FALSE
INVARIANTS
    WritesToOwnAccount
    ResultsAreTrue
PROPERTIES
    GoesToEarliest
    SyncsEnd
