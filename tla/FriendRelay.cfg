SPECIFICATION FairSpec
CONSTANTS
    g1 = g1
    g2 = g2
    own = own
    none = none
    Gids = {g1, g2}
    Identities = {own}
    NoIdentity = none
    QueueMax = 2
    MaxReplies = 3
    MaxReads = 1
CHECK_DEADLOCK FALSE
INVARIANTS
    WarningIsTrue
    FriendsAreKept
PROPERTIES
    RelayReturns
