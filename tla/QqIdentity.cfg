SPECIFICATION Spec
CONSTANTS
    a1 = a1
    a2 = a2
    list = list
    revalidation = revalidation
    Anyone = Anyone
    Torn = Torn
    Accounts = {a1, a2}
    NamesOf <- Nicknames
    Detectors = {list, revalidation}
    Target <- Targets
    Attempts <- Tries
    Cap = 2
    FileCap = 1
    MaxChanges = 3
    MaxFails = 1
    MaxStarts = 2
CHECK_DEADLOCK FALSE
INVARIANTS
    ConfirmedIsLoggedIn
    QuietDetectionSucceeds
    DiskFollowsMemory
