CONSTANTS
    t1 = t1
    t2 = t2
    Workers = {t1}
    Proposals = {p1}
    Warrants = {w1, w2}
    Members <- MCMembers
    Admins <- MCAdmins
    Owners <- MCOwners
    Contributors = {"bea"}
    None = "-"
    Amounts = {2}
    Floors = {3}
    WindowHours = {1}
    EarlyRequests = {TRUE, FALSE}
    TTL = 1
    OpeningCash = 4
    OpeningFloor = 0
    OpeningCapital = 1
    Revenue = 4
    MaxCapital = 1
    MaxNow = 1
    MaxAborts = 1
    MaxDebits = 3
    p1 = p1
    w1 = w1
    w2 = w2
SPECIFICATION Spec
CHECK_DEADLOCK FALSE
PROPERTIES KeepsPromise
SYMMETRY Symmetry
