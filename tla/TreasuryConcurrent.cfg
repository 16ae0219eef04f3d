CONSTANTS
    t1 = t1
    t2 = t2
    Workers = {t1, t2}
    Proposals = {p1}
    Warrants = {w1}
    Members <- MCMembers
    Admins <- MCAdmins
    Owners <- MCOwners
    Contributors = {"bea"}
    None = "-"
    Amounts = {1}
    Floors = {}
    WindowHours = {0}
    EarlyRequests = {FALSE}
    TTL = 2
    OpeningCash = 2
    OpeningFloor = 0
    OpeningCapital = 1
    Revenue = 4
    MaxCapital = 2
    MaxNow = 0
    MaxAborts = 1
    MaxDebits = 1
    p1 = p1
    w1 = w1
    w2 = w2
SPECIFICATION Spec
CHECK_DEADLOCK FALSE
INVARIANTS BooksBalance DutiesSeparated ExecutedIsJournaled WarrantSpentOnPayout
SYMMETRY Symmetry
