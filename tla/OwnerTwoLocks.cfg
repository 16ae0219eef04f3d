SPECIFICATION TwoLocksSpec
CONSTANTS
  Threads = {t1, t2}
  t1 = t1
  t2 = t2
  Doors = {"cli", "service"}
  Ops = {"contribute", "expense", "reimburse"}
  Amounts = {1, 2}
  Floors = {0, 3}
  OpeningCash = 3
  OpeningFloor = 1
  OpeningCapital = 2
  Gap = 0
  MaxRequests = 4
  MaxBreaks = 0
SYMMETRY Symmetry
CHECK_DEADLOCK FALSE
INVARIANT PaidIsOwed
