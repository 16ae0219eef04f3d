SPECIFICATION MCSpec
CONSTANTS
  Threads = {t1, t2}
  Doors = {"cli", "service"}
  Ops = {"contribute", "expense", "reimburse", "draw", "floor", "payout", "snapshot"}
  Amounts = {1, 2}
  Floors = {0, 3}
  OpeningCash = 3
  OpeningFloor = 1
  OpeningCapital = 2
  Gap = 1
  MaxRequests = 4
  MaxBreaks = 2
SYMMETRY Symmetry
CHECK_DEADLOCK FALSE
INVARIANTS
  OwnerKnows
  BooksAgree
  ReimbursedWithinExpenses
