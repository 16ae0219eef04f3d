SPECIFICATION MCSpec
CONSTANTS
  Ids = {c1}
  Paid = {c1}
  Warrants = {w1, w2}
  Other = w2
  Foreign = {f1}
  Threads = {t1, t2}
  MaxCases = 2
  MaxRequests = 3
  MaxNotices = 2
  MaxBreaks = 1
CHECK_DEADLOCK FALSE
PROPERTIES
  OpenCaseHolds
  CasesBlock
  SettledInOrder
