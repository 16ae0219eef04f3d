SPECIFICATION MCSpec
CONSTANTS
  Threads = {t1, t2}
  Customers = {c1}
  Refs = {r1}
  Pilots = {p1}
  Ops = {"add", "convert", "verify", "cancel", "email", "record", "draft", "activate", "run", "pending", "review"}
  MaxSubs = 2
  MaxRequests = 3
  LogKept = 2
  MaxBreaks = 1
  Hosts <- MCHosts
  MaxEngineRuns = 2
CHECK_DEADLOCK FALSE
SYMMETRY Symmetry
INVARIANTS
  SentWasEarned
  AtMostOnce
  LoggedTruly
  SavedStays
  PaymentIsTold
