SPECIFICATION SmSpec
CONSTANTS
  Callers = {c1}
  Sections = {"mission"}
  UserFacts = {"name"}
  Outputs = {"o1", "o2"}
  SaidBy <- MCSaidBy
  Earlier <- MCEarlier
  FactLimit = 2
  OutputLimit = 2
  RecallLimit = 1
  SupportKept = 2
  SeenKept = 2
  MaxDelivered = 2
  MaxDays = 7
  DaysPass = {1, 7}
  MaxAsked = 3
CHECK_DEADLOCK FALSE
PROPERTY RememberedIsKept
