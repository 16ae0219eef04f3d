SPECIFICATION Spec
CONSTANTS
  Msgs = {m1}
  Texts = {x1}
  Lasting <- MCLasting
  Casts <- MCCasts
  Runs = {r1, r2}
  Limit <- MCLimit
  MaxDeliveries = 2
  MaxBriefs = 2
  MaxJobs = 5
  MaxFaults = 1
  MaxCrashes = 1
CHECK_DEADLOCK FALSE
INVARIANTS
  
  SentOnce
  HandledOnce
  
PROPERTIES
  QueueDrains
