SPECIFICATION Spec
CONSTANTS
  Requests <- MCRequests
  Loads <- MCLoads
  Restrictions <- MCRestrictions
  MaxRestrictions = 1
  Scorers = {t1, t2}
  Deliveries <- MCDeliveries
  DeliveryOf <- MCDeliveryOf
  Agents = {"main", "quill"}
  Manager = "main"
  Patience = 2
  ScoredLimit = 1
  ScoredKept = 1
  MaxScoreCrashes = 1
  Threads = {t1, t2}
  Questionnaires = {"q1"}
  Questions = {"crit", "minor"}
  Critical = {"crit"}
  Briefs = {"brief"}
  PackOf <- MCPackOf
  Relevance <- MCRelevance
  MaxRequests = 3
  MaxDisturbed = 2
  MaxTrustCrashes = 1
  Callers = {t1, t2}
  Sections = {"mission"}
  UserFacts = {"name"}
  Outputs = {"o1", "o2", "o3", "o4"}
  SaidBy <- MCSaidBy
  Earlier <- MCEarlier
  FactLimit = 1
  OutputLimit = 1
  RecallLimit = 1
  SupportKept = 2
  SeenKept = 1
  MaxDelivered = 3
  MaxDays = 21
  DaysPass = {21}
  MaxAsked = 2
CHECK_DEADLOCK FALSE
SYMMETRY Symmetry
INVARIANTS
  RestrictedStaysOut
  VerifiedIsDelivered
  SuccessIsAnswered
  PaidOnce
  JournalExplains
  ReadyIsCleared
  ReviewStands
  WorthIsEarned
