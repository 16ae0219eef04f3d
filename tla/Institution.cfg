SPECIFICATION MCSpec
CONSTANTS
  a1 = a1
  d1 = d1
  Agents = {a1, a2}
  Rights = {a2}
  Threads = {t1, t2}
  Approvals = {p1}
  Delegations = {d1, d2}
  Ops = {"bootstrap", "request", "decide", "delegate", "revoke", "engage", "disengage", "check", "gate"}
  Legacies <- MCLegacies
  Hours = {1}
  MaxTime = 1
  MaxRequests = 3
  Accused = {x1, x2}
  Clerks = {k1}
  Severities = {2, 5}
  INCIDENT_ELEVATED_THRESHOLD = 1
  INCIDENT_CRITICAL_THRESHOLD = 2
  MaxViolations = 2
  MaxAppeals = 1
  MaxOther = 1
  MaxBreaks = 1
  Servers = {t1, t2}
  PaymentRefs = {x1, x2}
  MaxSettled = 2
  MaxStops = 1
  Watchers = {t1, t2}
  Objectives = {x1, x2}
  QueueLimit = 1
  MaxEvents = 2
  MaxShifts = 2
  MaxDbFaults = 1
SYMMETRY MCSymmetry
CHECK_DEADLOCK FALSE
INVARIANTS
  AnsweredTruly
  SanctionRecorded
  JournaledIsBooked
  AlertIsQueued
PROPERTIES
  QueueHolds
  LiftedForReason
