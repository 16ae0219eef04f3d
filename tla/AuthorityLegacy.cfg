SPECIFICATION Spec
CONSTANTS
  a1 = a1
  a2 = a2
  d1 = d1
  d2 = d2
  Agents = {a1, a2}
  Rights = {a2}
  t1 = t1
  p1 = p1
  Threads = {t1}
  Approvals = {p1}
  Delegations = {d1, d2}
  Ops = {"revoke", "check"}
  Legacies <- MCLegacies
  Hours = {1}
  MaxTime = 0
  MaxRequests = 2
CHECK_DEADLOCK FALSE
SYMMETRY Symmetry
INVARIANT RevokedStaysRevoked
