CONSTANTS
  None = None
  p1 = p1
  b1 = b1
  d1 = d1
  d2 = d2
  s1 = s1
  s2 = s2
  r1 = r1
  r2 = r2
  Players = {p1}
  Balances = {b1}
  Owner <- MCOwner
  HappyHours = {}
  Devices = {d1, d2}
  Sessions = {s1, s2}
  Requests = {r1, r2}
  Rates = {1}
  FirstMinutes = 1
  FirstExpiry = 0
  Credits = 1
  Validity = 1
  ClientTotals = {1}
  Calls = {"start"}
  MaxClock = 1
  MaxCredits <- OneCredit
  MaxDebited = 1
  MaxAborts = 0
SYMMETRY Symmetry
SPECIFICATION Spec
INVARIANT SingleSession
CHECK_DEADLOCK FALSE
