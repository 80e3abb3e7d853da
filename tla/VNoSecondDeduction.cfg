CONSTANTS
  None = None
  p1 = p1
  b1 = b1
  d1 = d1
  s1 = s1
  r1 = r1
  r2 = r2
  Players = {p1}
  Balances = {b1}
  Owner <- MCOwner
  HappyHours = {}
  Devices = {d1}
  Sessions = {s1}
  Requests = {r1, r2}
  Rates = {1}
  FirstMinutes = 1
  FirstExpiry = 0
  Credits = 1
  Validity = 1
  ClientTotals = {1}
  Calls = {"start", "end"}
  MaxClock = 1
  MaxCredits <- OneCredit
  MaxDebited = 1
  MaxAborts = 0
SYMMETRY Symmetry
SPECIFICATION Spec
PROPERTY NoSecondDeduction
CHECK_DEADLOCK FALSE
