CONSTANTS
  None = None
  p1 = p1
  b1 = b1
  d1 = d1
  s1 = s1
  r1 = r1
  r2 = r2
  Players = {p1}
  Balances = {b1}
  Owner <- MCOwner
  HappyHours = {}
  Devices = {d1}
  Sessions = {s1}
  Requests = {r1, r2}
  Rates = {1, 2}
  FirstMinutes = 2
  FirstExpiry = 1
  Credits = 1
  Validity = 1
  ClientTotals = {1}
  Calls <- PlayCalls
  MaxClock = 1
  MaxCredits <- NoCredit
  MaxDebited = 1
  MaxAborts = 1
SPECIFICATION FairSpec
PROPERTY OutOfTimeEnds
CHECK_DEADLOCK FALSE
