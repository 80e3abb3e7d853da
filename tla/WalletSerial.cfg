CONSTANTS
  None = None
  p1 = p1
  b1 = b1
  b2 = b2
  d1 = d1
  d2 = d2
  s1 = s1
  s2 = s2
  r1 = r1
  Players = {p1}
  Balances = {b1, b2}
  Owner <- MCOwner
  HappyHours = {b1}
  Devices = {d1, d2}
  Sessions = {s1, s2}
  Requests = {r1}
  Rates = {2}
  FirstMinutes = 3
  FirstExpiry = 1
  Credits = 1
  Validity = 1
  ClientTotals = {}
  Calls <- SerialCalls
  MaxClock = 2
  MaxCredits <- OneCredit
  MaxDebited = 9
  MaxAborts = 0
SYMMETRY Symmetry
SPECIFICATION Spec
INVARIANTS
  OneSessionPerWallet
  BilledForDuration
  CachesCoherent
  DeviceAgrees
  ExpiredMeansPast
PROPERTY UsableMinutesStack
CHECK_DEADLOCK FALSE
