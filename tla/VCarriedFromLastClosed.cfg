CONSTANTS
  None = None
  NoSocket = NoSocket
  Stale = Stale
  device = device
  user = user
  p1 = p1
  p2 = p2
  s1 = s1
  s2 = s2
  k1 = k1
  k2 = k2
  w1 = w1
  Players = {p1, p2}
  Sessions = {s1, s2}
  Workers = {w1}
  Sockets = {k1, k2}
  Channels = {device, user}
  Budget = 0
  Nobody = Nobody
  anna = anna
  bela = bela
  d1 = d1
  c1 = c1
  c2 = c2
  Staff = {anna, bela}
  Clerks = {c1}
  Deposits = {d1}
  Counts = {1}
  LastShift = 3
  LastRegister = 2
  RaceBound = 3
  CallBound = 5
  Products = {cola, chips}
  cola = cola
  chips = chips
  Sales = {t1, t2}
  t1 = t1
  t2 = t2
  Baskets <- MCBaskets
  Worth <- MCWorth
  Supply <- MCSupply
  Orders = {o1}
  o1 = o1
  Tellers = {x1, x2}
  x1 = x1
  x2 = x2
  Payments = {"cash", "credit"}
  PayStatuses = {"completed"}
  Limits = {2}
  ServiceBound = 0
  Unsaid = Unsaid
  Goods = {g1}
  g1 = g1
  Slips = {n1}
  n1 = n1
  Keepers = {e1, e2}
  e1 = e1
  e2 = e2
  Loads <- MCLoads
  Tallies = {2}
  Opening <- MCOpening
  ErrandBound = 2
  Missing = Missing
SPECIFICATION MCDrawerSpec
PROPERTY CarriedFromLastClosed
CHECK_DEADLOCK FALSE
