CONSTANTS
  None = None
  NoSocket = NoSocket
  Stale = Stale
  device = device
  user = user
  s1 = s1
  s2 = s2
  k1 = k1
  k2 = k2
  w1 = w1
  Players = {anna, bela}
  Sessions = {s1, s2}
  Workers = {w1}
  Sockets = {k1, k2}
  Channels = {device, user}
  Budget = 2
  Nobody = Nobody
  anna = anna
  bela = bela
  d1 = d1
  Staff = {anna, bela}
  Clerks = {r1, r2}
  Deposits = {d1}
  Counts = {1}
  LastShift = 2
  LastRegister = 2
  RaceBound = 3
  CallBound = 4
  Products = {cola, chips}
  cola = cola
  chips = chips
  Sales = {t1, t2}
  t1 = t1
  t2 = t2
  Baskets <- MCBaskets
  Worth <- MCWorth
  Supply <- MCSupply
  Orders = {o1}
  o1 = o1
  Tellers = {r1, r2}
  Payments = {"cash", "credit"}
  PayStatuses = {"pending", "completed", "credit"}
  Limits = {2, 3}
  ServiceBound = 2
  Unsaid = Unsaid
  Goods = {g1, g2}
  g1 = g1
  g2 = g2
  Slips = {n1}
  n1 = n1
  Keepers = {r1, r2}
  r1 = r1
  r2 = r2
  Loads <- MCLoads
  Tallies = {0, 2}
  Opening <- MCOpening
  ErrandBound = 2
  Missing = Missing
SPECIFICATION MCSpec
SYMMETRY Symmetry
INVARIANTS
  IInv
  EndIsKept
  OneLiveSocket
  HeardIsWanted
  DrawerInv
  PutBackIfRejected
  ClosedIsCounted
  CounterInv
  ConfirmedOnce
  LimitKeptInTurn
  CashCountedInTurn
  StockInv
PROPERTIES
  SettledIsFinal
  LoginRecovers
  ImplementsBook
CHECK_DEADLOCK FALSE
