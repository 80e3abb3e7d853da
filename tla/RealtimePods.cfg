CONSTANTS
  u1 = u1
  u2 = u2
  p1 = p1
  p2 = p2
  c1 = c1
  c2 = c2
  c3 = c3
  staff = staff
  Users = {u1}
  Pods = {p1, p2}
  Conns = {c1, c2}
  UserOf <- TwoConns
  PodOf <- TwoPods
  Channels = {staff}
  Admitted <- AdmittedAll
  Kinds <- OneKind
  ReplayLimit = 1
  MaxEvents = 2
  MaxFaults = 1
SPECIFICATION Spec
INVARIANTS
  ListIntact
  AckedWasReceived
  SentIsTracked
PROPERTY AckIsFinal
CHECK_DEADLOCK FALSE
