CONSTANTS
  u1 = u1
  u2 = u2
  p1 = p1
  p2 = p2
  c1 = c1
  c2 = c2
  c3 = c3
  staff = staff
  Users = {u1}
  Pods = {p1}
  Conns = {c1}
  UserOf <- OneConn
  PodOf <- ItsPod
  Channels = {staff}
  Admitted <- AdmittedAll
  Kinds <- OneKind
  ReplayLimit = 1
  MaxEvents = 1
  MaxFaults = 0
SPECIFICATION Spec
INVARIANT MissedIsReplayed
CHECK_DEADLOCK FALSE
