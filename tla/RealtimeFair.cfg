CONSTANTS
  u1 = u1
  u2 = u2
  p1 = p1
  p2 = p2
  c1 = c1
  c2 = c2
  c3 = c3
  staff = staff
  Users = {u1, u2}
  Pods = {p1}
  Conns = {c1, c3}
  UserOf <- Neighbours
  PodOf <- OnePod
  Channels = {staff}
  Admitted <- AdmittedAll
  Kinds <- TwoKinds
  ReplayLimit = 1
  MaxEvents = 2
  MaxFaults = 0
SPECIFICATION FairSpec
INVARIANT OnlyAudience
PROPERTIES
  ReplayedIsAcked
  NotifiedIsDelivered
CHECK_DEADLOCK FALSE
