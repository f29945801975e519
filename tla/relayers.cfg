SPECIFICATION Spec
CONSTANTS
  a1 = a1
  a2 = a2
  s1 = s1
  p1 = p1
  n1 = n1
  n2 = n2
  k1 = k1
  Request = {a1, a2}
  Seed = {s1, p1}
  SeedRow <- MCSeedRow
  Reader = {r1}
  Chain = {n1, n2}
  ImportKey = {k1}
  Wanted <- MCWanted
  NoRelayer = NoRelayer
  Nobody = Nobody
INVARIANTS
  IndexesNeverClash
  QueueFollowsRow
  StaleOnlyWhenRaced
CHECK_DEADLOCK FALSE
