SPECIFICATION Spec
CONSTANTS
  j1 = j1
  x1 = x1
  x2 = x2
  x3 = x3
  c1 = c1
  c2 = c2
  pay = pay
  poor = poor
  Job = {j1}
  Interval <- MCInterval
  MayRun <- MCMayRun
  Relayer = {x1, x2, x3}
  Chain = {c1, c2}
  ChainOf <- MCChainOf
  Address = {pay, poor}
  AddressOf <- MCAddressOf
  Managed = {x3}
  Payer = pay
  Asset = {"native"}
  MaxClock = 3
  MaxStops = 1
  None = None
INVARIANTS
  OneOnItsWay
PROPERTIES
  NotPostponed
  RunsSpaced
CHECK_DEADLOCK FALSE
