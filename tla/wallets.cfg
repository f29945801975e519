SPECIFICATION FairSpec
CHECK_DEADLOCK FALSE
CONSTANTS
  r1 = r1
  r2 = r2
  r3 = r3
  c1 = c1
  c2 = c2
  s1 = s1
  s2 = s2
  Slot = {s1, s2}
  Relayer = {r1, r2, r3}
  Chain = {c1, c2}
  ChainOf <- MCChainOf
  IndexOf <- MCIndexOf
  SourceOf <- MCSourceOf
  MaxKeys = 2
  MaxFaults = 1
  NoRelayer = NoRelayer
  NoKey = NoKey
  NoName = NoName
  Nobody = Nobody
  Idle = Idle
  Anywhere = Anywhere
INVARIANTS
  SignsAsItself
PROPERTIES
  EveryCallReturns
