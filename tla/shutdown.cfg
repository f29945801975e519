SPECIFICATION FairSpec
CONSTANTS
  l1 = l1
  l2 = l2
  r1 = r1
  Loop = {l1, l2}
  Call = {r1}
INVARIANTS
  TypeOK
  OneOperation
  GuardsCounted
PROPERTIES
  OnlyDrains
  RequestReturns
  LoopsStop
