SPECIFICATION FairSpec
CONSTANTS
  Markets <- MCMarkets
  Environments <- MCEnvironments
  Multiplier = 2
  MinCompetitorBump = 1
  MaxMoves = 1
  MaxLost = 1
  MaxRivals = 1
  NoLimit = NoLimit
  NoPrice = NoPrice
  Idle = Idle
INVARIANTS
  BidsRise
  NeverOverCap
PROPERTIES
  KeepsUp
