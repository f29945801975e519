SPECIFICATION FairSpec
CHECK_DEADLOCK FALSE
CONSTANTS
  t1 = t1
  t2 = t2
  c1 = c1
  Noop = Noop
  None = None
  TxId = {t1, t2}
  User = {t1, t2}
  Quotes = {1}
  MaxGas = 1
  Budgets <- Lapses
INVARIANTS
  NonceCoverage
PROPERTIES
  Settles
  Refines
