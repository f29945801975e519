SPECIFICATION Spec
CHECK_DEADLOCK FALSE
CONSTANTS
  t1 = t1
  t2 = t2
  c1 = c1
  Noop = Noop
  None = None
  TxId = {t1}
  User = {t1}
  Quotes = {1, 3}
  MaxGas = 3
  Budgets <- LostAnswers
INVARIANTS
  AtMostOnce
