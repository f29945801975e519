SPECIFICATION FairSpec
CONSTANTS
  sent = sent
  low = low
  c1 = c1
  n1 = n1
  Event = {sent, low}
  Config = {c1}
  Network = {n1}
  NetworksOf <- MCNetworksOf
  AlertsOn = {}
  MaxRetries <- MCMaxRetries
  LowBalance = {low}
  ChainOf <- MCChainOf
  Task = Task
  Free = Free
  NoCopy = NoCopy
  Answers = {"2xx", "other", "lost"}
INVARIANTS
  NothingForgotten
  HistoryTruthful
PROPERTIES
  EveryDeliverySettles
CHECK_DEADLOCK FALSE
