\* Searcher mode: the estimation loop when one of two ops fails.
CONSTANTS
  None = None
  a = a
  b = b
  d = d
  OpRank <- MCOpRank
  Paymasters = {}
  Deposits = {0}
  Ops <- TwoSenders
  Intents <- NoIntents
  SolvedHasIntent = TRUE
  Clients = {c1}
  Runners = {t1}
  Relayer = FALSE
  WaitTimeout = 72
  MaxBatch = 0
  BaseFee = 3
  Tip = 1
  GasPrice = 4
  MaxBatchGasLimit = 9
  Answers <- InOrder
  Events = {"revoke"}
  MaxFaults = 0
  MaxSubmits = 2
SPECIFICATION FairSpec
PROPERTY EstimationEnds
CHECK_DEADLOCK FALSE
