\* Searcher mode, debug: with one op per batch every op leaves the pool.
CONSTANTS
  None = None
  a = a
  b = b
  d = d
  OpRank <- MCOpRank
  Paymasters = {}
  Deposits = {0}
  Ops <- NotBatched
  Intents <- NoIntents
  SolvedHasIntent = TRUE
  Clients = {c1}
  Runners = {t1}
  Relayer = FALSE
  WaitTimeout = 72
  MaxBatch = 1
  BaseFee = 3
  Tip = 1
  GasPrice = 4
  MaxBatchGasLimit = 9
  Answers <- InOrder
  Events = {"age", "revoke"}
  MaxFaults = 1
  MaxSubmits = 2
SPECIFICATION FairSpec
PROPERTIES OpsLeaveThePool EstimationEnds RemovedForCause
CHECK_DEADLOCK FALSE
