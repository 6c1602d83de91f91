\* Debug mode: the loop and a sendBundleNow, one op per batch, no waiting.
CONSTANTS
  None = None
  a = a
  b = b
  d = d
  OpRank <- MCOpRank
  Paymasters = {}
  Deposits = {0}
  Ops <- TwoAndOne
  Intents <- NoIntents
  SolvedHasIntent = TRUE
  Clients = {c1}
  Runners = {t1, t2}
  Relayer = TRUE
  WaitTimeout = 0
  MaxBatch = 1
  BaseFee = 3
  Tip = 1
  GasPrice = 4
  MaxBatchGasLimit = 9
  Answers <- InOrder
  Events = {}
  MaxFaults = 0
  MaxSubmits = 3
SYMMETRY Runs
SPECIFICATION Spec
PROPERTIES RemovedForCause ImplementsLifecycle
CHECK_DEADLOCK FALSE
