\* Private mode: replacement, late and failed transactions, crashes.
CONSTANTS
  None = None
  a = a
  b = b
  d = d
  OpRank <- MCOpRank
  Paymasters = {}
  Deposits = {0}
  Ops <- Replacing
  Intents <- NoIntents
  SolvedHasIntent = TRUE
  Clients = {c1}
  Runners = {t1}
  Relayer = TRUE
  WaitTimeout = 72
  MaxBatch = 0
  BaseFee = 3
  Tip = 1
  GasPrice = 4
  MaxBatchGasLimit = 9
  Answers <- InOrder
  Events = {"crash"}
  MaxFaults = 3
  MaxSubmits = 3
SPECIFICATION Spec
INVARIANTS TypeOK RecordsOutliveTheirOps
PROPERTIES RemovedForCause ImplementsLifecycle
CHECK_DEADLOCK FALSE
