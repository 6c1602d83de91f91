\* Two intents, one of them not solved, in a batch with a conventional op.
CONSTANTS
  None = None
  a = a
  b = b
  d = d
  OpRank <- MCOpRank
  Paymasters = {}
  Deposits = {0}
  Ops <- ThreeOps
  Intents <- BothIntents
  SolvedHasIntent = TRUE
  Clients = {c1}
  Runners = {t1}
  Relayer = TRUE
  WaitTimeout = 72
  MaxBatch = 0
  BaseFee = 3
  Tip = 1
  GasPrice = 4
  MaxBatchGasLimit = 9
  Answers <- InOrder
  Events = {}
  MaxFaults = 1
  MaxSubmits = 3
SPECIFICATION Spec
INVARIANT SolutionsMatch
CHECK_DEADLOCK FALSE
