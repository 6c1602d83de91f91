\* Private mode with changed code and a Solver that answers a part, in any order, or garbage.
CONSTANTS
  None = None
  a = a
  b = b
  d = d
  OpRank <- MCOpRank
  Paymasters = {}
  Deposits = {0}
  Ops <- ThreeOps
  Intents <- BothIntents
  SolvedHasIntent = TRUE
  Clients = {c1}
  Runners = {t1}
  Relayer = TRUE
  WaitTimeout = 72
  MaxBatch = 0
  BaseFee = 3
  Tip = 1
  GasPrice = 4
  MaxBatchGasLimit = 9
  Answers <- AnyOrder
  Events = {"code"}
  MaxFaults = 1
  MaxSubmits = 3
SPECIFICATION Spec
PROPERTY UnsolvedIntentsAreNotSent
CHECK_DEADLOCK FALSE
