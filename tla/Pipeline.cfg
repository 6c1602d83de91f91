\* Every dump of up to three ops of thirteen, every kind of chain fee, and a
\* paymaster that can pay for all of them, some or none.
CONSTANTS
  None = None
  s1 = s1
  s2 = s2
  pm1 = pm1
  Ops <- PricedOps
  Intents <- PricedIntents
  MaxOps = 3
  MaxBatch = 0
  Fees = {0, 2}
  Paymasters = {pm1}
  Deposits = {0, 1, 2, 3, 6}
  MaxBatchGasLimit = 5
SPECIFICATION Spec
INVARIANTS DearestFirstThenOldest NeighboursInNonceOrder TipWithinFeeCap
PROPERTIES OpsAreConserved LongestBatchUnderTheLimit FirstDropIsUnpaid
CHECK_DEADLOCK FALSE
