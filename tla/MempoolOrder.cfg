\* Arrivals after a removal: the order of Dump.
CONSTANTS
  None = None
  e1 = e1
  e2 = e2
  s1 = s1
  s2 = s2
  EntryPoints = {e1}
  Senders = {s1}
  Nonces = {0, 1}
  Fees = {10}
  Staked = {s1}
  MaxOpsUnstaked = 1
  Clients = {c1}
  Bundlers = {b1}
  Debug = FALSE
  SetIds = {o1,o2,o3}
  SortedIds = {q1, q2, q3, q4}
  KeyRank <- MCKeyRank
SPECIFICATION Spec

PROPERTY DumpsInArrivalOrder
