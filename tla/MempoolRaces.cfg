\* Two clients and one bundler run on one key.
CONSTANTS
  None = None
  e1 = e1
  e2 = e2
  s1 = s1
  s2 = s2
  EntryPoints = {e1}
  Senders = {s1}
  Nonces = {0}
  Fees = {10, 11}
  Staked = {s1}
  MaxOpsUnstaked = 1
  Clients = {c1, c2}
  Bundlers = {b1}
  Debug = FALSE
  SetIds = {o1, o2, o3}
  SortedIds = {q1, q2, q3, q4}
  KeyRank <- MCKeyRank
SPECIFICATION Spec
INVARIANTS TypeOK AgreeUnlessRaced
SYMMETRY Symmetry
VIEW NoGarbage
