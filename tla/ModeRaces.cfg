\* Two debug clients that switch modes.
CONSTANTS
  c1 = c1
  c2 = c2
  l1 = l1
  l2 = l2
  Callers <- TwoCallers
  Loops <- TwoLoops
SPECIFICATION FairSpec
INVARIANTS ModeInv ModeIsExact
PROPERTY StopGetsThrough
CHECK_DEADLOCK FALSE
