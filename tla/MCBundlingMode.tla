--------------------------- MODULE MCBundlingMode ---------------------------
(* Small instances of BundlingMode for TLC. *)
EXTENDS BundlingMode

CONSTANTS c1, c2, l1, l2

TwoCallers == {c1, c2}
TwoLoops   == {l1, l2}
=============================================================================
