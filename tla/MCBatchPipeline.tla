--------------------------- MODULE MCBatchPipeline ---------------------------
(* Small instances of BatchPipeline for TLC. *)
EXTENDS BatchPipeline

CONSTANTS s1, s2, pm1

Op(s, n, fee, tip, gas, pm, prefund) ==
    [sender |-> s, nonce |-> n, maxFee |-> fee, maxTip |-> tip,
     gas |-> gas, paymaster |-> pm, prefund |-> prefund]

\* Two senders, two nonces, and three offers of maxFee and maxTip: a small
\* one, a capped one, and one that pays the base fee plus its tip.  Their gas
\* differs, and all but the last kind are paid by pm1.  And an intent whose
\* tip is above its fee.
PricedOps ==
    {Op(s, n, f[1], f[2], f[1], IF f[2] = 1 /\ f[1] = 4 THEN None ELSE pm1, n + 1) :
        s \in {s1, s2}, n \in {0, 1}, f \in {<<1, 1>>, <<3, 3>>, <<4, 1>>}}
        \union {Op(s2, 0, 2, 9, 2, pm1, 1)}
PricedIntents == {op \in PricedOps : op.sender = s2 /\ op.nonce = 0}
=============================================================================
