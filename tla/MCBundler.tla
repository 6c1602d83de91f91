------------------------------ MODULE MCBundler ------------------------------
(* Small instances of Bundler for TLC. *)
EXTENDS Bundler

CONSTANTS a, b, d

Op(s, n, fee, gas) ==
    [sender |-> s, nonce |-> n, maxFee |-> fee, maxTip |-> fee,
     gas |-> gas, paymaster |-> None, prefund |-> 1]

a0  == Op(a, 0, 10, 1)
a0r == Op(a, 0, 11, 1)      \* may replace a0
a1  == Op(a, 1, 10, 1)
b0  == Op(b, 0, 10, 1)
b0u == Op(b, 0, 2, 1)       \* underpriced
b0g == Op(b, 0, 10, 9)      \* as big as the batch gas limit

d0  == Op(d, 0, 9, 1)       \* sorted behind the others

TwoSenders  == {a0, b0}
TwoAndOne   == {a0, a1, b0}
Replacing   == {a0, a0r, b0}
NotBatched  == {a0, b0u, b0g}
ThreeOps    == {a0, b0, d0}
NoIntents   == {}
BothIntents == {a0, b0}

\* The runners differ in nothing.
Runs == Permutations(Runners)

MCOpRank == [o \in Ops |-> (CASE o.sender = a -> 0 [] o.sender = b -> 2 [] OTHER -> 4) + o.nonce]

\* An answer is a status for every op of the body, in its order.
Statuses == {"Solved", "Unsolved"}
InOrder(body) ==
    {[i \in 1 .. Len(body) |-> [hash |-> body[i].hash, status |-> f[i]]] :
        f \in [1 .. Len(body) -> Statuses]}

\* The answers to a subset of the body, in any sequence, and errors.
AnyOrder(body) ==
    UNION {{[i \in 1 .. Len(p) |-> [hash |-> p[i], status |-> f[i]]] :
                f \in [1 .. Len(p) -> Statuses \union {"Garbled"}]} :
            p \in UNION {SetToSeqs(S) : S \in SUBSET {body[i].hash : i \in 1 .. Len(body)}}}
=============================================================================
