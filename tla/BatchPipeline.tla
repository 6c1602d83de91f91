---------------------------- MODULE BatchPipeline ----------------------------
(***************************************************************************)
(* One bundler run seen from inside: the BatchHandlers that choose and     *)
(* order the ops of a bundle, in the order internal/start/private.go:166   *)
(* composes them, on any dumped batch, fees of the chain and paymaster     *)
(* deposits.  Nothing outside the run is read or written here; Bundler     *)
(* puts the run among the client, the chain and the pool.                  *)
(***************************************************************************)
EXTENDS BatchHandlers, FiniteSets

CONSTANTS
    Ops,              \* the ops that may be in the mempool
    Intents,          \* those of them that carry an unsolved intent
    MaxOps,           \* the length of the longest dump
    MaxBatch,         \* SetMaxBatch
    Fees,             \* base fees, tips and legacy gas prices of the chain
    Paymasters,
    Deposits,         \* deposits a paymaster may have
    MaxBatchGasLimit

\* userop.New refuses a negative number (userop/parse.go:83), and
\* ValidateFeePerGas a tip above the fee, though not of an intent.
ASSUME OpsAreValid ==
    \A op \in Ops :
        /\ op.nonce \in Nat /\ op.gas \in Nat /\ op.prefund \in Nat
        /\ op.maxFee \in Nat /\ op.maxTip \in Nat
        /\ op \notin Intents => op.maxTip <= op.maxFee
        /\ op.paymaster \in Paymasters \union {None}
ASSUME NumbersAssumption ==
    /\ MaxOps \in Nat /\ MaxBatch \in Int /\ MaxBatchGasLimit \in Nat
    /\ Fees \subseteq Nat /\ Deposits \subseteq Int
    /\ None \notin Paymasters

VARIABLES dumped,     \* what mempool.Dump returned
          deposit,    \* the paymasters' deposits
          ctx, stage

vars == <<dumped, deposit, ctx, stage>>

\* Ops of one sender and nonce share a key, so the pool holds one of them.
Dumps == {s \in BoundedSeq(Ops, MaxOps) :
            \A i, j \in 1 .. Len(s) :
                i # j => <<s[i].sender, s[i].nonce>> # <<s[j].sender, s[j].nonce>>}

\* Process: without a base fee there is no tip.
Init ==
    /\ dumped \in Dumps /\ dumped # <<>>
    /\ deposit \in [Paymasters -> Deposits]
    /\ \E bf, tip, gp \in Fees \union {None} :
        /\ bf = None <=> tip = None
        /\ ctx = NewBatchHandlerContext(AdjustBatchSize(MaxBatch, dumped), bf, tip, gp)
    /\ stage = "dumped"

Handle(from, to, result) ==
    /\ stage = from
    /\ stage' = to
    /\ ctx' = result
    /\ UNCHANGED <<dumped, deposit>>

ByGasPrice  == Handle("dumped", "byGasPrice", SortByGasPrice(ctx))
Underpriced == Handle("byGasPrice", "filtered", FilterUnderpriced(ctx, Intents))
ByNonce     == Handle("filtered", "byNonce", SortByNonce(ctx))
GasLimit    == Handle("byNonce", "limited", MaintainGasLimit(ctx, MaxBatchGasLimit))
Deposit     == Handle("limited", "paid", PaymasterDeposit(ctx, deposit, Intents))

Next == ByGasPrice \/ Underpriced \/ ByNonce \/ GasLimit \/ Deposit

Spec == Init /\ [][Next]_vars
-----------------------------------------------------------------------------
(* Properties *)

\* Whether an op pays what FilterUnderpriced (gasprice/filter.go:13) asks for.
Offers(op) ==
    IF ctx.baseFee \notin {None, 0}
    THEN op.maxTip >= ctx.tip /\ op.maxFee >= ctx.baseFee + ctx.tip
    ELSE ctx.gasPrice # None /\ op.maxFee >= ctx.gasPrice

\* Where every op of the dump ends up.  No handler copies an op or makes one up,
\* and what is marked for removal (context.go:53) stays marked.  An op that leaves
\* the batch is marked, with two exceptions that stay in the pool for a later
\* run: FilterUnderpriced leaves out ops that offer too little, intents apart, and
\* MaintainGasLimit (gaslimit.go:29) those from the one on that reaches the limit.
OpsAreConserved ==
    [][ /\ ToSet(ctx'.batch) \union ToSet(ctx'.removal)
                \subseteq ToSet(ctx.batch) \union ToSet(ctx.removal)
        /\ Cardinality(ToSet(ctx'.batch) \union ToSet(ctx'.removal))
                = Len(ctx'.batch) + Len(ctx'.removal)
        /\ ToSet(ctx.removal) \subseteq ToSet(ctx'.removal)
        /\ \A i \in 1 .. Len(ctx.batch) :
            \/ ctx.batch[i] \in ToSet(ctx'.batch) \union ToSet(ctx'.removal)
            \/ Underpriced /\ ctx.batch[i] \notin Intents /\ ~ Offers(ctx.batch[i])
            \/ GasLimit /\ GasOf(SubSeq(ctx.batch, 1, i)) >= MaxBatchGasLimit]_vars

Position(s, x) == CHOOSE i \in 1 .. Len(s) : s[i] = x
Price(op) == IF ctx.baseFee # None THEN GetDynamicGasPrice(op, ctx.baseFee) ELSE op.maxFee

\* SortByGasPrice (gasprice/sort.go:9, "highest GasPrice first") orders by
\* what an op really pays, ops that pay the same stay in the order of Dump,
\* and it drops nothing.
DearestFirstThenOldest ==
    stage = "byGasPrice" /\ (ctx.baseFee # None \/ ctx.gasPrice # None) =>
        /\ ToSet(ctx.batch) = ToSet(AdjustBatchSize(MaxBatch, dumped))
        /\ \A i, j \in 1 .. Len(ctx.batch) : i < j =>
            LET a == ctx.batch[i]
                b == ctx.batch[j]
            IN  \/ Price(a) > Price(b)
                \/ Price(a) = Price(b) /\ Position(dumped, a) < Position(dumped, b)

\* MaintainGasLimit (gaslimit.go:11) cuts the batch to a prefix that stays
\* under the limit, and cuts no more than it must: an op the client admits
\* is left out only when it would bring the bundle to the limit.
LongestBatchUnderTheLimit ==
    [][GasLimit =>
        /\ IsPrefix(ctx'.batch, ctx.batch)
        /\ GasOf(ctx'.batch) < MaxBatchGasLimit \/ ctx'.batch = <<>>
        /\ \A n \in Len(ctx'.batch) + 1 .. Len(ctx.batch) :
            GasOf(SubSeq(ctx.batch, 1, n)) >= MaxBatchGasLimit]_vars

\* The transaction of the conventional ops of a batch never offers a tip above
\* its fee cap (transaction/gas.go:13, 29): a node would not take it, and the
\* ops would wait in the pool for ever.  Of intents nobody checks the fees
\* (checks/standalone.go:77).
TipWithinFeeCap ==
    LET conv == Filter(ctx.batch, Ops \ Intents)
    IN  stage = "paid" /\ conv # <<>> /\ ctx.baseFee # None =>
            SuggestMeanGasTipCap(ctx.tip, conv)
                <= SuggestMeanGasFeeCap(ctx.baseFee, ctx.tip, conv)

PrefundOf(batch, pm) ==
    FoldLeft(LAMBDA sum, op : IF op.paymaster = pm /\ op \notin Intents
                              THEN sum + op.prefund ELSE sum, 0, batch)

\* The places of the batch where the paymaster's deposit does not pay for its
\* ops up to there.
Unpaid ==
    {n \in 1 .. Len(ctx.batch) :
        LET op == ctx.batch[n]
        IN  /\ op.paymaster # None /\ op \notin Intents
            /\ PrefundOf(SubSeq(ctx.batch, 1, n), op.paymaster)
                    > deposit[op.paymaster]}

\* As long as PaymasterDeposit (standalone.go:185) has dropped nothing every
\* paymaster can pay for its ops, and the first op it drops is the first one,
\* in the order of the batch, with which its paymaster cannot.
FirstDropIsUnpaid ==
    [][Deposit => /\ Unpaid = {} <=> ctx'.removal = <<>>
                  /\ Unpaid # {} => ctx'.removal[1] = ctx.batch[Min(Unpaid)]]_vars

\* What SortByNonce (batch/sort.go:12) really ensures: an op is never directly
\* behind one of the same sender with a higher nonce.  Its less function sets
\* no order between senders, so two ops of one with an op of another between
\* them are left as they are, though batch/sort.go:9 promises more.
NeighboursInNonceOrder ==
    stage = "byNonce" =>
        \A i \in 1 .. Len(ctx.batch) - 1 :
            ctx.batch[i].sender = ctx.batch[i + 1].sender
                => ctx.batch[i].nonce < ctx.batch[i + 1].nonce
=============================================================================
