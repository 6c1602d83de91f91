---------------------------- MODULE BatchHandlers ----------------------------
(***************************************************************************)
(* What the BatchHandlers of a bundler run do to its BatchHandlerCtx, as   *)
(* operators on the context.  A context is a record of the batch, the ops  *)
(* pending removal and the fees of the run (None for a nil *big.Int); an   *)
(* op is a record of the fields the handlers read: sender, nonce, maxFee,  *)
(* maxTip, gas (limits plus static overhead), paymaster, prefund.  Indices *)
(* into the batch count from 0, as in the code.  `intents' are the ops of   *)
(* which model.HasIntent is true.                                          *)
(***************************************************************************)
EXTENDS Integers, SequencesExt

CONSTANT None   \* a nil value, the zero address of a paymaster

AdjustBatchSize(max, batch) ==
    IF Len(batch) > max /\ max > 0 THEN SubSeq(batch, 1, max) ELSE batch

NewBatchHandlerContext(batch, baseFee, tip, gasPrice) ==
    [batch |-> batch, removal |-> <<>>,
     baseFee |-> baseFee, tip |-> tip, gasPrice |-> gasPrice]

\* Mistake: the op leaves the batch and is not listed for removal.
MarkOpIndexForRemoval_Forgets(ctx, index) ==
    IF index \in 0 .. Len(ctx.batch) - 1
    THEN [ctx EXCEPT !.batch = RemoveAt(@, index + 1)]
    ELSE ctx

\* An index outside the batch is ignored.
MarkOpIndexForRemoval(ctx, index) ==
    IF index \in 0 .. Len(ctx.batch) - 1
    THEN [ctx EXCEPT !.batch = RemoveAt(@, index + 1),
                     !.removal = Append(@, ctx.batch[index + 1])]
    ELSE ctx

\* The elements of seq that are in S, in their order.
Filter(seq, S) ==
    FoldLeft(LAMBDA kept, x : IF x \in S THEN Append(kept, x) ELSE kept, <<>>, seq)

Indices(seq) == [i \in 1 .. Len(seq) |-> i - 1]

\* The loop of DropExpired and of CodeHashes: from the last op to the first.
MarkFromTheEnd(ctx, drop) ==
    FoldRight(LAMBDA i, c : IF c.batch[i + 1] \in drop THEN MarkOpIndexForRemoval(c, i) ELSE c,
              Indices(ctx.batch), ctx)
-----------------------------------------------------------------------------
(* Order and selection.                                                    *)

\* Mistake: an unstable sort, in which an element passes its equals.
Insert_Unstable(s, x, less) ==
    LET stops == {i \in 1 .. Len(s) : less[s[i]][x]}
    IN  InsertAt(s, (IF stops = {} THEN 0 ELSE Max(stops)) + 1, x)

\* sort.SliceStable of at most 20 elements: an insertion sort, in which an
\* element moves left while it is less than its neighbour.
Insert(s, x, less) ==
    LET stops == {i \in 1 .. Len(s) : ~ less[x][s[i]]}
    IN  InsertAt(s, (IF stops = {} THEN 0 ELSE Max(stops)) + 1, x)

SliceStable(s, less) == FoldLeft(LAMBDA r, x : Insert(r, x, less), <<>>, s)

GetDynamicGasPrice(op, baseFee) ==
    LET gp == (IF baseFee = None THEN 0 ELSE baseFee) + op.maxTip
    IN  IF gp > op.maxFee THEN op.maxFee ELSE gp

SortByGasPrice(ctx) ==
    LET ops     == ToSet(ctx.batch)
        dearer  == [a \in ops |-> [b \in ops |->
                        GetDynamicGasPrice(a, ctx.baseFee) > GetDynamicGasPrice(b, ctx.baseFee)]]
        dearerL == [a \in ops |-> [b \in ops |-> a.maxFee > b.maxFee]]
    IN  CASE ctx.baseFee # None  -> [ctx EXCEPT !.batch = SliceStable(@, dearer)]
          [] ctx.baseFee = None /\ ctx.gasPrice # None
                                 -> [ctx EXCEPT !.batch = SliceStable(@, dearerL)]
          [] OTHER               -> ctx

\* Mistake: an intent falls through to the comparison of prices.
FilterUnderpriced_Twice(ctx, intents) ==
    LET dynamic == ctx.baseFee \notin {None, 0} /\ ctx.tip # None
        Pays(op) == IF dynamic
                    THEN GetDynamicGasPrice(op, ctx.baseFee) >= ctx.baseFee + ctx.tip
                    ELSE ctx.gasPrice # None /\ op.maxFee >= ctx.gasPrice
        Kept(op) == (IF op \in intents THEN <<op>> ELSE <<>>)
                    \o (IF Pays(op) THEN <<op>> ELSE <<>>)
    IN  [ctx EXCEPT !.batch = FoldLeft(LAMBDA r, op : r \o Kept(op), <<>>, @)]

\* With neither kind of fee known, only intents stay.
FilterUnderpriced(ctx, intents) ==
    LET dynamic == ctx.baseFee \notin {None, 0} /\ ctx.tip # None
        Pays(op) == IF dynamic
                    THEN GetDynamicGasPrice(op, ctx.baseFee) >= ctx.baseFee + ctx.tip
                    ELSE ctx.gasPrice # None /\ op.maxFee >= ctx.gasPrice
    IN  [ctx EXCEPT !.batch = Filter(@, {op \in ToSet(@) : op \in intents \/ Pays(op)})]

\* Mistake: the nonces are compared the other way round.
SortByNonce_Reversed(ctx) ==
    LET ops     == ToSet(ctx.batch)
        earlier == [a \in ops |-> [b \in ops |-> a.sender = b.sender /\ a.nonce > b.nonce]]
    IN  [ctx EXCEPT !.batch = SliceStable(@, earlier)]

SortByNonce(ctx) ==
    LET ops     == ToSet(ctx.batch)
        earlier == [a \in ops |-> [b \in ops |-> a.sender = b.sender /\ a.nonce < b.nonce]]
    IN  [ctx EXCEPT !.batch = SliceStable(@, earlier)]

GasOf(batch) == FoldLeft(LAMBDA sum, op : sum + op.gas, 0, batch)

\* Mistake: a batch may use the whole limit.
MaintainGasLimit_Reached(ctx, limit) ==
    LET over == {n \in 1 .. Len(ctx.batch) : GasOf(SubSeq(ctx.batch, 1, n)) > limit}
    IN  IF over = {} THEN ctx
        ELSE [ctx EXCEPT !.batch = SubSeq(@, 1, Min(over) - 1)]

\* The loop breaks at the first op with which the sum reaches the limit.
MaintainGasLimit(ctx, limit) ==
    LET over == {n \in 1 .. Len(ctx.batch) : GasOf(SubSeq(ctx.batch, 1, n)) >= limit}
    IN  IF over = {} THEN ctx
        ELSE [ctx EXCEPT !.batch = SubSeq(@, 1, Min(over) - 1)]

\* checks.ValidateGasAvailable, which the client runs on a new op.
ValidateGasAvailable(op, limit) == ~ (op.gas > limit)
-----------------------------------------------------------------------------
(* PaymasterDeposit ranges over the batch as it was and marks by the index *)
(* there; the deposit of an op that was marked stays subtracted.           *)

\* Mistake: a deposit that is used up counts as missing.
PaymasterDeposit_UsedUp(ctx, deposit, intents) ==
    LET Visit(acc, i) ==
            LET op   == ctx.batch[i + 1]
                pm   == op.paymaster
                left == acc.deps[pm] - op.prefund
            IN  IF op \in intents \/ pm = None THEN acc
                ELSE [deps |-> [acc.deps EXCEPT ![pm] = left],
                      ctx  |-> IF left <= 0 THEN MarkOpIndexForRemoval(acc.ctx, i) ELSE acc.ctx]
    IN  FoldLeft(Visit, [deps |-> deposit, ctx |-> ctx], Indices(ctx.batch)).ctx

PaymasterDeposit(ctx, deposit, intents) ==
    LET Visit(acc, i) ==
            LET op   == ctx.batch[i + 1]
                pm   == op.paymaster
                left == acc.deps[pm] - op.prefund
            IN  IF op \in intents \/ pm = None THEN acc
                ELSE [deps |-> [acc.deps EXCEPT ![pm] = left],
                      ctx  |-> IF left < 0 THEN MarkOpIndexForRemoval(acc.ctx, i) ELSE acc.ctx]
    IN  FoldLeft(Visit, [deps |-> deposit, ctx |-> ctx], Indices(ctx.batch)).ctx
-----------------------------------------------------------------------------
(* SolveIntents.  An op is known to the Solver by its hash; here the op    *)
(* itself stands for the hash it had when the body was made.               *)

Dropping == {"Unsolved", "Expired", "Invalid", "Received"}

\* body.UserOpsExt, as sent.
BufferIntentOps(batch, intents) ==
    LET ops == Filter(batch, intents)
    IN  [i \in 1 .. Len(ops) |-> [hash |-> ops[i], status |-> "Received"]]

\* The response is decoded into a copy of the body that shares its arrays:
\* entries are overwritten from the first on, and the length stays.
SendToSolver(body, answer) ==
    [i \in 1 .. Len(body) |-> IF i <= Len(answer) THEN answer[i] ELSE body[i]]

\* batchIntentIndices: the map gives 0 for a hash it does not hold.
BatchIndex(batch, hash, intents) ==
    LET at == {i \in 1 .. Len(batch) : batch[i] = hash /\ hash \in intents}
    IN  IF at = {} THEN 0 ELSE Min(at) - 1

\* sol: for each op the intent whose solution its CallData and Signature hold;
\* gas limits and fees, which are written with them, keep their values here.
\* Solved writes to the op at an index of the batch as it was; when the batch
\* has shrunk below that index, the runtime panics.
SolveIntents(ctx, sol, ext, intents) ==
    LET index(e) == BatchIndex(ctx.batch, e.hash, intents)
        Visit(acc, e) ==
            CASE acc.out # "ok" -> acc
              [] acc.out = "ok" /\ e.status \in Dropping ->
                    [acc EXCEPT !.ctx = MarkOpIndexForRemoval(@, index(e))]
              [] acc.out = "ok" /\ e.status = "Solved" ->
                    IF index(e) < Len(acc.ctx.batch)
                    THEN [acc EXCEPT !.sol[acc.ctx.batch[index(e) + 1]] = e.hash]
                    ELSE [acc EXCEPT !.out = "panic"]
              [] OTHER -> [acc EXCEPT !.out = "error"]
    IN  FoldLeft(Visit, [out |-> "ok", ctx |-> ctx, sol |-> sol], ext)
-----------------------------------------------------------------------------
(* The fees of the handleOps transaction.                                  *)

Larger(a, b) == IF a > b THEN a ELSE b
Average(batch, Field(_)) ==
    FoldLeft(LAMBDA sum, op : sum + Field(op), 0, batch) \div Len(batch)

SuggestMeanGasTipCap(tip, batch) == Larger(Average(batch, LAMBDA op : op.maxTip), tip)
\* Mistake: a fee cap that leaves out the tip.
SuggestMeanGasFeeCap_NoTip(baseFee, tip, batch) ==
    Larger(Average(batch, LAMBDA op : op.maxFee), 2 * baseFee)
SuggestMeanGasFeeCap(baseFee, tip, batch) ==
    Larger(Average(batch, LAMBDA op : op.maxFee), tip + 2 * baseFee)
=============================================================================
