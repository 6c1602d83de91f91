------------------------------- MODULE Bundler -------------------------------
(***************************************************************************)
(* Bundler.Process among what it depends on: the clients that simulate ops *)
(* and add them to the mempool, the code hashes the checks keep in the DB, *)
(* the Solver, and the chain that mines handleOps transactions.  Each      *)
(* Runner is a goroutine that may be in Process: the one of Bundler.Run    *)
(* and those of debug_bundler_sendBundleNow.                               *)
(*                                                                         *)
(* Mempool models how the pool is stored; here it is one atomic map from   *)
(* the ops to their scores.                                                *)
(***************************************************************************)
EXTENDS BatchHandlers, FiniteSets

CONSTANTS
    Ops, Intents,        \* UserOperations, and those with an unsolved intent
    SolvedHasIntent,     \* what model.HasIntent says of a solved intent
    OpRank,              \* the byte order of the ops' keys
    Clients, Runners,
    Relayer,             \* private mode (relay), else searcher mode (builder)
    WaitTimeout,         \* 0: debug mode
    MaxBatch, BaseFee, Tip, GasPrice, MaxBatchGasLimit,
    Paymasters, Deposits,
    Answers(_),          \* what the Solver may answer to a body
    Events,              \* which of "age", "code", "revoke", "crash" happen
    MaxFaults,           \* bound on failed calls, late transactions and crashes
    MaxSubmits           \* bound on calls of SendUserOperation

\* userop.New refuses a negative number (userop/parse.go:83); and the pool is
\* finite.
ASSUME OpsAreValid ==
    /\ IsFiniteSet(Ops) /\ None \notin Ops
    /\ \A o \in Ops :
        /\ o.nonce \in Nat /\ o.gas \in Nat /\ o.prefund \in Nat
        /\ o.maxFee \in Nat /\ o.maxTip \in Nat
ASSUME NumbersAssumption ==
    /\ {BaseFee, Tip, GasPrice} \subseteq Nat \union {None} /\ Deposits \subseteq Int
    /\ WaitTimeout \in Nat /\ MaxBatch \in Int /\ MaxBatchGasLimit \in Nat
    /\ MaxFaults \in Nat /\ MaxSubmits \in Nat
\* Whatever the Solver answers, a hash that is none of an op of the batch is as
\* good as any other (solution/solveintents.go:120).
ASSUME AnswersAssumption ==
    \A n \in 0 .. Cardinality(Ops) : \A s \in [1 .. n -> Ops] :
        Answers([i \in 1 .. n |-> [hash |-> s[i], status |-> "Received"]])
            \subseteq Seq([hash : Ops, status : STRING])

VARIABLES
    pool,      \* the mempool: op -> its score
    sol,       \* op -> the intent whose solution was written into it
    records,   \* ops whose code hashes the DB holds
    changed,   \* ops that touch a contract whose code differs from the record
    seenAt,    \* the hashes ExpireHandler knows
    aged,      \* those it knows for longer than the TTL
    sub,       \* what each client is doing
    pc,        \* where in Process each runner is
    ctx,       \* its BatchHandlerCtx
    batch,     \* opts.Batch
    tx,        \* the transaction it waits for
    culled,    \* history: what this run's checks, or its estimate, found at fault
    nonces,    \* chain: the next nonce of each sender
    revoked,   \* chain: ops whose validation has come to fail
    eoaNonce,  \* chain: the next nonce of the bundler's EOA
    txs,       \* handleOps transactions, in the order they were sent
    submits, faults   \* how often the bounded steps have happened

node   == <<pool, sol, records, seenAt>>
client == <<sub, submits>>
run    == <<pc, ctx, batch, tx, culled>>
chain  == <<changed, nonces, revoked, eoaNonce, txs>>
vars   == <<pool, sol, records, changed, seenAt, aged, sub, pc, ctx, batch, tx, culled,
            nonces, revoked, eoaNonce, txs, submits, faults>>

SameKey(o, p) == o.sender = p.sender /\ o.nonce = p.nonce

IsSolvedIntent(o)   == sol[o] # None
IsUnsolvedIntent(o) == sol[o] = None /\ o \in Intents
HasIntent(o)        == IF sol[o] = None THEN o \in Intents ELSE SolvedHasIntent
WithIntent          == {o \in Ops : HasIntent(o)}
Hash(o)             == <<o, sol[o]>>

NoCtx == NewBatchHandlerContext(<<>>, None, None, None)

Init ==
    /\ pool = <<>> /\ sol = [o \in Ops |-> None]
    /\ records = {} /\ changed = {} /\ seenAt = {} /\ aged = {}
    /\ sub = [c \in Clients |-> [at |-> "idle", op |-> None]]
    /\ pc = [t \in Runners |-> "idle"]
    /\ ctx = [t \in Runners |-> NoCtx]
    /\ batch = [t \in Runners |-> <<>>]
    /\ tx = [t \in Runners |-> 0]
    /\ culled = [t \in Runners |-> {}]
    /\ nonces = [s \in {o.sender : o \in Ops} |-> 0]
    /\ revoked = {} /\ eoaNonce = 0 /\ txs = <<>>
    /\ submits = 0 /\ faults = 0

Fault == faults < MaxFaults /\ faults' = faults + 1
-----------------------------------------------------------------------------
(* Client.SendUserOperation.                                               *)

NewThreshold(fee) == (110 * fee) \div 100

\* GetOps and ValidatePendingOps: a pending op is replaced only by a dearer one.
Submit(c, o) ==
    /\ sub[c].at = "idle" /\ submits < MaxSubmits /\ submits' = submits + 1
    /\ \A p \in DOMAIN pool : SameKey(o, p) =>
            o.maxFee >= NewThreshold(p.maxFee) /\ o.maxTip >= NewThreshold(p.maxTip)
    /\ ValidateGasAvailable(o, MaxBatchGasLimit)
    /\ sub' = [sub EXCEPT ![c] = [at |-> "checked", op |-> o]]
    /\ UNCHANGED <<node, run, chain, aged, faults>>

\* SimulateOp, which skips intents, on the chain as it is; saveCodeHashes.
SimulateOp(c) ==
    LET o == sub[c].op
    IN  /\ sub[c].at = "checked"
        /\ \/ o \in Intents /\ UNCHANGED <<records, changed>>
           \/ /\ o \notin Intents \union revoked
              /\ nonces[o.sender] = o.nonce
              /\ records' = records \union {o}
              /\ changed' = changed \ {o}
        /\ sub' = [sub EXCEPT ![c].at = "simulated"]
        /\ UNCHANGED <<pool, sol, seenAt, run, aged, nonces, revoked, eoaNonce, txs, submits, faults>>

\* Mistake: the score counts the new op too early.
AddOp_Score(c) ==
    LET o == sub[c].op
    IN  /\ sub[c].at = "simulated"
        /\ pool' = [p \in {p \in DOMAIN pool : ~ SameKey(o, p)} \union {o} |->
                        IF p = o THEN Cardinality(DOMAIN pool) - 1 ELSE pool[p]]
        /\ sol' = [sol EXCEPT ![o] = None]
        /\ sub' = [sub EXCEPT ![c] = [at |-> "idle", op |-> None]]
        /\ UNCHANGED <<records, seenAt, run, chain, aged, submits, faults>>

\* Mempool.AddOp, with the size of the pool as the score.
AddOp(c) ==
    LET o == sub[c].op
    IN  /\ sub[c].at = "simulated"
        /\ pool' = [p \in {p \in DOMAIN pool : ~ SameKey(o, p)} \union {o} |->
                        IF p = o THEN Cardinality(DOMAIN pool) ELSE pool[p]]
        /\ sol' = [sol EXCEPT ![o] = None]
        /\ sub' = [sub EXCEPT ![c] = [at |-> "idle", op |-> None]]
        /\ UNCHANGED <<records, seenAt, run, chain, aged, submits, faults>>

\* Any check of the module stack, or the DB, returns an error.
Rejected(c) ==
    /\ sub[c].at # "idle"
    /\ sub' = [sub EXCEPT ![c] = [at |-> "idle", op |-> None]]
    /\ UNCHANGED <<node, run, chain, aged, submits, faults>>
-----------------------------------------------------------------------------
(* Bundler.Process up to the sending of the batch.                         *)

Goto(t, label) == pc' = [pc EXCEPT ![t] = label]

\* Process returns.
Return(t) ==
    /\ Goto(t, "idle")
    /\ ctx' = [ctx EXCEPT ![t] = NoCtx]
    /\ batch' = [batch EXCEPT ![t] = <<>>]
    /\ tx' = [tx EXCEPT ![t] = 0]
    /\ culled' = [culled EXCEPT ![t] = {}]

Oldest(o, p) ==
    \/ pool[o] < pool[p]
    \/ pool[o] = pool[p] /\ OpRank[o] < OpRank[p]

\* What Dump returns: the pool in its order.
Dumps == {s \in SetToSeqs(DOMAIN pool) :
            \A i, j \in 1 .. Len(s) : i < j => Oldest(s[i], s[j])}

Process(t) ==
    /\ pc[t] = "idle" /\ DOMAIN pool # {}
    /\ \E dump \in Dumps :
        ctx' = [ctx EXCEPT ![t] = NewBatchHandlerContext(AdjustBatchSize(MaxBatch, dump),
                                                         BaseFee, Tip, GasPrice)]
    /\ Goto(t, "expire")
    /\ UNCHANGED <<node, batch, tx, culled, chain, aged, client, faults>>

DropExpired(t) ==
    /\ pc[t] = "expire"
    /\ ctx' = [ctx EXCEPT ![t] = MarkFromTheEnd(@, {o \in Ops : Hash(o) \in aged})]
    /\ seenAt' = seenAt \union {Hash(o) : o \in ToSet(ctx[t].batch)}
    /\ Goto(t, "select")
    /\ UNCHANGED <<pool, sol, records, batch, tx, culled, chain, aged, client, faults>>

\* The handlers that read nothing but the context.
Select(t) ==
    /\ pc[t] = "select"
    /\ ctx' = [ctx EXCEPT ![t] =
                MaintainGasLimit(SortByNonce(FilterUnderpriced(SortByGasPrice(@), WithIntent)),
                                 MaxBatchGasLimit)]
    /\ Goto(t, "check")
    /\ UNCHANGED <<node, batch, tx, culled, chain, aged, client, faults>>

\* An op without a record ends the run.
CodeHashes(t) ==
    /\ pc[t] = "check"
    /\ IF \E o \in ToSet(ctx[t].batch) : ~ HasIntent(o) /\ o \notin records
       THEN Return(t)
       ELSE /\ ctx' = [ctx EXCEPT ![t] =
                        MarkFromTheEnd(@, changed \ WithIntent)]
            /\ Goto(t, "pay")
            /\ UNCHANGED <<batch, tx, culled>>
    /\ UNCHANGED <<node, chain, aged, client, faults>>

Deposit(t) ==
    /\ pc[t] = "pay"
    /\ \E deposit \in [Paymasters -> Deposits] :
        ctx' = [ctx EXCEPT ![t] = PaymasterDeposit(@, deposit, WithIntent)]
    /\ Goto(t, "solve")
    /\ UNCHANGED <<node, batch, tx, culled, chain, aged, client, faults>>

\* The process dies: the DB and the chain are all that is left.  New loads
\* the pool from the DB in the order of its keys, every op as it was sent.
Die ==
    /\ sub' = [c \in Clients |-> [at |-> "idle", op |-> None]]
    /\ pc' = [t \in Runners |-> "idle"]
    /\ ctx' = [t \in Runners |-> NoCtx]
    /\ batch' = [t \in Runners |-> <<>>]
    /\ tx' = [t \in Runners |-> 0]
    /\ culled' = [t \in Runners |-> {}]
    /\ sol' = [o \in Ops |-> None]
    /\ seenAt' = {} /\ aged' = {}
    /\ pool' = [o \in DOMAIN pool |->
                    Cardinality({p \in DOMAIN pool : OpRank[p] < OpRank[o]})]
    /\ UNCHANGED <<records, chain, submits>>

\* A bad answer ends the run, or the process when the handler panics.
Solve(t) ==
    LET body == BufferIntentOps(ctx[t].batch, WithIntent)
    IN  /\ pc[t] = "solve"
        /\ \E answer \in IF body = <<>> THEN {<<>>} ELSE Answers(body) :
            LET r == SolveIntents(ctx[t], sol, SendToSolver(body, answer), WithIntent)
            IN  \/ r.out = "panic" /\ Die
                \/ /\ r.out = "error" /\ Return(t)
                   /\ sol' = r.sol
                   /\ UNCHANGED <<pool, records, seenAt, chain, aged, client>>
                \/ /\ r.out = "ok"
                   /\ sol' = r.sol
                   /\ ctx' = [ctx EXCEPT ![t] = r.ctx]
                   /\ culled' = [culled EXCEPT ![t] = ToSet(r.ctx.removal)]
                   /\ Goto(t, "send")
                   /\ UNCHANGED <<pool, records, seenAt, batch, tx, chain, aged, client>>
        /\ UNCHANGED faults
-----------------------------------------------------------------------------
(* The chain (external): handleOps reverts with the index of the first op  *)
(* that fails validation, else it uses up the nonces of all its ops.       *)

Failing(ops) ==
    {i \in 1 .. Len(ops) :
        LET o == ops[i]
            before == {j \in 1 .. i - 1 : ops[j].sender = o.sender}
        IN  o \in revoked \/ o.nonce # nonces[o.sender] + Cardinality(before)}

SentBy(s, ops) == Cardinality({i \in 1 .. Len(ops) : ops[i].sender = s})

\* Builders leave out a transaction that would revert.
CanBeMined(i) ==
    /\ txs[i].status = "pending" /\ txs[i].nonce = eoaNonce
    /\ Relayer \/ Failing(txs[i].ops) = {}

Mine(i) ==
    LET reverts == Failing(txs[i].ops) # {}
    IN  /\ CanBeMined(i)
        /\ txs' = [txs EXCEPT ![i].status = IF reverts THEN "failed" ELSE "ok"]
        /\ nonces' = IF reverts THEN nonces
                     ELSE [s \in DOMAIN nonces |-> nonces[s] + SentBy(s, txs[i].ops)]
        /\ eoaNonce' = eoaNonce + 1
        /\ UNCHANGED <<node, run, changed, revoked, aged, client, faults>>

\* The blocks a bundle was sent for have passed.
Lapse(i) ==
    /\ ~ Relayer /\ txs[i].status = "pending" /\ Fault
    /\ txs' = [txs EXCEPT ![i].status = "lapsed"]
    /\ UNCHANGED <<node, run, changed, nonces, revoked, eoaNonce, aged, client>>
-----------------------------------------------------------------------------
(* relay.SendUserOperation and builder.SendUserOperation.                  *)

\* Mistake: what is not solved is taken for conventional.
Conventional_Unsolved(ops) == Filter(ops, {o \in Ops : ~ IsSolvedIntent(o)})
Conventional(ops) == Filter(ops, {o \in Ops : ~ IsSolvedIntent(o) /\ ~ HasIntent(o)})
Solved(ops)       == Filter(ops, {o \in Ops : IsSolvedIntent(o)})

\* The relayer sends either the conventional ops or the solved intents.
SplitBatch(t) ==
    /\ pc[t] = "send"
    /\ LET conv == IF Relayer THEN Conventional(ctx[t].batch) ELSE ctx[t].batch
           ints == IF Relayer THEN Solved(ctx[t].batch) ELSE <<>>
       IN  \/ /\ conv # <<>>
              /\ batch' = [batch EXCEPT ![t] = conv]
              /\ Goto(t, "estimate")
           \/ /\ conv = <<>> /\ ints # <<>>
              /\ batch' = [batch EXCEPT ![t] = ints]
              /\ Goto(t, "handleIntents")
           \/ /\ conv = <<>> /\ ints = <<>>
              /\ Goto(t, "included") /\ UNCHANGED batch
    /\ UNCHANGED <<node, ctx, tx, culled, chain, aged, client, faults>>

\* Mistake: an empty batch does not end the loop.
Estimate_Empty(t) ==
    /\ pc[t] = "estimate"
    /\ IF Failing(batch[t]) = {}
       THEN Goto(t, "handle") /\ UNCHANGED <<ctx, culled>>
       ELSE /\ ctx' = [ctx EXCEPT ![t] =
                            MarkOpIndexForRemoval(@, Min(Failing(batch[t])) - 1)]
            /\ culled' = [culled EXCEPT ![t] = @ \union {batch[t][Min(Failing(batch[t]))]}]
            /\ UNCHANGED pc
    /\ UNCHANGED <<node, batch, tx, chain, aged, client, faults>>

\* One round of the estimation loop.  The ops it marks leave ctx.Batch, not
\* opts.Batch, which is what the next round estimates.
Estimate(t) ==
    /\ pc[t] = "estimate"
    /\ \/ ~ Relayer /\ ctx[t].batch = <<>> /\ Goto(t, "included") /\ UNCHANGED <<ctx, culled>>
       \/ /\ Relayer \/ ctx[t].batch # <<>>
          /\ IF Failing(batch[t]) = {}
             THEN Goto(t, "handle") /\ UNCHANGED <<ctx, culled>>
             ELSE LET i == Min(Failing(batch[t]))
                  IN  /\ ctx' = [ctx EXCEPT ![t] = MarkOpIndexForRemoval(@, i - 1)]
                      /\ culled' = [culled EXCEPT ![t] = @ \union {batch[t][i]}]
                      /\ UNCHANGED pc
    /\ UNCHANGED <<node, batch, tx, chain, aged, client, faults>>

\* HandleOps with the EOA's mined nonce.  The solved intents are sent without
\* an estimate of their own: binding the call makes one, whose error, like
\* every error of theirs, goes nowhere.
HandleOps(t) ==
    /\ pc[t] \in {"handle", "handleIntents"}
    /\ IF pc[t] = "handleIntents" /\ Failing(batch[t]) # {}
       THEN Goto(t, "included") /\ UNCHANGED <<txs, tx>>
       ELSE /\ txs' = Append(txs, [nonce |-> eoaNonce, ops |-> batch[t], status |-> "pending"])
            /\ tx' = [tx EXCEPT ![t] = Len(txs) + 1]
            /\ Goto(t, CASE Relayer /\ WaitTimeout = 0 -> "included"
                         [] pc[t] = "handleIntents" /\ WaitTimeout # 0 -> "waitIntents"
                         [] OTHER -> "wait")
    /\ UNCHANGED <<node, ctx, batch, culled, changed, nonces, revoked, eoaNonce, aged, client, faults>>

\* Mistake: the status of the receipt is not looked at.
Wait_AnyStatus(t) ==
    /\ pc[t] \in {"wait", "waitIntents"} /\ WaitTimeout # 0
    /\ txs[tx[t]].status \in {"ok", "failed"}
    /\ Goto(t, "included")
    /\ UNCHANGED <<ctx, batch, tx, culled>>
    /\ UNCHANGED <<node, chain, aged, client, faults>>

\* The receipt came before the timeout.
Wait(t) ==
    /\ pc[t] \in {"wait", "waitIntents"} /\ WaitTimeout # 0
    /\ txs[tx[t]].status \in {"ok", "failed"}
    /\ IF txs[tx[t]].status = "failed" /\ pc[t] = "wait"
       THEN Return(t)
       ELSE Goto(t, "included") /\ UNCHANGED <<ctx, batch, tx, culled>>
    /\ UNCHANGED <<node, chain, aged, client, faults>>

\* Mistake: a timeout is not an error.
Timeout_NoError(t) ==
    LET dead == txs[tx[t]].status \in {"lapsed", "pending"} /\ ~ CanBeMined(tx[t])
    IN  /\ pc[t] \in {"wait", "waitIntents"}
        /\ IF dead \/ WaitTimeout = 0 THEN UNCHANGED faults ELSE Fault
        /\ Goto(t, "included")
        /\ UNCHANGED <<ctx, batch, tx, culled>>
        /\ UNCHANGED <<node, chain, aged, client>>

\* The timeout came first.  It must, when the transaction can not be mined: a
\* bundle that lapsed or would revert, a nonce another transaction has used.
Timeout(t) ==
    LET dead == txs[tx[t]].status \in {"lapsed", "pending"} /\ ~ CanBeMined(tx[t])
    IN  /\ pc[t] \in {"wait", "waitIntents"}
        /\ IF dead \/ WaitTimeout = 0 THEN UNCHANGED faults ELSE Fault
        /\ IF pc[t] = "wait"
           THEN Return(t)
           ELSE Goto(t, "included") /\ UNCHANGED <<ctx, batch, tx, culled>>
        /\ UNCHANGED <<node, chain, aged, client>>

\* Sending the solved intents fails, and nothing comes of it.
SendSwallowed(t) ==
    /\ pc[t] = "handleIntents" /\ Fault
    /\ Goto(t, "included")
    /\ UNCHANGED <<node, ctx, batch, tx, culled, chain, aged, client>>
-----------------------------------------------------------------------------
(* The end of Process.                                                     *)

\* Mistake: the records of everything that was dumped are cleared.
Clean_All(t) ==
    /\ pc[t] = "included"
    /\ records' = records \ DOMAIN pool
    /\ Goto(t, "remove")
    /\ UNCHANGED <<pool, sol, seenAt, ctx, batch, tx, culled, chain, aged, client, faults>>

Clean(t) ==
    /\ pc[t] = "included"
    /\ records' = records \ (ToSet(ctx[t].batch) \union ToSet(ctx[t].removal))
    /\ Goto(t, "remove")
    /\ UNCHANGED <<pool, sol, seenAt, ctx, batch, tx, culled, chain, aged, client, faults>>

\* Mistake: the ops pending removal are not removed.
RemoveOps_BatchOnly(t) ==
    LET rmOps == {o \in ToSet(ctx[t].batch) : ~ IsUnsolvedIntent(o)}
        kept  == {o \in DOMAIN pool : \A p \in rmOps : ~ SameKey(o, p)}
    IN  /\ pc[t] = "remove"
        /\ pool' = [o \in kept |-> pool[o]]
        /\ Return(t)
        /\ UNCHANGED <<sol, records, seenAt, chain, aged, client, faults>>

\* Mistake: the pool is cleared, as debug_bundler_clearState would.
RemoveOps_All(t) ==
    /\ pc[t] = "remove"
    /\ pool' = <<>>
    /\ Return(t)
    /\ UNCHANGED <<sol, records, seenAt, chain, aged, client, faults>>

\* Mistake: all ops of a sender are removed with one of them.
RemoveOps_Sender(t) ==
    LET rmOps == {o \in ToSet(ctx[t].batch) : ~ IsUnsolvedIntent(o)}
                    \union ToSet(ctx[t].removal)
        kept  == {o \in DOMAIN pool : \A p \in rmOps : o.sender # p.sender}
    IN  /\ pc[t] = "remove"
        /\ pool' = [o \in kept |-> pool[o]]
        /\ Return(t)
        /\ UNCHANGED <<sol, records, seenAt, chain, aged, client, faults>>

\* RemoveOps, by key, of the batch without its unsolved intents and of the
\* ops pending removal.
RemoveOps(t) ==
    LET rmOps == {o \in ToSet(ctx[t].batch) : ~ IsUnsolvedIntent(o)}
                    \union ToSet(ctx[t].removal)
        kept  == {o \in DOMAIN pool : \A p \in rmOps : ~ SameKey(o, p)}
    IN  /\ pc[t] = "remove"
        /\ pool' = [o \in kept |-> pool[o]]
        /\ Return(t)
        /\ UNCHANGED <<sol, records, seenAt, chain, aged, client, faults>>

\* A call of a handler, or of RemoveOps, fails and Process returns its error.
Abort(t) ==
    /\ pc[t] \in {"expire", "check", "pay", "solve", "estimate", "handle", "included", "remove"}
    /\ Fault
    /\ Return(t)
    /\ UNCHANGED <<node, chain, aged, client>>
-----------------------------------------------------------------------------
(* What happens meanwhile.                                                 *)

Age ==
    /\ "age" \in Events
    /\ \E h \in seenAt \ aged : aged' = aged \union {h}
    /\ UNCHANGED <<node, run, chain, client, faults>>

ChangeCode ==
    /\ "code" \in Events
    /\ \E o \in records \ changed : changed' = changed \union {o}
    /\ UNCHANGED <<node, run, nonces, revoked, eoaNonce, txs, aged, client, faults>>

Revoke ==
    /\ "revoke" \in Events
    /\ \E o \in Ops \ revoked : revoked' = revoked \union {o}
    /\ UNCHANGED <<node, run, changed, nonces, eoaNonce, txs, aged, client, faults>>

Crash == "crash" \in Events /\ Fault /\ Die

ClientStep(c) ==
    (\E o \in Ops : Submit(c, o)) \/ SimulateOp(c) \/ AddOp(c) \/ Rejected(c)

RunStep(t) ==
    \/ Process(t) \/ DropExpired(t) \/ Select(t) \/ CodeHashes(t) \/ Deposit(t) \/ Solve(t)
    \/ SplitBatch(t) \/ Estimate(t) \/ HandleOps(t) \/ Wait(t) \/ Timeout(t)
    \/ Clean(t) \/ RemoveOps(t)

Next ==
    \/ \E c \in Clients : ClientStep(c)
    \/ \E t \in Runners : RunStep(t) \/ SendSwallowed(t) \/ Abort(t)
    \/ \E i \in 1 .. Len(txs) : Mine(i) \/ Lapse(i)
    \/ Age \/ ChangeCode \/ Revoke \/ Crash

Spec == Init /\ [][Next]_vars

\* The ticker of Run starts a run every second and a goroutine that can go on
\* does; what can be mined is mined; and time passes.
FairSpec ==
    /\ Spec
    /\ \A t \in Runners : WF_vars(RunStep(t))
    /\ WF_vars(\E i \in 1 .. Len(txs) : Mine(i))
    /\ WF_vars(Age)
-----------------------------------------------------------------------------
(* Properties *)

Stages == {"idle", "expire", "select", "check", "pay", "solve", "send", "estimate",
           "handle", "handleIntents", "wait", "waitIntents", "included", "remove"}

\* The types of the variables, and that a run holds a transaction exactly
\* while it waits for it.
TypeOK ==
    /\ DOMAIN pool \subseteq Ops /\ \A o \in DOMAIN pool : pool[o] \in Nat
    /\ sol \in [Ops -> Ops \union {None}]
    /\ records \subseteq Ops /\ changed \subseteq Ops /\ revoked \subseteq Ops
    /\ aged \subseteq seenAt /\ seenAt \subseteq Ops \X (Ops \union {None})
    /\ sub \in [Clients -> [at : {"idle", "checked", "simulated"}, op : Ops \union {None}]]
    /\ pc \in [Runners -> Stages]
    /\ \A t \in Runners :
        /\ ToSet(ctx[t].batch) \union ToSet(ctx[t].removal) \union culled[t] \subseteq Ops
        /\ ToSet(batch[t]) \subseteq Ops
        /\ tx[t] \in 0 .. Len(txs)
        /\ pc[t] \in {"wait", "waitIntents"} => tx[t] # 0
    /\ eoaNonce \in 0 .. Len(txs)
    /\ \A i \in 1 .. Len(txs) : txs[i].status \in {"pending", "ok", "failed", "lapsed"}
    /\ submits \in 0 .. MaxSubmits /\ faults \in 0 .. MaxFaults

\* The ways out of the pool (bundler.go:171-187): an op leaves because the
\* chain has used its nonce, because a check of the run that removes it marked
\* an op of its key or its estimate found it to revert, or, when nothing waits
\* (debug mode), because it was sent.  Neither a wait that timed out, a reverted
\* transaction, a failed call, a crash nor a second run at the same time loses
\* an op.
RemovedForCause ==
    [][\A o \in DOMAIN pool :
        \/ \E p \in DOMAIN pool' : SameKey(o, p)
        \/ nonces[o.sender] > o.nonce
        \/ \E t \in Runners : \E p \in culled[t] : SameKey(o, p)
        \/ /\ WaitTimeout = 0
           /\ \E i \in 1 .. Len(txs) : \E p \in ToSet(txs[i].ops) : SameKey(o, p)]_vars

\* "Do not send unsolved Intents to the EntryPoint" (relayer.go:84), whatever
\* the Solver answers, and though Solver and pool share the ops of a batch.
UnsolvedIntentsAreNotSent ==
    [][Len(txs') > Len(txs) =>
        \A o \in ToSet(txs'[Len(txs')].ops) : ~ IsUnsolvedIntent(o)]_vars

\* Whatever happens to an op - it is underpriced, too big, its record is
\* lost, its validation fails, its bundles lapse - it does not stay in the
\* pool for ever: in the end the TTL (expire.go:24) takes it out.
OpsLeaveThePool == \A o \in Ops : o \in DOMAIN pool ~> o \notin DOMAIN pool

\* "drop all userOps that cause unexpected reverts" (relayer.go:94,
\* builder/client.go:78): the loop that does so comes to an end.
EstimationEnds == \A t \in Runners : pc[t] = "estimate" ~> pc[t] # "estimate"

\* "a matching occurs by the hash value of each UserOperation to the bundle
\* UserOperation" (solveintents.go:12), of a subset in any sequence.
SolutionsMatch == \A o \in Ops : sol[o] \in {None, o}

\* "Clean returns a BatchHandler that clears the DB of data that is no longer
\* required" (standalone.go:224).  While an op is in the pool and no run is
\* about to remove it CodeHashes requires its record, and ends every run for
\* want of it (standalone.go:163): Clean takes no record too many, though ops
\* come and go meanwhile.  A failure between Clean and RemoveOps breaks it, and
\* so does a second client whose SimulateOp comes before, and whose AddOp after,
\* the bundle of the same op.
RecordsOutliveTheirOps ==
    faults = 0 =>
        \A o \in DOMAIN pool \ Intents :
            o \in records \/ \E t \in Runners : pc[t] = "remove"

\* An op on its way, as OpLifecycle has it.  A run holds the ops of its
\* context, those pending removal among them.
HeldBy(t) == ToSet(ctx[t].batch) \union ToSet(ctx[t].removal)
OpsOf(statuses) ==
    UNION {ToSet(txs[i].ops) : i \in {j \in 1 .. Len(txs) : txs[j].status \in statuses}}

Lifecycle == INSTANCE OpLifecycle WITH
    pending  <- DOMAIN pool,
    taken    <- UNION {HeldBy(t) : t \in Runners},
    sent     <- OpsOf({"pending", "ok", "failed", "lapsed"}),
    included <- OpsOf({"ok"})

\* Process, AddOp and RemoveOps at their own pace (bundler.go:91-198), the
\* chain and its clients implement the promise: a run sends only what it took
\* from the pool, even an op another run has removed since; it removes the
\* keys it held and no other; and no nonce is included twice.
ImplementsLifecycle == Lifecycle!Spec
=============================================================================
