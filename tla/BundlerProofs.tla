---------------------------- MODULE BundlerProofs ----------------------------
(***************************************************************************)
(* Runs, clients, crashes and the chain together, for any number of them:  *)
(* the types, that Bundler implements OpLifecycle, why an op leaves the    *)
(* pool; and, for one client and one runner, that the records of the ops   *)
(* outlive them and that no unsolved intent is sent.                       *)
(***************************************************************************)
EXTENDS Bundler, BatchHandlersProofs

ChainFees == {BaseFee, Tip, GasPrice, None}
Senders   == {o.sender : o \in Ops}
TxStatuses  == {"pending", "ok", "failed", "lapsed"}
Handled   == [nonce : Nat, ops : Seq(Ops), status : TxStatuses]

Types ==
    /\ DOMAIN pool \subseteq Ops /\ pool \in [DOMAIN pool -> Nat]
    /\ sol \in [Ops -> Ops \union {None}]
    /\ records \subseteq Ops /\ changed \subseteq Ops /\ revoked \subseteq Ops
    /\ aged \subseteq seenAt /\ seenAt \subseteq Ops \X (Ops \union {None})
    /\ sub \in [Clients -> [at : {"idle", "checked", "simulated"}, op : Ops \union {None}]]
    /\ \A c \in Clients : sub[c].at # "idle" => sub[c].op \in Ops
    /\ nonces \in [Senders -> Nat] /\ eoaNonce \in Nat
    /\ txs \in Seq(Handled)
    /\ submits \in 0 .. MaxSubmits /\ faults \in 0 .. MaxFaults

RunTypes ==
    /\ pc \in [Runners -> Stages]
    /\ ctx \in [Runners -> Contexts(Ops, ChainFees)]
    /\ batch \in [Runners -> Seq(Ops)]
    /\ tx \in [Runners -> Nat]
    /\ culled \in [Runners -> SUBSET Ops]

\* Between its batch and its context, and between its place in Process and the
\* transaction it waits for, a run keeps this.  What it is about to send it
\* still holds, marked or not.
RunOK(t) ==
    /\ Once(ctx[t])
    /\ pc[t] = "idle" => ctx[t] = NoCtx
    /\ pc[t] \in {"estimate", "handle", "handleIntents"} => ToSet(batch[t]) \subseteq HeldBy(t)
    /\ tx[t] <= Len(txs)
    /\ pc[t] \in {"wait", "waitIntents"} => tx[t] # 0

\* The EOA never skips a nonce; what succeeded used up nonces of its senders,
\* each one once.
ChainOK ==
    /\ eoaNonce <= Len(txs)
    /\ \A i \in 1 .. Len(txs) : txs[i].nonce < i
    /\ \A o \in OpsOf({"ok"}) : o.nonce < nonces[o.sender]
    /\ Lifecycle!OneOfAKey(OpsOf({"ok"}))

IInv == Types /\ RunTypes /\ (\A t \in Runners : RunOK(t)) /\ ChainOK

\* A runner that is not in Process holds nothing.
LEMMA NoCtxIs ==
  /\ NoCtx \in Contexts(Ops, ChainFees)
  /\ Once(NoCtx) /\ Held(NoCtx) = {}
<1> DEFINE e == <<>>
<1>1. e \in Seq(Ops) /\ Len(e) = 0
  OBVIOUS
<1> HIDE DEF e
<1>2. ToSet(e) = {} /\ Distinct(e)
  <2>1. \A i \in 1 .. Len(e) : FALSE
    BY <1>1
  <2> QED
    BY <1>1, <2>1, ToSetIs DEF Distinct
<1>3. NoCtx = [batch |-> e, removal |-> e, baseFee |-> None, tip |-> None, gasPrice |-> None]
  BY DEF NoCtx, NewBatchHandlerContext, e
<1>4. NoCtx.batch = e /\ NoCtx.removal = e /\ NoCtx \in Contexts(Ops, ChainFees)
  BY <1>1, <1>3 DEF Contexts, ChainFees
<1> HIDE <1>3
<1> QED
  BY <1>2, <1>4 DEF Once, Held

\* Run t goes to p, with these values of its variables.
Goes(t, p, c, b, x, k) ==
    /\ pc' = [pc EXCEPT ![t] = p] /\ ctx' = [ctx EXCEPT ![t] = c]
    /\ batch' = [batch EXCEPT ![t] = b] /\ tx' = [tx EXCEPT ![t] = x]
    /\ culled' = [culled EXCEPT ![t] = k]

\* What RunOK wants of them, when n transactions have been sent.
Fit(p, c, b, x, k, n) ==
    /\ p \in Stages /\ c \in Contexts(Ops, ChainFees) /\ b \in Seq(Ops)
    /\ x \in Nat /\ k \in SUBSET Ops
    /\ Once(c)
    /\ p = "idle" => c = NoCtx
    /\ p \in {"estimate", "handle", "handleIntents"} => ToSet(b) \subseteq Held(c)
    /\ x <= n
    /\ p \in {"wait", "waitIntents"} => x # 0

\* A step of one run leaves the others as they are.
LEMMA RunMoves ==
  ASSUME NEW t \in Runners, RunTypes, \A u \in Runners : RunOK(u),
         NEW p, NEW c, NEW b, NEW x, NEW k, Goes(t, p, c, b, x, k),
         Len(txs) \in Nat, Len(txs') \in Nat, Len(txs) <= Len(txs'),
         Fit(p, c, b, x, k, Len(txs'))
  PROVE  RunTypes' /\ \A u \in Runners : RunOK(u)'
<1> USE DEF Goes, Fit
<1>1. RunTypes'
  BY DEF RunTypes
<1>2. ASSUME NEW u \in Runners PROVE RunOK(u)'
  <2>1. CASE u = t
    <3>1. pc'[u] = p /\ ctx'[u] = c /\ batch'[u] = b /\ tx'[u] = x
      BY <2>1 DEF RunTypes
    <3> QED
      BY <3>1 DEF RunOK, HeldBy, Held, NoCtx
  <2>2. CASE u # t
    <3>1. pc'[u] = pc[u] /\ ctx'[u] = ctx[u] /\ batch'[u] = batch[u] /\ tx'[u] = tx[u]
      BY <2>2 DEF RunTypes
    <3>2. tx[u] \in Nat
      BY DEF RunTypes
    <3>3. RunOK(u) /\ tx[u] <= Len(txs')
      BY <3>2 DEF RunOK
    <3>4. HeldBy(u)' = HeldBy(u)
      BY <3>1 DEF HeldBy
    <3> QED
      BY <3>1, <3>3, <3>4 DEF RunOK, NoCtx
  <2> QED
    BY <2>1, <2>2
<1> QED
  BY <1>1, <1>2

\* What is done outside of the runs leaves what is known of them.
LEMMA RunsStay ==
  ASSUME RunTypes, \A u \in Runners : RunOK(u), UNCHANGED run,
         Len(txs) \in Nat, Len(txs') \in Nat, Len(txs) <= Len(txs')
  PROVE  RunTypes' /\ \A u \in Runners : RunOK(u)'
<1>1. RunTypes'
  BY DEF RunTypes, run
<1>2. ASSUME NEW u \in Runners PROVE RunOK(u)'
  BY tx[u] \in Nat DEF RunTypes, RunOK, HeldBy, NoCtx, run
<1> QED
  BY <1>1, <1>2

\* What neither sends nor mines leaves what is known of the chain.
LEMMA ChainStays ==
  ASSUME ChainOK, UNCHANGED <<nonces, eoaNonce, txs>>
  PROVE  ChainOK'
BY DEF ChainOK, OpsOf, Lifecycle!OneOfAKey, Lifecycle!SameKey

\* Process returns and forgets its context.
LEMMA Returning ==
  ASSUME NEW t \in Runners, Types, RunTypes, \A u \in Runners : RunOK(u), Return(t),
         UNCHANGED txs
  PROVE  RunTypes' /\ \A u \in Runners : RunOK(u)'
<1>1. Len(txs) \in Nat /\ Len(txs') = Len(txs)
  BY DEF Types
<1>2. Fit("idle", NoCtx, <<>>, 0, {}, Len(txs'))
  BY <1>1, NoCtxIs DEF Fit, Stages
<1>3. Goes(t, "idle", NoCtx, <<>>, 0, {})
  BY DEF Return, Goto, Goes
<1> QED
  BY <1>1, <1>2, <1>3, RunMoves
-----------------------------------------------------------------------------
(* The handlers. *)

\* Run t moves or drops ops of its context, and goes on to the next handler.
Narrows(t) ==
    /\ ctx' = [ctx EXCEPT ![t] = ctx'[t]]
    /\ ctx'[t] \in Reduced(Ops, ChainFees, ctx[t])

\* A run whose context lost ops goes on to the next handler.
LEMMA Narrowing ==
  ASSUME IInv, NEW t \in Runners, Narrows(t),
         NEW p \in {"select", "check", "pay", "solve", "send"}, pc' = [pc EXCEPT ![t] = p],
         culled' = [culled EXCEPT ![t] = culled'[t]], culled'[t] \in SUBSET Ops,
         UNCHANGED <<batch, tx, txs>>
  PROVE  RunTypes' /\ \A u \in Runners : RunOK(u)'
<1>1. /\ ctx[t] \in Contexts(Ops, ChainFees) /\ Once(ctx[t])
      /\ batch[t] \in Seq(Ops) /\ tx[t] \in Nat /\ tx[t] <= Len(txs)
      /\ Len(txs) \in Nat /\ Len(txs') = Len(txs)
  BY DEF IInv, Types, RunTypes, RunOK
<1>2. ctx'[t] \in Contexts(Ops, ChainFees) /\ Once(ctx'[t])
  BY <1>1, ReducedIs DEF Narrows
<1>3. Fit(p, ctx'[t], batch[t], tx[t], culled'[t], Len(txs'))
  BY <1>1, <1>2 DEF Fit, Stages
<1>4. Goes(t, p, ctx'[t], batch[t], tx[t], culled'[t])
  BY DEF Goes, Narrows, IInv, RunTypes
<1> QED
  BY <1>1, <1>3, <1>4, RunMoves DEF IInv

\* DropExpired only marks ops.
LEMMA DropExpiredNarrows ==
  ASSUME IInv, NEW t \in Runners, DropExpired(t)
  PROVE  Narrows(t)
<1> DEFINE c == ctx[t]
           drop == {o \in Ops : Hash(o) \in aged}
<1>1. c \in Contexts(Ops, ChainFees)
  BY DEF IInv, RunTypes
<1>2. MarkFromTheEnd(c, drop) \in Reduced(Ops, ChainFees, c)
  BY <1>1, MarkFromTheEndReduces
<1>3. ctx' = [ctx EXCEPT ![t] = MarkFromTheEnd(c, drop)]
  BY DEF DropExpired
<1> HIDE DEF drop
<1> QED
  BY <1>2, <1>3 DEF Narrows, IInv, RunTypes

\* The handlers from SortByGasPrice to MaintainGasLimit only move or leave out ops.
LEMMA SelectNarrows ==
  ASSUME IInv, NEW t \in Runners, Select(t)
  PROVE  Narrows(t)
<1> DEFINE c1 == ctx[t]
           c2 == SortByGasPrice(c1)
           c3 == FilterUnderpriced(c2, WithIntent)
           c4 == SortByNonce(c3)
           c5 == MaintainGasLimit(c4, MaxBatchGasLimit)
<1>1. c1 \in Contexts(Ops, ChainFees)
  BY DEF IInv, RunTypes
<1>2. ctx' = [ctx EXCEPT ![t] = c5]
  BY DEF Select
<1> HIDE DEF c1
<1>3. c2 \in Reduced(Ops, ChainFees, c1) /\ c2 \in Contexts(Ops, ChainFees)
  BY <1>1, SortByGasPriceReduces, ReducedIs DEF Rebatched
<1> HIDE DEF c2
<1>4. c3 \in Reduced(Ops, ChainFees, c2) /\ c3 \in Contexts(Ops, ChainFees)
  BY <1>3, FilterUnderpricedReduces, ReducedIs DEF Rebatched
<1> HIDE DEF c3
<1>5. c4 \in Reduced(Ops, ChainFees, c3) /\ c4 \in Contexts(Ops, ChainFees)
  BY <1>4, SortByNonceReduces, ReducedIs DEF Rebatched
<1> HIDE DEF c4
<1>6. (\A o \in Ops : o.gas \in Nat) /\ MaxBatchGasLimit \in Nat
  BY OpsAreValid, NumbersAssumption
<1>7. c5 \in Rebatched(Ops, ChainFees, c4)
  BY <1>5, <1>6, MaintainGasLimitReduces
<1>8. c5 \in Reduced(Ops, ChainFees, c4)
  BY <1>7 DEF Rebatched
<1> HIDE DEF c5
<1>9. c5 \in Reduced(Ops, ChainFees, c1)
  <2>1. c5 \in Reduced(Ops, ChainFees, c3)
    BY <1>4, <1>5, <1>8, ReducedIs
  <2>2. c5 \in Reduced(Ops, ChainFees, c2)
    BY <1>3, <1>4, <2>1, ReducedIs
  <2> QED
    BY <1>1, <1>3, <2>2, ReducedIs
<1> QED
  BY <1>2, <1>9 DEF Narrows, IInv, RunTypes, c1

\* CodeHashes only marks ops, when it does not end the run.
LEMMA CodeHashesNarrows ==
  ASSUME IInv, NEW t \in Runners, CodeHashes(t), pc'[t] # "idle"
  PROVE  /\ Narrows(t) /\ pc' = [pc EXCEPT ![t] = "pay"]
         /\ UNCHANGED <<batch, tx, culled>>
<1> DEFINE c == ctx[t]
           drop == changed \ WithIntent
<1>1. c \in Contexts(Ops, ChainFees) /\ ~ Return(t)
  BY DEF IInv, RunTypes, Return, Goto
<1>2. MarkFromTheEnd(c, drop) \in Reduced(Ops, ChainFees, c)
  BY <1>1, MarkFromTheEndReduces
<1>3. ctx' = [ctx EXCEPT ![t] = MarkFromTheEnd(c, drop)] /\ pc' = [pc EXCEPT ![t] = "pay"]
      /\ UNCHANGED <<batch, tx, culled>>
  BY <1>1 DEF CodeHashes, Goto
<1> HIDE DEF drop
<1> QED
  BY <1>2, <1>3 DEF Narrows, IInv, RunTypes

\* PaymasterDeposit only marks ops.
LEMMA DepositNarrows ==
  ASSUME IInv, NEW t \in Runners, Deposit(t)
  PROVE  Narrows(t)
<1> DEFINE c == ctx[t]
<1>1. c \in Contexts(Ops, ChainFees)
  BY DEF IInv, RunTypes
<1>2. PICK deposit \in [Paymasters -> Deposits] :
        ctx' = [ctx EXCEPT ![t] = PaymasterDeposit(c, deposit, WithIntent)]
  BY DEF Deposit
<1>3. deposit \in [Paymasters -> Int] /\ \A o \in Ops : o.prefund \in Int
  <2>1. \A x \in Deposits : x \in Int
    BY NumbersAssumption
  <2>2. deposit \in [Paymasters -> Int]
    BY <2>1
  <2>3. ASSUME NEW o \in Ops PROVE o.prefund \in Int
    BY OpsAreValid
  <2> QED
    BY <2>2, <2>3
<1>4. PaymasterDeposit(c, deposit, WithIntent) \in Reduced(Ops, ChainFees, c)
  BY <1>1, <1>3, PaymasterDepositReduces
<1> QED
  BY <1>2, <1>4 DEF Narrows, IInv, RunTypes

\* The ops with an intent are ops.
LEMMA WithIntentIs ==
  WithIntent \subseteq Ops
BY DEF WithIntent

\* What SolveIntents makes of any answer the Solver may give.
LEMMA SolveNarrows ==
  ASSUME IInv, NEW t \in Runners,
         NEW body, body = BufferIntentOps(ctx[t].batch, WithIntent),
         NEW answer \in IF body = <<>> THEN {<<>>} ELSE Answers(body),
         NEW r, r = SolveIntents(ctx[t], sol, SendToSolver(body, answer), WithIntent)
  PROVE  r.ctx \in Reduced(Ops, ChainFees, ctx[t]) /\ r.sol \in [Ops -> Ops \union {None}]
<1> DEFINE c == ctx[t]
           E == [hash : Ops, status : STRING \union {"Received"}]
           H == Ops \union {None}
           ops == Filter(c.batch, WithIntent)
           n == Len(ops)
           ext == SendToSolver(body, answer)
<1>1. c \in Contexts(Ops, ChainFees) /\ c.batch \in Seq(Ops) /\ Distinct(c.batch)
  BY DEF IInv, RunTypes, RunOK, Contexts, Once
<1>2. ops \in Seq(Ops) /\ Distinct(ops)
  BY <1>1, FilterSet
<1>3. body = [i \in 1 .. n |-> [hash |-> ops[i], status |-> "Received"]]
  BY DEF BufferIntentOps
<1> HIDE DEF ops
<1>4. n \in Nat /\ ops \in [1 .. n -> Ops]
  BY <1>2
<1>5. n <= Cardinality(Ops)
  <2>1. Cardinality(ToSet(ops)) = n
    BY <1>2, CountDistinct
  <2>2. ToSet(ops) \subseteq Ops /\ IsFiniteSet(Ops)
    BY <1>2, ToSetIs, OpsAreValid
  <2> QED
    BY <2>1, <2>2, FS_Subset
<1>6. n \in 0 .. Cardinality(Ops)
  BY <1>4, <1>5, OpsAreValid, FS_CardinalityType
<1>7. body \in Seq(E) /\ Len(body) = n
  <2> DEFINE rec == [i \in 1 .. n |-> [hash |-> ops[i], status |-> "Received"]]
  <2>1. ASSUME NEW i \in 1 .. n PROVE rec[i] \in E
    <3>1. ops[i] \in Ops
      BY <1>4
    <3>2. rec[i] = [hash |-> ops[i], status |-> "Received"]
      OBVIOUS
    <3> HIDE DEF rec
    <3> QED
      BY <3>1, <3>2
  <2>2. rec = [i \in 1 .. n |-> rec[i]]
    OBVIOUS
  <2> HIDE DEF E, rec
  <2>3. rec \in Seq(E) /\ Len(rec) = n
    BY <1>4, <2>1, <2>2
  <2> QED
    BY <1>3, <2>3 DEF rec
<1>8. answer \in Seq(E)
  <2>1. CASE body = <<>>
    BY <2>1
  <2>2. CASE body # <<>>
    <3> DEFINE A == [hash : Ops, status : STRING]
    <3>1. Answers(body) \subseteq Seq(A)
      BY <1>3, <1>4, <1>6, AnswersAssumption
    <3>2. A \subseteq E
      OBVIOUS
    <3>3. answer \in Seq(A)
      BY <2>2, <3>1
    <3> HIDE DEF A, E
    <3> QED
      BY <3>2, <3>3
  <2> QED
    BY <2>1, <2>2
<1>9. ext \in Seq(E)
  <2> HIDE DEF E
  <2>1. ext = [i \in 1 .. Len(body) |-> IF i <= Len(answer) THEN answer[i] ELSE body[i]]
    BY DEF SendToSolver
  <2>2. ASSUME NEW i \in 1 .. Len(body) PROVE ext[i] \in E
    BY <1>7, <1>8, <2>1
  <2>3. ext = [i \in 1 .. Len(body) |-> ext[i]] /\ Len(body) \in Nat
    BY <1>7, <2>1
  <2> HIDE DEF ext
  <2> QED
    BY <2>2, <2>3
<1> HIDE DEF n, ext
<1>10. \A e \in E : e.hash \in H
  OBVIOUS
<1>11. sol \in [Ops -> H] /\ r = SolveIntents(c, sol, ext, WithIntent)
  BY DEF IInv, Types, ext
<1> HIDE DEF E, H, c
<1>12. /\ SolveIntents(c, sol, ext, WithIntent).ctx \in Reduced(Ops, ChainFees, c)
       /\ SolveIntents(c, sol, ext, WithIntent).sol \in [Ops -> H]
  <2>1. c \in Contexts(Ops, ChainFees) /\ sol \in [Ops -> H]
    BY <1>1, <1>11
  <2> HIDE <1>11
  <2> QED
    BY <1>9, <1>10, <2>1, SolveIntentsReduces
<1> QED
  BY <1>11, <1>12 DEF H, c
-----------------------------------------------------------------------------
(* Every step keeps IInv.  The clients first: they change neither the runs  *)
(* nor the nonces.                                                          *)

\* A step outside of the runs that sends and mines nothing keeps IInv.
LEMMA ElsewhereKeeps ==
  ASSUME IInv, UNCHANGED <<run, nonces, eoaNonce, txs>>, Types'
  PROVE  IInv'
<1>1. Len(txs) \in Nat /\ Len(txs') = Len(txs)
  BY DEF IInv, Types
<1>2. RunTypes' /\ \A t \in Runners : RunOK(t)'
  BY <1>1, RunsStay DEF IInv
<1> QED
  BY <1>2, ChainStays DEF IInv

\* The size of the pool, which AddOp takes for a score, is a number.
LEMMA PoolIsFinite ==
  ASSUME Types
  PROVE  Cardinality(DOMAIN pool) \in Nat
BY OpsAreValid, FS_Subset, FS_CardinalityType DEF Types

\* SendUserOperation keeps IInv.
LEMMA ClientKeeps ==
  ASSUME IInv, NEW c \in Clients, ClientStep(c)
  PROVE  IInv'
<1>1. Types
  BY DEF IInv
<1>2. CASE \E o \in Ops : Submit(c, o)
  <2>1. PICK o \in Ops : Submit(c, o)
    BY <1>2
  <2>2. submits' \in 0 .. MaxSubmits
    BY <1>1, <2>1, NumbersAssumption DEF Submit, Types
  <2>3. sub' = [sub EXCEPT ![c] = [at |-> "checked", op |-> o]]
    BY <2>1 DEF Submit
  <2>4. Types'
    BY <1>1, <2>1, <2>2, <2>3 DEF Submit, Types, node, chain
  <2> QED
    BY <2>1, <2>4, ElsewhereKeeps DEF Submit, chain
<1>3. CASE SimulateOp(c)
  <2>1. sub[c].op \in Ops /\ sub' = [sub EXCEPT ![c].at = "simulated"]
    BY <1>1, <1>3 DEF SimulateOp, Types
  <2>2. records' \subseteq Ops /\ changed' \subseteq Ops
    BY <1>1, <1>3, <2>1 DEF SimulateOp, Types
  <2>3. /\ sub' \in [Clients -> [at : {"idle", "checked", "simulated"}, op : Ops \union {None}]]
        /\ \A d \in Clients : sub'[d].at # "idle" => sub'[d].op \in Ops
    BY <1>1, <2>1 DEF Types
  <2>4. Types'
    BY <1>1, <1>3, <2>2, <2>3 DEF SimulateOp, Types
  <2> QED
    BY <1>3, <2>4, ElsewhereKeeps DEF SimulateOp
<1>4. CASE AddOp(c)
  <2> DEFINE o == sub[c].op
             D == {p \in DOMAIN pool : ~ SameKey(o, p)} \union {o}
  <2>1. o \in Ops /\ sub' = [sub EXCEPT ![c] = [at |-> "idle", op |-> None]]
    BY <1>1, <1>4 DEF AddOp, Types
  <2>2. D \subseteq Ops /\ Cardinality(DOMAIN pool) \in Nat
    BY <1>1, <2>1, PoolIsFinite DEF Types
  <2>3. pool' = [p \in D |-> IF p = o THEN Cardinality(DOMAIN pool) ELSE pool[p]]
    BY <1>4 DEF AddOp
  <2>4. \A p \in D : p = o \/ pool[p] \in Nat
    BY <1>1 DEF Types
  <2>5. DOMAIN pool' \subseteq Ops /\ pool' \in [DOMAIN pool' -> Nat]
    <3> HIDE DEF o, D
    <3> QED
      BY <2>2, <2>3, <2>4
  <2>6. sol' \in [Ops -> Ops \union {None}]
    BY <1>1, <1>4, <2>1 DEF AddOp, Types
  <2>7. /\ sub' \in [Clients -> [at : {"idle", "checked", "simulated"}, op : Ops \union {None}]]
        /\ \A d \in Clients : sub'[d].at # "idle" => sub'[d].op \in Ops
    BY <1>1, <2>1 DEF Types
  <2>8. Types'
    BY <1>1, <1>4, <2>5, <2>6, <2>7 DEF AddOp, Types, chain
  <2> QED
    BY <1>4, <2>8, ElsewhereKeeps DEF AddOp, chain
<1>5. CASE Rejected(c)
  <2>1. sub' = [sub EXCEPT ![c] = [at |-> "idle", op |-> None]]
    BY <1>5 DEF Rejected
  <2>2. Types'
    BY <1>1, <1>5, <2>1 DEF Rejected, Types, node, chain
  <2> QED
    BY <1>5, <2>2, ElsewhereKeeps DEF Rejected, chain
<1> QED
  BY <1>2, <1>3, <1>4, <1>5 DEF ClientStep

\* A return of Process keeps IInv.
LEMMA ReturnKeeps ==
  ASSUME IInv, NEW t \in Runners, Return(t), UNCHANGED <<nonces, eoaNonce, txs>>, Types'
  PROVE  IInv'
BY Returning, ChainStays DEF IInv

\* A handler that narrows the context keeps IInv.
LEMMA NarrowingKeeps ==
  ASSUME IInv, NEW t \in Runners, Narrows(t),
         NEW p \in {"select", "check", "pay", "solve", "send"}, pc' = [pc EXCEPT ![t] = p],
         culled' = [culled EXCEPT ![t] = culled'[t]], culled'[t] \in SUBSET Ops,
         UNCHANGED <<batch, tx, nonces, eoaNonce, txs>>, Types'
  PROVE  IInv'
<1>1. UNCHANGED txs
  OBVIOUS
<1>2. UNCHANGED <<batch, tx, txs>> /\ UNCHANGED <<nonces, eoaNonce, txs>>
  OBVIOUS
<1>3. RunTypes' /\ \A u \in Runners : RunOK(u)'
  BY <1>2, Narrowing
<1>4. ChainOK'
  BY <1>2, ChainStays DEF IInv
<1> QED
  BY <1>3, <1>4 DEF IInv

\* After a crash no run and no client is left, and nothing was sent.
LEMMA DieKeeps ==
  ASSUME IInv, Die, faults' \in 0 .. MaxFaults
  PROVE  IInv'
<1>1. Types'
  <2> DEFINE rank(o) == Cardinality({p \in DOMAIN pool : OpRank[p] < OpRank[o]})
  <2>1. ASSUME NEW o PROVE rank(o) \in Nat
    BY OpsAreValid, FS_Subset, FS_CardinalityType DEF IInv, Types
  <2>2. pool' = [o \in DOMAIN pool |-> rank(o)]
    BY DEF Die
  <2> HIDE DEF rank
  <2>3. DOMAIN pool' \subseteq Ops /\ pool' \in [DOMAIN pool' -> Nat]
    BY <2>1, <2>2 DEF IInv, Types
  <2>4. sub' = [c \in Clients |-> [at |-> "idle", op |-> None]]
    BY DEF Die
  <2>5. /\ sub' \in [Clients -> [at : {"idle", "checked", "simulated"}, op : Ops \union {None}]]
        /\ \A c \in Clients : sub'[c].at # "idle" => sub'[c].op \in Ops
    BY <2>4
  <2> QED
    BY <2>3, <2>5 DEF IInv, Types, Die, chain
<1>2. /\ pc' = [t \in Runners |-> "idle"] /\ ctx' = [t \in Runners |-> NoCtx]
      /\ batch' = [t \in Runners |-> <<>>] /\ tx' = [t \in Runners |-> 0]
      /\ culled' = [t \in Runners |-> {}] /\ txs' = txs /\ Len(txs) \in Nat
  BY DEF Die, chain, IInv, Types
<1>3. RunTypes'
  BY <1>2, NoCtxIs DEF RunTypes, Stages
<1>4. ASSUME NEW t \in Runners PROVE RunOK(t)'
  <2>1. pc'[t] = "idle" /\ ctx'[t] = NoCtx /\ tx'[t] = 0
    BY <1>2
  <2>2. NoCtx' = NoCtx
    BY DEF NoCtx
  <2> QED
    BY <1>2, <2>1, <2>2, NoCtxIs DEF RunOK
<1>5. ChainOK'
  BY ChainStays DEF IInv, Die, chain
<1> QED
  BY <1>1, <1>3, <1>4, <1>5 DEF IInv

\* Dump returns each pending op once.
LEMMA DumpIs ==
  ASSUME Types, NEW dump \in Dumps
  PROVE  /\ AdjustBatchSize(MaxBatch, dump) \in Seq(DOMAIN pool)
         /\ Distinct(AdjustBatchSize(MaxBatch, dump))
<1>1. dump \in Seq(DOMAIN pool) /\ Distinct(dump)
  <2> DEFINE n == Cardinality(DOMAIN pool)
  <2>1. n \in Nat
    BY PoolIsFinite
  <2>2. /\ dump \in [1 .. n -> DOMAIN pool]
        /\ \A i, j \in 1 .. n : i # j => dump[i] # dump[j]
    BY DEF Dumps, SetToSeqs
  <2> HIDE DEF n
  <2>3. dump \in Seq(DOMAIN pool) /\ Len(dump) = n
    BY <2>1, <2>2
  <2> QED
    BY <2>2, <2>3 DEF Distinct
<1>2. CASE Len(dump) > MaxBatch /\ MaxBatch > 0
  <2>1. MaxBatch \in 0 .. Len(dump)
    BY <1>1, <1>2, NumbersAssumption
  <2>2. /\ SubSeq(dump, 1, MaxBatch) \in Seq(DOMAIN pool) /\ Len(SubSeq(dump, 1, MaxBatch)) = MaxBatch
        /\ \A i \in 1 .. MaxBatch : SubSeq(dump, 1, MaxBatch)[i] = dump[i]
    BY <1>1, <2>1
  <2>3. Distinct(SubSeq(dump, 1, MaxBatch))
    BY <1>1, <2>1, <2>2 DEF Distinct
  <2> QED
    BY <1>2, <2>2, <2>3 DEF AdjustBatchSize
<1>3. CASE ~ (Len(dump) > MaxBatch /\ MaxBatch > 0)
  BY <1>1, <1>3 DEF AdjustBatchSize
<1> QED
  BY <1>2, <1>3

\* The context of a run that begins holds what was dumped, each op once.
LEMMA NewCtxIs ==
  ASSUME NEW s \in Seq(Ops), Distinct(s),
         NEW c, c = NewBatchHandlerContext(s, BaseFee, Tip, GasPrice)
  PROVE  c \in Contexts(Ops, ChainFees) /\ Once(c) /\ Held(c) = ToSet(s)
<1> DEFINE e == <<>>
<1>1. e \in Seq(Ops) /\ Len(e) = 0
  OBVIOUS
<1>2. c = [batch |-> s, removal |-> e, baseFee |-> BaseFee, tip |-> Tip, gasPrice |-> GasPrice]
  BY DEF NewBatchHandlerContext, e
<1> HIDE DEF e
<1>3. ToSet(e) = {} /\ Distinct(e)
  <2>1. \A i \in 1 .. Len(e) : FALSE
    BY <1>1
  <2> QED
    BY <1>1, <2>1, ToSetIs DEF Distinct
<1>4. c.batch = s /\ c.removal = e /\ c \in Contexts(Ops, ChainFees)
  BY <1>1, <1>2 DEF Contexts, ChainFees
<1> QED
  BY <1>3, <1>4 DEF Once, Held

\* The beginning of Process keeps IInv.
LEMMA ProcessKeeps ==
  ASSUME IInv, NEW t \in Runners, Process(t)
  PROVE  IInv'
<1>1. PICK dump \in Dumps :
        ctx' = [ctx EXCEPT ![t] = NewBatchHandlerContext(AdjustBatchSize(MaxBatch, dump),
                                                         BaseFee, Tip, GasPrice)]
  BY DEF Process
<1> DEFINE s == AdjustBatchSize(MaxBatch, dump)
           c == NewBatchHandlerContext(s, BaseFee, Tip, GasPrice)
<1>2. s \in Seq(Ops) /\ Distinct(s)
  BY DumpIs DEF IInv, Types
<1> HIDE DEF s
<1>3. c \in Contexts(Ops, ChainFees) /\ Once(c)
  BY <1>2, NewCtxIs
<1>4. ctx' = [ctx EXCEPT ![t] = c]
  BY <1>1 DEF s
<1> HIDE DEF c
<1>5. /\ batch[t] \in Seq(Ops) /\ tx[t] \in Nat /\ tx[t] <= Len(txs) /\ culled[t] \in SUBSET Ops
      /\ Len(txs) \in Nat /\ txs' = txs
  BY DEF IInv, Types, RunTypes, RunOK, Process, chain
<1>6. Fit("expire", c, batch[t], tx[t], culled[t], Len(txs'))
  BY <1>3, <1>5 DEF Fit, Stages
<1>7. Goes(t, "expire", c, batch[t], tx[t], culled[t])
  BY <1>4 DEF Goes, Process, Goto, IInv, RunTypes
<1>8. RunTypes' /\ \A u \in Runners : RunOK(u)'
  BY <1>5, <1>6, <1>7, RunMoves DEF IInv
<1>9. Types' /\ ChainOK'
  BY ChainStays DEF IInv, Types, Process, node, chain, client
<1> QED
  BY <1>8, <1>9 DEF IInv

\* DropExpired keeps IInv.
LEMMA DropExpiredKeeps ==
  ASSUME IInv, NEW t \in Runners, DropExpired(t)
  PROVE  IInv'
<1>1. ToSet(ctx[t].batch) \subseteq Ops
  BY ToSetIs DEF IInv, RunTypes, Contexts
<1>2. seenAt' \subseteq Ops \X (Ops \union {None})
  BY <1>1 DEF IInv, Types, DropExpired, Hash
<1>3. aged' \subseteq seenAt'
  BY DEF IInv, Types, DropExpired
<1>4. Types'
  BY <1>2, <1>3 DEF IInv, Types, DropExpired, chain, client
<1>5. culled'= [culled EXCEPT ![t] = culled'[t]] /\ culled'[t] \in SUBSET Ops
  BY DEF DropExpired, IInv, RunTypes
<1>6. pc' = [pc EXCEPT ![t] = "select"] /\ UNCHANGED <<batch, tx, nonces, eoaNonce, txs>>
  BY DEF DropExpired, Goto, chain
<1> QED
  BY <1>4, <1>5, <1>6, DropExpiredNarrows, NarrowingKeeps

\* The handlers that read nothing but the context keep IInv.
LEMMA SelectKeeps ==
  ASSUME IInv, NEW t \in Runners, Select(t)
  PROVE  IInv'
<1>1. Types'
  BY DEF IInv, Types, Select, node, chain, client
<1>2. culled'= [culled EXCEPT ![t] = culled'[t]] /\ culled'[t] \in SUBSET Ops
  BY DEF Select, IInv, RunTypes
<1>3. pc' = [pc EXCEPT ![t] = "check"] /\ UNCHANGED <<batch, tx, nonces, eoaNonce, txs>>
  BY DEF Select, Goto, chain
<1> QED
  BY <1>1, <1>2, <1>3, SelectNarrows, NarrowingKeeps

\* CodeHashes keeps IInv, whether it ends the run or not.
LEMMA CodeHashesKeeps ==
  ASSUME IInv, NEW t \in Runners, CodeHashes(t)
  PROVE  IInv'
<1>1. Types' /\ UNCHANGED <<nonces, eoaNonce, txs>>
  BY DEF IInv, Types, CodeHashes, node, chain, client
<1>2. CASE Return(t)
  BY <1>1, <1>2, ReturnKeeps
<1>3. CASE ~ Return(t)
  <2>1. pc' = [pc EXCEPT ![t] = "pay"] /\ pc'[t] # "idle"
    BY <1>3 DEF CodeHashes, Goto, IInv, RunTypes
  <2>2. Narrows(t) /\ UNCHANGED <<batch, tx, culled>>
    BY <2>1, CodeHashesNarrows
  <2>3. culled'= [culled EXCEPT ![t] = culled'[t]] /\ culled'[t] \in SUBSET Ops
    BY <2>2 DEF IInv, RunTypes
  <2>4. UNCHANGED <<batch, tx, nonces, eoaNonce, txs>>
    BY <1>1, <2>2
  <2> QED
    BY <1>1, <2>1, <2>2, <2>3, <2>4, NarrowingKeeps
<1> QED
  BY <1>2, <1>3

\* PaymasterDeposit keeps IInv.
LEMMA DepositKeeps ==
  ASSUME IInv, NEW t \in Runners, Deposit(t)
  PROVE  IInv'
<1>1. Types'
  BY DEF IInv, Types, Deposit, node, chain, client
<1>2. culled'= [culled EXCEPT ![t] = culled'[t]] /\ culled'[t] \in SUBSET Ops
  BY DEF Deposit, IInv, RunTypes
<1>3. pc' = [pc EXCEPT ![t] = "solve"] /\ UNCHANGED <<batch, tx, nonces, eoaNonce, txs>>
  BY DEF Deposit, Goto, chain
<1> QED
  BY <1>1, <1>2, <1>3, DepositNarrows, NarrowingKeeps

\* The three ways SolveIntents ends.
LEMMA SolveEnds ==
  ASSUME IInv, NEW t \in Runners, Solve(t)
  PROVE  /\ UNCHANGED faults
         /\ \/ Die
            \/ /\ Return(t) /\ sol' \in [Ops -> Ops \union {None}]
               /\ UNCHANGED <<pool, records, seenAt, chain, aged, client>>
            \/ /\ Narrows(t) /\ sol' \in [Ops -> Ops \union {None}]
               /\ pc' = [pc EXCEPT ![t] = "send"]
               /\ culled' = [culled EXCEPT ![t] = ToSet(ctx'[t].removal)]
               /\ UNCHANGED <<pool, records, seenAt, batch, tx, chain, aged, client>>
<1> DEFINE body == BufferIntentOps(ctx[t].batch, WithIntent)
           result(answer) == SolveIntents(ctx[t], sol, SendToSolver(body, answer), WithIntent)
<1>1. PICK answer \in IF body = <<>> THEN {<<>>} ELSE Answers(body) :
        \/ result(answer).out = "panic" /\ Die
        \/ /\ result(answer).out = "error" /\ Return(t)
           /\ sol' = result(answer).sol
           /\ UNCHANGED <<pool, records, seenAt, chain, aged, client>>
        \/ /\ result(answer).out = "ok"
           /\ sol' = result(answer).sol
           /\ ctx' = [ctx EXCEPT ![t] = result(answer).ctx]
           /\ culled' = [culled EXCEPT ![t] = ToSet(result(answer).ctx.removal)]
           /\ Goto(t, "send")
           /\ UNCHANGED <<pool, records, seenAt, batch, tx, chain, aged, client>>
  BY DEF Solve
<1> DEFINE r == result(answer)
<1>2. r.ctx \in Reduced(Ops, ChainFees, ctx[t]) /\ r.sol \in [Ops -> Ops \union {None}]
  BY SolveNarrows
<1>3. \/ Die
      \/ /\ Return(t) /\ sol' = r.sol
         /\ UNCHANGED <<pool, records, seenAt, chain, aged, client>>
      \/ /\ sol' = r.sol
         /\ ctx' = [ctx EXCEPT ![t] = r.ctx]
         /\ culled' = [culled EXCEPT ![t] = ToSet(r.ctx.removal)]
         /\ Goto(t, "send")
         /\ UNCHANGED <<pool, records, seenAt, batch, tx, chain, aged, client>>
  BY <1>1
<1> HIDE DEF r
<1>4. ctx' = [ctx EXCEPT ![t] = r.ctx] => ctx'[t] = r.ctx /\ Narrows(t)
  BY <1>2 DEF Narrows, IInv, RunTypes
<1>5. UNCHANGED faults
  BY DEF Solve
<1> HIDE DEF body
<1> QED
  BY <1>2, <1>3, <1>4, <1>5 DEF Goto

\* SolveIntents keeps IInv, whatever the Solver answers and even if it panics.
LEMMA SolveKeeps ==
  ASSUME IInv, NEW t \in Runners, Solve(t)
  PROVE  IInv'
<1>1. UNCHANGED faults
  BY SolveEnds
<1>2. CASE Die
  BY <1>1, <1>2, DieKeeps DEF IInv, Types
<1>3. CASE /\ Return(t) /\ sol' \in [Ops -> Ops \union {None}]
           /\ UNCHANGED <<pool, records, seenAt, chain, aged, client>>
  <2>1. Types'
    BY <1>1, <1>3 DEF IInv, Types, chain, client
  <2> QED
    BY <1>3, <2>1, ReturnKeeps DEF chain
<1>4. CASE /\ Narrows(t) /\ sol' \in [Ops -> Ops \union {None}]
           /\ pc' = [pc EXCEPT ![t] = "send"]
           /\ culled' = [culled EXCEPT ![t] = ToSet(ctx'[t].removal)]
           /\ UNCHANGED <<pool, records, seenAt, batch, tx, chain, aged, client>>
  <2>1. Types'
    BY <1>1, <1>4 DEF IInv, Types, chain, client
  <2>2. culled'[t] = ToSet(ctx'[t].removal) /\ culled' = [culled EXCEPT ![t] = culled'[t]]
    BY <1>4 DEF IInv, RunTypes
  <2>3. ctx[t] \in Contexts(Ops, ChainFees)
    BY DEF IInv, RunTypes
  <2>4. ctx'[t].removal \in Seq(Ops)
    BY <1>4, <2>3, ReducedIs DEF Narrows
  <2>5. culled'[t] \in SUBSET Ops
    BY <2>2, <2>4, ToSetIs
  <2>6. UNCHANGED <<batch, tx, nonces, eoaNonce, txs>>
    BY <1>4 DEF chain
  <2> QED
    BY <1>4, <2>1, <2>2, <2>5, <2>6, NarrowingKeeps
<1> QED
  BY <1>2, <1>3, <1>4, SolveEnds
-----------------------------------------------------------------------------
(* Sending. *)

\* What is to be sent is a part of what the run holds.
LEMMA SplitBatchKeeps ==
  ASSUME IInv, NEW t \in Runners, SplitBatch(t)
  PROVE  IInv'
<1> DEFINE b == ctx[t].batch
           conv == IF Relayer THEN Conventional(b) ELSE b
           ints == IF Relayer THEN Solved(b) ELSE <<>>
<1>1. /\ ctx[t] \in Contexts(Ops, ChainFees) /\ Once(ctx[t]) /\ b \in Seq(Ops)
      /\ batch[t] \in Seq(Ops) /\ tx[t] \in Nat /\ tx[t] <= Len(txs) /\ culled[t] \in SUBSET Ops
      /\ Len(txs) \in Nat /\ Len(txs') = Len(txs)
  BY DEF IInv, Types, RunTypes, RunOK, Contexts, SplitBatch, chain
<1>2. conv \in Seq(Ops) /\ ToSet(conv) \subseteq ToSet(b)
  BY <1>1, FilterSet DEF Conventional
<1>3. /\ Relayer => ints \in Seq(Ops) /\ ToSet(ints) \subseteq ToSet(b)
      /\ ~ Relayer => ints = <<>>
  BY <1>1, FilterSet DEF Solved
<1>4. \/ batch' = [batch EXCEPT ![t] = conv] /\ pc' = [pc EXCEPT ![t] = "estimate"]
      \/ /\ ints # <<>>
         /\ batch' = [batch EXCEPT ![t] = ints] /\ pc' = [pc EXCEPT ![t] = "handleIntents"]
      \/ batch' = batch /\ pc' = [pc EXCEPT ![t] = "included"]
  BY DEF SplitBatch, Goto
<1> HIDE DEF conv, ints
<1>5. PICK p \in {"estimate", "handleIntents", "included"}, c \in Seq(Ops) :
        /\ batch' = [batch EXCEPT ![t] = c] /\ pc' = [pc EXCEPT ![t] = p]
        /\ p # "included" => ToSet(c) \subseteq ToSet(b)
  <2>1. CASE batch' = [batch EXCEPT ![t] = conv] /\ pc' = [pc EXCEPT ![t] = "estimate"]
    BY <1>2, <2>1
  <2>2. CASE /\ ints # <<>>
             /\ batch' = [batch EXCEPT ![t] = ints] /\ pc' = [pc EXCEPT ![t] = "handleIntents"]
    BY <1>3, <2>2
  <2>3. CASE batch' = batch /\ pc' = [pc EXCEPT ![t] = "included"]
    <3>1. batch' = [batch EXCEPT ![t] = batch[t]]
      BY <2>3 DEF IInv, RunTypes
    <3> QED
      BY <1>1, <2>3, <3>1
  <2> QED
    BY <1>4, <2>1, <2>2, <2>3
<1>6. Fit(p, ctx[t], c, tx[t], culled[t], Len(txs'))
  BY <1>1, <1>5 DEF Fit, Stages, Held
<1>7. Goes(t, p, ctx[t], c, tx[t], culled[t])
  BY <1>5 DEF Goes, SplitBatch, IInv, RunTypes
<1>8. RunTypes' /\ \A u \in Runners : RunOK(u)'
  BY <1>1, <1>6, <1>7, RunMoves DEF IInv
<1>9. Types' /\ ChainOK'
  BY ChainStays DEF IInv, Types, SplitBatch, node, chain, client
<1> QED
  BY <1>8, <1>9 DEF IInv

\* The estimation loop marks ops, which the run goes on to hold.
LEMMA EstimateKeeps ==
  ASSUME IInv, NEW t \in Runners, Estimate(t)
  PROVE  IInv'
<1> DEFINE F == Failing(batch[t])
           i == Min(F)
           c == MarkOpIndexForRemoval(ctx[t], i - 1)
<1>1. /\ ctx[t] \in Contexts(Ops, ChainFees) /\ Once(ctx[t])
      /\ batch[t] \in Seq(Ops) /\ tx[t] \in Nat /\ tx[t] <= Len(txs) /\ culled[t] \in SUBSET Ops
      /\ Len(txs) \in Nat /\ Len(txs') = Len(txs)
      /\ ToSet(batch[t]) \subseteq Held(ctx[t])
  BY DEF IInv, Types, RunTypes, RunOK, Estimate, HeldBy, Held, chain
<1>2. PICK p, d, k :
        /\ p \in {"estimate", "handle", "included"}
        /\ Goes(t, p, d, batch[t], tx[t], k)
        /\ \/ d = ctx[t] /\ k = culled[t]
           \/ F # {} /\ d = c /\ k = culled[t] \union {batch[t][i]}
  <2>1. CASE ctx' = ctx /\ culled' = culled /\ \E p \in {"handle", "included"} : Goto(t, p)
    <3>1. PICK p \in {"handle", "included"} : Goto(t, p)
      BY <2>1
    <3>2. Goes(t, p, ctx[t], batch[t], tx[t], culled[t])
      BY <2>1, <3>1 DEF Goto, Goes, Estimate, IInv, RunTypes
    <3> QED
      BY <3>1, <3>2
  <2>2. CASE /\ F # {} /\ pc' = pc /\ pc[t] = "estimate" /\ ctx' = [ctx EXCEPT ![t] = c]
             /\ culled' = [culled EXCEPT ![t] = culled[t] \union {batch[t][i]}]
    <3> HIDE DEF c, i, F
    <3>1. Goes(t, "estimate", c, batch[t], tx[t], culled[t] \union {batch[t][i]})
      BY <2>2 DEF Goto, Goes, Estimate, IInv, RunTypes
    <3> QED
      BY <2>2, <3>1
  <2> QED
    BY <2>1, <2>2 DEF Estimate
<1>3. /\ d \in Contexts(Ops, ChainFees) /\ Once(d) /\ Held(d) = Held(ctx[t])
      /\ k \in SUBSET Ops
  <2>1. CASE F # {} /\ d = c /\ k = culled[t] \union {batch[t][i]}
    <3>1. F \in SUBSET (1 .. Len(batch[t])) /\ Len(batch[t]) \in Nat
      BY <1>1 DEF Failing
    <3> HIDE DEF F
    <3>2. i \in 1 .. Len(batch[t])
      BY <2>1, <3>1, MinOfSegment
    <3>3. i - 1 \in Int /\ batch[t][i] \in Ops
      BY <1>1, <3>2
    <3> HIDE DEF i
    <3> QED
      BY <1>1, <2>1, <3>3, MarkReduces, MarkHolds, ReducedIs
  <2> QED
    BY <1>1, <1>2, <2>1
<1>4. Fit(p, d, batch[t], tx[t], k, Len(txs'))
  BY <1>1, <1>2, <1>3 DEF Fit, Stages
<1>5. RunTypes' /\ \A u \in Runners : RunOK(u)'
  BY <1>1, <1>2, <1>4, RunMoves DEF IInv
<1>6. Types' /\ ChainOK'
  BY ChainStays DEF IInv, Types, Estimate, node, chain, client
<1> QED
  BY <1>5, <1>6 DEF IInv

\* A transaction that was sent is neither mined nor forgotten.
LEMMA Sending ==
  ASSUME Types, NEW b \in Seq(Ops), NEW S,
         txs' = Append(txs, [nonce |-> eoaNonce, ops |-> b, status |-> "pending"])
  PROVE  /\ txs' \in Seq(Handled) /\ Len(txs') = Len(txs) + 1
         /\ \A i \in 1 .. Len(txs) : txs'[i] = txs[i]
         /\ txs'[Len(txs) + 1] = [nonce |-> eoaNonce, ops |-> b, status |-> "pending"]
         /\ OpsOf(S)' = OpsOf(S) \union (IF "pending" \in S THEN ToSet(b) ELSE {})
<1> DEFINE e == [nonce |-> eoaNonce, ops |-> b, status |-> "pending"]
<1>1. e \in Handled /\ e.status = "pending" /\ e.ops = b
  BY DEF Types, Handled, TxStatuses
<1> HIDE DEF e
<1>2. txs \in Seq(Handled) /\ txs' = Append(txs, e)
  BY DEF Types, e
<1>3. txs' \in Seq(Handled) /\ Len(txs') = Len(txs) + 1 /\ Len(txs) \in Nat
  BY <1>1, <1>2
<1>4. (\A i \in 1 .. Len(txs) : txs'[i] = txs[i]) /\ txs'[Len(txs) + 1] = e
  BY <1>1, <1>2
<1>5. ASSUME NEW o \in OpsOf(S)'
      PROVE  o \in OpsOf(S) \union (IF "pending" \in S THEN ToSet(b) ELSE {})
  <2>1. PICK i \in 1 .. Len(txs') : txs'[i].status \in S /\ o \in ToSet(txs'[i].ops)
    BY <1>5 DEF OpsOf
  <2>2. CASE i \in 1 .. Len(txs)
    BY <1>4, <2>1, <2>2 DEF OpsOf
  <2>3. CASE i = Len(txs) + 1
    BY <1>1, <1>4, <2>1, <2>3
  <2> QED
    BY <1>3, <2>2, <2>3
<1>6. ASSUME NEW o \in OpsOf(S) PROVE o \in OpsOf(S)'
  <2>1. PICK i \in 1 .. Len(txs) : txs[i].status \in S /\ o \in ToSet(txs[i].ops)
    BY <1>6 DEF OpsOf
  <2>2. i \in 1 .. Len(txs') /\ txs'[i].status \in S /\ o \in ToSet(txs'[i].ops)
    BY <1>3, <1>4, <2>1
  <2> QED
    BY <2>2 DEF OpsOf
<1>7. ASSUME NEW o \in ToSet(b), "pending" \in S PROVE o \in OpsOf(S)'
  <2>1. /\ Len(txs) + 1 \in 1 .. Len(txs')
        /\ txs'[Len(txs) + 1].status \in S /\ o \in ToSet(txs'[Len(txs) + 1].ops)
    BY <1>1, <1>3, <1>4, <1>7
  <2> QED
    BY <2>1 DEF OpsOf
<1>8. OpsOf(S)' = OpsOf(S) \union (IF "pending" \in S THEN ToSet(b) ELSE {})
  BY <1>5, <1>6, <1>7
<1> QED
  BY <1>3, <1>4, <1>8 DEF e

\* HandleOps, with the nonce of the EOA and the transaction the run waits for.
LEMMA HandleOpsKeeps ==
  ASSUME IInv, NEW t \in Runners, HandleOps(t)
  PROVE  IInv'
<1>1. /\ ctx[t] \in Contexts(Ops, ChainFees) /\ Once(ctx[t])
      /\ batch[t] \in Seq(Ops) /\ tx[t] \in Nat /\ tx[t] <= Len(txs) /\ culled[t] \in SUBSET Ops
      /\ Len(txs) \in Nat
  BY DEF IInv, Types, RunTypes, RunOK
<1>2. CASE pc' = [pc EXCEPT ![t] = "included"] /\ UNCHANGED <<txs, tx>>
  <2>1. Fit("included", ctx[t], batch[t], tx[t], culled[t], Len(txs'))
    BY <1>1, <1>2 DEF Fit, Stages
  <2>2. Goes(t, "included", ctx[t], batch[t], tx[t], culled[t])
    BY <1>2 DEF HandleOps, Goes, IInv, RunTypes
  <2>3. RunTypes' /\ \A u \in Runners : RunOK(u)'
    BY <1>1, <1>2, <2>1, <2>2, RunMoves DEF IInv
  <2>4. Types' /\ ChainOK'
    BY <1>2, ChainStays DEF IInv, Types, HandleOps, node, client
  <2> QED
    BY <2>3, <2>4 DEF IInv
<1>3. CASE /\ txs' = Append(txs, [nonce |-> eoaNonce, ops |-> batch[t], status |-> "pending"])
           /\ tx' = [tx EXCEPT ![t] = Len(txs) + 1]
           /\ \E p \in {"included", "wait", "waitIntents"} : Goto(t, p)
  <2>1. /\ txs' \in Seq(Handled) /\ Len(txs') = Len(txs) + 1
        /\ \A i \in 1 .. Len(txs) : txs'[i] = txs[i]
        /\ txs'[Len(txs) + 1] = [nonce |-> eoaNonce, ops |-> batch[t], status |-> "pending"]
        /\ OpsOf({"ok"})' = OpsOf({"ok"})
    <3> DEFINE b == batch[t]
               S == {"ok"}
    <3>1. b \in Seq(Ops) /\ Types
          /\ txs' = Append(txs, [nonce |-> eoaNonce, ops |-> b, status |-> "pending"])
      BY <1>1, <1>3 DEF IInv
    <3>2. "pending" \notin S
      OBVIOUS
    <3> HIDE DEF b, S
    <3>3. /\ txs' \in Seq(Handled) /\ Len(txs') = Len(txs) + 1
          /\ \A i \in 1 .. Len(txs) : txs'[i] = txs[i]
          /\ txs'[Len(txs) + 1] = [nonce |-> eoaNonce, ops |-> b, status |-> "pending"]
          /\ OpsOf(S)' = OpsOf(S) \union (IF "pending" \in S THEN ToSet(b) ELSE {})
      BY <3>1, Sending
    <3> QED
      BY <3>2, <3>3 DEF b, S
  <2>2. PICK p \in {"included", "wait", "waitIntents"} : Goto(t, p)
    BY <1>3
  <2>3. Fit(p, ctx[t], batch[t], Len(txs) + 1, culled[t], Len(txs'))
    BY <1>1, <2>1 DEF Fit, Stages
  <2>4. Goes(t, p, ctx[t], batch[t], Len(txs) + 1, culled[t])
    BY <1>3, <2>2 DEF HandleOps, Goes, Goto, IInv, RunTypes
  <2>5. RunTypes' /\ \A u \in Runners : RunOK(u)'
    BY <1>1, <2>1, <2>3, <2>4, RunMoves DEF IInv
  <2>6. Types'
    BY <2>1 DEF IInv, Types, HandleOps, node, client
  <2>7. UNCHANGED <<nonces, eoaNonce>>
    BY DEF HandleOps
  <2>8. \A i \in 1 .. Len(txs') : txs'[i].nonce < i
    <3>1. ASSUME NEW i \in 1 .. Len(txs') PROVE txs'[i].nonce < i
      <4>1. CASE i \in 1 .. Len(txs)
        BY <2>1, <4>1 DEF IInv, ChainOK
      <4>2. CASE i = Len(txs) + 1
        BY <1>1, <2>1, <4>2 DEF IInv, ChainOK, Types
      <4> QED
        BY <1>1, <2>1, <4>1, <4>2
    <3> QED
      BY <3>1
  <2>9. ChainOK'
    BY <1>1, <2>1, <2>7, <2>8 DEF IInv, Types, ChainOK, Lifecycle!OneOfAKey, Lifecycle!SameKey
  <2> QED
    BY <2>5, <2>6, <2>9 DEF IInv
<1> QED
  BY <1>2, <1>3 DEF HandleOps, Goto

\* A run that only goes on to the end of Process keeps IInv.
LEMMA GoesOnKeeps ==
  ASSUME IInv, NEW t \in Runners, NEW p \in {"included", "remove"}, Goto(t, p),
         UNCHANGED <<ctx, batch, tx, culled, nonces, eoaNonce, txs>>, Types'
  PROVE  IInv'
<1>1. /\ ctx[t] \in Contexts(Ops, ChainFees) /\ Once(ctx[t])
      /\ batch[t] \in Seq(Ops) /\ tx[t] \in Nat /\ tx[t] <= Len(txs) /\ culled[t] \in SUBSET Ops
      /\ Len(txs) \in Nat /\ Len(txs') = Len(txs)
  BY DEF IInv, Types, RunTypes, RunOK
<1>2. Fit(p, ctx[t], batch[t], tx[t], culled[t], Len(txs'))
  BY <1>1 DEF Fit, Stages
<1>3. Goes(t, p, ctx[t], batch[t], tx[t], culled[t])
  BY DEF Goes, Goto, IInv, RunTypes
<1>4. RunTypes' /\ \A u \in Runners : RunOK(u)'
  BY <1>1, <1>2, <1>3, RunMoves DEF IInv
<1> QED
  BY <1>4, ChainStays DEF IInv

\* The number of faults stays within its bound.
LEMMA FaultIs ==
  ASSUME Types, Fault \/ UNCHANGED faults
  PROVE  faults' \in 0 .. MaxFaults
BY NumbersAssumption DEF Types, Fault

\* The end of the wait, or of a call that failed, keeps IInv.
LEMMA WaitKeeps ==
  ASSUME IInv, NEW t \in Runners, Wait(t) \/ Timeout(t) \/ SendSwallowed(t)
  PROVE  IInv'
<1>1. faults' \in 0 .. MaxFaults
  <2>1. Fault \/ UNCHANGED faults
    BY DEF Wait, Timeout, SendSwallowed
  <2> QED
    BY <2>1, FaultIs DEF IInv
<1>2. UNCHANGED <<node, chain, aged, client>>
  BY DEF Wait, Timeout, SendSwallowed
<1>3. Types' /\ UNCHANGED <<nonces, eoaNonce, txs>>
  BY <1>1, <1>2 DEF IInv, Types, node, chain, client
<1>4. Return(t) \/ (Goto(t, "included") /\ UNCHANGED <<ctx, batch, tx, culled>>)
  BY DEF Wait, Timeout, SendSwallowed
<1> QED
  BY <1>3, <1>4, ReturnKeeps, GoesOnKeeps

\* Clean, RemoveOps and an error of a handler keep IInv.
LEMMA EndKeeps ==
  ASSUME IInv, NEW t \in Runners, Clean(t) \/ RemoveOps(t) \/ Abort(t)
  PROVE  IInv'
<1>1. CASE Clean(t)
  <2>1. Types'
    BY <1>1 DEF IInv, Types, Clean, chain, client
  <2> QED
    BY <1>1, <2>1, GoesOnKeeps DEF Clean, chain
<1>2. CASE RemoveOps(t)
  <2> DEFINE rmOps == {o \in ToSet(ctx[t].batch) : ~ IsUnsolvedIntent(o)}
                        \union ToSet(ctx[t].removal)
             kept  == {o \in DOMAIN pool : \A p \in rmOps : ~ SameKey(o, p)}
  <2>1. pool' = [o \in kept |-> pool[o]] /\ kept \subseteq DOMAIN pool
    BY <1>2 DEF RemoveOps
  <2> HIDE DEF kept
  <2>2. DOMAIN pool' \subseteq Ops /\ pool' \in [DOMAIN pool' -> Nat]
    BY <2>1 DEF IInv, Types
  <2>3. Types'
    BY <1>2, <2>2 DEF IInv, Types, RemoveOps, chain, client
  <2> QED
    BY <1>2, <2>3, ReturnKeeps DEF RemoveOps, chain
<1>3. CASE Abort(t)
  <2>1. faults' \in 0 .. MaxFaults
    BY <1>3, FaultIs DEF Abort, IInv
  <2>2. Types'
    BY <1>3, <2>1 DEF IInv, Types, Abort, node, chain, client
  <2> QED
    BY <1>3, <2>2, ReturnKeeps DEF Abort, chain
<1> QED
  BY <1>1, <1>2, <1>3
-----------------------------------------------------------------------------
(* The chain. *)

\* The nonces that the ops of a batch without a failing one use up lie between
\* those of the chain before and after it, and no two ops use the same.
LEMMA NoncesUsedOnce ==
  ASSUME Types, NEW ops \in Seq(Ops), Failing(ops) = {}
  PROVE  /\ \A j \in 1 .. Len(ops) :
            /\ nonces[ops[j].sender] <= ops[j].nonce
            /\ ops[j].nonce < nonces[ops[j].sender] + SentBy(ops[j].sender, ops)
         /\ \A j, k \in 1 .. Len(ops) : Lifecycle!SameKey(ops[j], ops[k]) => j = k
<1> DEFINE n == Len(ops)
           By(s) == {i \in 1 .. n : ops[i].sender = s}
           Before(j) == {i \in 1 .. j - 1 : ops[i].sender = ops[j].sender}
<1>1. n \in Nat
  OBVIOUS
<1>2. ASSUME NEW j \in 1 .. n
      PROVE  /\ ops[j] \in Ops /\ ops[j].sender \in Senders /\ nonces[ops[j].sender] \in Nat
             /\ ops[j].nonce = nonces[ops[j].sender] + Cardinality(Before(j))
  <2>1. ops[j] \in Ops
    OBVIOUS
  <2>2. j \notin Failing(ops)
    OBVIOUS
  <2>3. ops[j].nonce = nonces[ops[j].sender] + Cardinality(Before(j))
    BY <2>2 DEF Failing
  <2> QED
    BY <2>1, <2>3 DEF Types, Senders
<1>3. ASSUME NEW j \in 1 .. n
      PROVE  /\ IsFiniteSet(Before(j)) /\ Cardinality(Before(j)) \in Nat
             /\ IsFiniteSet(By(ops[j].sender)) /\ Cardinality(By(ops[j].sender)) \in Nat
             /\ Cardinality(Before(j)) < Cardinality(By(ops[j].sender))
  <2>1. /\ Before(j) \subseteq By(ops[j].sender) /\ By(ops[j].sender) \subseteq 1 .. n
        /\ j \in By(ops[j].sender) \ Before(j)
    BY <1>1
  <2>2. IsFiniteSet(1 .. n)
    BY <1>1, FS_Interval
  <2> HIDE DEF Before, By
  <2>3. IsFiniteSet(By(ops[j].sender))
    BY <2>1, <2>2, FS_Subset
  <2>4. Before(j) # By(ops[j].sender)
    BY <2>1
  <2> QED
    BY <2>1, <2>3, <2>4, FS_Subset, FS_CardinalityType
<1>4. ASSUME NEW j \in 1 .. n, NEW k \in 1 .. n, ops[j].sender = ops[k].sender, j < k
      PROVE  Cardinality(Before(j)) < Cardinality(Before(k))
  <2>1. Before(j) \subseteq Before(k) /\ j \in Before(k) \ Before(j)
    BY <1>1, <1>4
  <2>2. Before(j) # Before(k)
    BY <2>1
  <2>3. IsFiniteSet(Before(k))
    BY <1>3
  <2> HIDE DEF Before
  <2> QED
    BY <2>1, <2>2, <2>3, FS_Subset, FS_CardinalityType
<1>5. ASSUME NEW j \in 1 .. n
      PROVE  /\ nonces[ops[j].sender] <= ops[j].nonce
             /\ ops[j].nonce < nonces[ops[j].sender] + SentBy(ops[j].sender, ops)
  <2>1. SentBy(ops[j].sender, ops) = Cardinality(By(ops[j].sender))
    BY DEF SentBy
  <2> HIDE DEF By, Before
  <2> QED
    BY <1>2, <1>3, <2>1
<1>6. ASSUME NEW j \in 1 .. n, NEW k \in 1 .. n, Lifecycle!SameKey(ops[j], ops[k])
      PROVE  j = k
  <2>1. ops[j].sender = ops[k].sender /\ ops[j].nonce = ops[k].nonce
    BY <1>6 DEF Lifecycle!SameKey
  <2> HIDE DEF Before, By
  <2>2. Cardinality(Before(j)) = Cardinality(Before(k))
    <3>1. /\ Cardinality(Before(j)) \in Nat /\ Cardinality(Before(k)) \in Nat
          /\ nonces[ops[j].sender] \in Nat
      BY <1>2, <1>3
    <3>2. nonces[ops[j].sender] + Cardinality(Before(j)) = nonces[ops[k].sender] + Cardinality(Before(k))
      BY <1>2, <2>1
    <3> QED
      BY <2>1, <3>1, <3>2
  <2>3. ~ j < k /\ ~ k < j
    BY <1>3, <1>4, <2>1, <2>2
  <2> QED
    BY <1>1, <2>3
<1> QED
  BY <1>5, <1>6

\* A pending transaction comes to its end.
LEMMA Settling ==
  ASSUME Types, NEW i \in 1 .. Len(txs), NEW st \in TxStatuses, txs[i].status = "pending",
         txs' = [txs EXCEPT ![i].status = st]
  PROVE  /\ txs' \in Seq(Handled) /\ Len(txs') = Len(txs)
         /\ \A j \in 1 .. Len(txs) : txs'[j].nonce = txs[j].nonce /\ txs'[j].ops = txs[j].ops
         /\ OpsOf({"ok"})' = OpsOf({"ok"}) \union (IF st = "ok" THEN ToSet(txs[i].ops) ELSE {})
         /\ OpsOf(TxStatuses)' = OpsOf(TxStatuses)
<1> DEFINE e == [nonce |-> txs[i].nonce, ops |-> txs[i].ops, status |-> st]
<1>1. txs \in Seq(Handled) /\ Len(txs) \in Nat /\ txs[i] \in Handled
  BY DEF Types
<1>2. e \in Handled /\ [txs[i] EXCEPT !.status = st] = e
      /\ e.nonce = txs[i].nonce /\ e.ops = txs[i].ops /\ e.status = st
  BY <1>1 DEF Handled
<1>3. txs' = [txs EXCEPT ![i] = e]
  BY <1>2
<1> HIDE DEF e
<1>4. txs' \in Seq(Handled) /\ Len(txs') = Len(txs) /\ txs'[i] = e
      /\ \A j \in 1 .. Len(txs) : j # i => txs'[j] = txs[j]
  BY <1>1, <1>2, <1>3
<1>5. \A j \in 1 .. Len(txs) : txs'[j].nonce = txs[j].nonce /\ txs'[j].ops = txs[j].ops
  BY <1>2, <1>4
<1>6. ASSUME NEW j \in 1 .. Len(txs)
      PROVE  txs'[j].status = IF j = i THEN st ELSE txs[j].status
  BY <1>2, <1>4
<1>7. OpsOf({"ok"})' = OpsOf({"ok"}) \union (IF st = "ok" THEN ToSet(txs[i].ops) ELSE {})
  <2>1. ASSUME NEW o \in OpsOf({"ok"})'
        PROVE  o \in OpsOf({"ok"}) \/ (st = "ok" /\ o \in ToSet(txs[i].ops))
    <3>1. PICK j \in 1 .. Len(txs') : txs'[j].status = "ok" /\ o \in ToSet(txs'[j].ops)
      BY <2>1 DEF OpsOf
    <3>2. j \in 1 .. Len(txs) /\ o \in ToSet(txs[j].ops)
      BY <1>4, <1>5, <3>1
    <3> QED
      BY <1>6, <3>1, <3>2 DEF OpsOf
  <2>2. ASSUME NEW o \in OpsOf({"ok"}) PROVE o \in OpsOf({"ok"})'
    <3>1. PICK j \in 1 .. Len(txs) : txs[j].status = "ok" /\ o \in ToSet(txs[j].ops)
      BY <2>2 DEF OpsOf
    <3>2. j \in 1 .. Len(txs') /\ txs'[j].status = "ok" /\ o \in ToSet(txs'[j].ops)
      BY <1>4, <1>5, <1>6, <3>1
    <3> QED
      BY <3>2 DEF OpsOf
  <2>3. ASSUME st = "ok", NEW o \in ToSet(txs[i].ops) PROVE o \in OpsOf({"ok"})'
    <3>1. i \in 1 .. Len(txs') /\ txs'[i].status = "ok" /\ o \in ToSet(txs'[i].ops)
      BY <1>4, <1>5, <1>6, <2>3
    <3> QED
      BY <3>1 DEF OpsOf
  <2> QED
    BY <2>1, <2>2, <2>3
<1>8. OpsOf(TxStatuses)' = OpsOf(TxStatuses)
  <2>1. ASSUME NEW j \in 1 .. Len(txs)
        PROVE  txs[j].status \in TxStatuses /\ txs'[j].status \in TxStatuses
    <3>1. txs[j] \in Handled /\ txs'[j] \in Handled
      BY <1>1, <1>4
    <3> QED
      BY <3>1 DEF Handled
  <2>2. ASSUME NEW o \in OpsOf(TxStatuses)' PROVE o \in OpsOf(TxStatuses)
    <3>1. PICK j \in 1 .. Len(txs') : o \in ToSet(txs'[j].ops)
      BY <2>2 DEF OpsOf
    <3>2. j \in 1 .. Len(txs) /\ o \in ToSet(txs[j].ops)
      BY <1>4, <1>5, <3>1
    <3> QED
      BY <2>1, <3>2 DEF OpsOf
  <2>3. ASSUME NEW o \in OpsOf(TxStatuses) PROVE o \in OpsOf(TxStatuses)'
    <3>1. PICK j \in 1 .. Len(txs) : o \in ToSet(txs[j].ops)
      BY <2>3 DEF OpsOf
    <3>2. j \in 1 .. Len(txs') /\ o \in ToSet(txs'[j].ops)
          /\ txs'[j].status \in TxStatuses
      BY <1>4, <1>5, <2>1, <3>1
    <3> QED
      BY <3>2 DEF OpsOf, TxStatuses
  <2> QED
    BY <2>2, <2>3
<1> QED
  BY <1>4, <1>5, <1>7, <1>8

\* A sender has a natural number of ops in a transaction.
LEMMA SentByIs ==
  ASSUME NEW s, NEW ops \in Seq(Ops)
  PROVE  SentBy(s, ops) \in Nat
<1> DEFINE S == {i \in 1 .. Len(ops) : ops[i].sender = s}
<1>1. S \subseteq 1 .. Len(ops) /\ IsFiniteSet(1 .. Len(ops))
  BY FS_Interval
<1> HIDE DEF S
<1>2. Cardinality(S) \in Nat
  BY <1>1, FS_Subset, FS_CardinalityType
<1> QED
  BY <1>2 DEF SentBy, S

\* A transaction that is mined uses up nonces that no other used before.
LEMMA MineKeeps ==
  ASSUME IInv, NEW i \in 1 .. Len(txs), Mine(i)
  PROVE  IInv'
<1> DEFINE ops == txs[i].ops
           reverts == Failing(ops) # {}
           st == IF reverts THEN "failed" ELSE "ok"
           S == {"ok"}
<1>1. /\ txs[i].status = "pending" /\ txs[i].nonce = eoaNonce
      /\ eoaNonce' = eoaNonce + 1 /\ txs' = [txs EXCEPT ![i].status = st]
      /\ nonces' = IF reverts THEN nonces
                   ELSE [s \in DOMAIN nonces |-> nonces[s] + SentBy(s, ops)]
      /\ UNCHANGED <<node, run, changed, revoked, aged, client, faults>>
  BY DEF Mine, CanBeMined
<1>2. Types /\ ops \in Seq(Ops) /\ st \in TxStatuses
  <2>1. Types /\ st \in TxStatuses
    BY DEF IInv, TxStatuses
  <2>2. txs[i] \in Handled
    BY <2>1 DEF Types
  <2> QED
    BY <2>1, <2>2 DEF Handled
<1> HIDE DEF ops, st
<1>3. /\ txs' \in Seq(Handled) /\ Len(txs') = Len(txs)
      /\ \A j \in 1 .. Len(txs) : txs'[j].nonce = txs[j].nonce /\ txs'[j].ops = txs[j].ops
      /\ OpsOf({"ok"})' = OpsOf({"ok"}) \union (IF st = "ok" THEN ToSet(ops) ELSE {})
  BY <1>1, <1>2, Settling DEF ops
<1>4. \A s \in Senders : nonces[s] \in Nat /\ SentBy(s, ops) \in Nat
  BY <1>2, SentByIs DEF Types
<1>5. /\ nonces' \in [Senders -> Nat]
      /\ \A s \in Senders : /\ nonces'[s] = nonces[s] + IF reverts THEN 0 ELSE SentBy(s, ops)
                            /\ nonces[s] <= nonces'[s]
  <2>1. nonces \in [Senders -> Nat]
    BY <1>2 DEF Types
  <2> HIDE DEF reverts
  <2> QED
    BY <1>1, <1>4, <2>1
<1>6. Types'
  BY <1>1, <1>3, <1>5 DEF IInv, Types, node, client
<1>7. RunTypes' /\ \A t \in Runners : RunOK(t)'
  BY <1>1, <1>2, <1>3, RunsStay DEF IInv, Types
<1>8. eoaNonce' <= Len(txs') /\ \A j \in 1 .. Len(txs') : txs'[j].nonce < j
  BY <1>1, <1>2, <1>3 DEF IInv, Types, ChainOK
<1>9. ASSUME NEW o \in OpsOf({"ok"})
      PROVE  /\ o.sender \in Senders /\ o.nonce \in Nat
             /\ o.nonce < nonces[o.sender] /\ o.nonce < nonces'[o.sender]
  <2>1. PICK j \in 1 .. Len(txs) : o \in ToSet(txs[j].ops)
    BY <1>9 DEF OpsOf
  <2>2. txs[j] \in Handled
    BY <1>2 DEF Types
  <2>6. txs[j].ops \in Seq(Ops)
    BY <2>2 DEF Handled
  <2>3. o \in Ops
    BY <2>1, <2>6, ToSetIs
  <2>4. o.sender \in Senders /\ o.nonce \in Nat
    BY <2>3, OpsAreValid DEF Senders
  <2>5. o.nonce < nonces[o.sender]
    BY <1>9 DEF IInv, ChainOK
  <2>7. nonces[o.sender] \in Nat /\ nonces'[o.sender] \in Nat
        /\ nonces[o.sender] <= nonces'[o.sender]
    BY <1>2, <1>5, <2>4 DEF Types
  <2> QED
    BY <2>4, <2>5, <2>7
<1>10. CASE reverts
  <2>1. OpsOf({"ok"})' = OpsOf({"ok"})
    BY <1>3, <1>10 DEF st
  <2>2. \A o \in OpsOf({"ok"})' : o.nonce < nonces'[o.sender]
    BY <1>9, <2>1
  <2>3. Lifecycle!OneOfAKey(OpsOf({"ok"}))'
    BY <2>1 DEF IInv, ChainOK, Lifecycle!OneOfAKey, Lifecycle!SameKey
  <2>4. ChainOK'
    BY <1>8, <2>2, <2>3 DEF ChainOK
  <2> QED
    BY <1>6, <1>7, <2>4 DEF IInv
<1>11. CASE ~ reverts
  <2>1. OpsOf({"ok"})' = OpsOf({"ok"}) \union ToSet(ops)
    BY <1>3, <1>11 DEF st
  <2>2. /\ \A j \in 1 .. Len(ops) :
            /\ nonces[ops[j].sender] <= ops[j].nonce
            /\ ops[j].nonce < nonces[ops[j].sender] + SentBy(ops[j].sender, ops)
        /\ \A j, k \in 1 .. Len(ops) : Lifecycle!SameKey(ops[j], ops[k]) => j = k
    BY <1>2, <1>11, NoncesUsedOnce
  <2>3. ASSUME NEW o \in ToSet(ops)
        PROVE  /\ \E j \in 1 .. Len(ops) : ops[j] = o
               /\ o.sender \in Senders /\ o.nonce \in Nat
               /\ nonces[o.sender] <= o.nonce /\ o.nonce < nonces'[o.sender]
    <3>1. PICK j \in 1 .. Len(ops) : ops[j] = o
      BY <1>2, ToSetIs
    <3>2. o \in Ops
      BY <1>2, <3>1
    <3>3. o.sender \in Senders /\ o.nonce \in Nat
      BY <3>2, OpsAreValid DEF Senders
    <3>4. nonces'[o.sender] = nonces[o.sender] + SentBy(o.sender, ops)
      BY <1>5, <1>11, <3>3
    <3> QED
      BY <2>2, <3>1, <3>3, <3>4
  <2>4. \A o \in OpsOf({"ok"})' : o.nonce < nonces'[o.sender]
    BY <1>9, <2>1, <2>3
  <2>5. ASSUME NEW o \in ToSet(ops), NEW p \in OpsOf({"ok"})
        PROVE  ~ (o.sender = p.sender /\ o.nonce = p.nonce)
    <3>1. nonces[o.sender] \in Nat
      BY <1>4, <2>3
    <3> QED
      BY <1>9, <2>3, <3>1
  <2>6. ASSUME NEW o \in OpsOf({"ok"})', NEW p \in OpsOf({"ok"})',
               o.sender = p.sender, o.nonce = p.nonce
        PROVE  o = p
    <3>1. CASE o \in ToSet(ops) /\ p \in ToSet(ops)
      <4>1. PICK j \in 1 .. Len(ops) : ops[j] = o
        BY <2>3, <3>1
      <4>2. PICK k \in 1 .. Len(ops) : ops[k] = p
        BY <2>3, <3>1
      <4> QED
        BY <2>2, <2>6, <4>1, <4>2 DEF Lifecycle!SameKey
    <3>2. CASE o \in OpsOf({"ok"}) /\ p \in OpsOf({"ok"})
      BY <2>6, <3>2 DEF IInv, ChainOK, Lifecycle!OneOfAKey, Lifecycle!SameKey
    <3> QED
      BY <2>1, <2>5, <2>6, <3>1, <3>2
  <2>7. Lifecycle!OneOfAKey(OpsOf({"ok"}))'
    BY <2>6 DEF Lifecycle!OneOfAKey, Lifecycle!SameKey
  <2>8. ChainOK'
    BY <1>8, <2>4, <2>7 DEF ChainOK
  <2> QED
    BY <1>6, <1>7, <2>8 DEF IInv
<1> QED
  BY <1>10, <1>11

\* A bundle that lapses keeps IInv.
LEMMA LapseKeeps ==
  ASSUME IInv, NEW i \in 1 .. Len(txs), Lapse(i)
  PROVE  IInv'
<1> DEFINE st == "lapsed"
<1>1. /\ txs[i].status = "pending" /\ txs' = [txs EXCEPT ![i].status = st]
      /\ UNCHANGED <<node, run, changed, nonces, revoked, eoaNonce, aged, client>>
  BY DEF Lapse
<1>2. Types /\ st \in TxStatuses /\ st # "ok"
  BY DEF IInv, TxStatuses
<1> HIDE DEF st
<1>3. /\ txs' \in Seq(Handled) /\ Len(txs') = Len(txs)
      /\ \A j \in 1 .. Len(txs) : txs'[j].nonce = txs[j].nonce
      /\ OpsOf({"ok"})' = OpsOf({"ok"}) \union (IF st = "ok" THEN ToSet(txs[i].ops) ELSE {})
  BY <1>1, <1>2, Settling
<1>4. faults' \in 0 .. MaxFaults
  BY <1>2, FaultIs DEF Lapse
<1>5. Types'
  BY <1>1, <1>3, <1>4 DEF IInv, Types, node, client
<1>6. RunTypes' /\ \A t \in Runners : RunOK(t)'
  BY <1>1, <1>2, <1>3, RunsStay DEF IInv, Types
<1>7. OpsOf({"ok"})' = OpsOf({"ok"})
  BY <1>2, <1>3
<1>8. ChainOK'
  BY <1>1, <1>3, <1>7 DEF IInv, ChainOK, Lifecycle!OneOfAKey, Lifecycle!SameKey
<1> QED
  BY <1>5, <1>6, <1>8 DEF IInv

\* The process begins with IInv.
LEMMA InitOK ==
  ASSUME Init
  PROVE  IInv
<1>1. Types
  <2>1. <<>> \in Seq(Handled)
    OBVIOUS
  <2>2. nonces \in [Senders -> Nat]
    BY DEF Init, Senders
  <2>3. /\ sub \in [Clients -> [at : {"idle", "checked", "simulated"}, op : Ops \union {None}]]
        /\ \A c \in Clients : sub[c].at # "idle" => sub[c].op \in Ops
    BY DEF Init
  <2>4. submits \in 0 .. MaxSubmits /\ faults \in 0 .. MaxFaults
    BY NumbersAssumption DEF Init
  <2>5. DOMAIN pool \subseteq Ops /\ pool \in [DOMAIN pool -> Nat]
    BY DEF Init
  <2> QED
    BY <2>1, <2>2, <2>3, <2>4, <2>5 DEF Init, Types
<1>2. /\ pc = [t \in Runners |-> "idle"] /\ ctx = [t \in Runners |-> NoCtx]
      /\ batch = [t \in Runners |-> <<>>] /\ tx = [t \in Runners |-> 0]
      /\ culled = [t \in Runners |-> {}] /\ txs = <<>>
  BY DEF Init
<1>3. RunTypes
  BY <1>2, NoCtxIs DEF RunTypes, Stages
<1>4. ASSUME NEW t \in Runners PROVE RunOK(t)
  BY <1>2, NoCtxIs DEF RunOK
<1>5. ChainOK
  <2>1. Len(txs) = 0 /\ eoaNonce = 0
    BY DEF Init
  <2>2. \A i \in 1 .. Len(txs) : FALSE
    BY <2>1
  <2>3. OpsOf({"ok"}) = {}
    BY <2>2 DEF OpsOf
  <2> QED
    BY <2>1, <2>2, <2>3 DEF ChainOK, Lifecycle!OneOfAKey
<1> QED
  BY <1>1, <1>3, <1>4, <1>5 DEF IInv

\* Every step of a run keeps IInv,
LEMMA RunStepKeeps ==
  ASSUME IInv, NEW t \in Runners, RunStep(t) \/ SendSwallowed(t) \/ Abort(t)
  PROVE  IInv'
BY ProcessKeeps, DropExpiredKeeps, SelectKeeps, CodeHashesKeeps, DepositKeeps, SolveKeeps,
   SplitBatchKeeps, EstimateKeeps, HandleOpsKeeps, WaitKeeps, EndKeeps DEF RunStep

\* and so does every step.
LEMMA NextKeeps ==
  ASSUME IInv, [Next]_vars
  PROVE  IInv'
<1>1. CASE \E c \in Clients : ClientStep(c)
  BY <1>1, ClientKeeps
<1>2. CASE \E t \in Runners : RunStep(t) \/ SendSwallowed(t) \/ Abort(t)
  BY <1>2, RunStepKeeps
<1>3. CASE \E i \in 1 .. Len(txs) : Mine(i) \/ Lapse(i)
  BY <1>3, MineKeeps, LapseKeeps
<1>4. CASE Age
  <2>1. aged' \subseteq seenAt'
    BY <1>4 DEF Age, node, IInv, Types
  <2>2. Types'
    BY <1>4, <2>1 DEF Age, IInv, Types, node, chain, client
  <2> QED
    BY <1>4, <2>2, ElsewhereKeeps DEF Age, chain
<1>5. CASE ChangeCode
  <2>1. changed' \subseteq Ops
    BY <1>5 DEF ChangeCode, IInv, Types
  <2>2. Types'
    BY <1>5, <2>1 DEF ChangeCode, IInv, Types, node, client
  <2> QED
    BY <1>5, <2>2, ElsewhereKeeps DEF ChangeCode
<1>6. CASE Revoke
  <2>1. revoked' \subseteq Ops
    BY <1>6 DEF Revoke, IInv, Types
  <2>2. Types'
    BY <1>6, <2>1 DEF Revoke, IInv, Types, node, client
  <2> QED
    BY <1>6, <2>2, ElsewhereKeeps DEF Revoke
<1>7. CASE Crash
  BY <1>7, FaultIs, DieKeeps DEF Crash, IInv
<1>8. CASE UNCHANGED vars
  <2>1. UNCHANGED <<run, nonces, eoaNonce, txs>>
    BY <1>8 DEF vars, run
  <2>2. Types'
    BY <1>8 DEF vars, IInv, Types
  <2> QED
    BY <2>1, <2>2, ElsewhereKeeps
<1> QED
  BY <1>1, <1>2, <1>3, <1>4, <1>5, <1>6, <1>7, <1>8 DEF Next

\* IInv holds at all times.
LEMMA Inductive == Spec => []IInv
<1>1. Init => IInv
  BY InitOK
<1>2. IInv /\ [Next]_vars => IInv'
  BY NextKeeps
<1> QED
  BY <1>1, <1>2, PTL DEF Spec

\* The types hold, the EOA's nonce never runs ahead of what was sent, and a run
\* that waits has sent the transaction it waits for.
THEOREM TypeCorrect == Spec => []TypeOK
<1>1. ASSUME IInv PROVE TypeOK
  <2>1. \A o \in DOMAIN pool : pool[o] \in Nat
    BY <1>1 DEF IInv, Types
  <2>2. ASSUME NEW t \in Runners
        PROVE  /\ ToSet(ctx[t].batch) \union ToSet(ctx[t].removal) \union culled[t] \subseteq Ops
               /\ ToSet(batch[t]) \subseteq Ops
               /\ tx[t] \in 0 .. Len(txs)
               /\ pc[t] \in {"wait", "waitIntents"} => tx[t] # 0
    <3>1. /\ ctx[t].batch \in Seq(Ops) /\ ctx[t].removal \in Seq(Ops) /\ batch[t] \in Seq(Ops)
          /\ culled[t] \subseteq Ops
      BY <1>1 DEF IInv, RunTypes, Contexts
    <3>2. tx[t] \in Nat /\ tx[t] <= Len(txs) /\ Len(txs) \in Nat
      BY <1>1 DEF IInv, Types, RunTypes, RunOK
    <3> QED
      BY <1>1, <3>1, <3>2, ToSetIs DEF IInv, RunOK
  <2>3. eoaNonce \in 0 .. Len(txs)
    BY <1>1 DEF IInv, Types, ChainOK
  <2>4. ASSUME NEW i \in 1 .. Len(txs)
        PROVE  txs[i].status \in {"pending", "ok", "failed", "lapsed"}
    <3>1. txs[i] \in Handled
      BY <1>1 DEF IInv, Types
    <3> QED
      BY <3>1 DEF Handled, TxStatuses
  <2> QED
    BY <1>1, <2>1, <2>2, <2>3, <2>4 DEF TypeOK, IInv, Types, RunTypes
<1>2. IInv => TypeOK
  BY <1>1
<1> QED
  BY <1>2, Inductive, PTL
-----------------------------------------------------------------------------
(* The refinement.                                                          *)

Taken    == UNION {HeldBy(t) : t \in Runners}
Sent     == OpsOf(TxStatuses)
Included == OpsOf({"ok"})

\* A step that leaves pool, contexts and transactions is none of the promise.
LEMMA Stutters ==
  ASSUME DOMAIN pool' = DOMAIN pool, UNCHANGED <<ctx, txs>>
  PROVE  UNCHANGED Lifecycle!vars
BY DEF Lifecycle!vars, HeldBy, OpsOf

\* What is taken is what a run holds.
LEMMA TakenIs ==
  ASSUME NEW o
  PROVE  o \in Taken <=> \E t \in Runners : o \in Held(ctx[t])
BY DEF Taken, HeldBy, Held

\* What a run lets go of, and nothing else, leaves the taken ops.
LEMMA TakenShrinks ==
  ASSUME RunTypes, NEW t \in Runners, ctx' = [ctx EXCEPT ![t] = ctx'[t]],
         Held(ctx'[t]) \subseteq Held(ctx[t])
  PROVE  Taken' \subseteq Taken
<1> SUFFICES ASSUME NEW o \in Taken' PROVE o \in Taken
  OBVIOUS
<1>1. PICK u \in Runners : o \in Held(ctx'[u])
  BY DEF Taken, HeldBy, Held
<1>2. o \in Held(ctx[u])
  BY <1>1 DEF RunTypes
<1> QED
  BY <1>2, TakenIs

\* A step that takes keys from the pool only of ops that some run holds, and sends
\* nothing, is a release.
LEMMA Releases ==
  ASSUME DOMAIN pool' \subseteq DOMAIN pool, Taken' \subseteq Taken, UNCHANGED txs,
         \A o \in DOMAIN pool \ DOMAIN pool' : \E p \in Taken : SameKey(o, p)
  PROVE  Lifecycle!Release
BY DEF Lifecycle!Release, Lifecycle!SameKey, SameKey, Taken, OpsOf

\* A handler that narrows the context releases what it drops.
LEMMA NarrowingReleases ==
  ASSUME IInv, NEW t \in Runners, Narrows(t), DOMAIN pool' = DOMAIN pool, UNCHANGED txs
  PROVE  Lifecycle!Release
<1>1. ctx[t] \in Contexts(Ops, ChainFees) /\ RunTypes
  BY DEF IInv, RunTypes
<1>2. Held(ctx'[t]) \subseteq Held(ctx[t])
  BY <1>1, ReducedIs DEF Narrows
<1>3. Taken' \subseteq Taken
  BY <1>1, <1>2, TakenShrinks DEF Narrows
<1> QED
  BY <1>3, Releases

\* Process, when it returns, releases what it held.
LEMMA ReturnReleases ==
  ASSUME IInv, NEW t \in Runners, Return(t), DOMAIN pool' = DOMAIN pool, UNCHANGED txs
  PROVE  Lifecycle!Release
<1>1. RunTypes /\ ctx'[t] = NoCtx /\ ctx' = [ctx EXCEPT ![t] = ctx'[t]]
  BY DEF IInv, RunTypes, Return
<1>2. Taken' \subseteq Taken
  BY <1>1, NoCtxIs, TakenShrinks
<1> QED
  BY <1>2, Releases

\* A crash releases everything, and the pool keeps its ops.
LEMMA DieReleases ==
  ASSUME IInv, Die
  PROVE  Lifecycle!Release
<1>1. ASSUME NEW o \in Taken' PROVE FALSE
  <2>1. PICK t \in Runners : o \in Held(ctx'[t])
    BY <1>1 DEF Taken, HeldBy, Held
  <2> QED
    BY <2>1, NoCtxIs DEF Die
<1>2. DOMAIN pool' = DOMAIN pool /\ UNCHANGED txs
  BY DEF Die, chain
<1> QED
  BY <1>1, <1>2, Releases

\* A run takes what Dump returned, and keeps it pending.
LEMMA ProcessTakes ==
  ASSUME IInv, NEW t \in Runners, Process(t)
  PROVE  Lifecycle!Take
<1>1. PICK dump \in Dumps :
        ctx' = [ctx EXCEPT ![t] = NewBatchHandlerContext(AdjustBatchSize(MaxBatch, dump),
                                                         BaseFee, Tip, GasPrice)]
  BY DEF Process
<1> DEFINE s == AdjustBatchSize(MaxBatch, dump)
           c == NewBatchHandlerContext(s, BaseFee, Tip, GasPrice)
<1>2. s \in Seq(DOMAIN pool) /\ s \in Seq(Ops) /\ Distinct(s)
  BY DumpIs DEF IInv, Types
<1>3. ToSet(s) \subseteq DOMAIN pool
  BY <1>2, ToSetIs
<1> HIDE DEF s
<1>4. Held(c) = ToSet(s)
  BY <1>2, NewCtxIs
<1>5. ctx' = [ctx EXCEPT ![t] = c]
  BY <1>1 DEF s
<1> HIDE DEF c
<1>6. ctx'[t] = c /\ (\A u \in Runners : u # t => ctx'[u] = ctx[u])
  BY <1>5 DEF IInv, RunTypes
<1>7. Held(ctx[t]) = {}
  BY NoCtxIs DEF IInv, RunOK, Process
<1>8. ASSUME NEW o \in Taken PROVE o \in Taken'
  <2>1. PICK u \in Runners : o \in Held(ctx[u])
    BY TakenIs, <1>8
  <2>2. o \in Held(ctx'[u])
    BY <1>6, <1>7, <2>1
  <2> QED
    BY <2>2 DEF Taken, HeldBy, Held
<1>9. ASSUME NEW o \in Taken' PROVE o \in Taken \/ o \in DOMAIN pool
  <2>1. PICK u \in Runners : o \in Held(ctx'[u])
    BY <1>9 DEF Taken, HeldBy, Held
  <2>2. CASE u = t
    BY <1>3, <1>4, <1>6, <2>1, <2>2
  <2>3. CASE u # t
    BY <1>6, <2>1, <2>3, TakenIs
  <2> QED
    BY <2>2, <2>3
<1>10. UNCHANGED <<DOMAIN pool, txs>>
  BY DEF Process, node, chain
<1> QED
  BY <1>8, <1>9, <1>10 DEF Lifecycle!Take, Taken, OpsOf

\* AddOp is the acceptance of an op, in place of the one of its key.
LEMMA AddOpAccepts ==
  ASSUME IInv, NEW c \in Clients, AddOp(c)
  PROVE  \E o \in Ops : Lifecycle!Accept(o)
<1> DEFINE o == sub[c].op
           D == {p \in DOMAIN pool : ~ SameKey(o, p)} \union {o}
<1>1. o \in Ops
  BY DEF AddOp, IInv, Types
<1>2. DOMAIN pool' = D /\ UNCHANGED <<ctx, txs>>
  BY DEF AddOp, run, chain
<1>3. UNCHANGED <<Taken, OpsOf({"ok"}), OpsOf({"pending", "ok", "failed", "lapsed"})>>
  BY <1>2 DEF Taken, HeldBy, OpsOf
<1>4. Lifecycle!Accept(o)
  BY <1>2, <1>3 DEF Lifecycle!Accept, Lifecycle!SameKey, SameKey, Taken
<1> QED
  BY <1>1, <1>4

\* HandleOps sends a part of what the run holds.
LEMMA HandleOpsSends ==
  ASSUME IInv, NEW t \in Runners, HandleOps(t)
  PROVE  Lifecycle!Send \/ UNCHANGED Lifecycle!vars
<1>1. UNCHANGED <<pool, ctx>>
  BY DEF HandleOps, node
<1>2. CASE UNCHANGED txs
  BY <1>1, <1>2, Stutters
<1>3. CASE txs' = Append(txs, [nonce |-> eoaNonce, ops |-> batch[t], status |-> "pending"])
  <2> DEFINE b == batch[t]
  <2>1. b \in Seq(Ops) /\ Types /\ ToSet(b) \subseteq Taken
    <3>1. t \in Runners /\ ToSet(b) \subseteq HeldBy(t)
      BY DEF HandleOps, IInv, RunOK
    <3>2. HeldBy(t) \subseteq Taken
      BY DEF Taken
    <3> QED
      BY <3>1, <3>2 DEF IInv, RunTypes
  <2>2. txs' = Append(txs, [nonce |-> eoaNonce, ops |-> b, status |-> "pending"])
    BY <1>3
  <2> HIDE DEF b
  <2> DEFINE S1 == {"ok"}
             S2 == {"pending", "ok", "failed", "lapsed"}
  <2>3. "pending" \notin S1 /\ "pending" \in S2
    OBVIOUS
  <2> HIDE DEF S1, S2
  <2>4. OpsOf(S1)' = OpsOf(S1) \union (IF "pending" \in S1 THEN ToSet(b) ELSE {})
    BY <2>1, <2>2, Sending
  <2>5. OpsOf(S2)' = OpsOf(S2) \union (IF "pending" \in S2 THEN ToSet(b) ELSE {})
    BY <2>1, <2>2, Sending
  <2>6. OpsOf(S1)' = OpsOf(S1) /\ OpsOf(S2)' = OpsOf(S2) \union ToSet(b)
    BY <2>3, <2>4, <2>5
  <2>7. UNCHANGED Taken
    BY <1>1 DEF Taken, HeldBy
  <2> QED
    BY <1>1, <2>1, <2>6, <2>7 DEF Lifecycle!Send, Taken, S1, S2
<1> QED
  BY <1>2, <1>3 DEF HandleOps

\* What the chain includes is settled for good, and was sent.
LEMMA MineIncludes ==
  ASSUME IInv, NEW i \in 1 .. Len(txs), Mine(i) \/ Lapse(i)
  PROVE  Lifecycle!Include
<1>1. IInv'
  BY MineKeeps, LapseKeeps
<1>2. PICK st \in TxStatuses : txs[i].status = "pending" /\ txs' = [txs EXCEPT ![i].status = st]
  BY DEF Mine, CanBeMined, Lapse, TxStatuses
<1>3. UNCHANGED <<pool, ctx>>
  BY DEF Mine, Lapse, node, run
<1>4. /\ OpsOf({"ok"})' = OpsOf({"ok"}) \union (IF st = "ok" THEN ToSet(txs[i].ops) ELSE {})
      /\ OpsOf(TxStatuses)' = OpsOf(TxStatuses)
  BY <1>2, Settling DEF IInv
<1>5. Included \subseteq Included' /\ Included' \subseteq Sent /\ Sent' = Sent
  <2>1. ASSUME NEW o \in Included' PROVE o \in Sent'
    BY <2>1 DEF Included, Sent, OpsOf, TxStatuses
  <2> QED
    BY <1>4, <2>1 DEF Included, Sent
<1>6. Lifecycle!OneOfAKey(OpsOf({"ok"}))'
  BY <1>1 DEF IInv, ChainOK
<1>7. UNCHANGED Taken
  BY <1>3 DEF Taken, HeldBy
<1> QED
  BY <1>3, <1>5, <1>6, <1>7
     DEF Lifecycle!Include, Included, Sent, Taken, TxStatuses, Lifecycle!OneOfAKey, Lifecycle!SameKey

\* What RemoveOps takes from the pool has the key of an op of the run.
LEMMA RemoveOpsReleases ==
  ASSUME IInv, NEW t \in Runners, RemoveOps(t)
  PROVE  Lifecycle!Release
<1> DEFINE rmOps == {o \in ToSet(ctx[t].batch) : ~ IsUnsolvedIntent(o)}
                      \union ToSet(ctx[t].removal)
           kept  == {o \in DOMAIN pool : \A p \in rmOps : ~ SameKey(o, p)}
<1>1. pool' = [o \in kept |-> pool[o]] /\ Return(t) /\ UNCHANGED txs
  BY DEF RemoveOps, chain
<1>2. rmOps \subseteq Taken
  BY DEF Taken, HeldBy
<1>3. /\ DOMAIN pool' \subseteq DOMAIN pool
      /\ \A o \in DOMAIN pool \ DOMAIN pool' : \E p \in rmOps : SameKey(o, p)
  BY <1>1
<1> HIDE DEF rmOps, kept
<1>4. RunTypes /\ ctx'[t] = NoCtx /\ ctx' = [ctx EXCEPT ![t] = ctx'[t]]
  BY <1>1 DEF IInv, RunTypes, Return
<1>5. Taken' \subseteq Taken
  BY <1>4, NoCtxIs, TakenShrinks
<1>6. \A o \in DOMAIN pool \ DOMAIN pool' : \E p \in Taken : SameKey(o, p)
  BY <1>2, <1>3
<1> QED
  BY <1>1, <1>3, <1>5, <1>6, Releases

\* The ops that the estimation loop drops stay with the run.
LEMMA EstimateReleases ==
  ASSUME IInv, NEW t \in Runners, Estimate(t)
  PROVE  Lifecycle!Release \/ UNCHANGED Lifecycle!vars
<1> DEFINE F == Failing(batch[t])
           i == Min(F)
           c == MarkOpIndexForRemoval(ctx[t], i - 1)
<1>1. UNCHANGED <<pool, txs>>
  BY DEF Estimate, node, chain
<1>2. CASE ctx' = ctx
  BY <1>1, <1>2, Stutters
<1>3. CASE F # {} /\ ctx' = [ctx EXCEPT ![t] = c]
  <2>1. batch[t] \in Seq(Ops) /\ ctx[t] \in Contexts(Ops, ChainFees) /\ RunTypes
    BY DEF IInv, RunTypes
  <2>2. F \in SUBSET (1 .. Len(batch[t])) /\ Len(batch[t]) \in Nat
    BY <2>1 DEF Failing
  <2> HIDE DEF F
  <2>3. i \in 1 .. Len(batch[t])
    BY <1>3, <2>2, MinOfSegment
  <2> HIDE DEF i
  <2>4. Held(c) = Held(ctx[t])
    BY <2>1, <2>3, MarkHolds
  <2>5. ctx'[t] = c /\ ctx' = [ctx EXCEPT ![t] = ctx'[t]]
    BY <1>3, <2>1 DEF RunTypes
  <2> HIDE DEF c
  <2>6. Taken' \subseteq Taken
    BY <2>1, <2>4, <2>5, TakenShrinks
  <2> QED
    BY <1>1, <2>6, Releases
<1> QED
  BY <1>2, <1>3 DEF Estimate

\* Every step of a run is a step of the promise,
LEMMA RunStepRefines ==
  ASSUME IInv, NEW t \in Runners, RunStep(t) \/ SendSwallowed(t) \/ Abort(t)
  PROVE  [Lifecycle!Next]_Lifecycle!vars
<1>1. CASE Process(t)
  BY <1>1, ProcessTakes DEF Lifecycle!Next
<1>2. CASE DropExpired(t) \/ Select(t) \/ Deposit(t)
  <2>1. Narrows(t)
    BY <1>2, DropExpiredNarrows, SelectNarrows, DepositNarrows
  <2>2. DOMAIN pool' = DOMAIN pool /\ UNCHANGED txs
    BY <1>2 DEF DropExpired, Select, Deposit, node, chain
  <2> QED
    BY <2>1, <2>2, NarrowingReleases DEF Lifecycle!Next
<1>3. CASE CodeHashes(t)
  <2>1. DOMAIN pool' = DOMAIN pool /\ UNCHANGED txs
    BY <1>3 DEF CodeHashes, node, chain
  <2>2. CASE Return(t)
    BY <2>1, <2>2, ReturnReleases DEF Lifecycle!Next
  <2>3. CASE ~ Return(t)
    <3>1. pc'[t] # "idle"
      BY <1>3, <2>3 DEF CodeHashes, Goto, IInv, RunTypes
    <3>2. Narrows(t)
      BY <1>3, <3>1, CodeHashesNarrows
    <3> QED
      BY <2>1, <3>2, NarrowingReleases DEF Lifecycle!Next
  <2> QED
    BY <2>2, <2>3
<1>4. CASE Solve(t)
  <2>1. CASE Die
    BY <2>1, DieReleases DEF Lifecycle!Next
  <2>2. CASE Return(t) /\ UNCHANGED <<pool, records, seenAt, chain, aged, client>>
    <3>1. DOMAIN pool' = DOMAIN pool /\ UNCHANGED txs
      BY <2>2 DEF chain
    <3> QED
      BY <2>2, <3>1, ReturnReleases DEF Lifecycle!Next
  <2>3. CASE Narrows(t) /\ UNCHANGED <<pool, records, seenAt, batch, tx, chain, aged, client>>
    <3>1. DOMAIN pool' = DOMAIN pool /\ UNCHANGED txs
      BY <2>3 DEF chain
    <3> QED
      BY <2>3, <3>1, NarrowingReleases DEF Lifecycle!Next
  <2> QED
    BY <1>4, <2>1, <2>2, <2>3, SolveEnds
<1>5. CASE SplitBatch(t)
  <2>1. DOMAIN pool' = DOMAIN pool /\ UNCHANGED <<ctx, txs>>
    BY <1>5 DEF SplitBatch, node, chain
  <2> QED
    BY <2>1, Stutters
<1>6. CASE Estimate(t)
  BY <1>6, EstimateReleases DEF Lifecycle!Next
<1>7. CASE HandleOps(t)
  BY <1>7, HandleOpsSends DEF Lifecycle!Next
<1>8. CASE Wait(t) \/ Timeout(t) \/ SendSwallowed(t)
  <2>1. UNCHANGED <<node, chain, aged, client>>
    BY <1>8 DEF Wait, Timeout, SendSwallowed
  <2>2. Return(t) \/ UNCHANGED <<ctx, batch, tx, culled>>
    BY <1>8 DEF Wait, Timeout, SendSwallowed
  <2>3. DOMAIN pool' = DOMAIN pool /\ UNCHANGED txs
    BY <2>1 DEF node, chain
  <2> QED
    BY <2>2, <2>3, ReturnReleases, Stutters DEF Lifecycle!Next
<1>9. CASE Clean(t)
  <2>1. DOMAIN pool' = DOMAIN pool /\ UNCHANGED <<ctx, txs>>
    BY <1>9 DEF Clean, chain
  <2> QED
    BY <2>1, Stutters
<1>10. CASE RemoveOps(t)
  BY <1>10, RemoveOpsReleases DEF Lifecycle!Next
<1>11. CASE Abort(t)
  <2>1. Return(t) /\ DOMAIN pool' = DOMAIN pool /\ UNCHANGED txs
    BY <1>11 DEF Abort, node, chain
  <2> QED
    BY <2>1, ReturnReleases DEF Lifecycle!Next
<1> QED
  BY <1>1, <1>2, <1>3, <1>4, <1>5, <1>6, <1>7, <1>8, <1>9, <1>10, <1>11 DEF RunStep

\* and so is every step.
LEMMA NextRefines ==
  ASSUME IInv, [Next]_vars
  PROVE  [Lifecycle!Next]_Lifecycle!vars
<1>1. ASSUME NEW c \in Clients, ClientStep(c) PROVE [Lifecycle!Next]_Lifecycle!vars
  <2>1. CASE AddOp(c)
    BY <2>1, AddOpAccepts DEF Lifecycle!Next
  <2>2. CASE ~ AddOp(c)
    <3>1. DOMAIN pool' = DOMAIN pool /\ UNCHANGED <<ctx, txs>>
      BY <1>1, <2>2 DEF ClientStep, Submit, SimulateOp, Rejected, node, run, chain
    <3> QED
      BY <3>1, Stutters
  <2> QED
    BY <2>1, <2>2
<1>2. CASE \E t \in Runners : RunStep(t) \/ SendSwallowed(t) \/ Abort(t)
  BY <1>2, RunStepRefines
<1>3. CASE \E i \in 1 .. Len(txs) : Mine(i) \/ Lapse(i)
  BY <1>3, MineIncludes DEF Lifecycle!Next
<1>4. CASE Age \/ ChangeCode \/ Revoke \/ UNCHANGED vars
  <2>1. DOMAIN pool' = DOMAIN pool /\ UNCHANGED <<ctx, txs>>
    BY <1>4 DEF Age, ChangeCode, Revoke, vars, node, run, chain
  <2> QED
    BY <2>1, Stutters
<1>5. CASE Crash
  BY <1>5, DieReleases DEF Crash, Lifecycle!Next
<1> QED
  BY <1>1, <1>2, <1>3, <1>4, <1>5 DEF Next

\* Whatever interleaves, fails or crashes, Bundler does no more to an op than
\* OpLifecycle lets it: it sends what it took from the pool, removes the keys it
\* held, and the chain includes no nonce of a sender twice.
THEOREM Implements == Spec => ImplementsLifecycle
<1>1. Init => Lifecycle!Init
  <2>1. ASSUME Init PROVE Lifecycle!Init
    <3>1. DOMAIN pool = {} /\ Len(txs) = 0 /\ \A t \in Runners : ctx[t] = NoCtx
      BY <2>1 DEF Init
    <3>2. \A i \in 1 .. Len(txs) : FALSE
      BY <3>1
    <3>3. \A t \in Runners : HeldBy(t) = {}
      BY <3>1, NoCtxIs DEF HeldBy, Held
    <3> QED
      BY <3>1, <3>2, <3>3 DEF Lifecycle!Init, OpsOf
  <2> QED
    BY <2>1
<1>2. IInv /\ [Next]_vars => [Lifecycle!Next]_Lifecycle!vars
  BY NextRefines
<1> QED
  BY <1>1, <1>2, Inductive, PTL DEF Spec, ImplementsLifecycle, Lifecycle!Spec

\* So no two pending ops have one key, no two ops that the chain included have
\* one key, and all of those were sent by the bundler.
THEOREM OncePerKey == Spec => [](Lifecycle!OncePerKey /\ Lifecycle!IncludedWereSent)
<1> DEFINE Inv == Lifecycle!OncePerKey /\ Lifecycle!IncludedWereSent
<1> USE DEF Lifecycle!OncePerKey, Lifecycle!IncludedWereSent,
            Lifecycle!OneOfAKey, Lifecycle!SameKey
<1>1. Lifecycle!Init => Inv
  BY DEF Lifecycle!Init
<1>2. ASSUME Inv, [Lifecycle!Next]_Lifecycle!vars PROVE Inv'
  <2>1. CASE \E o \in Ops : Lifecycle!Accept(o)
    BY <1>2, <2>1 DEF Lifecycle!Accept
  <2>2. CASE Lifecycle!Take
    BY <1>2, <2>2 DEF Lifecycle!Take
  <2>3. CASE Lifecycle!Send
    BY <1>2, <2>3 DEF Lifecycle!Send
  <2>4. CASE Lifecycle!Include
    BY <1>2, <2>4 DEF Lifecycle!Include
  <2>5. CASE Lifecycle!Release
    BY <1>2, <2>5 DEF Lifecycle!Release
  <2>6. CASE UNCHANGED Lifecycle!vars
    BY <1>2, <2>6 DEF Lifecycle!vars
  <2> QED
    BY <1>2, <2>1, <2>2, <2>3, <2>4, <2>5, <2>6 DEF Lifecycle!Next
<1>3. Inv /\ [Lifecycle!Next]_Lifecycle!vars => Inv'
  BY <1>2
<1> HIDE DEF Inv
<1>4. Spec => []Inv
  BY <1>1, <1>3, Implements, PTL DEF ImplementsLifecycle, Lifecycle!Spec
<1> QED
  BY <1>4, PTL DEF Inv
-----------------------------------------------------------------------------
(* What leaves the pool.  A run that keeps no op that it neither found at   *)
(* fault nor sent must be able to tell: it marks ops by their place in a    *)
(* batch that is not the one it estimates.  It can in private mode without  *)
(* intents, where an op it marks by mistake was part of what it sends, and  *)
(* in searcher mode with one op per batch.                                  *)

\* The chain has used the nonce of p, or nothing waits and p was sent.
Settled(p) ==
    \/ nonces[p.sender] > p.nonce
    \/ WaitTimeout = 0 /\ \E i \in 1 .. Len(txs) : p \in ToSet(txs[i].ops)

\* What is known of the ops that a run holds, stage by stage.
Cause(t) ==
    /\ MaxBatch = 1 => \A o, q \in Held(ctx[t]) : o = q
    /\ pc[t] \notin {"handleIntents", "waitIntents"}
    /\ pc[t] = "send" => ToSet(ctx[t].removal) \subseteq culled[t]
    /\ pc[t] \in {"estimate", "handle"} => Held(ctx[t]) \subseteq culled[t] \union ToSet(batch[t])
    /\ pc[t] = "estimate" /\ ~ Relayer => ToSet(ctx[t].removal) \subseteq culled[t]
    /\ pc[t] = "wait" => Held(ctx[t]) \subseteq culled[t] \union ToSet(txs[tx[t]].ops)
    /\ pc[t] \in {"included", "remove"} =>
            \A q \in Held(ctx[t]) : q \in culled[t] \/ Settled(q)

CInv == (\A t \in Runners : Cause(t)) /\ (Intents = {} => sol \in [Ops -> {None}])

\* What was sent stays so, and nonces only grow.
Grows ==
    /\ Len(txs) <= Len(txs') /\ \A i \in 1 .. Len(txs) : txs'[i].ops = txs[i].ops
    /\ \A s \in Senders : nonces[s] <= nonces'[s]

\* Nothing comes out of the chain again.
LEMMA NextGrows ==
  ASSUME IInv, [Next]_vars
  PROVE  Grows
<1>1. txs \in Seq(Handled) /\ Len(txs) \in Nat /\ nonces \in [Senders -> Nat]
  BY DEF IInv, Types
<1>2. CASE UNCHANGED <<txs, nonces>>
  BY <1>1, <1>2 DEF Grows
<1>3. ASSUME NEW t \in Runners, HandleOps(t) PROVE Grows
  <2>1. nonces' = nonces
    BY <1>3 DEF HandleOps
  <2>2. CASE txs' = Append(txs, [nonce |-> eoaNonce, ops |-> batch[t], status |-> "pending"])
    BY <1>1, <2>1, <2>2 DEF Grows
  <2> QED
    BY <1>2, <1>3, <2>1, <2>2 DEF HandleOps
<1>4. ASSUME NEW i \in 1 .. Len(txs), NEW st \in TxStatuses, txs[i].status = "pending",
             txs' = [txs EXCEPT ![i].status = st]
      PROVE  Len(txs') = Len(txs) /\ \A j \in 1 .. Len(txs) : txs'[j].ops = txs[j].ops
  BY <1>4, Settling DEF IInv
<1>5. ASSUME NEW i \in 1 .. Len(txs), Mine(i) PROVE Grows
  <2>1. \A s \in Senders : nonces[s] <= nonces'[s]
    <3>1. txs[i].ops \in Seq(Ops)
      <4>1. txs[i] \in Handled
        BY <1>1
      <4> QED
        BY <4>1 DEF Handled
    <3>2. \A s \in Senders : SentBy(s, txs[i].ops) \in Nat
      BY <3>1, SentByIs
    <3> QED
      BY <1>1, <1>5, <3>2 DEF Mine
  <2>2. PICK st \in {"failed", "ok"} : txs' = [txs EXCEPT ![i].status = st]
    BY <1>5 DEF Mine
  <2>3. st \in TxStatuses /\ txs[i].status = "pending"
    BY <1>5 DEF TxStatuses, Mine, CanBeMined
  <2> QED
    BY <1>1, <1>4, <2>1, <2>2, <2>3 DEF Grows
<1>6. ASSUME NEW i \in 1 .. Len(txs), Lapse(i) PROVE Grows
  <2>1. "lapsed" \in TxStatuses
    BY DEF TxStatuses
  <2> QED
    BY <1>1, <1>4, <1>6, <2>1 DEF Lapse, Grows
<1>7. ASSUME NEW t \in Runners, RunStep(t) \/ SendSwallowed(t) \/ Abort(t), ~ HandleOps(t)
      PROVE  UNCHANGED <<txs, nonces>>
  BY <1>7 DEF RunStep, SendSwallowed, Abort, Process, DropExpired, Select, CodeHashes, Deposit,
     Solve, SplitBatch, Estimate, Wait, Timeout, Clean, RemoveOps, Die, chain
<1>8. ASSUME NEW c \in Clients, ClientStep(c) PROVE UNCHANGED <<txs, nonces>>
  BY <1>8 DEF ClientStep, Submit, SimulateOp, AddOp, Rejected, chain
<1>9. CASE Age \/ ChangeCode \/ Revoke \/ Crash
  BY <1>2, <1>9 DEF Age, ChangeCode, Revoke, Crash, Die, chain
<1> QED
  BY <1>2, <1>3, <1>5, <1>6, <1>7, <1>8, <1>9 DEF Next, vars

\* A run that does nothing meanwhile still knows what it knew.
LEMMA CauseStays ==
  ASSUME IInv, IInv', Grows, NEW u \in Runners, Cause(u),
         UNCHANGED <<pc[u], ctx[u], batch[u], tx[u], culled[u]>>
  PROVE  Cause(u)'
<1>1. Len(txs) \in Nat /\ tx[u] \in Nat /\ tx[u] <= Len(txs) /\ nonces \in [Senders -> Nat]
      /\ nonces' \in [Senders -> Nat]
  BY DEF IInv, Types, RunTypes, RunOK
<1>2. pc[u] = "wait" => tx[u] \in 1 .. Len(txs)
  BY <1>1 DEF IInv, RunOK
<1>3. pc[u] = "wait" => txs'[tx[u]].ops = txs[tx[u]].ops
  BY <1>2 DEF Grows
<1>4. ASSUME NEW q \in Held(ctx[u]), Settled(q) PROVE Settled(q)'
  <2>1. CASE nonces[q.sender] > q.nonce
    <3>1. q \in Ops /\ q.nonce \in Nat /\ q.sender \in Senders
      <4>1. ctx[u] \in Contexts(Ops, ChainFees)
        BY DEF IInv, RunTypes
      <4>2. q \in Ops
        BY <4>1, ToSetIs DEF Held, Contexts
      <4> QED
        BY <4>2, OpsAreValid DEF Senders
    <3> QED
      BY <1>1, <2>1, <3>1 DEF Settled, Grows
  <2>2. CASE WaitTimeout = 0 /\ \E i \in 1 .. Len(txs) : q \in ToSet(txs[i].ops)
    <3>1. PICK i \in 1 .. Len(txs) : q \in ToSet(txs[i].ops)
      BY <2>2
    <3>2. i \in 1 .. Len(txs') /\ q \in ToSet(txs'[i].ops)
      BY <1>1, <3>1 DEF Grows
    <3> QED
      BY <2>2, <3>2 DEF Settled
  <2> QED
    BY <1>4, <2>1, <2>2 DEF Settled
<1> QED
  BY <1>3, <1>4 DEF Cause

\* What a run marks, it marks rightly: it does not shift what it estimates, for
\* it sends it all, or it has one op only.
MarksHit == (Relayer /\ Intents = {}) \/ (~ Relayer /\ MaxBatch = 1)

\* Without intents nothing has one.
LEMMA NoneWithIntent ==
  ASSUME Intents = {}, sol \in [Ops -> {None}]
  PROVE  WithIntent = {}
<1>1. ASSUME NEW o \in Ops PROVE sol[o] = None
  BY <1>1
<1> QED
  BY <1>1 DEF WithIntent, HasIntent

\* Without intents the Solver is asked nothing, and writes nothing.
LEMMA SolveWritesNothing ==
  ASSUME IInv, Intents = {}, sol \in [Ops -> {None}], NEW t \in Runners, Solve(t)
  PROVE  sol' \in [Ops -> {None}]
<1> DEFINE c == ctx[t]
           body == BufferIntentOps(c.batch, WithIntent)
           ops == Filter(c.batch, WithIntent)
<1>1. c \in Contexts(Ops, ChainFees) /\ c.batch \in Seq(Ops)
  BY DEF IInv, RunTypes, Contexts
<1>2. ops \in Seq(Ops) /\ ToSet(ops) = {}
  BY <1>1, FilterSet, NoneWithIntent
<1>3. body = [i \in 1 .. Len(ops) |-> [hash |-> ops[i], status |-> "Received"]]
  BY DEF BufferIntentOps
<1> HIDE DEF ops
<1>4. Len(ops) = 0
  BY <1>2, ToSetIs
<1>5. body = <<>>
  BY <1>3, <1>4
<1>6. PICK answer \in {<<>>} :
        \/ Die
        \/ sol' = SolveIntents(c, sol, SendToSolver(body, answer), WithIntent).sol
  BY <1>5 DEF Solve
<1> HIDE DEF body
<1>7. CASE Die
  BY <1>7 DEF Die
<1>8. CASE sol' = SolveIntents(c, sol, SendToSolver(body, answer), WithIntent).sol
  <2> DEFINE e == <<>>
             E == {}
             H == {None}
  <2>1. SendToSolver(body, answer) = e
    BY <1>5 DEF SendToSolver
  <2>2. e \in Seq(E) /\ \A x \in E : x.hash \in H
    OBVIOUS
  <2> HIDE DEF e, E, H, c
  <2>3. sol \in [Ops -> H]
    BY DEF H
  <2>4. SolveIntents(c, sol, e, WithIntent).sol \in [Ops -> H]
    BY <1>1, <2>2, <2>3, SolveIntentsReduces
  <2> QED
    BY <1>8, <2>1, <2>4 DEF H
<1> QED
  BY <1>6, <1>7, <1>8

\* What is held of a context that is narrowed was held before.
LEMMA NarrowedIs ==
  ASSUME IInv, NEW t \in Runners, Narrows(t)
  PROVE  Held(ctx'[t]) \subseteq Held(ctx[t])
<1>1. ctx[t] \in Contexts(Ops, ChainFees)
  BY DEF IInv, RunTypes
<1> QED
  BY <1>1, ReducedIs DEF Narrows

\* Up to the Solver only the size of what is held matters.
LEMMA NarrowingCause ==
  ASSUME IInv, NEW t \in Runners, Cause(t), Narrows(t),
         pc'[t] \in {"select", "check", "pay", "solve"}
  PROVE  Cause(t)'
BY NarrowedIs DEF Cause

\* A run that is over holds nothing.
LEMMA ReturnCause ==
  ASSUME IInv, NEW t \in Runners, Return(t)
  PROVE  Cause(t)'
<1>1. pc'[t] = "idle" /\ ctx'[t] = NoCtx
  BY DEF IInv, RunTypes, Return, Goto
<1> QED
  BY <1>1, NoCtxIs DEF Cause

\* After a crash no run holds anything.
LEMMA DieCause ==
  ASSUME Die, NEW t \in Runners
  PROVE  Cause(t)'
<1>1. pc'[t] = "idle" /\ ctx'[t] = NoCtx
  BY DEF Die
<1> QED
  BY <1>1, NoCtxIs DEF Cause

\* A batch of one op.
LEMMA ProcessCause ==
  ASSUME IInv, NEW t \in Runners, Process(t)
  PROVE  Cause(t)'
<1>1. PICK dump \in Dumps :
        ctx' = [ctx EXCEPT ![t] = NewBatchHandlerContext(AdjustBatchSize(MaxBatch, dump),
                                                         BaseFee, Tip, GasPrice)]
  BY DEF Process
<1> DEFINE s == AdjustBatchSize(MaxBatch, dump)
           c == NewBatchHandlerContext(s, BaseFee, Tip, GasPrice)
<1>2. s \in Seq(Ops) /\ Distinct(s)
  BY DumpIs DEF IInv, Types
<1>3. ASSUME MaxBatch = 1 PROVE Len(s) <= 1
  <2>1. dump \in Seq(DOMAIN pool)
    <3>1. Cardinality(DOMAIN pool) \in Nat
      BY PoolIsFinite DEF IInv
    <3> DEFINE n == Cardinality(DOMAIN pool)
    <3>2. dump \in [1 .. n -> DOMAIN pool]
      BY DEF Dumps, SetToSeqs
    <3> HIDE DEF n
    <3> QED
      BY <3>1, <3>2 DEF n
  <2> QED
    BY <1>3, <2>1 DEF AdjustBatchSize
<1> HIDE DEF s
<1>4. c \in Contexts(Ops, ChainFees) /\ Held(c) = ToSet(s)
  BY <1>2, NewCtxIs
<1>5. ctx'[t] = c /\ pc'[t] = "expire"
  BY <1>1 DEF s, Process, Goto, IInv, RunTypes
<1> HIDE DEF c
<1>6. ASSUME MaxBatch = 1, NEW o \in Held(c), NEW q \in Held(c) PROVE o = q
  <2>1. PICK i \in 1 .. Len(s), j \in 1 .. Len(s) : s[i] = o /\ s[j] = q
    BY <1>2, <1>4, <1>6, ToSetIs
  <2>2. i = 1 /\ j = 1
    BY <1>2, <1>3, <1>6, <2>1
  <2> QED
    BY <2>1, <2>2
<1> QED
  BY <1>5, <1>6 DEF Cause

\* What SolveIntents drops is marked by the Solver's answer.
LEMMA SolveCause ==
  ASSUME IInv, NEW t \in Runners, Cause(t), Solve(t)
  PROVE  Cause(t)'
<1>1. CASE Die
  BY <1>1, DieCause
<1>2. CASE Return(t)
  BY <1>2, ReturnCause
<1>3. CASE /\ Narrows(t)
           /\ pc' = [pc EXCEPT ![t] = "send"]
           /\ culled' = [culled EXCEPT ![t] = ToSet(ctx'[t].removal)]
  <2>1. pc'[t] = "send" /\ culled'[t] = ToSet(ctx'[t].removal)
    BY <1>3 DEF IInv, RunTypes
  <2> QED
    BY <1>3, <2>1, NarrowedIs DEF Cause
<1> QED
  BY <1>1, <1>2, <1>3, SolveEnds
\* The empty sequence has no elements.
LEMMA NoElements ==
  ASSUME NEW s \in Seq(Ops), Len(s) = 0
  PROVE  ToSet(s) = {}
<1>1. \A i \in 1 .. Len(s) : FALSE
  OBVIOUS
<1> QED
  BY <1>1, ToSetIs

\* The conventional ops are all that is left of the batch.
LEMMA SplitBatchCause ==
  ASSUME IInv, MarksHit, NEW t \in Runners, Cause(t), Intents = {} => sol \in [Ops -> {None}],
         SplitBatch(t)
  PROVE  Cause(t)'
<1> DEFINE b == ctx[t].batch
           conv == IF Relayer THEN Conventional(b) ELSE b
           ints == IF Relayer THEN Solved(b) ELSE <<>>
<1>1. ctx[t] \in Contexts(Ops, ChainFees) /\ b \in Seq(Ops) /\ pc[t] = "send"
  BY DEF IInv, RunTypes, Contexts, SplitBatch
<1>2. conv \in Seq(Ops) /\ ToSet(conv) = ToSet(b)
  <2>1. CASE Relayer
    <3>1. sol \in [Ops -> {None}] /\ WithIntent = {}
      BY <2>1, NoneWithIntent DEF MarksHit
    <3> DEFINE K == {o \in Ops : ~ IsSolvedIntent(o) /\ ~ HasIntent(o)}
    <3>2. K = Ops
      BY <3>1 DEF WithIntent, IsSolvedIntent
    <3>3. conv = Filter(b, K)
      BY <2>1 DEF Conventional
    <3> HIDE DEF K, conv, b
    <3>4. conv \in Seq(Ops) /\ ToSet(conv) = ToSet(b) \cap K
      BY <1>1, <3>3, FilterSet
    <3>5. ToSet(b) \subseteq Ops
      BY <1>1, ToSetIs
    <3> QED
      BY <3>2, <3>4, <3>5
  <2>2. CASE ~ Relayer
    BY <1>1, <2>2
  <2> QED
    BY <2>1, <2>2
<1>3. ints = <<>>
  <2>1. CASE Relayer
    <3> DEFINE K == {o \in Ops : IsSolvedIntent(o)}
    <3>1. K = {}
      <4>1. sol \in [Ops -> {None}]
        BY <2>1 DEF MarksHit
      <4> QED
        BY <4>1 DEF IsSolvedIntent
    <3>2. ints = Filter(b, K)
      BY <2>1 DEF Solved
    <3> HIDE DEF K, ints, b
    <3>3. ints \in Seq(Ops) /\ ToSet(ints) = ToSet(b) \cap K
      BY <1>1, <3>2, FilterSet
    <3>4. ToSet(ints) = {}
      BY <3>1, <3>3
    <3>5. Len(ints) = 0
      BY <3>3, <3>4, ToSetIs
    <3> QED
      BY <3>3, <3>5
  <2>2. CASE ~ Relayer
    BY <2>2
  <2> QED
    BY <2>1, <2>2
<1>4. \/ batch' = [batch EXCEPT ![t] = conv] /\ pc' = [pc EXCEPT ![t] = "estimate"]
      \/ ints # <<>>
      \/ conv = <<>> /\ pc' = [pc EXCEPT ![t] = "included"]
  BY DEF SplitBatch, Goto
<1>5. UNCHANGED <<ctx, tx, culled>>
  BY DEF SplitBatch
<1> HIDE DEF conv, ints
<1>6. Held(ctx[t]) \subseteq culled[t] \union ToSet(conv)
  BY <1>1, <1>2 DEF Cause, Held
<1>7. CASE batch' = [batch EXCEPT ![t] = conv] /\ pc' = [pc EXCEPT ![t] = "estimate"]
  <2>1. batch'[t] = conv /\ pc'[t] = "estimate"
    BY <1>7 DEF IInv, RunTypes
  <2> QED
    BY <1>1, <1>5, <1>6, <2>1 DEF Cause
<1>8. CASE conv = <<>> /\ pc' = [pc EXCEPT ![t] = "included"]
  <2>1. pc'[t] = "included"
    BY <1>8 DEF IInv, RunTypes
  <2>2. ToSet(conv) = {}
    BY <1>2, <1>8, NoElements
  <2> QED
    BY <1>5, <1>6, <2>1, <2>2 DEF Cause
<1> QED
  BY <1>3, <1>4, <1>7, <1>8

\* What the loop marks in searcher mode is the op it found at fault, for there
\* is no other.
LEMMA EstimateCause ==
  ASSUME IInv, MarksHit, NEW t \in Runners, Cause(t), Estimate(t)
  PROVE  Cause(t)'
<1> DEFINE F == Failing(batch[t])
           i == Min(F)
           c == MarkOpIndexForRemoval(ctx[t], i - 1)
<1>1. /\ ctx[t] \in Contexts(Ops, ChainFees) /\ batch[t] \in Seq(Ops)
      /\ ctx[t].batch \in Seq(Ops) /\ ctx[t].removal \in Seq(Ops)
      /\ ToSet(batch[t]) \subseteq Held(ctx[t]) /\ pc[t] = "estimate"
  BY DEF IInv, RunTypes, RunOK, Estimate, HeldBy, Held, Contexts
<1>2. UNCHANGED <<batch, tx>>
  BY DEF Estimate
<1>3. CASE ~ Relayer /\ ctx[t].batch = <<>> /\ Goto(t, "included") /\ UNCHANGED <<ctx, culled>>
  <2>1. ToSet(ctx[t].batch) = {}
    BY <1>1, <1>3, NoElements
  <2>2. Held(ctx[t]) \subseteq culled[t]
    BY <1>1, <1>3, <2>1 DEF Held, Cause
  <2>3. pc'[t] = "included" /\ ctx'[t] = ctx[t] /\ culled'[t] = culled[t]
    BY <1>3 DEF Goto, IInv, RunTypes
  <2> QED
    BY <2>2, <2>3 DEF Cause
<1>4. CASE Goto(t, "handle") /\ UNCHANGED <<ctx, culled>>
  <2>1. pc'[t] = "handle" /\ ctx'[t] = ctx[t] /\ culled'[t] = culled[t]
    BY <1>4 DEF Goto, IInv, RunTypes
  <2> QED
    BY <1>1, <1>2, <2>1 DEF Cause
<1>5. CASE /\ F # {} /\ pc' = pc /\ ctx' = [ctx EXCEPT ![t] = c]
           /\ culled' = [culled EXCEPT ![t] = culled[t] \union {batch[t][i]}]
  <2>1. F \in SUBSET (1 .. Len(batch[t])) /\ Len(batch[t]) \in Nat
    BY <1>1 DEF Failing
  <2> HIDE DEF F
  <2>2. i \in 1 .. Len(batch[t])
    BY <1>5, <2>1, MinOfSegment
  <2>3. i - 1 \in Int /\ batch[t][i] \in ToSet(batch[t])
    BY <1>1, <2>2, ToSetIs
  <2>4. ctx'[t] = c /\ culled'[t] = culled[t] \union {batch[t][i]} /\ pc'[t] = "estimate"
    BY <1>1, <1>5 DEF IInv, RunTypes
  <2> HIDE DEF i
  <2>5. Held(c) = Held(ctx[t])
    BY <1>1, <2>3, MarkHolds
  <2>6. ASSUME ~ Relayer, NEW o \in ToSet(c.removal) PROVE o \in culled'[t]
    <3>1. o \in Held(ctx[t]) /\ batch[t][i] \in Held(ctx[t])
      BY <1>1, <2>3, <2>5, <2>6 DEF Held
    <3>2. o = batch[t][i]
      BY <2>6, <3>1 DEF Cause, MarksHit
    <3> QED
      BY <2>4, <3>2
  <2> HIDE DEF c
  <2> QED
    BY <1>1, <1>2, <2>4, <2>5, <2>6 DEF Cause
<1> QED
  BY <1>3, <1>4, <1>5 DEF Estimate

\* What is sent, or waited for, is all the run holds but the culprits.
LEMMA HandleOpsCause ==
  ASSUME IInv, NEW t \in Runners, Cause(t), HandleOps(t)
  PROVE  Cause(t)'
<1>1. /\ batch[t] \in Seq(Ops) /\ Len(txs) \in Nat /\ txs \in Seq(Handled)
      /\ pc[t] = "handle"
  BY DEF IInv, Types, RunTypes, HandleOps, Cause
<1>2. /\ txs' = Append(txs, [nonce |-> eoaNonce, ops |-> batch[t], status |-> "pending"])
      /\ tx' = [tx EXCEPT ![t] = Len(txs) + 1]
      /\ Goto(t, IF Relayer /\ WaitTimeout = 0 THEN "included" ELSE "wait")
  BY <1>1 DEF HandleOps
<1>3. Len(txs') = Len(txs) + 1 /\ txs'[Len(txs) + 1].ops = batch[t]
  BY <1>1, <1>2
<1>4. /\ ctx'[t] = ctx[t] /\ batch'[t] = batch[t] /\ culled'[t] = culled[t]
      /\ tx'[t] = Len(txs) + 1
  BY <1>2 DEF HandleOps, IInv, RunTypes
<1>5. Held(ctx[t]) \subseteq culled[t] \union ToSet(batch[t])
  BY <1>1 DEF Cause
<1>6. CASE Relayer /\ WaitTimeout = 0
  <2>1. pc'[t] = "included"
    BY <1>2, <1>6 DEF Goto, IInv, RunTypes
  <2>2. ASSUME NEW q \in ToSet(batch[t]) PROVE Settled(q)'
    <3>1. Len(txs) + 1 \in 1 .. Len(txs') /\ q \in ToSet(txs'[Len(txs) + 1].ops)
      BY <1>1, <1>3
    <3> QED
      BY <1>6, <3>1 DEF Settled
  <2> QED
    BY <1>4, <1>5, <2>1, <2>2 DEF Cause
<1>7. CASE ~ (Relayer /\ WaitTimeout = 0)
  <2>1. pc'[t] = "wait"
    BY <1>2, <1>7 DEF Goto, IInv, RunTypes
  <2> QED
    BY <1>3, <1>4, <1>5, <2>1 DEF Cause
<1> QED
  BY <1>6, <1>7

\* A run goes on after its wait when the transaction succeeded.
LEMMA WaitCause ==
  ASSUME IInv, NEW t \in Runners, Cause(t), Wait(t) \/ Timeout(t) \/ SendSwallowed(t)
  PROVE  Cause(t)'
<1>1. CASE Return(t)
  BY <1>1, ReturnCause
<1>2. CASE ~ Return(t)
  <2>1. /\ pc[t] = "wait" /\ Goto(t, "included") /\ UNCHANGED <<ctx, batch, tx, culled>>
        /\ txs[tx[t]].status = "ok" /\ UNCHANGED <<nonces, txs>>
    BY <1>2 DEF Wait, Timeout, SendSwallowed, Cause, chain
  <2>2. pc'[t] = "included"
    BY <2>1 DEF Goto, IInv, RunTypes
  <2>3. tx[t] \in 1 .. Len(txs)
    <3>1. tx[t] \in Nat /\ Len(txs) \in Nat
      BY DEF IInv, Types, RunTypes
    <3> QED
      BY <2>1, <3>1 DEF IInv, RunOK
  <2>4. ASSUME NEW q \in ToSet(txs[tx[t]].ops) PROVE Settled(q)'
    <3>1. q \in OpsOf({"ok"})
      BY <2>1, <2>3 DEF OpsOf
    <3>2. txs[tx[t]].ops \in Seq(Ops)
      <4>1. txs[tx[t]] \in Handled
        BY <2>3 DEF IInv, Types
      <4> QED
        BY <4>1 DEF Handled
    <3>3. q \in Ops /\ q.nonce \in Nat /\ q.sender \in Senders
      BY <3>2, ToSetIs, OpsAreValid DEF Senders
    <3>4. nonces[q.sender] \in Nat /\ q.nonce < nonces[q.sender]
      BY <3>1, <3>3 DEF IInv, Types, ChainOK
    <3> QED
      BY <2>1, <3>3, <3>4 DEF Settled
  <2> QED
    BY <2>1, <2>2, <2>4 DEF Cause
<1> QED
  BY <1>1, <1>2

\* A run of which nothing is left, or one that only goes on.
LEMMA EndCause ==
  ASSUME IInv, NEW t \in Runners, Cause(t), Clean(t) \/ RemoveOps(t) \/ Abort(t)
  PROVE  Cause(t)'
<1>1. CASE Return(t)
  BY <1>1, ReturnCause
<1>2. CASE Clean(t)
  <2>1. pc[t] = "included" /\ pc'[t] = "remove"
    BY <1>2 DEF Clean, Goto, IInv, RunTypes
  <2>2. UNCHANGED <<ctx, batch, tx, culled, nonces, txs>>
    BY <1>2 DEF Clean, chain
  <2> QED
    BY <2>1, <2>2 DEF Cause, Settled
<1> QED
  BY <1>1, <1>2 DEF RemoveOps, Abort

\* Every step of a run leaves it with a cause for what it holds.
LEMMA RunStepCause ==
  ASSUME IInv, MarksHit, NEW t \in Runners, Cause(t), Intents = {} => sol \in [Ops -> {None}],
         RunStep(t) \/ SendSwallowed(t) \/ Abort(t)
  PROVE  Cause(t)'
<1>1. CASE DropExpired(t) \/ Select(t) \/ Deposit(t)
  <2>1. pc'[t] \in {"select", "check", "solve"}
    BY <1>1 DEF DropExpired, Select, Deposit, Goto, IInv, RunTypes
  <2> QED
    BY <1>1, <2>1, DropExpiredNarrows, SelectNarrows, DepositNarrows, NarrowingCause
<1>2. CASE CodeHashes(t)
  <2>1. CASE Return(t)
    BY <2>1, ReturnCause
  <2>2. CASE ~ Return(t)
    <3>1. pc'[t] = "pay"
      BY <1>2, <2>2 DEF CodeHashes, Goto, IInv, RunTypes
    <3> QED
      BY <1>2, <3>1, CodeHashesNarrows, NarrowingCause
  <2> QED
    BY <2>1, <2>2
<1> QED
  BY <1>1, <1>2, ProcessCause, SolveCause, SplitBatchCause, EstimateCause, HandleOpsCause,
     WaitCause, EndCause DEF RunStep

\* A step of one run is none of another, unless the process dies.
LEMMA OthersStay ==
  ASSUME IInv, NEW t \in Runners, RunStep(t) \/ SendSwallowed(t) \/ Abort(t),
         NEW u \in Runners, u # t
  PROVE  UNCHANGED <<pc[u], ctx[u], batch[u], tx[u], culled[u]>> \/ Die
<1> USE DEF Return, Goto, IInv, RunTypes
<1>1. CASE Process(t) \/ DropExpired(t) \/ Select(t) \/ Deposit(t)
  BY <1>1 DEF Process, DropExpired, Select, Deposit
<1>2. CASE CodeHashes(t)
  BY <1>2 DEF CodeHashes
<1>3. CASE Solve(t)
  BY <1>3 DEF Solve
<1>4. CASE SplitBatch(t)
  BY <1>4 DEF SplitBatch
<1>5. CASE Estimate(t)
  BY <1>5 DEF Estimate
<1>6. CASE HandleOps(t)
  BY <1>6 DEF HandleOps
<1>7. CASE Wait(t) \/ Timeout(t) \/ SendSwallowed(t)
  BY <1>7 DEF Wait, Timeout, SendSwallowed
<1>8. CASE Clean(t) \/ RemoveOps(t) \/ Abort(t)
  BY <1>8 DEF Clean, RemoveOps, Abort
<1> QED
  BY <1>1, <1>2, <1>3, <1>4, <1>5, <1>6, <1>7, <1>8 DEF RunStep

\* Without intents no op ever carries a solution.
LEMMA NothingSolved ==
  ASSUME IInv, [Next]_vars, Intents = {}, sol \in [Ops -> {None}]
  PROVE  sol' \in [Ops -> {None}]
<1>1. CASE UNCHANGED sol
  BY <1>1
<1>2. ASSUME NEW c \in Clients, ClientStep(c) PROVE sol' \in [Ops -> {None}]
  BY <1>1, <1>2 DEF ClientStep, Submit, SimulateOp, AddOp, Rejected, node
<1>3. ASSUME NEW t \in Runners, RunStep(t) \/ SendSwallowed(t) \/ Abort(t)
      PROVE  sol' \in [Ops -> {None}]
  <2>1. CASE Solve(t)
    BY <2>1, SolveWritesNothing
  <2>2. CASE ~ Solve(t)
    BY <1>1, <1>3, <2>2 DEF RunStep, SendSwallowed, Abort, Process, DropExpired, Select,
       CodeHashes, Deposit, SplitBatch, Estimate, HandleOps, Wait, Timeout, Clean, RemoveOps, node
  <2> QED
    BY <2>1, <2>2
<1>4. CASE Age \/ ChangeCode \/ Revoke
  BY <1>1, <1>4 DEF Age, ChangeCode, Revoke, node
<1>5. CASE Crash
  BY <1>5 DEF Crash, Die
<1>6. ASSUME NEW i \in 1 .. Len(txs), Mine(i) \/ Lapse(i) PROVE UNCHANGED sol
  BY <1>6 DEF Mine, Lapse, node
<1> QED
  BY <1>1, <1>2, <1>3, <1>4, <1>5, <1>6 DEF Next, vars

\* Every step keeps the causes.
LEMMA NextCause ==
  ASSUME IInv, MarksHit, CInv, [Next]_vars
  PROVE  CInv'
<1>1. IInv' /\ Grows
  BY NextKeeps, NextGrows
<1>2. Intents = {} => sol' \in [Ops -> {None}]
  BY NothingSolved DEF CInv
<1>3. ASSUME NEW u \in Runners PROVE Cause(u)'
  <2>1. Cause(u) /\ (Intents = {} => sol \in [Ops -> {None}])
    BY DEF CInv
  <2>2. CASE UNCHANGED <<pc[u], ctx[u], batch[u], tx[u], culled[u]>>
    BY <1>1, <2>1, <2>2, CauseStays
  <2>3. CASE Die
    BY <2>3, DieCause
  <2>4. CASE RunStep(u) \/ SendSwallowed(u) \/ Abort(u)
    BY <2>1, <2>4, RunStepCause
  <2>5. ASSUME NEW t \in Runners, RunStep(t) \/ SendSwallowed(t) \/ Abort(t), u # t
        PROVE  Cause(u)'
    BY <2>2, <2>3, <2>5, OthersStay
  <2>6. CASE UNCHANGED run
    BY <2>2, <2>6 DEF run
  <2>7. ASSUME NEW c \in Clients, ClientStep(c) PROVE UNCHANGED run
    BY <2>7 DEF ClientStep, Submit, SimulateOp, AddOp, Rejected
  <2>8. ASSUME NEW i \in 1 .. Len(txs), Mine(i) \/ Lapse(i) PROVE UNCHANGED run
    BY <2>8 DEF Mine, Lapse
  <2>9. CASE Age \/ ChangeCode \/ Revoke \/ Crash
    BY <2>3, <2>6, <2>9 DEF Age, ChangeCode, Revoke, Crash
  <2>10. CASE UNCHANGED vars
    BY <2>6, <2>10 DEF vars, run
  <2> QED
    BY <2>4, <2>5, <2>6, <2>7, <2>8, <2>9, <2>10 DEF Next
<1> QED
  BY <1>2, <1>3 DEF CInv

\* In the beginning no run holds anything.
LEMMA InitCause ==
  ASSUME Init
  PROVE  CInv
<1>1. ASSUME NEW t \in Runners PROVE Cause(t)
  <2>1. pc[t] = "idle" /\ ctx[t] = NoCtx
    BY DEF Init
  <2> QED
    BY <2>1, NoCtxIs DEF Cause
<1> QED
  BY <1>1 DEF Init, CInv

\* AddOp and RemoveOps are the steps by which an op leaves the pool.
LEMMA LeavesForCause ==
  ASSUME IInv, CInv, [Next]_vars, NEW o \in DOMAIN pool
  PROVE  \/ \E p \in DOMAIN pool' : SameKey(o, p)
         \/ nonces[o.sender] > o.nonce
         \/ \E t \in Runners : \E p \in culled[t] : SameKey(o, p)
         \/ /\ WaitTimeout = 0
            /\ \E i \in 1 .. Len(txs) : \E p \in ToSet(txs[i].ops) : SameKey(o, p)
<1>1. CASE o \in DOMAIN pool'
  BY <1>1 DEF SameKey
<1>2. ASSUME NEW c \in Clients, ClientStep(c)
      PROVE  o \in DOMAIN pool' \/ \E p \in DOMAIN pool' : SameKey(o, p)
  <2>1. CASE AddOp(c)
    BY <2>1 DEF AddOp, SameKey
  <2>2. CASE ~ AddOp(c)
    BY <1>2, <2>2 DEF ClientStep, Submit, SimulateOp, Rejected, node
  <2> QED
    BY <2>1, <2>2
<1>3. ASSUME NEW t \in Runners, RemoveOps(t), o \notin DOMAIN pool'
      PROVE  \/ nonces[o.sender] > o.nonce
             \/ \E p \in culled[t] : SameKey(o, p)
             \/ /\ WaitTimeout = 0
                /\ \E i \in 1 .. Len(txs) : \E p \in ToSet(txs[i].ops) : SameKey(o, p)
  <2>1. PICK p \in Held(ctx[t]) : SameKey(o, p)
    BY <1>3 DEF RemoveOps, Held
  <2>2. p \in culled[t] \/ Settled(p)
    BY <1>3 DEF RemoveOps, CInv, Cause
  <2> QED
    BY <2>1, <2>2 DEF Settled, SameKey
<1>4. ASSUME NEW t \in Runners, RunStep(t) \/ SendSwallowed(t) \/ Abort(t), ~ RemoveOps(t)
      PROVE  DOMAIN pool' = DOMAIN pool
  BY <1>4 DEF RunStep, SendSwallowed, Abort, Process, DropExpired, Select, CodeHashes, Deposit,
     Solve, SplitBatch, Estimate, HandleOps, Wait, Timeout, Clean, Die, node
<1>5. ASSUME NEW i \in 1 .. Len(txs), Mine(i) \/ Lapse(i) PROVE pool' = pool
  BY <1>5 DEF Mine, Lapse, node
<1>6. CASE Age \/ ChangeCode \/ Revoke \/ Crash
  BY <1>1, <1>6 DEF Age, ChangeCode, Revoke, Crash, Die, node
<1>7. CASE UNCHANGED vars
  BY <1>1, <1>7 DEF vars
<1> QED
  BY <1>1, <1>2, <1>3, <1>4, <1>5, <1>6, <1>7 DEF Next

\* RemovedForCause (bundler.go:171-187), for any number of runs at the same
\* time, clients, faults and crashes: in private mode without intents, and in
\* searcher mode with one op per batch.  Without MarksHit it is false: a run
\* then marks ops of ctx.Batch by indices into opts.Batch (builder/client.go:86),
\* and the relayer removes solved intents that it never sent (relayer.go:117).
THEOREM OnlyForCause ==
  ASSUME MarksHit
  PROVE  Spec => RemovedForCause
<1> DEFINE Caused ==
      \A o \in DOMAIN pool :
        \/ \E p \in DOMAIN pool' : SameKey(o, p)
        \/ nonces[o.sender] > o.nonce
        \/ \E t \in Runners : \E p \in culled[t] : SameKey(o, p)
        \/ /\ WaitTimeout = 0
           /\ \E i \in 1 .. Len(txs) : \E p \in ToSet(txs[i].ops) : SameKey(o, p)
<1>1. IInv /\ CInv /\ [Next]_vars => CInv'
  BY NextCause
<1>2. IInv /\ CInv /\ [Next]_vars => [Caused]_vars
  BY LeavesForCause
<1>3. Init => CInv
  BY InitCause
<1> HIDE DEF Caused
<1>4. Spec => [][Caused]_vars
  BY <1>1, <1>2, <1>3, Inductive, PTL DEF Spec
<1> QED
  BY <1>4 DEF RemovedForCause, Caused
-----------------------------------------------------------------------------
(* One client and one runner.  What the run holds is then still pending, or *)
(* has been replaced by a dearer op, and so no op that the client checks is *)
(* one that the run holds: nobody adds it, and resets its solution, or      *)
(* needs its record, behind the back of the run.                            *)

Alone == (\A c, d \in Clients : c = d) /\ (\A t, u \in Runners : t = u)

\* A fee below 10 wei is its own threshold, and such an op replaces itself.
Payable(S) == \A o \in S : o.maxFee >= 10

\* The pool knows an op of the key, at least as dear, of what is taken.
PoolKeeps == \A o \in Taken : \E p \in DOMAIN pool : SameKey(o, p) /\ o.maxFee <= p.maxFee

\* What Submit found of the pool stays true until AddOp.
Dearer ==
    \A c \in Clients : sub[c].at # "idle" =>
        \A p \in DOMAIN pool :
            SameKey(sub[c].op, p) => sub[c].op.maxFee >= NewThreshold(p.maxFee)

AInv == PoolKeeps /\ Dearer

\* A replacement is no cheaper than what it replaces, and dearer from 10 wei on.
LEMMA ThresholdIs ==
  ASSUME NEW fee \in Nat
  PROVE  NewThreshold(fee) \in Nat /\ NewThreshold(fee) >= fee
         /\ (fee >= 10 => NewThreshold(fee) > fee)
<1>1. (110 * fee) \div 100 \in Nat /\ (110 * fee) \div 100 >= fee
      /\ (fee >= 10 => (110 * fee) \div 100 > fee)
  OBVIOUS
<1> QED
  BY <1>1 DEF NewThreshold

\* The client never adds an op that the run holds.
LEMMA NotHeld ==
  ASSUME IInv, AInv, NEW c \in Clients, sub[c].at # "idle", sub[c].op.maxFee >= 10
  PROVE  sub[c].op \notin Taken
<1> DEFINE o == sub[c].op
<1>1. SUFFICES ASSUME o \in Taken PROVE FALSE
  OBVIOUS
<1>2. PICK p \in DOMAIN pool : SameKey(o, p) /\ o.maxFee <= p.maxFee
  BY <1>1 DEF AInv, PoolKeeps
<1>3. o.maxFee >= NewThreshold(p.maxFee)
  BY <1>2 DEF AInv, Dearer
<1>4. o \in Ops /\ p \in Ops
  BY <1>2 DEF IInv, Types
<1>5. o.maxFee \in Nat /\ p.maxFee \in Nat
  BY <1>4, OpsAreValid
<1>6. NewThreshold(p.maxFee) > p.maxFee /\ NewThreshold(p.maxFee) \in Nat
  BY <1>2, <1>5, ThresholdIs
<1> HIDE DEF o
<1> QED
  BY <1>2, <1>3, <1>5, <1>6

\* The pool loses keys by AddOp and RemoveOps only.
LEMMA PoolStays ==
  ASSUME [Next]_vars, \A c \in Clients : ~ AddOp(c), \A t \in Runners : ~ RemoveOps(t)
  PROVE  DOMAIN pool' = DOMAIN pool
<1>1. ASSUME NEW c \in Clients, ClientStep(c) PROVE DOMAIN pool' = DOMAIN pool
  BY <1>1 DEF ClientStep, Submit, SimulateOp, Rejected, node
<1>2. ASSUME NEW t \in Runners, RunStep(t) \/ SendSwallowed(t) \/ Abort(t)
      PROVE  DOMAIN pool' = DOMAIN pool
  BY <1>2 DEF RunStep, SendSwallowed, Abort, Process, DropExpired, Select, CodeHashes, Deposit,
     Solve, SplitBatch, Estimate, HandleOps, Wait, Timeout, Clean, Die, node
<1>3. ASSUME NEW i \in 1 .. Len(txs), Mine(i) \/ Lapse(i) PROVE pool' = pool
  BY <1>3 DEF Mine, Lapse, node
<1>4. CASE Age \/ ChangeCode \/ Revoke \/ Crash
  BY <1>4 DEF Age, ChangeCode, Revoke, Crash, Die, node
<1> QED
  BY <1>1, <1>2, <1>3, <1>4 DEF Next, vars

\* A client is only made busy by its own steps, and a run makes it idle at most.
LEMMA ClientsStay ==
  ASSUME [Next]_vars, \A c \in Clients : ~ ClientStep(c)
  PROVE  sub' = sub \/ sub' = [c \in Clients |-> [at |-> "idle", op |-> None]]
<1>1. ASSUME NEW t \in Runners, RunStep(t) \/ SendSwallowed(t) \/ Abort(t)
      PROVE  sub' = sub \/ sub' = [c \in Clients |-> [at |-> "idle", op |-> None]]
  BY <1>1 DEF RunStep, SendSwallowed, Abort, Process, DropExpired, Select, CodeHashes, Deposit,
     Solve, SplitBatch, Estimate, HandleOps, Wait, Timeout, Clean, RemoveOps, Die, client
<1>2. ASSUME NEW i \in 1 .. Len(txs), Mine(i) \/ Lapse(i) PROVE sub' = sub
  BY <1>2 DEF Mine, Lapse, client
<1>3. CASE Age \/ ChangeCode \/ Revoke \/ Crash
  BY <1>3 DEF Age, ChangeCode, Revoke, Crash, Die, client
<1> QED
  BY <1>1, <1>2, <1>3 DEF Next, vars

\* A run takes nothing but what is pending.
LEMMA TakenFromPool ==
  ASSUME IInv, [Next]_vars
  PROVE  Taken' \subseteq Taken \union DOMAIN pool
<1> DEFINE pending == DOMAIN pool
<1>1. CASE \E o \in Ops : Lifecycle!Accept(o)
  BY <1>1 DEF Lifecycle!Accept, Taken
<1>2. CASE Lifecycle!Take
  BY <1>2 DEF Lifecycle!Take, Taken
<1>3. CASE Lifecycle!Send \/ Lifecycle!Include \/ Lifecycle!Release
  BY <1>3 DEF Lifecycle!Send, Lifecycle!Include, Lifecycle!Release, Taken
<1>4. CASE UNCHANGED Lifecycle!vars
  BY <1>4 DEF Lifecycle!vars, Taken
<1> QED
  BY <1>1, <1>2, <1>3, <1>4, NextRefines DEF Lifecycle!Next

\* When its only run has returned nothing is taken.
LEMMA NothingTaken ==
  ASSUME IInv, Alone, NEW t \in Runners, Return(t)
  PROVE  Taken' = {}
<1>1. SUFFICES ASSUME NEW o \in Taken' PROVE FALSE
  OBVIOUS
<1>2. PICK u \in Runners : o \in Held(ctx'[u])
  BY <1>1 DEF Taken, HeldBy, Held
<1>3. ctx'[u] = NoCtx
  BY DEF Alone, Return, IInv, RunTypes
<1> QED
  BY <1>2, <1>3, NoCtxIs

\* A client leaves the run alone.
LEMMA ClientLeavesRuns ==
  ASSUME NEW c \in Clients, ClientStep(c)
  PROVE  UNCHANGED run /\ Taken' = Taken
<1>1. UNCHANGED run
  BY DEF ClientStep, Submit, SimulateOp, AddOp, Rejected
<1> QED
  BY <1>1 DEF run, Taken, HeldBy

\* What AddOp replaces is known by the dearer op that takes its place.
LEMMA AddOpKeepsPending ==
  ASSUME IInv, AInv, Alone, NEW c \in Clients, AddOp(c)
  PROVE  AInv'
<1> DEFINE o == sub[c].op
           D == {p \in DOMAIN pool : ~ SameKey(o, p)} \union {o}
<1>1. o \in Ops /\ DOMAIN pool \subseteq Ops /\ o.maxFee \in Nat
  BY OpsAreValid DEF AddOp, IInv, Types
<1>2. DOMAIN pool' = D /\ Taken' = Taken
  BY ClientLeavesRuns DEF AddOp, ClientStep
<1>3. \A p \in DOMAIN pool : SameKey(o, p) => o.maxFee >= NewThreshold(p.maxFee)
  BY DEF AddOp, AInv, Dearer
<1>4. Dearer'
  <2>1. sub'[c].at = "idle"
    BY DEF AddOp, IInv, Types
  <2> QED
    BY <2>1 DEF Dearer, Alone
<1> HIDE DEF o
<1>5. ASSUME NEW q \in Taken
      PROVE  \E p \in D : SameKey(q, p) /\ q.maxFee <= p.maxFee
  <2>1. PICK p \in DOMAIN pool : SameKey(q, p) /\ q.maxFee <= p.maxFee
    BY DEF AInv, PoolKeeps
  <2>2. CASE SameKey(o, p)
    <3>1. q \in Ops
      <4>1. PICK u \in Runners : q \in Held(ctx[u])
        BY <1>5, TakenIs
      <4>2. ctx[u].batch \in Seq(Ops) /\ ctx[u].removal \in Seq(Ops)
        BY DEF IInv, RunTypes, Contexts
      <4> QED
        BY <4>1, <4>2, ToSetIs DEF Held
    <3>2. q.maxFee \in Nat /\ p.maxFee \in Nat
      BY <1>1, <3>1, OpsAreValid
    <3>3. NewThreshold(p.maxFee) \in Nat /\ NewThreshold(p.maxFee) >= p.maxFee
      BY <3>2, ThresholdIs
    <3>4. q.maxFee <= o.maxFee
      BY <1>1, <1>3, <2>1, <2>2, <3>2, <3>3
    <3>5. SameKey(q, o)
      BY <2>1, <2>2 DEF SameKey
    <3> QED
      BY <3>4, <3>5
  <2>3. CASE ~ SameKey(o, p)
    BY <2>1, <2>3
  <2> QED
    BY <2>2, <2>3
<1>6. PoolKeeps'
  BY <1>2, <1>5 DEF PoolKeeps
<1> QED
  BY <1>4, <1>6 DEF AInv

\* What Submit requires of the pool is what Dearer says of it.
LEMMA ClientKeepsPending ==
  ASSUME IInv, AInv, Alone, NEW c \in Clients, ClientStep(c)
  PROVE  AInv'
<1>1. CASE AddOp(c)
  BY <1>1, AddOpKeepsPending
<1>2. CASE ~ AddOp(c)
  <2>1. DOMAIN pool' = DOMAIN pool /\ Taken' = Taken
    BY <1>2, ClientLeavesRuns DEF ClientStep, Submit, SimulateOp, Rejected, node
  <2>2. ASSUME NEW p \in DOMAIN pool, sub'[c].at # "idle", SameKey(sub'[c].op, p)
        PROVE  sub'[c].op.maxFee >= NewThreshold(p.maxFee)
    <3>1. CASE \E o \in Ops : Submit(c, o)
      <4>1. PICK o \in Ops : Submit(c, o)
        BY <3>1
      <4>2. sub'[c].op = o
        BY <4>1 DEF Submit, IInv, Types
      <4> QED
        BY <2>2, <4>1, <4>2 DEF Submit
    <3>2. CASE SimulateOp(c)
      <4>1. sub'[c].op = sub[c].op /\ sub[c].at # "idle"
        BY <3>2 DEF SimulateOp, IInv, Types
      <4> QED
        BY <2>2, <4>1 DEF AInv, Dearer
    <3>3. CASE Rejected(c)
      BY <2>2, <3>3 DEF Rejected, IInv, Types
    <3> QED
      BY <1>2, <3>1, <3>2, <3>3 DEF ClientStep
  <2>3. Dearer'
    BY <2>1, <2>2 DEF Dearer, Alone
  <2>4. PoolKeeps'
    BY <2>1 DEF AInv, PoolKeeps
  <2> QED
    BY <2>3, <2>4 DEF AInv
<1> QED
  BY <1>1, <1>2

\* Every step keeps AInv.
LEMMA NextKeepsPending ==
  ASSUME IInv, AInv, Alone, [Next]_vars
  PROVE  AInv'
<1>1. CASE \E c \in Clients : ClientStep(c)
  BY <1>1, ClientKeepsPending
<1>2. CASE \A c \in Clients : ~ ClientStep(c)
  <2>1. sub' = sub \/ sub' = [c \in Clients |-> [at |-> "idle", op |-> None]]
    BY <1>2, ClientsStay
  <2>2. DOMAIN pool' \subseteq DOMAIN pool
    <3>1. ASSUME NEW t \in Runners, RemoveOps(t) PROVE DOMAIN pool' \subseteq DOMAIN pool
      BY <3>1 DEF RemoveOps
    <3>2. CASE \A t \in Runners : ~ RemoveOps(t)
      <4>1. \A c \in Clients : ~ AddOp(c)
        BY <1>2 DEF ClientStep
      <4> QED
        BY <3>2, <4>1, PoolStays
    <3> QED
      BY <3>1, <3>2
  <2>3. Dearer'
    BY <2>1, <2>2 DEF AInv, Dearer
  <2>4. PoolKeeps'
    <3>1. ASSUME NEW t \in Runners, RemoveOps(t) PROVE PoolKeeps'
      <4>1. Taken' = {}
        BY <3>1, NothingTaken DEF RemoveOps
      <4> QED
        BY <4>1 DEF PoolKeeps
    <3>2. CASE \A t \in Runners : ~ RemoveOps(t)
      <4>1. DOMAIN pool' = DOMAIN pool
        <5>1. \A c \in Clients : ~ AddOp(c)
          BY <1>2 DEF ClientStep
        <5> QED
          BY <3>2, <5>1, PoolStays
      <4>2. ASSUME NEW q \in DOMAIN pool PROVE SameKey(q, q) /\ q.maxFee <= q.maxFee
        BY OpsAreValid DEF SameKey, IInv, Types
      <4>3. \A q \in Taken \union DOMAIN pool :
                \E p \in DOMAIN pool : SameKey(q, p) /\ q.maxFee <= p.maxFee
        BY <4>2 DEF AInv, PoolKeeps
      <4>4. Taken' \subseteq Taken \union DOMAIN pool
        BY TakenFromPool
      <4> QED
        BY <4>1, <4>3, <4>4 DEF PoolKeeps
    <3> QED
      BY <3>1, <3>2
  <2> QED
    BY <2>3, <2>4 DEF AInv
<1> QED
  BY <1>1, <1>2

\* In the beginning nothing is pending, taken or checked.
LEMMA InitPending ==
  ASSUME Init
  PROVE  AInv
<1>1. \A o \in Taken : FALSE
  BY NoCtxIs, TakenIs DEF Init
<1> QED
  BY <1>1 DEF Init, AInv, PoolKeeps, Dearer

\* What CodeHashes will look up is there: of an op about to be added, and of
\* a pending op, unless the run that cleared it is about to remove it.
RInv ==
    faults = 0 =>
        /\ \A c \in Clients : sub[c].at = "simulated" => sub[c].op \in Intents \union records
        /\ \A o \in DOMAIN pool \ Intents :
            o \in records \/ (o \in Taken /\ \E t \in Runners : pc[t] = "remove")

\* SimulateOp records what AddOp adds.
LEMMA ClientKeepsRecords ==
  ASSUME IInv, Alone, RInv, NEW c \in Clients, ClientStep(c)
  PROVE  RInv'
<1>1. UNCHANGED <<faults, pc>> /\ Taken' = Taken
  BY ClientLeavesRuns DEF ClientStep, Submit, SimulateOp, AddOp, Rejected, run
<1>2. records \subseteq records'
  BY DEF ClientStep, Submit, SimulateOp, AddOp, Rejected, node
<1>3. ASSUME faults = 0, sub'[c].at = "simulated"
      PROVE  sub'[c].op \in Intents \union records'
  <2>1. CASE \E o \in Ops : Submit(c, o)
    BY <1>3, <2>1 DEF Submit, IInv, Types
  <2>2. CASE SimulateOp(c)
    <3>1. sub'[c].op = sub[c].op
      BY <2>2 DEF SimulateOp, IInv, Types
    <3> QED
      BY <2>2, <3>1 DEF SimulateOp
  <2>3. CASE AddOp(c) \/ Rejected(c)
    BY <1>3, <2>3 DEF AddOp, Rejected, IInv, Types
  <2> QED
    BY <2>1, <2>2, <2>3 DEF ClientStep
<1>4. ASSUME faults = 0, NEW o \in DOMAIN pool' \ Intents
      PROVE  o \in records' \/ (o \in Taken /\ \E t \in Runners : pc[t] = "remove")
  <2>1. CASE o \in DOMAIN pool
    BY <1>2, <1>4, <2>1 DEF RInv
  <2>2. CASE o \notin DOMAIN pool
    <3>1. AddOp(c)
      BY <2>2 DEF ClientStep, Submit, SimulateOp, Rejected, node
    <3>2. o = sub[c].op /\ sub[c].at = "simulated"
      BY <2>2, <3>1 DEF AddOp
    <3> QED
      BY <1>2, <1>4, <3>2 DEF RInv
  <2> QED
    BY <2>1, <2>2
<1> QED
  BY <1>1, <1>3, <1>4 DEF RInv, Alone

\* Clean takes no record of an op on its way into the pool.
LEMMA CleanKeepsRecords ==
  ASSUME IInv, Alone, AInv, RInv, Payable(Ops \ Intents), NEW t \in Runners, Clean(t)
  PROVE  RInv'
<1>1. /\ pc[t] = "included" /\ pc'[t] = "remove" /\ UNCHANGED <<pool, ctx, sub, faults>>
      /\ records' = records \ HeldBy(t)
  BY DEF Clean, Goto, client, HeldBy, IInv, RunTypes
<1>2. Taken' = Taken /\ HeldBy(t) \subseteq Taken
  BY <1>1 DEF Taken, HeldBy
<1>3. ASSUME faults = 0, NEW c \in Clients, sub[c].at = "simulated"
      PROVE  sub[c].op \in Intents \union records'
  <2>1. CASE sub[c].op \notin Intents
    <3>1. sub[c].op \in Ops \ Intents
      BY <1>3, <2>1 DEF IInv, Types
    <3>2. sub[c].op.maxFee >= 10
      BY <3>1 DEF Payable
    <3>3. sub[c].op \notin Taken
      BY <1>3, <3>2, NotHeld
    <3> QED
      BY <1>1, <1>2, <1>3, <3>3 DEF RInv
  <2> QED
    BY <2>1
<1>4. ASSUME faults = 0, NEW o \in DOMAIN pool \ Intents
      PROVE  o \in records' \/ o \in Taken
  BY <1>1, <1>2, <1>4 DEF RInv
<1> QED
  BY <1>1, <1>2, <1>3, <1>4 DEF RInv

\* What Clean cleared RemoveOps removes.
LEMMA RemoveOpsKeepsRecords ==
  ASSUME IInv, Alone, RInv, NEW t \in Runners, RemoveOps(t)
  PROVE  RInv'
<1> DEFINE rmOps == {o \in ToSet(ctx[t].batch) : ~ IsUnsolvedIntent(o)}
                      \union ToSet(ctx[t].removal)
<1>1. UNCHANGED <<sub, faults, records>>
  BY DEF RemoveOps, client
<1>2. ASSUME faults = 0, NEW o \in DOMAIN pool' \ Intents
      PROVE  o \in records
  <2>1. o \in DOMAIN pool /\ \A p \in rmOps : ~ SameKey(o, p)
    BY <1>2 DEF RemoveOps
  <2>2. CASE o \in Taken
    <3>1. PICK u \in Runners : o \in Held(ctx[u])
      BY <2>2, TakenIs
    <3>2. o \in Held(ctx[t])
      BY <3>1 DEF Alone
    <3>3. o \in rmOps
      BY <1>2, <3>2 DEF Held, IsUnsolvedIntent
    <3> QED
      BY <2>1, <3>3 DEF SameKey
  <2> QED
    BY <1>2, <2>1, <2>2 DEF RInv
<1> QED
  BY <1>1, <1>2 DEF RInv

\* The other steps of a run are taken while all records are there, or fail.
LEMMA RunKeepsRecords ==
  ASSUME IInv, Alone, RInv, NEW t \in Runners, RunStep(t) \/ SendSwallowed(t) \/ Abort(t),
         ~ Clean(t), ~ RemoveOps(t)
  PROVE  RInv'
<1>1. /\ records' = records /\ DOMAIN pool' = DOMAIN pool
      /\ sub' = sub \/ sub' = [c \in Clients |-> [at |-> "idle", op |-> None]]
  BY DEF RunStep, SendSwallowed, Abort, Process, DropExpired, Select, CodeHashes, Deposit,
     Solve, SplitBatch, Estimate, HandleOps, Wait, Timeout, Die, node, client
<1>2. faults' = faults \/ Fault
  BY DEF RunStep, SendSwallowed, Abort, Process, DropExpired, Select, CodeHashes, Deposit,
     Solve, SplitBatch, Estimate, HandleOps, Wait, Timeout
<1>3. faults \in Nat
  BY NumbersAssumption DEF IInv, Types
<1>4. ASSUME pc[t] = "remove" PROVE faults' # 0
  <2>1. Abort(t)
    BY <1>4 DEF RunStep, SendSwallowed, Process, DropExpired, Select, CodeHashes, Deposit,
       Solve, SplitBatch, Estimate, HandleOps, Wait, Timeout
  <2> QED
    BY <1>3, <2>1 DEF Abort, Fault
<1>5. ASSUME faults' = 0
      PROVE  faults = 0 /\ \A u \in Runners : pc[u] # "remove"
  BY <1>2, <1>3, <1>4, <1>5 DEF Fault, Alone
<1>6. ASSUME faults' = 0, NEW o \in DOMAIN pool \ Intents PROVE o \in records
  BY <1>5, <1>6 DEF RInv
<1>7. ASSUME faults' = 0, NEW c \in Clients, sub'[c].at = "simulated"
      PROVE  sub'[c].op \in Intents \union records
  BY <1>1, <1>5, <1>7 DEF RInv
<1> QED
  BY <1>1, <1>6, <1>7 DEF RInv

\* Every step keeps RInv.
LEMMA NextKeepsRecords ==
  ASSUME IInv, Alone, AInv, RInv, Payable(Ops \ Intents), [Next]_vars
  PROVE  RInv'
<1>1. ASSUME NEW t \in Runners, RunStep(t) \/ SendSwallowed(t) \/ Abort(t) PROVE RInv'
  BY <1>1, CleanKeepsRecords, RemoveOpsKeepsRecords, RunKeepsRecords
<1>2. CASE UNCHANGED <<pool, records, sub, pc, ctx, faults>>
  <2>1. Taken' = Taken
    BY <1>2 DEF Taken, HeldBy
  <2> QED
    BY <1>2, <2>1 DEF RInv
<1>3. CASE faults' # 0
  BY <1>3 DEF RInv
<1>4. faults \in Nat
  BY NumbersAssumption DEF IInv, Types
<1>5. ASSUME NEW i \in 1 .. Len(txs), Mine(i) \/ Lapse(i) PROVE RInv'
  <2>1. CASE Mine(i)
    BY <1>2, <2>1 DEF Mine, node, run, client
  <2>2. CASE Lapse(i)
    BY <1>3, <1>4, <2>2 DEF Lapse, Fault
  <2> QED
    BY <1>5, <2>1, <2>2
<1>6. CASE Age \/ ChangeCode \/ Revoke \/ UNCHANGED vars
  BY <1>2, <1>6 DEF Age, ChangeCode, Revoke, vars, node, run, client
<1>7. CASE Crash
  BY <1>3, <1>4, <1>7 DEF Crash, Fault
<1> QED
  BY <1>1, <1>5, <1>6, <1>7, ClientKeepsRecords DEF Next

\* RecordsOutliveTheirOps (standalone.go:163, 224): as long as nothing failed,
\* CodeHashes finds the record of every pending op, and never ends a run for
\* want of one, with one client and one run at a time.  With two clients, or
\* an op that may be submitted again while it is pending, it is false: SimulateOp
\* then records an op before, and AddOp adds it after, Clean clears its bundle.
THEOREM RecordsAreThere ==
  ASSUME Alone, Payable(Ops \ Intents)
  PROVE  Spec => []RecordsOutliveTheirOps
<1>1. Init => AInv /\ RInv
  <2>1. Init => RInv
    BY DEF Init, RInv
  <2> QED
    BY <2>1, InitPending
<1>2. IInv /\ AInv /\ RInv /\ [Next]_vars => AInv' /\ RInv'
  BY NextKeepsPending, NextKeepsRecords
<1>3. RInv => RecordsOutliveTheirOps
  BY DEF RInv, RecordsOutliveTheirOps
<1> QED
  BY <1>1, <1>2, <1>3, Inductive, PTL DEF Spec

\* Until it is sent, a batch of the relayer has no unsolved intent.
UInv ==
    \A t \in Runners : pc[t] \in {"estimate", "handle", "handleIntents"} =>
        \A o \in ToSet(batch[t]) : ~ IsUnsolvedIntent(o)

\* AddOp, which resets the solution of an op, does so to none in the batch.
LEMMA ClientKeepsSolutions ==
  ASSUME IInv, AInv, UInv, Payable(Intents), NEW c \in Clients, ClientStep(c)
  PROVE  UInv'
<1>1. UNCHANGED <<pc, batch>>
  BY ClientLeavesRuns DEF run
<1>2. CASE UNCHANGED sol
  BY <1>1, <1>2 DEF UInv, IsUnsolvedIntent
<1>3. CASE AddOp(c)
  <2>1. sub[c].at # "idle" /\ sol' = [sol EXCEPT ![sub[c].op] = None]
    BY <1>3 DEF AddOp
  <2>2. ASSUME NEW t \in Runners, pc[t] \in {"estimate", "handle", "handleIntents"},
               NEW o \in ToSet(batch[t]), o \in Intents
        PROVE  sol'[o] # None
    <3>1. o \in Taken
      BY <2>2 DEF Taken, IInv, RunOK
    <3>2. o # sub[c].op
      BY <2>1, <2>2, <3>1, NotHeld DEF Payable
    <3>3. sol[o] # None
      BY <2>2 DEF UInv, IsUnsolvedIntent
    <3>4. sol'[o] = sol[o]
      <4>1. o \in Ops
        <5>1. batch[t] \in Seq(Ops)
          BY DEF IInv, RunTypes
        <5> QED
          BY <2>2, <5>1, ToSetIs
      <4> QED
        BY <2>1, <3>2, <4>1 DEF IInv, Types
    <3> QED
      BY <3>3, <3>4
  <2> QED
    BY <1>1, <2>2 DEF UInv, IsUnsolvedIntent
<1> QED
  BY <1>2, <1>3 DEF ClientStep, Submit, SimulateOp, Rejected, node

\* What SplitBatch chooses is conventional or solved.
LEMMA SplitBatchSolved ==
  ASSUME IInv, Relayer, NEW t \in Runners, SplitBatch(t),
         pc'[t] \in {"estimate", "handle", "handleIntents"}
  PROVE  \A o \in ToSet(batch'[t]) : ~ IsUnsolvedIntent(o)
<1> DEFINE b == ctx[t].batch
           C == {o \in Ops : ~ IsSolvedIntent(o) /\ ~ HasIntent(o)}
           I == {o \in Ops : IsSolvedIntent(o)}
<1>1. b \in Seq(Ops)
  BY DEF IInv, RunTypes, Contexts
<1>2. PICK K \in {C, I} : batch'[t] = Filter(b, K)
  <2>1. \/ batch' = [batch EXCEPT ![t] = Filter(b, C)]
        \/ batch' = [batch EXCEPT ![t] = Filter(b, I)]
        \/ pc' = [pc EXCEPT ![t] = "included"]
    BY DEF SplitBatch, Goto, Conventional, Solved
  <2> HIDE DEF b, C, I
  <2> QED
    BY <2>1 DEF IInv, RunTypes
<1>3. \A o \in C \union I : ~ IsUnsolvedIntent(o)
  BY DEF IsUnsolvedIntent, IsSolvedIntent, HasIntent
<1> HIDE DEF b, C, I
<1>4. ToSet(batch'[t]) \subseteq K
  BY <1>1, <1>2, FilterSet
<1> QED
  BY <1>2, <1>3, <1>4

\* Only SplitBatch makes a batch, and only Estimate passes it on.
LEMMA BatchStays ==
  ASSUME IInv, NEW t \in Runners, RunStep(t) \/ SendSwallowed(t) \/ Abort(t),
         pc'[t] \in {"estimate", "handle", "handleIntents"}
  PROVE  \/ SplitBatch(t)
         \/ pc[t] = "estimate" /\ UNCHANGED <<batch, sol>>
<1> USE DEF Goto, Return, Die, IInv, RunTypes
<1>1. ~ Process(t) /\ ~ DropExpired(t) /\ ~ Select(t) /\ ~ CodeHashes(t) /\ ~ Deposit(t)
  BY DEF Process, DropExpired, Select, CodeHashes, Deposit
<1>2. ~ Solve(t)
  BY SolveEnds
<1>3. ~ HandleOps(t)
  BY DEF HandleOps
<1>4. ~ Wait(t) /\ ~ Timeout(t) /\ ~ SendSwallowed(t)
  BY DEF Wait, Timeout, SendSwallowed
<1>5. ~ Clean(t) /\ ~ RemoveOps(t) /\ ~ Abort(t)
  BY DEF Clean, RemoveOps, Abort
<1>6. CASE Estimate(t)
  BY <1>6 DEF Estimate, node
<1> QED
  BY <1>1, <1>2, <1>3, <1>4, <1>5, <1>6 DEF RunStep

\* Every step keeps UInv.
LEMMA NextKeepsSolutions ==
  ASSUME IInv, Alone, AInv, UInv, Relayer, Payable(Intents), [Next]_vars
  PROVE  UInv'
<1>1. ASSUME NEW t \in Runners, RunStep(t) \/ SendSwallowed(t) \/ Abort(t) PROVE UInv'
  <2>1. ASSUME pc'[t] \in {"estimate", "handle", "handleIntents"}
        PROVE  \A o \in ToSet(batch'[t]) : ~ IsUnsolvedIntent(o)'
    <3>1. CASE SplitBatch(t)
      <4>1. sol' = sol
        BY <3>1 DEF SplitBatch, node
      <4> QED
        BY <2>1, <3>1, <4>1, SplitBatchSolved DEF IsUnsolvedIntent
    <3>2. CASE pc[t] = "estimate" /\ UNCHANGED <<batch, sol>>
      BY <3>2 DEF UInv, IsUnsolvedIntent
    <3> QED
      BY <1>1, <2>1, <3>1, <3>2, BatchStays
  <2> QED
    BY <2>1 DEF UInv, Alone
<1>2. CASE UNCHANGED <<pc, batch, sol>>
  BY <1>2 DEF UInv, IsUnsolvedIntent
<1>3. CASE Die
  BY <1>3 DEF Die, UInv
<1>4. ASSUME NEW i \in 1 .. Len(txs), Mine(i) \/ Lapse(i) PROVE UInv'
  BY <1>2, <1>4 DEF Mine, Lapse, node, run
<1>5. CASE Age \/ ChangeCode \/ Revoke \/ Crash \/ UNCHANGED vars
  BY <1>2, <1>3, <1>5 DEF Age, ChangeCode, Revoke, Crash, vars, node, run
<1> QED
  BY <1>1, <1>4, <1>5, ClientKeepsSolutions DEF Next

\* What is sent is the batch.
LEMMA SentAreSolved ==
  ASSUME IInv, UInv, [Next]_vars, Len(txs') > Len(txs)
  PROVE  \A o \in ToSet(txs'[Len(txs')].ops) : ~ IsUnsolvedIntent(o)
<1>1. txs \in Seq(Handled) /\ Len(txs) \in Nat
  BY DEF IInv, Types
<1>2. ASSUME NEW t \in Runners, HandleOps(t)
      PROVE  \A o \in ToSet(txs'[Len(txs')].ops) : ~ IsUnsolvedIntent(o)
  <2> DEFINE sent == [nonce |-> eoaNonce, ops |-> batch[t], status |-> "pending"]
  <2>1. txs' = txs \/ txs' = Append(txs, sent)
    BY <1>2 DEF HandleOps
  <2>2. sent.ops = batch[t] /\ pc[t] \in {"handle", "handleIntents"}
    BY <1>2 DEF HandleOps
  <2> HIDE DEF sent
  <2>3. txs'[Len(txs')] = sent
    BY <1>1, <2>1
  <2> QED
    BY <2>2, <2>3 DEF UInv
<1>3. ASSUME NEW i \in 1 .. Len(txs), Mine(i) \/ Lapse(i) PROVE Len(txs') = Len(txs)
  BY <1>1, <1>3 DEF Mine, Lapse
<1>4. ASSUME NEW t \in Runners, RunStep(t) \/ SendSwallowed(t) \/ Abort(t), ~ HandleOps(t)
      PROVE  UNCHANGED txs
  BY <1>4 DEF RunStep, SendSwallowed, Abort, Process, DropExpired, Select, CodeHashes, Deposit,
     Solve, SplitBatch, Estimate, Wait, Timeout, Clean, RemoveOps, Die, chain
<1>5. ASSUME NEW c \in Clients, ClientStep(c) PROVE UNCHANGED txs
  BY <1>5 DEF ClientStep, Submit, SimulateOp, AddOp, Rejected, chain
<1>6. CASE Age \/ ChangeCode \/ Revoke \/ Crash \/ UNCHANGED vars
  BY <1>1, <1>6 DEF Age, ChangeCode, Revoke, Crash, Die, chain, vars
<1> QED
  BY <1>1, <1>2, <1>3, <1>4, <1>5, <1>6 DEF Next

\* UnsolvedIntentsAreNotSent (relayer.go:84), whatever the Solver answers, with
\* any faults, with one client and one run at a time: between SplitBatch and
\* HandleOps no op of the batch is added again.  So it is no loss either that
\* sol knows ops and not, as the code does, the objects that stand for them.
THEOREM OnlySolvedAreSent ==
  ASSUME Alone, Relayer, Payable(Intents)
  PROVE  Spec => UnsolvedIntentsAreNotSent
<1> DEFINE SolvedOnly ==
      Len(txs') > Len(txs) => \A o \in ToSet(txs'[Len(txs')].ops) : ~ IsUnsolvedIntent(o)
<1>1. Init => AInv /\ UInv
  <2>1. Init => UInv
    BY DEF Init, UInv
  <2> QED
    BY <2>1, InitPending
<1>2. IInv /\ AInv /\ UInv /\ [Next]_vars => AInv' /\ UInv'
  BY NextKeepsPending, NextKeepsSolutions
<1>3. IInv /\ UInv /\ [Next]_vars => [SolvedOnly]_vars
  BY SentAreSolved
<1> HIDE DEF SolvedOnly
<1>4. Spec => [][SolvedOnly]_vars
  BY <1>1, <1>2, <1>3, Inductive, PTL DEF Spec
<1> QED
  BY <1>4 DEF UnsolvedIntentsAreNotSent, SolvedOnly
=============================================================================
