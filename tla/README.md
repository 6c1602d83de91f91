# A TLA+ verification of the Stackup / BlndGS bundler

The repository is an ERC-4337 bundler in Go: clients send *UserOperations* over
JSON-RPC, the bundler checks them, keeps them in a mempool, and once a second
makes a batch of them, lets an external *Solver* turn *intents* into executable
ops, and sends the batch to the EntryPoint contract, either in a transaction of
its own (private mode, `relay`) or through block builders (searcher mode,
`builder`). The modules here model the parts of it that share state or run
concurrently, and the pure algorithms that decide what is sent.

Paths are relative to `src/`.

## 1. Inventory

| Component | State it keeps | Operations | What makes it correct |
|---|---|---|---|
| `pkg/mempool` | the badger DB (key to op) and the queue (per EntryPoint: `all`, `senders`); no lock | `AddOp`, `RemoveOps`, `GetOps`, `Dump`, `Clear`, `HasUserOpHash`, reload in `New` | both stores hold the same ops; arrival order; a replacement pays more |
| `pkg/bundler` `Process` | the context of a run; the pool through the mempool | dump, the handlers, `RemoveOps` | an op leaves the pool only for a cause, and in the end every op does |
| `pkg/bundler` `Run`/`Stop` | `isRunning`, `stop`, `done`, goroutines | `debug_bundler_setBundlingMode` | one loop in auto mode, none in manual mode |
| `modules/gasprice`, `batch`, `expire` | only `seenAt` | sort, filter, cut, expire | ops are conserved, order, the longest batch under the limit |
| `modules/checks` | code hashes per op hash in the DB | `SimulateOp`, `CodeHashes`, `PaymasterDeposit`, `Clean`, checks of a new op | a record exists while it is required; paymasters can pay |
| `modules/solution` | writes into the ops of the batch, which the mempool shares | `SolveIntents` | a solution goes to its own intent; no answer stops the bundler |
| `modules/relay`, `modules/builder` | the EOA's nonce (on chain) | estimate, send, wait | estimation ends and drops culprits only; a late transaction loses nothing |
| `modules/paymaster` | counts per paymaster in the DB | `CheckStatus`, `IncOpsSeen`, `IncOpsIncluded` | no count is lost, bans end |
| `pkg/client` | none | `eth_*` and `debug_*` methods | a call sees a snapshot and must not act on a stale one; what is looked up is where it was found |
| `pkg/gas`, `pkg/fees` | none | estimates by search and retries against a node | the search ends, its limits suffice, are not far too large, and are admitted when the op is sent |
| `pkg/entrypoint` | none | simulation, tracing, filters, reverts, transactions | what is decoded is what the node said; an unstaked entity touches its own only |
| `pkg/jsonrpc` | none | from a request to a call of `RpcAdapter`, or of the node | every request is answered, under its own id |
| `internal`, `pkg/signer`, ... | none | settings, logging, keys | |

### How they interact

An RPC goroutine calls `Client.SendUserOperation`: it reads the sender's pending
ops (`GetOps`), runs the handler stack on that *snapshot* - the simulation takes
seconds and saves code hashes in the DB - and only then calls `AddOp`. The loop
of `Bundler.Run`, and each `debug_bundler_sendBundleNow`, calls `Process`: it
dumps the queue, runs the handlers `DropExpired, SortByGasPrice,
FilterUnderpriced, SortByNonce, MaintainGasLimit, CodeHashes, PaymasterDeposit,
SolveIntents, SendUserOperation, IncOpsIncluded, Clean` on a context that shares
the *op objects* with the queue, and finally calls `RemoveOps` by key. The chain
mines or does not mine meanwhile. The DB survives a crash; the queue, `seenAt`,
the context and solutions written into ops do not.

Every request runs in a goroutine of the HTTP server, from `jsonrpc.Controller`,
which finds the method and converts its params, to the answer.
`eth_sendUserOperation` goes through `ValidateOpValues` (eight checks at a time,
which leave the stakes they ask for in the context), `CheckStatus`, `SimulateOp`
(a simulation and a trace at a time, the trace judged by those stakes) and
`IncOpsSeen`. Each handler of `modules/paymaster` is one transaction of the DB,
which is refused when a key it read was written meanwhile; on the bundler's side
`IncOpsIncluded` runs after a batch was sent. `eth_estimateUserOperationGas` calls
the node some dozens of times; a lookup reads events, a receipt and a transaction
one after the other. None of them holds a lock while it waits.

### What is hard

Interleaved calls on two stores without a lock; snapshots that are stale when
used; a wait that times out before a late transaction; a crash between two
steps; the same code run by two goroutines; indices used after the batch has
shrunk; loops that must end; searches whose outcome is used later, when prices, bytes
and blocks have changed. `PROJECT.json` lists these hazards at their lines,
each with the properties that are about it.

## 2. Modules

| Module | Models | State and actions |
|---|---|---|
| `Mempool` | `pkg/mempool`, with the clients and runs that call it | `db` and the queue as it lies on the heap: `queue` refers to `set` objects, each with `all`, `score` and `senders`, which refers to sorted sets with what they hold (`sorted`); each thread has the call it is in, the statement it executes next, its arguments and the references it has fetched. One action per statement that touches shared state |
| `MempoolProofs` | | proofs about `Mempool` |
| `BatchHandlers` | the handlers of `modules/gasprice`, `batch`, `expire`, `checks`, `solution`, the fees of `entrypoint/transaction` | operators on a context `[batch, removal, baseFee, tip, gasPrice]`, no state |
| `BatchHandlersProofs` | | what each handler does to any batch |
| `BatchPipeline` | one run from inside | `stage` and `ctx`; one action per handler, any dumped batch, fees and deposits |
| `BatchPipelineProofs` | | proofs about `BatchPipeline` |
| `Bundler` | `Process` among clients, chain, Solver, DB and clock | per runner `pc`, `ctx`, `batch` (`opts.Batch`), `tx`; per client `sub`; the pool; the code hash records; the chain: nonces, revoked ops, transactions |
| `BundlerProofs` | | proofs about `Bundler`, its refinement of `OpLifecycle` among them |
| `BundlingMode` | `Run`, `Stop` and the loops | one action per statement that reads or writes `isRunning`, `stop`, or the channel; `overlapped` is history |
| `BundlingModeProofs` | | proofs about `BundlingMode` |
| `OpLifecycle` | the promise of the bundler, abstractly | ops that are `pending`, `taken` by a run, `sent`, `included`; five actions |
| `OpLifecycleProofs` | | what follows from that promise |
| `NodeAnswers` | `entrypoint/reverts`, `execution`, `simulation`, `pkg/errors` and the predicates of `gas/estimate.go` | operators that decode an error or a trace of the node |
| `Overhead` | `gas/overhead.go`, `gas/pvg.go`, gas and sizes of `userop/object.go` | operators on an op |
| `GasEstimate` | `gas.EstimateGas` and the client around it | the stage, the binary search, the attempts, the limits found; one action per simulation |
| `GasEstimateProofs` | | proofs about one estimation, `EstSpec` |
| `Reputation` | `modules/paymaster` | counts with their age, a transaction per process |
| `Admission` | `userop/parse.go` and the checks of a new op | operators that say whether an op passes and whose stake is known then |
| `TraceValidation` | the rules on opcodes, storage and calls, `pkg/altmempools` | operators on a trace |
| `Lookup` | `entrypoint/filter` and the client around it | the head, the block of each op's transaction, the lookup and where it is |
| `JsonRpc` | `pkg/jsonrpc`, `client/rpc.go` | operators from a request to an outcome |
| `RpcServer` | the requests of several clients, from the controller to the answer, with a bundler, a clock and a chain | composes the seven above: per client what is still to ask, the `stage` of its request, its last answer, the stakes its context knows |
| `RpcServerProofs` | | proofs about `RpcServer` and about the transactions of `Reputation` |
| `MC*` | | small instances for TLC |

`Bundler` uses the operators of `BatchHandlers`, so what `BatchPipeline` checks
on every small batch is what a run of `Bundler` executes. `Mempool` models how
the pool is stored and `Bundler` what happens to the ops in it: there the pool is
one atomic map, which is what `Mempool` shows it to be for keys that no two calls
change at the same time. `Bundler` implements `OpLifecycle` under the refinement
mapping `Lifecycle`: `pending` is the pool, `taken` what the contexts of the runs
hold (those marked for removal included), `sent` what any transaction carries and
`included` what those that succeeded carry.

`RpcServer` extends the modules of the server. Its actions conjoin one action of a
component with what becomes of the request, and leave the variables of the others
alone. A *situation* is chosen in its initial states: what each client asks, the op
it asks about, and what the node says of that op. The op has the fields that any
check compares, and the same op goes through all of them: first it is estimated,
then sent with the limits the estimation returned and its real signature.

### Abstractions

* An op is a record of the fields the handlers compare. Gas is one number (the
  limits plus the static overhead, which `MaintainGasLimit` and
  `ValidateGasAvailable` compute alike), and in `BatchHandlers` the op itself
  stands for its hash. In `Bundler` the hash is the op with the solution written
  into it, so that solving an intent changes its hash. The solution is kept per op,
  whereas in the code it is written into an object, and `AddOp` stores a new object
  for the same op while a run may still hold the old one. The two differ only when an
  op is added that a run holds, which `NotHeld` excludes for one client and one run at
  a time; the runs with intents are like that.
* `Mempool` keeps the identity of every `set` and of every sorted set of a sender:
  `getEntryPointSet` and `getSenderSortedSet` look one up and store a new one when
  they miss, in two steps, and a call goes on with the object it was given, whether
  or not it is still the one the queue refers to. A call of the sorted set library is
  one step, and so is a lookup or a store in the plain map `senders`: the internal data
  races of either, and that Go may end the process on a concurrent map write (`Restart`
  covers the effect), are not modelled. `raced` is a history variable: the keys that
  two calls changed at the same time since the last restart, those of an EntryPoint whose
  set was stored over another, and those of a sender whose sorted set was. `live`
  says whether `m.queue` is still the object the thread loaded (`Clear` replaces
  it).
* `SolveIntents` writes a solution's calldata, gas limits and fees into the op. The
  models keep whose solution it was; the op's gas and fees keep their values, and no
  property speaks of those of a solved op.
* `Bundler` takes the first-seen time of an op as known or unknown, and *aged*
  once the TTL has passed, at any moment.
* A code hash record of an op is present or not, and *changed* when the code of a
  contract it touches differs from it.
* The chain: `handleOps` reverts with the index of the first op that fails
  validation, else it uses up all nonces. The EntryPoint's inner execution, gas
  refunds and deposits are left out. In searcher mode a bundle that would revert
  is not mined, and one may lapse.
* `model.HasIntent` and `model.Validate` belong to the library `blndgs/model`,
  which is not in the repository. `SolvedHasIntent` says what `HasIntent` says
  of a solved intent (TRUE here: `relay` asks `IsSolvedIntent` first, which would
  be pointless otherwise). What the Solver answers is the constant `Answers`;
  `SendToSolver` models how the answer is decoded over the request.
* A call of a handler may fail where the code calls the node, the DB or the
  network (`Abort`, `Rejected`, `TxnFailed`), and the process may end (`Crash`).
* What the node says of limits is a `Scene` of `GasEstimate`: how much
  verificationGas the account needs, and the paymaster after it, what it takes when
  the op is executed too, what callGas it takes and how much of that the tracer
  sees, what the payer can pay for, and the texts of the errors. What the payer pays for is
  both limits and the preVerificationGas that the *request* carries, since every
  simulation is of the op with that one (`CanPay`); the preVerificationGas that is
  returned beside the limits is never tried, in the code or in the model. The verdicts are
  monotone in the limits, as in a contract whose path does not depend on them.
* Bytes are counted, zeros apart from others, and not written out: that is all the
  overhead depends on. A signature is as long as its dummy. What the L1 asks may
  change between the estimation and the check by no more than the buffer
  (`pvgBufferFactor`), which is what the buffer is for. Prices are positive: with an
  op that pays 0 per gas `gas/pvg.go:168` divides by 0.
* A request is the types of its id and params; an argument of the right type may
  still not parse (`NewOp`). The text of an error is left out, its code is not. What
  the node makes of a request passed on to it is one of `NodeOutcomes`, among them an
  `eth_call` that reverts without the string that `jsonrpc/handler.go:655` asserts.
* A trace has, per part of the validation, one access or one opcode that matters;
  the rules judge accesses one by one, and one by one they are enumerated.
* Reputation: time passes in half hours, since `applyExpWeights` counts whole hours
  from the last write. `throttled` is handled as `ok`, as in the code.
* `Lookup`: the chain loses its last block at most, before or between the reads.
* A definition called `X_Y` that follows the comment *Mistake* is a variant of
  `X` with a plausible error. No specification uses it: it shows that the
  properties distinguish the code from such an error.

## 3. Runs

| Run | Bounds | Shows |
|---|---|---|
| `MempoolRaces` | 2 clients, 1 run, 1 key, 2 fees, restarts | every interleaving of two adds, a removal, the creation of the EntryPoint's set and of the sender's, and a restart (394,939 states up to symmetry): DB, `all` and `senders` agree on every key on which no calls raced |
| `MempoolLifecycle` | 1 client, 1 run, 2 nonces, fees 9 and 10, debug methods | the same with `Clear`, with two keys that share the sender's set, and with removals of both, and that a replacement pays a tenth more up to rounding (418,258 states) |
| `MempoolOrder` | 1 client, 1 run, 2 nonces | *violated*: the score of a new op is the size of the set, so after a removal arrival order is lost |
| `Pipeline` | dumps of up to 3 of 13 ops (2 senders, 2 nonces, 3 offers of fee and tip, of different gas, most of them paid by one paymaster, and an intent whose tip is above its fee), base fee, tip and gas price each 0, 2 or nil, 5 deposits | no op is doubled or made up, and one that leaves the batch is marked for removal, offers less than the filter asks, or is behind the gas limit; dearest first, then oldest; neighbours of one sender in nonce order; the longest batch under the limit; the first op `PaymasterDeposit` drops is the first its paymaster cannot pay; the tip of the transaction never passes its fee cap |
| `RelayRetry` | private mode, 3 ops of which one replaces another, 3 submissions, 3 faults | late and reverted transactions, failed calls and crashes: an op leaves the pool only for a cause, and while nothing has failed no op of the pool lacks the code hashes the next run requires; every behaviour is one of `OpLifecycle` |
| `RelayDebug` | debug mode, 2 runners (symmetric), one op per batch, 3 ops, 3 submissions | the loop and `debug_bundler_sendBundleNow` at the same time: an op leaves the pool only for a cause, and every behaviour is one of `OpLifecycle` |
| `RelayIntents` | private mode, 2 intents and a conventional op, a Solver that answers any subset in any order, or garbage, and contracts whose code changes | unsolved intents never reach the EntryPoint |
| `RelaySolutions` | the same, answers in order | *violated*: after one intent was dropped the next solution is written into another op |
| `BuilderEnds` | searcher mode, one op per batch, 2 submissions, 1 fault, expiry, failing validation | an underpriced op, one too big for any batch and a failing one leave the pool in the end, each for a cause, and the estimation loop ends |
| `BuilderLivelock` | searcher mode, 2 ops in one batch | *violated*: when the second op fails the estimation loop never ends |
| `ModeRaces` | 2 debug clients, 2 loops | unless calls have overlapped there is one ticking loop or none, as asked, and a `Stop` is only kept waiting by a run under way or by there being no loop |
| `RpcServer` | 2 clients, some 2300 situations, gas limits up to 300,000 with a cutoff of 30,000 | estimates suffice, are tight and are admitted; what an unstaked entity touches is its own; stakes are known when a trace is judged; counts are exact and bans end; a lookup finds what is there; every request is answered, and under its own id; every simulation brings an estimation nearer to its end |

**Why the bounds are enough.** Two calls at a time on one key, with a third for the
EntryPoint's set, are all that one key needs to diverge, since keys meet only in
the sets and the score, and two keys of one sender meet in `MempoolLifecycle`; the proof
(section 4) has no bound at all. TLC's view of these states (`NoGarbage`) takes an object
of the heap for who refers to it and what it holds, so that objects nothing refers to,
and the names of the others, make no difference, as in the program; it leaves out the
scores, which order what `Dump` returns and decide nothing else, and it has `TypeOK`
in it, so that TLC evaluates the types in every run. `SetIds` and `SortedIds` have as many
members as can be referred to at once: deadlock is checked. Three ops are
the least for a sort to see an element between two others and for an index to be
stale behind a removal. With two senders a batch can hold a good and a bad op;
`ThreeOps` adds one that the sort puts behind both. `MaxSubmits` bounds the calls of
`SendUserOperation`, `MaxFaults` the failed calls, late transactions and crashes:
three of them are a failed call, a late transaction and a crash, in any order. The
two runners of `RelayDebug` differ in nothing and only safety is checked there, so
they are symmetric. When clients compete
without end for a pool of which one op is taken at a time (`MaxBatch = 1`), an op
that is dropped and submitted again may get the score of one that waits and go in
front of it each time; `MaxSubmits` excludes that from the liveness runs. A second
loop is what an overlapped `Run` starts.

The situations of `RpcServer` each vary one part of one in which all goes well:
the request (every method with every list of up to three params of four types,
and each other mistake), the scene of an estimation (what is short where, with and
without a paymaster, on each kind of chain), the JSON of the op, the chain that the
checks see, the fields of the op, the trace with whose stake is known, the counts
with two clients of one paymaster, the lookup with blocks and reorganisations.
Constants are scaled where only their proportion matters: the gas limit is 300,000
and the cutoff 30,000 (four steps of a search, as many as it takes to go up, down
and find the least), `EmaHours`, the denominator and the slack of reputation are 2,
2 and 1 (a ban needs 4 ops seen and none included, two decays end it), the window
of the event filter is 2 blocks of 4. `MaxRetries` is the code's 7, the buffer of
25 percent is that of the code, and so are the constants of the overhead. One client
estimates in a behaviour, since an estimation shares nothing with another one; one
lookup is under way at a time, for the same reason.

**Deadlock** is checked in the `Mempool` runs. `CHECK_DEADLOCK FALSE` is said where
the system may stop: a batch pipeline ends with its batch; the bounded clients of
`Bundler` have nothing more to send and the pool is empty; two calls of `Stop`
wait for ever when there is one loop (`ModeRaces`); clients that have got their
answers are done (`RpcServer`).

**Fairness.** `Bundler.FairSpec`: a goroutine that can go on does (`WF` of each
runner's next step, and the ticker starts a run every second); a transaction that
can be mined is mined; time passes for an op the expire handler has seen. Nothing is
assumed of clients, faults, the Solver or changes of code. `BundlingMode.FairSpec`:
a call and a run go on, and a `select` with two ready channels picks at random,
hence strong fairness for the send on `done`. `RpcSpec`: the goroutine of each request
and the bundler go on, and time passes; blocks need not come. `BanEnds` holds though
a client asks again and again: `CheckStatus` returns before it commits what it
wrote.

### Where the code and its comments disagree

Three of the disagreements are runs: `MempoolOrder`, `RelaySolutions` and
`BuilderLivelock`, with the comment quoted above the property. The models show the
following ones too; they have no run of their own.

* `mempool/queue.go:17`: `getSenderSortedSet` looks the sender up in a plain map and
  stores a new sorted set when it misses, without a lock. Of two first users the
  later stores over the other's: an op that is in the DB and dumped is then not found
  by `GetOps`, and a cheaper op may replace it. A call may also write to a set that was
  replaced since it fetched it. The same goes for the set of an EntryPoint (line 35),
  whose ops are not even dumped. `raced` marks these keys, and the properties speak of
  the others.
* `mempool/instance.go:64,86`: `AddOp` and `RemoveOps` change the DB and the queue
  without a lock. When two calls race on a key the op may stay in one of them only,
  until a restart. `AgreeUnlessRaced` is the exact statement of what remains true.
* `client/client.go:130`: the pending ops are a snapshot. Two clients that add ops of
  one unstaked sender exceed the cap of `checks/pendingops.go:60`, and of two
  replacements the one that pays less may come last.
* `mempool/instance.go:30`: `HasUserOpHash` looks the hash up among keys made of
  prefix, EntryPoint, sender and nonce (`mempool/db.go:17`), and finds nothing: a
  receipt is never said to be pending (`Lookup.HasUserOpHash`).
* `jsonrpc/handler.go:547`: the answer of the node is passed on with the id as it is
  printed: a string id lacks its quotes and a null id is no JSON
  (`sendRawJson`). Line 558: `eth_call` without an array of params, or with a block
  that is no string, panics (`handleEthCallRequest`); the server's recovery answers
  with status 500. `AnswersFitTheirRequests` is about the bundler's own methods.
* `jsonrpc/handler.go:498`: the case of a method does not matter when it is told from
  the node's, and does when it is looked up. `DebugDumpBundlerState` of the adapter
  is not among the bundler's methods and is passed to the node.
* An error that is no `RPCError`, such as that of a banned paymaster or a conflict
  in the DB, is answered with -32601, "method not found" (`jsonrpc/handler.go:465`).
* A solved intent is included under the hash of the solved op: a lookup by the hash
  the client was told misses it (`LookupsAreRight` excepts it).
* `checks/standalone.go:145`: code hashes are saved before `IncOpsSeen`, which may
  refuse the op; they stay in the DB.
* `modules/batch/sort.go:13`: the less function orders only ops of one sender, so the
  sort does not order two of them around an op of another (`NeighboursInNonceOrder`
  is what is left of the comment at line 9).
* `checks/standalone.go:216`: `PaymasterDeposit` ranges over the batch as it was and marks
  by the index there; after the first removal the mark hits the neighbour, or nothing,
  and an op that is not paid for stays, though line 183 says the handler "ensures it
  has enough deposit to pay for all the UserOps that use it". On the instance of
  `Pipeline` TLC reaches it with two ops of a paymaster without a deposit: the first is
  dropped, the index of the second is beyond what is left, and it is sent.
  `FirstDropIsUnpaid` speaks of the first drop, which is what remains true.
* `gasprice/filter.go:25` and `batch/gaslimit.go:29` leave ops out of the batch without
  marking them: they wait in the pool until they fit or expire, and no client is told.
* `jsonrpc/handler.go:655`: an `eth_call` whose revert carries no string panics
  (`AnswerOfNode`).
* `checks/gas.go:24` admits an op of exactly the batch gas limit, and
  `batch/gaslimit.go:29` never batches it (`b0g` of `BuilderEnds`).
* `relay/relayer.go:96`: the relayer's estimation loop has the flaw of the builder's.
  A transaction mined after its wait timed out is enough: the op is still in the
  pool and every estimate of it reverts.
* `builder/client.go:86`: when the first of two ops fails, the second round marks
  the valid op that has moved to its index. `BuilderEnds` has one op per batch, where
  `RemovedForCause` holds.
* `builder/client.go:146`: a wait of 0 is not skipped (line 55 says so) but fails.
* `relay/relayer.go:117,132`: solved intents are not sent in a batch that holds
  conventional ops, and when they are sent errors, timeouts and reverts are dropped;
  the ops are removed from the pool in either case. So `RemovedForCause` is not
  claimed of intents.
* `solution/solveintents.go:126`: an intent that the Solver leaves unsolved is marked
  for removal and removed, though `bundler.go:172` keeps such intents for the next
  run; and at line 134 a stale index may be outside the batch, a panic that ends
  the process.
* `checks/standalone.go:235`: a crash or an error between `Clean` and `RemoveOps`
  leaves ops whose code hashes are gone; `CodeHashes` then ends every run until the
  TTL drops them. `RecordsOutliveTheirOps` is claimed up to the first fault.
* The same happens without a fault when two clients submit one op: both are checked,
  one is added, sent and cleaned up, and only then the other calls `AddOp`.
  `client/client.go:143` checks nothing again, so the pool holds an op whose code
  hashes are gone, and `checks/standalone.go:163` ends every run. With one client
  at a time and fees from 10 wei it does not: `RecordsAreThere` in section 4.
* `checks/pendingops.go` asks of a replacement a tenth more than the fee, in whole
  numbers: below 10 wei that is nothing, and an op of equal fees replaces another.
* `checks/standalone.go:77`: the fees of intents are not checked. Their tip may be
  above their fee, which is why `TipWithinFeeCap` speaks of batches of conventional ops.
* `expire/expire.go:31`: `seenAt` is never cleared, so an op that is sent again after
  it was dropped has expired.
* `bundler.go:210-247`: overlapping calls of `Run` and `Stop` leave auto mode without a
  loop that ticks, or manual mode with one. `overlapped` marks those behaviours.

## 4. Proofs

`MempoolProofs` proves for all constants (any finite set of keys, any number of
clients and runs, both settings of `Debug`):

* `TypeCorrect`: `Spec => []TypeOK`. `TypeOK` is not inductive: which locals a
  call has set depends on the statement it is at, so it is strengthened with
  `Local`.
* `AgreementCorrect`: `Spec => []AgreeUnlessRaced`. The strengthening `Alone` says
  what a call in progress leaves behind: while it changes a key that has not
  raced it is the only one, the DB already holds the result, it works on the `set`
  the queue holds and on the sorted set that one lists for the sender (on none that
  was replaced), and after its first queue write that copy holds the result too. Each
  action then has a lemma: the fetch and the creation of either set, the DB write
  that starts a change, the write to `all`, the last write to the sender's set that
  ends it, `Clear`, and the restart. `IInv` is the conjunction. `MakeSenderStep` is the
  lemma about the unlocked store of `queue.go:18`: the first user of a sender changes
  nothing, since no key of the sender is listed yet, and any later one races all of them.
* `ReplacementsPay`: `OneClient => (Spec => ReplacementBumpsFee)`: with one goroutine
  that serves `eth_sendUserOperation`, and any number of runs, a replacement pays a tenth
  more, rounded down to whole wei, unless its key is raced. `Outbids` follows an op from
  the fetch of the sets to the write: the sets that `GetOps` reads are the ones the queue
  refers to, or the key is raced, as when a run that removes an op of another nonce
  stores its sender's set over the client's; and once checked, what the DB holds under
  the op's key is cheap enough or gone. `IInv` is what carries the check on the sender's
  set over to the DB. With two clients it is false (section 3).

`BundlingModeProofs` proves `ModeInductive`: `Spec => []ModeInv`, and from it
`ModeCorrect`: `Spec => []ModeIsExact`, for any number of callers and of loops.
`ModeInv` is the strengthening: unless calls have overlapped one call at most is
under way, and it says for each statement of `Run` and `Stop` which loops live and
whose ticker runs.

`BatchHandlersProofs` says what every handler does to any context: it is *reduced*,
that is, no op is copied or made up. For those that `BatchPipeline` runs it says
what becomes of each op too: the sorts lose none (`SortByGasPriceReduces`,
`SortByNonceReduces`), and what `PaymasterDeposit` takes out of the batch is marked
(`PaymasterDepositHolds`, from `HeldCount` and `MarkLists`). `FilterUnderpriced` and
`MaintainGasLimit` leave ops out unmarked; which ones is part of `Conserved` below.
The handlers are folds, which the community modules define by recursion
over sets. Their theory is built here from the least element of a set of naturals
(`Least`, `Induct`): `FoldExists` and `FoldType` give a fold over any finite
segment, and `WalkOfFold` makes it a *walk*, a function from how much of the batch
was visited to the value so far. `WalkKeeps` is then an induction that any handler
can use with a set of values in place of a formula, and `SliceStableOrder`,
`SliceStableNeighbours`, `GasOfPrefixes`, `TipsAtMostFees` and
`PaymasterDepositWalk` are what the sorts, the sums and the deposit loop need of it.

`BatchPipelineProofs` proves all that the run `Pipeline` checks, for any dump, fees
and deposits: `TypeCorrect`, `Conserved` (`OpsAreConserved`, step by step: nothing made
up or doubled, no mark forgotten, and each op that a handler takes out accounted
for), `DearestFirst` (`DearestFirstThenOldest`), `NeighboursOrdered` (`NeighboursInNonceOrder`), `Longest`
(`LongestBatchUnderTheLimit`), `Capped` (`TipWithinFeeCap`) and `FirstDropped`
(`FirstDropIsUnpaid`). The type invariant carries the induction: the batch and the
ops marked are parts of the dump, and no op is in them twice. Two of the proofs are
about arithmetic. `Capped` compares two means that are rounded apart from each other
(`QuotientsInOrder`), and needs that the checks let no conventional op pass whose
tip is above its fee; the base fee may be nil. `FirstDropped` compares the loop
of `PaymasterDeposit`, which walks forward and marks by index, with what the
property says of it, the sum of the prefunds of the ops before (`PrefundWalk`,
`DueIs`).

`OpLifecycleProofs` proves `Promise`: `OpLifecycle!Spec => [](OncePerKey /\
IncludedWereSent)`, for any set of ops. No strengthening is needed: `Accept` puts
an op in the place of its key, the other actions only shrink `pending`, and
`Include` takes sent ops of new keys.

`BundlerProofs` is about runs, clients, the Solver and the chain together, for any
finite set of ops, any number of runs and clients, any bounds of faults and
submissions, in both modes:

* `TypeCorrect`: `Spec => []TypeOK`, from the inductive `IInv`, which has four parts.
  `Types` and `RunTypes` are the ranges of the variables. `RunOK` relates the locals of
  a run: a context holds no op twice, an idle run holds none, the batch under
  estimation is among the ops that the run holds (for the relayer's `opts.Batch`
  is not `ctx.Batch`, and ops may be marked meanwhile), and a run that waits has
  sent what it waits for. `ChainOK` is about the chain: the EOA's nonce never runs
  ahead of what was sent, and what succeeded used up the nonces of its senders, each
  once. Each action has a lemma.
* `Implements`: `Spec => ImplementsLifecycle`. Under the mapping of section 2 a
  step is a step of `OpLifecycle` or a stutter. `AddOp` is `Accept`; the dump is
  `Take`; to send is `Send`, since a run holds what it sends; a transaction that
  succeeds is `Include`, since the chain accepts only nonces that were not used
  (`ChainOK`). Everything by which a run lets go of ops is `Release`: `RemoveOps`,
  whose keys the run held, and the end, the failure and the crash of a run. A handler
  only narrows what the run holds, by `BatchHandlersProofs`.
* `OncePerKey` is `Promise` under the mapping: at any time one op of a key is in the
  pool, one is included, and no op is included that the bundler did not send.
* `OnlyForCause`: `MarksHit` implies `Spec => RemovedForCause`. `CInv` says of the ops
  that a run holds, stage by stage, why they may go: each was found at fault, or
  is in the batch that is estimated, or in the transaction the run waits for, or
  its nonce has been used, which stays so as nonces only grow (`NextGrows`,
  `CauseStays`). `MarksHit` is private mode without intents, or searcher mode with one
  op per batch. Without it the property is false, not only unproved: see `BuilderLivelock`,
  and `builder/client.go:86` and `relay/relayer.go:117` in section 3.
* `RecordsAreThere`: `Alone` and `Payable(Ops \ Intents)` imply `Spec =>
  []RecordsOutliveTheirOps`. `Alone` says that there is one client and one run at a time,
  and `Payable` that fees are 10 wei or more. This is the situation in which
  nothing happens behind the back of a run, which `AInv` puts in two parts:
  what a run holds is still in the pool or was replaced there by an op at least as dear
  (`PoolKeeps`), and what `Submit` compared with the pool is still true when `AddOp`
  comes (`Dearer`). So the client never adds an op that a run holds (`NotHeld`).
  `RInv` then says that an op of the pool has its record, unless it is held and about
  to be removed, and that one that was simulated has it already. On the
  instance of `RelayRetry` with a second client, or with a fee of 9 wei, TLC finds
  the property violated, as section 3 describes. With a second run it does not,
  on that instance, but `NotHeld` is false then and the proof needs it.
* `OnlySolvedAreSent`: `Alone`, private mode and `Payable(Intents)` imply `Spec =>
  UnsolvedIntentsAreNotSent`, whatever the Solver answers and with crashes and faults.
  `UInv` is that the batch that `SplitBatch` made holds no unsolved intent until
  it is sent. `AddOp`, which takes the solution away from an op, takes it from none of
  these by `NotHeld`. Searcher mode does not split its batch, so the theorem
  is about private mode; with a second client or a second run the property is false in the
  model (section 2, Abstractions).

`GasEstimateProofs` proves `Enough` and `Tight`: `EstSpec => []EstimateIsEnough` and
`EstSpec => []EstimateIsTight`, for every scene, batch gas limit, cutoff, buffer and
number of retries. `EstSpec` is one estimation, as a request of `RpcServer` goes
through it. Neither property is inductive, and `EstInv` is the strengthening. It
says of both searches that what is below `lo` is not enough and that a limit that
was found is enough, can be paid for, and is the one just above `hi`; and of a retry
that it starts above what the verification alone needs and below what all of it
needs. It rests on lemmas about the node's answers as the code decodes them
(`Simulated`, `TracedPaid`, `TracedUnpaid`: which error tells which side of the
limits it is on) and on `CanPayLess`: who can pay for more gas can pay for less,
so that an unpaid prefund never lies below a limit that was found. "Paid for" is
with the preVerificationGas of the request, which is in every simulation. That the node
behaves like that is the assumption of `Scene`, not a result.

It also proves `Advances`: `EstSpec => EstimationAdvances`. This is the safety part
of "the search ends": `StepsLeft` is a natural number that every step lowers, so
that an estimation cannot make more simulations than it says at its start, whatever
the node answers. It counts the retries that are left, then the stages of this
attempt, then what a search has still to look at (`hi - lo`), each worth more than
all that comes after it. `EndInv` is what it needs: `SearchTypes`, the ranges of
the searches, and that no search looks above `MaxGasLimit`. `Counted` shows
the three to be numbers, `SearchShrinks` is the step of either search, `LaterStage`
and `RetryAdvances` are the steps between stages. That a request does end
(`RequestsEnd`) takes the fairness of its goroutine besides.

`RpcServerProofs` is about the server, for any finite set of clients, any requests,
situations, chains and paymasters that `RpcAssumption` admits. What stays as it was
chosen, the situation and all of the op but its gas, prices and signature, is
`SceneOK`, which most of the theorems use.

* `UpdatesAreExact`: `RepSpec => [][CommitsAreExact]_repVars`, for any processes that use
  the DB in any order: a handler that ends writes what it would have written had it
  run alone, to the counts of that moment, or it is refused. The invariant is
  `SnapshotsHold`: what an open transaction read is what is stored, but for the keys
  in `overwritten`, also when time passes. That the DB detects conflicts like that is
  the part of badger that is taken as external.
* `CountsAreCounts`: `RepSpec => [](counts \in [Paymasters -> Counts])`. The counts
  decay by a function that is defined by recursion over the hours, and no theorem of
  the library about such functions can be used (they take a formula as
  parameter). The induction is made by hand, from the least hour at which a set of
  hours ends (`LeastHour`, `HourByHour`): `FadingExists` gives the function,
  `FadingFades` its values and `DecayFades` what matters of them, that a decay makes no
  count larger and none negative.
* `ServerTyped`: `RpcSpec => []RpcTypeOK`, the state of the server as it is declared. It
  puts together `CountsAreCounts`, `SearchTypes`, `ReqInv` and `AdmInv` below, with
  `ServerTypes` for the rest, among it that a batch under way is part of the pool.
* `CountsExact`: `RpcSpec => CountsAreExact`, the same as `UpdatesAreExact`, of the
  requests and batches that run these handlers. `CountInv` adds to `RepInv` which
  stages have a transaction open
  (`InTransaction`), so that the transaction that ends is the one that was begun for
  this op or batch. The proof corrected the property: a batch without ops of a
  paymaster leaves its counts as they are, decayed or not.
* `EnoughInServer` and `TightInServer`: `Enough` and `Tight` of every estimation of the
  server. A step of `RpcServer` is one of `EstSpec` or leaves its variables alone
  (`StepOfEstimation`), so whatever holds of `EstSpec` holds in the server.
* `AdvancesInServer`: `RpcSpec => EstimationAdvances`, by the same lemma.
* `EstimatesAdmitted`: `RpcSpec => []EstimatedOpsAreAdmitted`. Beside `EstInv` it needs
  `ReqInv` (an estimation is under way only in a situation where one was asked for)
  and `PricedInv` (the op has a price then, and the preVerificationGas is what the
  buffered formula gives for the L1 of that moment). The rest is arithmetic about
  `Overhead`: an op is packed with constants in the place of its limits and with a
  signature of as many bytes, none of them zero, so that the static part is the
  same before and after (`Sanitized`), and a buffer of 16 or 1 per cent, rounded down and added to the
  static part too, is no less than an L1 that has become dearer by as much
  (`ArbitrumBuffer`, `OptimismBuffer`).
* `StakesAsked` and `OwnTouched`: `RpcSpec => []StakesAreKnown`, `RpcSpec =>
  []PooledOpsTouchTheirOwn`, from `AdmInv`: from the checks to the trace the context
  knows the stakes of the sender, the factory and the paymaster (`Known`), and once a
  request is past the trace, or the pool holds its op, the accesses of that trace are
  allowed (`Owns`).
* `LookupsFind`: `RpcSpec => []LookupsAreRight`. `LookInv` says per step of a lookup what
  it has learnt: the window's first block is one that is `Window` below the head or
  older, also as blocks come, and the event that was found is that of the block where
  the op is (`Found`). `Steady` chains only: a reorganisation takes it all back.
* `AnswersFit`: `RpcSpec => AnswersFitTheirRequests`, from `ReqInv`: what a client has
  still to ask is part of what it was given to ask, and a request under way is there.

`RpcAssumption` says what the code reads from JSON and from the chain: requests are
records of the parts that the controller looks at, ops have fields that are numbers,
and prices are numbers. For `EstimatesAdmitted` it says more of situations in which an
estimation is asked for: the L1 answers, it becomes dearer by no more than the buffer
until the op is checked, and the price of gas does not fall meanwhile (`L1Keeps`). Without
that an estimate is refused and rightly so. The situations without an estimation are
free of it, and the L1 fails in some.

The assumptions are `MempoolAssumption` (fees and the cap are numbers, nil is none
of the values, finitely many keys), `BundlingModeAssumption`, `GasAssumption` (a
cutoff above 1 and no larger than the batch gas limit, and scenes whose error about
too little gas is none about the payment), `ReputationAssumption`, `RpcAssumption`, `OpsAreValid` (the
fields of an op are numbers, `userop/parse.go:83`, and the tip of one that passed
the checks is at most its fee), `NumbersAssumption` and `AnswersAssumption` (the
answers of the Solver are sequences of hashes with a status,
`solution/solveintents.go:120`); TLC evaluates them in the runs.

What stays with TLC:

* Liveness under fairness, which this prover does not do: `OpsLeaveThePool`,
  `EstimationEnds`, `BanEnds`, `StopGetsThrough` and `RequestsEnd`. Of the last,
  `Advances` proves the part that is no liveness.
* The three properties that the code does not have (`MempoolOrder`, `RelaySolutions`,
  `BuilderLivelock`).

Every other property of a run has a theorem. Four of the theorems have hypotheses
beyond the assumptions on the constants, since the property is false without them:
`ReplacementsPay` (one client), `OnlyForCause` (`MarksHit`), `RecordsAreThere` and
`OnlySolvedAreSent` (`Alone` and `Payable`). The runs that check these properties are
of that kind.

## 5. Not modelled

* The sorted set's internals, hashing, packing, encoding: no property is about them.
* The EntryPoint's accounting, the node's EVM, the tracers (they run in the node).
* `pkg/entrypoint/bindings.go` and the other bindings are generated; it alone is a
  fifth of the implementation's lines.
* Settings, logging, metrics, keys: they have no behaviour of their own, and the
  settings that decide something are CONSTANTS.
* `pkg/state/override.go` decodes JSON into the overrides of a call: a scene says
  whether the sender's state was given.
* The layout of what `eth_getUserOperationByHash`, the receipts and the dumps
  return: the fields are copied from what was found.
* The garbage collection of the DB (`internal/start/db.go`): badger's own.
* Scripts, end-to-end tests and mocks.

## 6. Plan

Done, in this order: `Mempool` and its proofs; `BatchHandlers` and `BatchPipeline`;
`Bundler`; `BundlingMode` and its proof; `OpLifecycle`, its refinement by `Bundler` and
its proof; the server (`JsonRpc`, `GasEstimate`, `Overhead`, `NodeAnswers`, `Admission`,
`TraceValidation`, `Reputation`, `Lookup`), composed in `RpcServer`; the
proofs about `GasEstimate` and `Reputation`; the proofs about the handlers, about
`BatchPipeline` and about `Bundler` with its refinement of `OpLifecycle`;
the proofs about `RpcServer`, with its types, the decay of the counts and the measure of an
estimation; the proofs about one client and one run of `Bundler`.

What could come next:

1. `OpsLeaveThePool` in private mode from `Spec` with a measure, as `StepsLeft` is one
   for an estimation: what is left of a run's stages and of its estimation loop, beside what
   fairness has to give.
2. The solution with the object that carries it, not with the op (section 2,
   Abstractions), for runs with intents and several clients.
3. The pool of `Bundler` as a refinement of the stores of `Mempool`, up to the keys
   that were raced.
