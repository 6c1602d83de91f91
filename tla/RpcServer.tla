------------------------------ MODULE RpcServer ------------------------------
(***************************************************************************)
(* The server: every request of a client is handled by a thread of its own *)
(* (JsonRpc), which estimates gas (GasEstimate), takes an op through the   *)
(* handlers of the client into the pool (Admission, Reputation,            *)
(* TraceValidation), or looks an op up (Lookup), while the bundler relays  *)
(* and counts.  The pool itself is in Mempool, a bundler run in Bundler.   *)
(*                                                                         *)
(* A situation is what the clients are about to ask, for one op each that  *)
(* differ only in their sender, and what the chain says of such an op:     *)
(*   requests     for every client the sequence of its requests            *)
(*   scene, view, trace, raw   as in GasEstimate, Admission...             *)
(*   simulation   [error, sigFailed, validUntil] of simulateValidation     *)
(*   counts       the paymasters' counts in the DB                         *)
(*   direct       whether bundles call the EntryPoint directly             *)
(*   moves        whether blocks come                                      *)
(***************************************************************************)
EXTENDS JsonRpc, GasEstimate, Admission, TraceValidation, Reputation, Lookup

CONSTANTS
    Clients,
    Situations,
    DebugMode,
    Now

BundlerProcess == "bundler"

\* What the controller decodes a request to, and userop.New an op.
HttpRequests ==
    [posted : BOOLEAN, readable : BOOLEAN, object : BOOLEAN, id : STRING, version : BOOLEAN,
     method : STRING, array : BOOLEAN, params : Seq(STRING), callOk : BOOLEAN, blockOk : BOOLEAN]

IsOp(op) ==
    op \in [sender : {op.sender}, intent : BOOLEAN,
            initCode : [len : Nat, address : {op.initCode.address}],
            paymasterAndData : [len : Nat, address : {op.paymasterAndData.address}],
            vgl : Nat, cgl : Nat, pvg : Nat, maxFee : Nat, maxTip : Nat,
            signature : [zero : Nat, nonZero : Nat], rest : [zero : Nat, nonZero : Nat]]

\* From the estimation to the check the L1 becomes dearer by no more than the
\* buffer that is there for it, and the price that turns its fee into gas does
\* not fall.
L1Keeps(before, after) ==
    LET growth == 1000 + 10 * pvgBufferFactor(before.chain)
    IN  /\ after.chain = before.chain
        /\ before.chain = "arbitrum" => 1000 * after.gas <= growth * before.gas
        /\ before.chain = "optimism" =>
                /\ 1000 * after.fee <= growth * before.fee
                /\ 0 < before.baseFee /\ before.baseFee <= after.baseFee

EstimatesGas(s) ==
    \E c \in Clients : \E i \in 1 .. Len(s.requests[c]) :
        s.requests[c][i].method = "eth_estimateUserOperationGas"

ASSUME RpcAssumption ==
    /\ LookupOps = Clients /\ IsFiniteSet(Clients)
    /\ RepProcesses = Clients \union {BundlerProcess} /\ BundlerProcess \notin Clients
    /\ \A l1 \in L1s \union {s.view.l1 : s \in Situations} :
            l1.gas \in Nat /\ l1.fee \in Nat /\ l1.baseFee \in Nat
    /\ \A s \in Situations :
            /\ s.requests \in [Clients -> Seq(HttpRequests)]
            /\ IsOp(s.scene.op) /\ GetPaymaster(s.scene.op) \in Paymasters \union {NoAddress}
            /\ EstimatesGas(s) =>
                    /\ "l1" \notin s.view.fails
                    /\ \A l1 \in L1s : l1.chain = s.scene.chain => L1Keeps(l1, s.view.l1)

VARIABLES
    situation,
    todo,       \* of every client the requests to come
    stage,      \* of every client where its request is
    answers,    \* of every client the last answer
    known,      \* of every client's context the addresses whose stake is known
    pool,       \* the clients whose op is in the pool
    batch       \* those whose op is in the batch that was just relayed

sendVars == <<todo, stage, answers, known, pool, batch>>
rpcVars  == <<situation, sendVars, estVars, repVars, lookVars>>

Stages == {"idle", "estimate", "send", "checked", "status", "vetted", "simulated", "seen",
           "counted", "lookup"}

RpcInit ==
    /\ situation \in Situations
    /\ todo = situation.requests
    /\ stage = [c \in Clients |-> "idle"]
    /\ answers = [c \in Clients |-> [kind |-> "none"]]
    /\ known = [c \in Clients |-> {}]
    /\ pool = {} /\ batch = {}
    /\ scene = situation.scene /\ EstInit
    /\ counts = situation.counts /\ RepInit
    /\ head = 0 /\ LookInit

At(c, from, to) == stage[c] = from /\ stage' = [stage EXCEPT ![c] = to]

\* The request of c is answered.
Answered(c, from, answer) ==
    /\ At(c, from, "idle")
    /\ answers' = [answers EXCEPT ![c] = answer]
    /\ todo' = [todo EXCEPT ![c] = Tail(@)]

MethodFails(c, from, code) == Answered(c, from, Error(code, OfRequest))
-----------------------------------------------------------------------------
(* Requests.                                                               *)

StageOf(method) ==
    CASE method = "eth_sendUserOperation" -> "send"
      [] method = "eth_estimateUserOperationGas" -> "estimate"
      [] method \in {"eth_getUserOperationReceipt", "eth_getUserOperationByHash"} -> "lookup"
      [] OTHER -> "idle"

\* The methods that answer at once are in Mempool, Bundler and BundlingMode:
\* those of debug mode may fail.
HandleRequest(c) ==
    /\ stage[c] = "idle" /\ todo[c] # <<>>
    /\ LET request == Head(todo[c])
           outcome == Controller(request)
       IN  \/ outcome.kind \notin {"call", "node"} /\ Answered(c, "idle", outcome)
           \/ /\ outcome.kind = "node"
              /\ \E node \in NodeOutcomes : Answered(c, "idle", AnswerOfNode(request, node))
           \/ /\ outcome.kind = "call" /\ StageOf(outcome.method) = "idle"
              /\ \/ Enabled(outcome.method, DebugMode) /\ Answered(c, "idle", Result)
                 \/ RpcAdapter[outcome.method].debug /\ MethodFails(c, "idle", NoRPCError)
           \/ /\ outcome.kind = "call" /\ StageOf(outcome.method) # "idle"
              /\ At(c, "idle", StageOf(outcome.method)) /\ UNCHANGED <<todo, answers>>
    /\ UNCHANGED <<situation, known, pool, batch, estVars, repVars, lookVars>>

\* One estimation in a behaviour.
Estimate(c) ==
    /\ stage[c] = "estimate"
    /\ \/ (EstimateUserOperationGas \/ EstimateStep) /\ UNCHANGED <<todo, stage, answers>>
       \/ estimating = "ok" /\ Answered(c, "estimate", Result) /\ UNCHANGED estVars
       \/ estimating = "err" /\ MethodFails(c, "estimate", NoRPCError) /\ UNCHANGED estVars
    /\ UNCHANGED <<situation, known, pool, batch, repVars, lookVars>>

\* One lookup at a time.
Look(c) ==
    /\ stage[c] = "lookup"
    /\ looking.step # "idle" => looking.op = c
    /\ \/ /\ \/ BeginLookup(Head(todo[c]).method, c)
             \/ BlockNumber \/ FilterEvents(~ scene.op.intent)
             \/ TransactionReceipt \/ TransactionByHash(situation.direct) \/ LookupFails
          /\ UNCHANGED <<todo, stage, answers>>
       \/ /\ LookupEnded
          /\ looking' = Idle /\ UNCHANGED <<head, block, steady>>
          /\ IF looking.step \in {"found", "pooled"} THEN Answered(c, "lookup", Result)
             ELSE MethodFails(c, "lookup", NoRPCError)
    /\ UNCHANGED <<situation, known, pool, batch, estVars, repVars>>
-----------------------------------------------------------------------------
(* eth_sendUserOperation.                                                  *)

\* The op that c sends: after an estimation with the limits it was told and a
\* signature as long as the dummy that it had.
OpOf(c) ==
    IF estimating # "ok" THEN scene.op
    ELSE [scene.op EXCEPT !.vgl = vgl, !.cgl = cgl, !.pvg = pvg,
                          !.signature = [zero |-> 0, nonZero |-> Size(@)]]

PaymasterOf(c) == GetPaymaster(OpOf(c))

ValidateValues(c) ==
    /\ stage[c] = "send"
    /\ \/ ~ NewOp(situation.raw) /\ MethodFails(c, "send", NoRPCError) /\ UNCHANGED known
       \/ /\ NewOp(situation.raw)
          /\ \E op \in {OpOf(c)} : \E verdict \in {ValidateOpValues(op, situation.view)} :
                /\ known' = [known EXCEPT ![c] = verdict.known]
                /\ IF verdict.ok THEN At(c, "send", "checked") /\ UNCHANGED <<todo, answers>>
                   ELSE MethodFails(c, "send", -32602)
    /\ UNCHANGED <<situation, pool, batch, estVars, repVars, lookVars>>

\* Without a paymaster the transaction does nothing.
BeginStatus(c) ==
    /\ IF PaymasterOf(c) = NoAddress THEN At(c, "checked", "vetted") /\ UNCHANGED txns
       ELSE At(c, "checked", "status") /\ BeginTxn(c)
    /\ UNCHANGED <<situation, todo, answers, known, pool, batch, counts, estVars, lookVars>>

\* A client whose paymaster is banned tries again.
EndStatus(c) ==
    /\ stage[c] = "status"
    /\ CheckStatus(c, PaymasterOf(c))
    /\ CASE StatusPasses(c, PaymasterOf(c)) ->
                At(c, "status", "vetted") /\ UNCHANGED <<todo, answers>>
         [] Banned(c, PaymasterOf(c)) ->
                /\ At(c, "status", "idle") /\ UNCHANGED todo
                /\ answers' = [answers EXCEPT ![c] = Error(NoRPCError, OfRequest)]
         [] OTHER -> MethodFails(c, "status", NoRPCError)
    /\ UNCHANGED <<situation, known, pool, batch, estVars, lookVars>>

\* The two halves of SimulateOp; if both refuse the op either may answer.
ValidationCodes ==
    LET v == situation.simulation
    IN  CASE SimulateValidation(v.error) # Ok -> {-32500}
          [] SimulateValidation(v.error) = Ok /\ v.sigFailed -> {-32507}
          [] OTHER -> IF v.validUntil # 0 /\ Now >= v.validUntil - 30 THEN {-32503} ELSE {}

TraceCodes(c) ==
    IF /\ TraceSimulateValidation(OpOf(c), situation.trace, known[c] \cap situation.view.staked)
       /\ TouchedContracts(situation.trace) # {} => "code" \notin situation.view.fails
    THEN {} ELSE {-32502}

SimulateOp(c) ==
    /\ LET codes == IF OpOf(c).intent THEN {} ELSE ValidationCodes \union TraceCodes(c)
       IN  \/ codes = {} /\ At(c, "vetted", "simulated") /\ UNCHANGED <<todo, answers>>
           \/ \E code \in codes : MethodFails(c, "vetted", code)
    /\ UNCHANGED <<situation, known, pool, batch, estVars, repVars, lookVars>>

BeginSeen(c) ==
    /\ IF PaymasterOf(c) = NoAddress THEN At(c, "simulated", "counted") /\ UNCHANGED txns
       ELSE At(c, "simulated", "seen") /\ BeginTxn(c)
    /\ UNCHANGED <<situation, todo, answers, known, pool, batch, counts, estVars, lookVars>>

EndSeen(c) ==
    /\ stage[c] = "seen"
    /\ IncOpsSeen(c, PaymasterOf(c))
    /\ IF Refused(c, SeenWrites(c, PaymasterOf(c))) THEN MethodFails(c, "seen", NoRPCError)
       ELSE At(c, "seen", "counted") /\ UNCHANGED <<todo, answers>>
    /\ UNCHANGED <<situation, known, pool, batch, estVars, lookVars>>

AddToPool(c) ==
    /\ Answered(c, "counted", Result)
    /\ pool' = pool \union {c}
    /\ UNCHANGED <<situation, known, batch, estVars, repVars, lookVars>>
-----------------------------------------------------------------------------
(* The bundler, of which only the last handler is looked at.               *)

Relay ==
    /\ batch = {}
    /\ \E ops \in SUBSET {c \in pool : block[c] = Unsent} :
            /\ ops # {} /\ batch' = ops
            /\ block' = [c \in Clients |-> IF c \in ops THEN Pending ELSE block[c]]
    /\ BeginTxn(BundlerProcess)
    /\ UNCHANGED <<situation, todo, stage, answers, known, pool, estVars, counts, head, looking, steady>>

OpsInBatch == [m \in Paymasters |-> Cardinality({c \in batch : PaymasterOf(c) = m})]

\* If its transaction is refused the run ends and its ops stay.
CountIncluded ==
    /\ batch # {}
    /\ IncOpsIncluded(BundlerProcess, OpsInBatch)
    /\ batch' = {}
    /\ pool' = IF Refused(BundlerProcess, IncludedWrites(BundlerProcess, OpsInBatch))
               THEN pool ELSE pool \ batch
    /\ UNCHANGED <<situation, todo, stage, answers, known, estVars, lookVars>>

\* The next run drops them, as their nonce is used.
DropSent ==
    /\ batch = {}
    /\ \E c \in pool : block[c] # Unsent /\ pool' = pool \ {c}
    /\ UNCHANGED <<situation, todo, stage, answers, known, batch, estVars, repVars, lookVars>>
-----------------------------------------------------------------------------
ChainMoves ==
    /\ situation.moves /\ (NewBlock \/ Reorg)
    /\ UNCHANGED <<situation, sendVars, estVars, repVars>>

TimePasses ==
    /\ Tick
    /\ UNCHANGED <<situation, sendVars, estVars, lookVars>>

ServerStep(c) ==
    \/ HandleRequest(c) \/ Estimate(c) \/ Look(c)
    \/ ValidateValues(c) \/ BeginStatus(c) \/ EndStatus(c) \/ SimulateOp(c)
    \/ BeginSeen(c) \/ EndSeen(c) \/ AddToPool(c)

BundlerStep == Relay \/ CountIncluded \/ DropSent

RpcNext == (\E c \in Clients : ServerStep(c)) \/ BundlerStep \/ ChainMoves \/ TimePasses

\* A thread of the server goes on, the bundler too, and time passes.
RpcSpec ==
    /\ RpcInit /\ [][RpcNext]_rpcVars
    /\ \A c \in Clients : WF_rpcVars(ServerStep(c))
    /\ WF_rpcVars(BundlerStep)
    /\ WF_rpcVars(TimePasses)
-----------------------------------------------------------------------------
(* Properties *)

RpcTypeOK ==
    /\ EstTypeOK
    /\ stage \in [Clients -> Stages]
    /\ \A c \in Clients :
            /\ known[c] \subseteq {OpOf(c).sender, GetFactory(OpOf(c)), PaymasterOf(c)}
            /\ answers[c].kind \in {"none", "result", "error", "panic", "malformed"}
            /\ stage[c] # "idle" => todo[c] # <<>>
    /\ pool \subseteq Clients /\ batch \subseteq pool
    /\ \A m \in Paymasters : counts[m] = Unknown \/
            (counts[m].seen \in Nat /\ counts[m].included \in Nat /\ counts[m].age \in 0 .. MaxAge)
    /\ \A p \in RepProcesses : txns[p].overwritten \subseteq Paymasters
    /\ head \in 0 .. MaxHead
    /\ \A c \in Clients : block[c] \in {Unsent, Pending} \union 1 .. head

\* Whatever the params of a method of the bundler are, the request is answered
\* with its own id (handler.go:117-482): no call panics for want of an argument
\* or for its type, and none is answered as another's.
AnswersFitTheirRequests ==
    [][\A c \in Clients :
        LET request == Head(todo[c])
        IN  /\ todo'[c] # todo[c]
            /\ request.posted /\ request.readable /\ request.object /\ parseRequestId(request)
            /\ request.method \in bundlerMethods \union {Capitals}
            => answers'[c].kind \in {"result", "error"} /\ answers'[c].id = OfRequest]_rpcVars

\* An op with the limits that eth_estimateUserOperationGas returned, and its
\* real signature, passes the checks of its gas (verificationgas.go:28-34,
\* callgas.go:12-15), although its bytes are others and the L1 has become
\* dearer by up to the buffer.
EstimatedOpsAreAdmitted ==
    estimating = "ok" => \A c \in Clients : stage[c] = "send" =>
        /\ OpOf(c).vgl <= MaxVerificationGas => ValidateVerificationGas(OpOf(c), situation.view).ok
        /\ ValidateCallGasLimit(OpOf(c), situation.view).ok

\* When a trace is validated the stakes of all the op's entities have been
\* asked for (standalone.go:128-132): an entity that the context does not know
\* is taken for one without stake.
StakesAreKnown ==
    \A c \in Clients : stage[c] = "vetted" =>
        {OpOf(c).sender, GetFactory(OpOf(c)), PaymasterOf(c)} \ {NoAddress} \subseteq known[c]

\* An entity without a stake has only read and written what no other op of the
\* pool can change: the sender's own storage, or its slots in other contracts
\* if it exists already or a staked factory makes it; else an alternative
\* mempool allows it (storageslots.go:72-136).
PooledOpsTouchTheirOwn ==
    \A c \in pool : LET op == OpOf(c) IN ~ op.intent =>
        \A entity \in Entities : \A a \in Level(situation.trace, entity).access :
            \/ AddressOfEntity(op, entity) \in situation.view.staked
            \/ a.addr \in {op.sender, EntryPoint}
            \/ /\ isAssociatedWith(SlotsOf(situation.trace, op.sender), a.slot)
               /\ op.sender \in situation.view.code
                    \/ (entity = "account" /\ GetFactory(op) \in situation.view.staked)
            \/ HasInvalidStorageAccessException(entity, addr2KnownEntity(op, a.addr), a.slot) # {}

\* No count is lost or made up, whatever transactions overlap: an op that goes
\* on to the pool has been added to what was there at the time, and a batch
\* that leaves it with as many as it has (reputation.go:57-93).
CountsAreExact ==
    [][LET AsOfNow(m) == getOpsCountByPaymaster(counts[m])
       IN  /\ \A c \in Clients : stage[c] = "seen" /\ stage'[c] = "counted" =>
                /\ counts'[PaymasterOf(c)].seen = AsOfNow(PaymasterOf(c)).seen + 1
                /\ counts'[PaymasterOf(c)].included = AsOfNow(PaymasterOf(c)).included
           /\ batch # {} /\ pool' # pool /\ batch' = {} => \A m \in Paymasters :
                IF OpsInBatch[m] = 0 THEN counts'[m] = counts[m]
                ELSE /\ counts'[m].included = AsOfNow(m).included + OpsInBatch[m]
                     /\ counts'[m].seen = AsOfNow(m).seen]_rpcVars

\* A paymaster does not stay banned, however often ops with it are sent: what
\* refuses them does not write its counts anew (reputation.go:46-48, utils.go:67).
BanEnds == \A m \in Paymasters : []<>(getStatus(counts[m]) = "ok")

\* An op that was mined before the lookup and is still recent when it ends is
\* not missing, and what is found is of the block where it is, unless the chain
\* was reorganised meanwhile (event.go:22-28, opbyhash.go:39-48).  Not so for a
\* solved intent, whose hash is another, nor for the fields of an op whose
\* bundle went through a contract.
LookupsAreRight ==
    looking.step \in {"missing", "found"} /\ steady =>
        IF looking.step = "found" THEN looking.block = block[looking.op]
        ELSE \/ ~ looking.mined \/ head - block[looking.op] > Window
             \/ scene.op.intent \/ (looking.method # Receipt /\ ~ situation.direct)

\* Every request is answered: the searches, retries and handlers come to an end.
RequestsEnd == <>[](\A c \in Clients : todo[c] = <<>>)
=============================================================================
