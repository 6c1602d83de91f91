---------------------------- MODULE MCRpcServer ----------------------------
(* The situations that RpcServer is checked in: each varies one part of a  *)
(* situation in which all goes well.                                       *)
EXTENDS RpcServer

CONSTANTS sender, factory, pm, other, c1, c2

Bytes(n, a) == [len |-> n, address |-> a]
None == Bytes(0, NoAddress)

Op(init, pmd) ==
    [sender |-> sender, initCode |-> init, paymasterAndData |-> pmd, intent |-> FALSE,
     vgl |-> 100000, cgl |-> 50000, pvg |-> 60000, maxFee |-> 2, maxTip |-> 1,
     signature |-> [zero |-> 5, nonZero |-> 60], rest |-> [zero |-> 300, nonZero |-> 100]]
Plain_   == Op(None, None)
WithPM   == Op(None, Bytes(20, pm))
Deploys  == [Op(Bytes(24, factory), None) EXCEPT !.maxFee = 3]
Ops      == {Plain_, WithPM, Deploys}

\* Scenes of estimations, and the one of ops that are sent as they are.
Scene(op) ==
    [op |-> op, valid |-> TRUE, overridden |-> FALSE, own |-> 20000, need |-> 20000, oog |-> "AA23",
     post |-> 0, late |-> "AA51", gas |-> 5000, traced |-> 5000, execution |-> "fine",
     funds |-> 900000, chain |-> "none"]

EstimatedOp(op) ==
    [op EXCEPT !.vgl = 0, !.cgl = 0, !.pvg = 1000, !.signature = [zero |-> 60, nonZero |-> 5]]
EstScenes ==
    {[Scene(EstimatedOp([op EXCEPT !.maxFee = fee])) EXCEPT !.need = n, !.post = l.post, !.late = l.late,
        !.gas = g.gas, !.traced = g.traced, !.execution = x] :
        op \in {Plain_, WithPM}, fee \in {0, 2}, n \in {20000, 190000},
        l \in {[post |-> 0, late |-> "AA51"], [post |-> 280000, late |-> "AA51"],
               [post |-> 900000, late |-> "validationOOG"]},
        g \in {[gas |-> 5000, traced |-> 5000], [gas |-> 60000, traced |-> 50000]},
        x \in {"fine", "drains", "reverts"}}
    \union {[Scene(EstimatedOp(WithPM)) EXCEPT !.need = n, !.oog = o, !.funds = f] :
        n \in {70000, 290000}, o \in {"AA33", "AA40", "other"}, f \in {30000, 300000}}
    \union {[Scene(EstimatedOp(Plain_)) EXCEPT !.overridden = TRUE, !.funds = f] : f \in {10000, 100000}}
    \union {[Scene(EstimatedOp(Plain_)) EXCEPT !.chain = "arbitrum"],
            [Scene(EstimatedOp(Plain_)) EXCEPT !.chain = "optimism"],
            [Scene(EstimatedOp(Plain_)) EXCEPT !.valid = FALSE]}

L1(chain, gas) == [chain |-> chain, gas |-> gas, fee |-> gas, baseFee |-> 1]
MCL1s == {L1("none", 0), L1("arbitrum", 30000), L1("arbitrum", 33000), L1("optimism", 10000)}

View ==
    [code |-> {sender, pm}, staked |-> {pm}, deposit |-> 2000000, baseFee |-> 1, fails |-> {},
     pendingOk |-> TRUE, l1 |-> L1("none", 0)]
ViewOf(op) == IF op.initCode.len > 0 THEN [View EXCEPT !.code = {pm}, !.staked = {factory}] ELSE View

Part   == [opcodes |-> <<>>, access |-> {}, sized |-> {}]
Trace  == [fails |-> FALSE, levels |-> <<Part, Part, Part>>,
           keccak |-> {[prefix |-> sender, slot |-> 1000], [prefix |-> pm, slot |-> 2000]}, calls |-> <<>>]
-----------------------------------------------------------------------------
Http(method, params) ==
    [posted |-> TRUE, readable |-> TRUE, object |-> TRUE, id |-> "number", version |-> TRUE,
     method |-> method, array |-> TRUE, params |-> params, callOk |-> TRUE, blockOk |-> TRUE]
Send  == Http("eth_sendUserOperation", <<"object", "string">>)
Gas   == Http("eth_estimateUserOperationGas", <<"object", "string">>)
Look_(method) == Http(method, <<"string">>)

Requests(s1, s2) == [c \in Clients |-> IF c = c1 THEN s1 ELSE s2]
NoCounts == [m \in Paymasters |-> Unknown]
Base(op) ==
    [requests |-> Requests(<<Send>>, <<>>), scene |-> Scene(op), view |-> ViewOf(op), trace |-> Trace,
     raw |-> [sender |-> "0x12", number |-> "0x12", bytes |-> "0x12"],
     simulation |-> [error |-> Data("ValidationResult", Ok), sigFailed |-> FALSE, validUntil |-> 0],
     counts |-> NoCounts, direct |-> TRUE, moves |-> FALSE]

\* Every method with up to three params of some types, and other mistakes.
ParamTypes == {"null", "number", "string", "object"}
ParamLists == {<<>>} \union {<<t>> : t \in ParamTypes}
    \union {<<t, u>> : t, u \in ParamTypes} \union {<<"object", "string", t>> : t \in ParamTypes}
Methods == DOMAIN RpcAdapter \union {Capitals, Absent, "eth_call", "net_version"}
OddRequests ==
    {Http(m, p) : m \in Methods, p \in ParamLists}
    \union {[Http(m, <<"string">>) EXCEPT !.id = i] : m \in Methods, i \in {"null", "string"}}
    \union {[Http(m, <<>>) EXCEPT !.array = FALSE] : m \in {"eth_chainId", "eth_call", "net_version"}}
    \union {[Http(m, <<>>) EXCEPT !.posted = p, !.readable = r, !.object = o, !.id = i, !.version = v] :
        m \in {"eth_chainId"}, p, r, o, v \in BOOLEAN, i \in {Absent, "number", "boolean"}}
    \union {[Http("eth_call", <<"object", t>>) EXCEPT !.callOk = k, !.blockOk = b] :
        t \in {"string", "number"}, k, b \in BOOLEAN}
Asked ==
    {[Base(Plain_) EXCEPT !.requests = Requests(<<r>>, <<>>)] : r \in OddRequests}

Estimated ==
    {[Base(s.op) EXCEPT !.requests = Requests(<<Gas, Send>>, <<>>), !.scene = s,
        !.view.l1 = IF s.chain = "arbitrum" THEN L1("arbitrum", 33000) ELSE L1(s.chain, 10000)] : s \in EstScenes}

\* Ops that are sent as they are.
Parsed ==
    {[Base(Plain_) EXCEPT !.raw[f] = v] : f \in {"sender", "number", "bytes"}, v \in JsonValues}
Viewed ==
    {[Base(op) EXCEPT !.view.code = code, !.view.fails = f, !.view.deposit = d] :
        op \in Ops, code \in SUBSET {sender, pm}, f \in {{}, {"code"}, {"stake"}, {"baseFee"}},
        d \in {1000, 2000000}}
OddOps ==
    {[Plain_ EXCEPT !.vgl = v, !.pvg = g, !.maxTip = t, !.intent = i] :
        v \in {100000, 600000}, g \in {40000, 60000}, t \in {1, 2, 3}, i \in BOOLEAN}
    \union {[Plain_ EXCEPT !.cgl = c, !.initCode = n, !.paymasterAndData = n] :
        c \in {5000, 50000, 900000}, n \in {None, Bytes(10, NoAddress)}}
OddlySent ==
    {[Base(op) EXCEPT !.view.fails = f, !.view.baseFee = b, !.view.pendingOk = p] :
        op \in OddOps, f \in {{}, {"l1"}}, b \in {NoBaseFee, 1, 3}, p \in BOOLEAN}

Slots    == {1000, 1128, 1129, 2000, 2128}
Accesses == [addr : {sender, pm, factory, other, EntryPoint}, kind : {"read"}, slot : Slots]
Levels(n, part) == [Trace.levels EXCEPT ![n] = part]
Traces(op) ==
    {[Trace EXCEPT !.levels = Levels(n, [Part EXCEPT !.access = {a}])] : n \in 1 .. 3, a \in Accesses}
    \union {[Trace EXCEPT !.levels = Levels(n, [Part EXCEPT !.opcodes = o, !.sized = {other}])] :
        n \in 1 .. 3, o \in {[x \in {"GAS"} |-> 1], [x \in {"CREATE2"} |-> 1], [x \in {"CREATE2"} |-> 2]}}
    \union {[Trace EXCEPT !.levels = <<Part>>], [Trace EXCEPT !.fails = TRUE]}
    \union {[Trace EXCEPT !.calls = <<[type |-> "CALL", method |-> "validatePaymasterUserOp", data |-> 0],
                [type |-> t, method |-> "other", data |-> 0], [type |-> e, method |-> "", data |-> d],
                [type |-> "RETURN", method |-> "", data |-> d]>>] :
        t \in {"CALL", "CREATE"}, e \in {"RETURN", "REVERT"}, d \in {0, 5, Undecodable}}
Stakes == {{}, {sender}, {pm}, {factory}}
Traced == {[Base(op) EXCEPT !.trace = t, !.view.staked = s] : op \in Ops, t \in Traces(Plain_), s \in Stakes}
    \union {[Base(Plain_) EXCEPT !.simulation = [error |-> e, sigFailed |-> g, validUntil |-> u],
                                 !.trace.fails = f] :
        e \in {Nil, Plain("connection"), Data("ValidationResult", Ok), Data("FailedOp", "other")},
        g, f \in BOOLEAN, u \in {0, 1020, 1031}}

\* Two clients of one paymaster, with and without a history.
Histories == {Unknown, [seen |-> 3, included |-> 0, age |-> 0], [seen |-> 4, included |-> 0, age |-> 1]}
Raced ==
    {[Base(WithPM) EXCEPT !.requests = Requests(<<Send>>, <<Send>>), !.counts = [m \in Paymasters |-> k]] :
        k \in Histories}

Intent == [Plain_ EXCEPT !.intent = TRUE]
LookedUp ==
    {[Base(op) EXCEPT !.requests = Requests(<<Send, Look_(m)>>, <<>>), !.direct = d, !.moves = TRUE] :
        op \in {Plain_, Intent}, d \in BOOLEAN, m \in {Receipt, "eth_getUserOperationByHash"}}

MCSituations ==
    Asked \union Estimated \union Parsed \union Viewed \union OddlySent \union Traced
        \union Raced \union LookedUp
MCScenes == EstScenes \union {Scene(op) : op \in Ops \union OddOps \union {Intent}}
MCStoredCounts == {NoCounts} \union {[m \in Paymasters |-> k] : k \in Histories}
MCProcesses == Clients \union {BundlerProcess}
MCAltMempools ==
    {[id |-> "alt", chainIds |-> {1}, allowlist |-> {[rule |-> "invalidStorageAccess", entity |-> "account",
        contract |-> other, slot |-> 2128]}],
     [id |-> "foreign", chainIds |-> {2}, allowlist |-> {[rule |-> "invalidStorageAccess", entity |-> "paymaster",
        contract |-> other, slot |-> 2128]}]}
=============================================================================
