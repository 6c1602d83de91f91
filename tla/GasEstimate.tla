----------------------------- MODULE GasEstimate -----------------------------
(***************************************************************************)
(* eth_estimateUserOperationGas: Client.EstimateUserOperationGas and       *)
(* gas.EstimateGas, which looks for limits by simulating the op again and  *)
(* again.  What the node answers to a simulation depends on a Scene:       *)
(*                                                                         *)
(*   own, need   verificationGas for the account, and for the paymaster too*)
(*   oog         the text of the error when there is less                  *)
(*   post, late  verificationGas when the op is executed as well, for a    *)
(*               postOp or what depends on callGasLimit, and its error     *)
(*   gas, traced callGas, and as much of it as the tracer sees             *)
(*   execution   "fine", "drains" what the gas is paid with, or "reverts"  *)
(*   funds       the gas that sender or paymaster can pay for              *)
(*   chain       the kind of chain                                         *)
(***************************************************************************)
EXTENDS NodeAnswers, Overhead

CONSTANTS
    MaxGasLimit,    \* the batch gas limit
    Cutoff,         \* fallBackBinarySearchCutoff
    MaxRetries,
    BaseVGLBuffer,  \* percent
    Scenes,
    L1s             \* what the L1 may ask for

\* Less gas is never what an error about the payment says.
SceneAssumption(s) ==
    /\ s \in [op : {s.op}, valid : BOOLEAN, overridden : BOOLEAN, own : Nat, need : Nat,
              oog : Texts \ {"AA21", "AA31"}, post : Nat, late : {"AA51", "validationOOG"},
              gas : Nat, traced : Nat, execution : {"fine", "drains", "reverts"}, funds : Nat,
              chain : {"none", "arbitrum", "optimism"}]
    /\ s.own <= s.need /\ s.traced <= s.gas
    /\ "pvg" \in DOMAIN s.op /\ s.op.pvg \in Nat

\* With a smaller limit the search would not make one step, and with a cutoff
\* of 1 it might try no gas at all.
ASSUME GasAssumption ==
    /\ MaxGasLimit \in Nat /\ Cutoff \in Nat /\ 1 < Cutoff /\ Cutoff <= MaxGasLimit
    /\ MaxRetries \in Nat /\ BaseVGLBuffer \in Nat
    /\ \A s \in Scenes : SceneAssumption(s)

VARIABLES
    estimating,     \* where the estimation is
    scene,          \* the op and how the chain takes it
    lo, hi, best,   \* the binary search: l, r and f
    simErr,         \* its last error
    attempts, lastVGL,
    vgl, cgl, pvg   \* the estimates

search  == <<lo, hi, best, simErr>>
retry   == <<attempts, lastVGL>>
estVars == <<estimating, scene, search, retry, vgl, cgl, pvg>>

EstStages == {"idle", "prices", "searchVGL", "trace", "confirm", "searchCGL", "pvg", "ok", "err"}

EstInit ==
    /\ estimating = "idle" /\ scene \in Scenes
    /\ lo = 0 /\ hi = 0 /\ best = 0 /\ simErr = Ok
    /\ attempts = 0 /\ lastVGL = 0
    /\ vgl = 0 /\ cgl = 0 /\ pvg = 0
-----------------------------------------------------------------------------
(* The node (external).  Before it is executed an op is verified: first    *)
(* the account, then the payment, then the paymaster.                      *)

Unlimited == -1     \* the balance that WithMaxBalanceOverride sets

\* Without a paymaster the sender can pay anything, unless its state was given.
Funds ==
    IF GetPaymaster(scene.op) = NoAddress /\ ~ scene.overridden THEN Unlimited ELSE scene.funds

\* The funds are in gas of the op's price.  A simulation is of the op with the
\* preVerificationGas that the request came with.
CanPay(v, c) ==
    \/ Funds = Unlimited
    \/ (IF GetPaymaster(scene.op) = NoAddress THEN v ELSE 3 * v) + c + scene.op.pvg <= Funds

Verified(v, c, paid) ==
    CASE v < scene.own -> Data("FailedOp", scene.oog)
      [] v >= scene.own /\ paid /\ ~ CanPay(v, c) ->
            Data("FailedOp", IF GetPaymaster(scene.op) = NoAddress THEN "AA21" ELSE "AA31")
      [] OTHER -> IF v < scene.need THEN Data("FailedOp", scene.oog)
                  ELSE Data("ExecutionResult", Ok)

Executed(v, c, paid) ==
    LET verified == Verified(v, c, paid)
        tooLate  == NewExecutionResult(verified) /\ v < scene.post
        outOfGas == c < scene.gas
    IN  [call |-> Nil,
         output |-> IF tooLate /\ scene.late = "AA51" THEN Data("FailedOp", "AA51") ELSE verified,
         error |-> "other",
         validationOOG |-> tooLate /\ scene.late = "validationOOG",
         executionOOG |-> outOfGas,
         reverts |-> CASE scene.execution = "reverts" -> <<Data("Error", "other")>>
                       [] scene.execution # "reverts"
                            /\ (outOfGas \/ (scene.execution = "drains" /\ paid)) ->
                                <<Data("empty", Ok)>>
                       [] OTHER -> <<>>]
-----------------------------------------------------------------------------
(* The client.                                                             *)

StartSearch ==
    /\ estimating' = "searchVGL"
    /\ lo' = 0 /\ hi' = MaxGasLimit /\ best' = lastVGL' /\ simErr' = Ok

\* The EntryPoint is not supported, or the op or the overrides do not parse.
EstimateUserOperationGas ==
    /\ estimating = "idle"
    /\ \/ ~ scene.valid /\ estimating' = "err" /\ UNCHANGED <<search, lastVGL>>
       \/ scene.valid /\ scene.op.maxFee = 0 /\ estimating' = "prices" /\ UNCHANGED <<search, lastVGL>>
       \/ scene.valid /\ scene.op.maxFee > 0 /\ lastVGL' = 0 /\ StartSearch
    /\ UNCHANGED <<scene, attempts, vgl, cgl, pvg>>

\* NewGasPrices: from the base fee and the tip, or the price of a legacy chain.
NewGasPrices(baseFee, suggested) ==
    IF baseFee = 0 THEN [maxFee |-> suggested, maxTip |-> suggested]
    ELSE [maxFee |-> suggested + 2 * baseFee, maxTip |-> suggested]

GetGasPrices(baseFee, suggested) ==
    /\ estimating = "prices"
    /\ LET prices == NewGasPrices(baseFee, suggested)
       IN  scene' = [scene EXCEPT !.op.maxFee = prices.maxFee, !.op.maxTip = prices.maxTip]
    /\ lastVGL' = 0 /\ StartSearch
    /\ UNCHANGED <<attempts, vgl, cgl, pvg>>
-----------------------------------------------------------------------------
(* EstimateGas.                                                            *)

EstFails == estimating' = "err"

\* Mistake: tried again with what it was tried with.
Retry_Same(text) ==
    IF isValidationOOG(text) /\ attempts < MaxRetries
    THEN UNCHANGED retry /\ StartSearch
    ELSE EstFails /\ UNCHANGED <<search, retry>>

\* Mistake: counted one too late.
Retry_OnceMore(text) ==
    IF isValidationOOG(text) /\ attempts <= MaxRetries
    THEN attempts' = attempts + 1 /\ lastVGL' = vgl /\ StartSearch
    ELSE EstFails /\ UNCHANGED <<search, retry>>

\* retryEstimateGas: from the start, with a larger verificationGasLimit.
Retry(text) ==
    IF isValidationOOG(text) /\ attempts < MaxRetries
    THEN attempts' = attempts + 1 /\ lastVGL' = vgl /\ StartSearch
    ELSE EstFails /\ UNCHANGED <<search, retry>>

Searching == hi - lo >= Cutoff
Middle    == (lo + hi) \div 2

\* Mistake: the first limit that is enough is kept.
SearchVGL_FirstFound ==
    /\ estimating = "searchVGL" /\ lastVGL = 0 /\ Searching
    /\ LET text == SimulateHandleOp(Verified(Middle, 0, TRUE))
       IN  /\ simErr' = text
           /\ best' = IF text = Ok /\ best = 0 THEN Middle ELSE best
           /\ IF text = Ok \/ isPrefundNotPaid(text) THEN hi' = Middle - 1 /\ UNCHANGED lo
              ELSE lo' = Middle + 1 /\ UNCHANGED hi
           /\ UNCHANGED estimating
    /\ UNCHANGED <<scene, retry, vgl, cgl, pvg>>

SearchVGL ==
    /\ estimating = "searchVGL" /\ lastVGL = 0 /\ Searching
    /\ LET text == SimulateHandleOp(Verified(Middle, 0, TRUE))
       IN  /\ simErr' = text
           /\ \/ text = Ok /\ hi' = Middle - 1 /\ best' = Middle /\ UNCHANGED <<estimating, lo>>
              \/ isPrefundNotPaid(text) /\ hi' = Middle - 1 /\ UNCHANGED <<estimating, lo, best>>
              \/ isValidationOOG(text) /\ lo' = Middle + 1 /\ UNCHANGED <<estimating, hi, best>>
              \/ /\ text # Ok /\ ~ isPrefundNotPaid(text) /\ ~ isValidationOOG(text)
                 /\ EstFails /\ UNCHANGED <<lo, hi, best>>
    /\ UNCHANGED <<scene, retry, vgl, cgl, pvg>>

\* With nothing found the last error is returned, or zeros if there is none.
SearchVGLDone ==
    /\ estimating = "searchVGL" /\ ~ (lastVGL = 0 /\ Searching)
    /\ IF best = 0
       THEN estimating' = (IF simErr = Ok THEN "pvg" ELSE "err") /\ UNCHANGED vgl
       ELSE estimating' = "trace" /\ vgl' = (best * (100 + BaseVGLBuffer)) \div 100
    /\ UNCHANGED <<scene, search, retry, cgl, pvg>>

\* With a gas price of 0 and all the gas there is.
TraceExecution ==
    /\ estimating = "trace"
    /\ LET text == TraceSimulateHandleOp(Executed(vgl, MaxGasLimit, FALSE))
       IN  IF text = Ok
           THEN /\ cgl' = IF scene.traced < NonZeroValueCall THEN NonZeroValueCall ELSE scene.traced
                /\ estimating' = "confirm" /\ UNCHANGED <<search, retry>>
           ELSE Retry(text) /\ UNCHANGED cgl
    /\ UNCHANGED <<scene, vgl, pvg>>

\* Mistake: what the tracer saw is not tried.
Confirm_Skipped ==
    /\ estimating = "confirm"
    /\ estimating' = "pvg"
    /\ UNCHANGED <<scene, search, retry, vgl, cgl, pvg>>

\* With the gas price of the op and the limits found.
Confirm ==
    /\ estimating = "confirm"
    /\ LET text == TraceSimulateHandleOp(Executed(vgl, cgl, TRUE))
       IN  CASE text = Ok -> estimating' = "pvg" /\ UNCHANGED <<search, retry>>
             [] isExecutionOOG(text) \/ isExecutionReverted(text) ->
                    /\ lo' = cgl /\ hi' = MaxGasLimit /\ best' = 0 /\ simErr' = text
                    /\ estimating' = "searchCGL" /\ UNCHANGED retry
             [] OTHER -> Retry(text)
    /\ UNCHANGED <<scene, vgl, cgl, pvg>>

SearchCGL ==
    /\ estimating = "searchCGL" /\ Searching
    /\ LET text == TraceSimulateHandleOp(Executed(vgl, Middle, TRUE))
       IN  /\ simErr' = text
           /\ \/ text = Ok /\ hi' = Middle - 1 /\ best' = Middle /\ UNCHANGED <<estimating, lo>>
              \/ isPrefundNotPaid(text) /\ hi' = Middle - 1 /\ UNCHANGED <<estimating, lo, best>>
              \/ /\ isExecutionOOG(text) \/ isExecutionReverted(text)
                 /\ lo' = Middle + 1 /\ UNCHANGED <<estimating, hi, best>>
              \/ /\ text # Ok /\ ~ isPrefundNotPaid(text)
                 /\ ~ isExecutionOOG(text) /\ ~ isExecutionReverted(text)
                 /\ EstFails /\ UNCHANGED <<lo, hi, best>>
    /\ UNCHANGED <<scene, retry, vgl, cgl, pvg>>

SearchCGLDone ==
    /\ estimating = "searchCGL" /\ ~ Searching
    /\ IF best = 0 THEN EstFails /\ UNCHANGED cgl ELSE estimating' = "pvg" /\ cgl' = best
    /\ UNCHANGED <<scene, search, retry, vgl, pvg>>

CalcPVG(l1) ==
    /\ estimating = "pvg" /\ l1.chain = scene.chain
    /\ pvg' = CalcPreVerificationGasWithBuffer(scene.op, l1)
    /\ estimating' = "ok"
    /\ UNCHANGED <<scene, search, retry, vgl, cgl>>

\* A call of the node fails, of which the search makes nothing.
NodeFails ==
    /\ \/ estimating \in {"prices", "trace", "confirm", "pvg"}
       \/ estimating = "searchVGL" /\ lastVGL = 0 /\ Searching
       \/ estimating = "searchCGL" /\ Searching
    /\ EstFails
    /\ UNCHANGED <<scene, search, retry, vgl, cgl, pvg>>

EstimateStep ==
    \/ \E baseFee \in 0 .. 1 : GetGasPrices(baseFee, 1)
    \/ SearchVGL \/ SearchVGLDone \/ TraceExecution \/ Confirm \/ SearchCGL \/ SearchCGLDone
    \/ \E l1 \in L1s : CalcPVG(l1)
    \/ NodeFails

EstNext == EstimateUserOperationGas \/ EstimateStep

EstSpec == EstInit /\ [][EstNext]_estVars
-----------------------------------------------------------------------------
(* Properties *)

EstTypeOK ==
    /\ estimating \in EstStages
    /\ lo \in Nat /\ hi \in Int /\ best \in Nat /\ simErr \in Texts \union {Ok}
    /\ attempts \in 0 .. MaxRetries /\ lastVGL \in Nat
    /\ vgl \in Nat /\ cgl \in Nat /\ pvg \in Nat

\* How far the stages are from the end, and with that a bound on the steps that
\* are ahead of an estimation: the retries, the stages and the rest of a search.
Rank == [idle |-> 7, prices |-> 6, searchVGL |-> 5, trace |-> 4, confirm |-> 3,
         searchCGL |-> 2, pvg |-> 1, ok |-> 0, err |-> 0]

Rounds == (MaxRetries - attempts) * 8 + Rank[estimating]
Rest   == IF estimating \in {"searchVGL", "searchCGL"} /\ Searching THEN hi - lo ELSE 0

StepsLeft == Rounds * (MaxGasLimit + 1) + Rest

\* An estimation ends whatever the node answers: its searches (estimate.go:97,
\* :191) never look again where they looked, and it starts again no more often than
\* retryEstimateGas (:61) allows.
EstimationAdvances == [](StepsLeft \in Nat) /\ [][StepsLeft' < StepsLeft]_estVars

\* An estimate works (estimate.go:165-175): with these limits the op is
\* verified and executed, and paid for, whatever the retries, the fallback and
\* the tracer's short sight went through, and it passes the check of its
\* callGasLimit.  It is paid for with the preVerificationGas of the request; that
\* the funds also last for the one that is returned, nobody tries.
EstimateIsEnough ==
    estimating \in {"pvg", "ok"} =>
        /\ vgl >= scene.need /\ vgl >= scene.post
        /\ cgl >= scene.gas /\ cgl >= NonZeroValueCall
        /\ CanPay(vgl, cgl)

\* "Find the optimal verificationGasLimit with binary search" (estimate.go:90)
\* and "fallback to binary search with an efficient range" (:183): the limits
\* are no larger than what it takes by more than the cutoff and the buffer.
EstimateIsTight ==
    estimating \in {"pvg", "ok"} =>
        /\ \E enough \in {scene.need + Cutoff, scene.post} :
                100 * vgl <= (100 + BaseVGLBuffer) * enough
        /\ \E enough \in {scene.gas + Cutoff, NonZeroValueCall} : cgl <= enough
=============================================================================
