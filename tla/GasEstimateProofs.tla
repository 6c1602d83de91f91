------------------------- MODULE GasEstimateProofs -------------------------
(***************************************************************************)
(* That an estimate is enough, and tight, whatever the limits, the scene   *)
(* and the number of retries.  The node's verdicts are monotone in the     *)
(* limits: what was too little stays below lo, and what was found is the   *)
(* limit just above hi.                                                    *)
(***************************************************************************)
EXTENDS GasEstimate, TLAPS

VGLIsTight ==
    \E enough \in {scene.need + Cutoff, scene.post} :
        100 * vgl <= (100 + BaseVGLBuffer) * enough

CGLIsTight ==
    \E enough \in {scene.gas + Cutoff, NonZeroValueCall} : cgl <= enough

SearchingVGL ==
    /\ lo \in Nat /\ hi \in Int
    /\ lastVGL # 0 => best = lastVGL
    /\ lastVGL = 0 =>
        /\ lo <= scene.need
        /\ best # 0 => best = hi + 1 /\ scene.need <= best /\ CanPay(best, 0)
        /\ simErr = Ok => best # 0 \/ (lo = 0 /\ hi = MaxGasLimit)

SearchingCGL ==
    /\ lo \in Nat /\ hi \in Int /\ cgl <= lo
    /\ scene.execution = "fine" => lo <= scene.gas
    /\ best # 0 =>
        /\ best = hi + 1 /\ cgl <= best /\ scene.gas <= best
        /\ scene.post <= vgl /\ CanPay(vgl, best) /\ scene.execution = "fine"

\* A retry starts above the limit that is enough for the verification alone,
\* and below the one that is enough for all.
Retrying == lastVGL # 0 => scene.need <= lastVGL /\ lastVGL < scene.post

EstInv ==
    /\ SceneAssumption(scene)
    /\ estimating \in EstStages
    /\ best \in Nat /\ vgl \in Nat /\ cgl \in Nat /\ lastVGL \in Nat
    /\ Retrying
    /\ estimating = "searchVGL" => SearchingVGL
    /\ estimating \in {"trace", "confirm", "searchCGL", "pvg", "ok"} =>
            scene.need <= vgl /\ VGLIsTight
    /\ estimating \in {"confirm", "searchCGL", "pvg", "ok"} =>
            NonZeroValueCall <= cgl /\ CGLIsTight
    /\ estimating = "searchCGL" => SearchingCGL
    /\ estimating \in {"pvg", "ok"} => EstimateIsEnough
-----------------------------------------------------------------------------
(* What the node answers.                                                  *)

LEMMA SceneFields ==
    ASSUME SceneAssumption(scene)
    PROVE  /\ scene.own \in Nat /\ scene.need \in Nat /\ scene.post \in Nat
           /\ scene.gas \in Nat /\ scene.traced \in Nat /\ scene.funds \in Nat
           /\ scene.oog \in Texts \ {"AA21", "AA31"}
           /\ scene.late \in {"AA51", "validationOOG"}
           /\ scene.execution \in {"fine", "drains", "reverts"}
           /\ scene.own <= scene.need /\ scene.traced <= scene.gas /\ scene.op.pvg \in Nat
BY DEF SceneAssumption

\* Who can pay for more can pay for less.
LEMMA CanPayLess ==
    ASSUME SceneAssumption(scene),
           NEW v \in Nat, NEW w \in Nat, NEW c \in Nat, NEW d \in Nat,
           v <= w, c <= d, CanPay(w, d)
    PROVE  CanPay(v, c)
<1>1. scene.funds \in Nat /\ scene.op.pvg \in Nat
  BY SceneFields
<1> QED
  BY <1>1 DEF CanPay, Funds, Unlimited

LEMMA VerifiedCases ==
    ASSUME SceneAssumption(scene), NEW v \in Nat, NEW c \in Nat, NEW paid \in BOOLEAN
    PROVE  \/ /\ Verified(v, c, paid) = Data("FailedOp", scene.oog)
              /\ v < scene.need
           \/ /\ \E text \in {"AA21", "AA31"} : Verified(v, c, paid) = Data("FailedOp", text)
              /\ paid /\ ~ CanPay(v, c)
           \/ /\ Verified(v, c, paid) = Data("ExecutionResult", Ok)
              /\ scene.need <= v /\ (paid => CanPay(v, c))
<1>1. scene.own \in Nat /\ scene.need \in Nat /\ scene.own <= scene.need
  BY SceneFields
<1>2. CASE v < scene.own
  BY <1>1, <1>2 DEF Verified
<1>3. CASE v >= scene.own /\ paid /\ ~ CanPay(v, c)
  BY <1>1, <1>3 DEF Verified
<1>4. CASE v >= scene.own /\ ~ (paid /\ ~ CanPay(v, c))
  BY <1>1, <1>4 DEF Verified
<1> QED
  BY <1>1, <1>2, <1>3, <1>4

LEMMA DataFields ==
    ASSUME NEW abi, NEW text
    PROVE  /\ Data(abi, text).type = "data" /\ Data(abi, text).abi = abi
           /\ Data(abi, text).text = text /\ Data(abi, text) # Nil
BY DEF Data, Nil

LEMMA AnswerIs ==
    ASSUME NEW text
    PROVE  /\ NewFailedOp(Data("FailedOp", text)) /\ ~ NewExecutionResult(Data("FailedOp", text))
           /\ NewExecutionResult(Data("ExecutionResult", text))
           /\ ~ NewFailedOp(Data("ExecutionResult", text))
BY DataFields DEF NewExecutionResult, NewFailedOp, Unpacks

LEMMA SimulateHandleOpIs ==
    ASSUME NEW text
    PROVE  /\ SimulateHandleOp(Data("FailedOp", text)) = text
           /\ SimulateHandleOp(Data("ExecutionResult", text)) = Ok
<1>1. SimulateHandleOp(Data("FailedOp", text)) = text
  BY DataFields, AnswerIs DEF SimulateHandleOp
<1>2. SimulateHandleOp(Data("ExecutionResult", text)) = Ok
  BY DataFields, AnswerIs DEF SimulateHandleOp
<1> QED
  BY <1>1, <1>2

\* The search for verificationGas: an error tells on which side to go on.
LEMMA Simulated ==
    ASSUME SceneAssumption(scene), NEW v \in Nat,
           NEW text, text = SimulateHandleOp(Verified(v, 0, TRUE))
    PROVE  /\ text = Ok => scene.need <= v /\ CanPay(v, 0)
           /\ isPrefundNotPaid(text) => ~ CanPay(v, 0)
           /\ isValidationOOG(text) => v < scene.need
<1>0. scene.oog \in Texts \ {"AA21", "AA31"}
  BY SceneFields
<1>1. CASE Verified(v, 0, TRUE) = Data("FailedOp", scene.oog) /\ v < scene.need
  <2>1. text = scene.oog
    BY <1>1, SimulateHandleOpIs
  <2> QED
    BY <1>0, <1>1, <2>1 DEF Texts, Ok, isPrefundNotPaid
<1>2. CASE /\ \E t \in {"AA21", "AA31"} : Verified(v, 0, TRUE) = Data("FailedOp", t)
           /\ ~ CanPay(v, 0)
  <2>1. text \in {"AA21", "AA31"}
    BY <1>2, SimulateHandleOpIs
  <2> QED
    BY <1>2, <2>1 DEF Ok, isValidationOOG
<1>3. CASE /\ Verified(v, 0, TRUE) = Data("ExecutionResult", Ok)
           /\ scene.need <= v /\ CanPay(v, 0)
  <2>1. text = Ok
    BY <1>3, SimulateHandleOpIs
  <2> QED
    BY <1>3, <2>1 DEF Ok, isPrefundNotPaid, isValidationOOG
<1> QED
  BY <1>1, <1>2, <1>3, VerifiedCases

LEMMA ExecutedFields ==
    ASSUME NEW v, NEW c, NEW paid
    PROVE  LET trace    == Executed(v, c, paid)
               verified == Verified(v, c, paid)
               tooLate  == NewExecutionResult(verified) /\ v < scene.post
           IN  /\ trace.call = Nil /\ trace.error = "other"
               /\ trace.output =
                     IF tooLate /\ scene.late = "AA51" THEN Data("FailedOp", "AA51") ELSE verified
               /\ trace.validationOOG <=> (tooLate /\ scene.late = "validationOOG")
               /\ trace.executionOOG <=> (c < scene.gas)
               /\ trace.reverts =
                     CASE scene.execution = "reverts" -> <<Data("Error", "other")>>
                       [] scene.execution # "reverts"
                            /\ (c < scene.gas \/ (scene.execution = "drains" /\ paid)) ->
                                <<Data("empty", Ok)>>
                       [] OTHER -> <<>>
BY DEF Executed

\* What the last revert of a trace tells of the execution.
LEMMA Reverting ==
    ASSUME SceneAssumption(scene), NEW v, NEW c \in Nat, NEW paid \in BOOLEAN,
           NEW trace, trace = Executed(v, c, paid)
    PROVE  IF trace.reverts = <<>>
           THEN scene.gas <= c /\ (scene.execution = "fine" \/ ~ paid)
           ELSE \/ LastRevert(trace) = "other" /\ scene.execution = "reverts"
                \/ /\ LastRevert(trace) \in {"executionOOG", "executionReverted"}
                   /\ c < scene.gas \/ scene.execution = "drains"
<1>0. scene.gas \in Nat /\ scene.execution \in {"fine", "drains", "reverts"}
  BY SceneFields
<1>1. CASE scene.execution = "reverts"
  <2>1. trace.reverts = <<Data("Error", "other")>>
    BY <1>1, ExecutedFields
  <2>2. Len(trace.reverts) = 1 /\ trace.reverts[1] = Data("Error", "other") /\ trace.reverts # <<>>
    BY <2>1
  <2>3. LastRevert(trace) = "other"
    BY <2>2, DataFields DEF LastRevert, DecodeRevert, DecodePanic, Unpacks
  <2> QED
    BY <1>1, <2>2, <2>3
<1>2. CASE scene.execution # "reverts" /\ (c < scene.gas \/ (scene.execution = "drains" /\ paid))
  <2>1. trace.reverts = <<Data("empty", Ok)>>
    BY <1>2, ExecutedFields
  <2>2. Len(trace.reverts) = 1 /\ trace.reverts[1] = Data("empty", Ok) /\ trace.reverts # <<>>
    BY <2>1
  <2>3. LastRevert(trace) = IF trace.executionOOG THEN "executionOOG" ELSE "executionReverted"
    BY <2>2, DataFields DEF LastRevert, DecodeRevert, DecodePanic, Unpacks
  <2> QED
    BY <1>2, <2>2, <2>3
<1>3. CASE scene.execution # "reverts" /\ ~ (c < scene.gas \/ (scene.execution = "drains" /\ paid))
  <2>1. trace.reverts = <<>>
    BY <1>3, ExecutedFields
  <2> QED
    BY <1>0, <1>3, <2>1
<1> QED
  BY <1>1, <1>2, <1>3

\* The trace of an op that has enough gas for its verification alone.
LEMMA Traced ==
    ASSUME SceneAssumption(scene), NEW v \in Nat, NEW c \in Nat, NEW paid \in BOOLEAN,
           scene.need <= v,
           NEW text, text = TraceSimulateHandleOp(Executed(v, c, paid))
    PROVE  \/ text \in {"AA21", "AA31"} /\ paid /\ ~ CanPay(v, c)
           \/ text \in {"AA51", "validationOOG"} /\ v < scene.post
           \/ text = "other"
           \/ /\ text \in {"executionOOG", "executionReverted"}
              /\ c < scene.gas \/ scene.execution = "drains"
           \/ /\ text = Ok
              /\ scene.post <= v /\ scene.gas <= c
              /\ paid => CanPay(v, c) /\ scene.execution = "fine"
<1> DEFINE trace    == Executed(v, c, paid)
           verified == Verified(v, c, paid)
<1>0. /\ scene.need \in Nat /\ scene.post \in Nat
      /\ scene.late \in {"AA51", "validationOOG"}
  BY SceneFields
<1>1. CASE (\E t \in {"AA21", "AA31"} : verified = Data("FailedOp", t)) /\ paid /\ ~ CanPay(v, c)
  <2>1. PICK t \in {"AA21", "AA31"} : verified = Data("FailedOp", t)
    BY <1>1
  <2>2. /\ trace.call = Nil /\ ~ trace.validationOOG /\ trace.output = Data("FailedOp", t)
    BY <2>1, AnswerIs, ExecutedFields
  <2>3. text = Outcome(trace)
    BY <2>2, DataFields DEF TraceSimulateHandleOp, ParseHexToRpcDataError
  <2>4. Outcome(trace) = t
    BY <2>2, DataFields, AnswerIs DEF Outcome
  <2> QED
    BY <1>1, <2>3, <2>4
<1>2. CASE verified = Data("ExecutionResult", Ok) /\ (paid => CanPay(v, c))
  <2>0. trace.call = Nil /\ NewExecutionResult(verified)
    BY <1>2, AnswerIs, ExecutedFields
  <2>1. CASE v < scene.post /\ scene.late = "AA51"
    <3>1. ~ trace.validationOOG /\ trace.output = Data("FailedOp", "AA51")
      BY <2>0, <2>1, ExecutedFields
    <3>2. text = Outcome(trace)
      BY <2>0, <3>1, DataFields DEF TraceSimulateHandleOp, ParseHexToRpcDataError
    <3>3. Outcome(trace) = "AA51"
      BY <3>1, DataFields, AnswerIs DEF Outcome
    <3> QED
      BY <2>1, <3>2, <3>3
  <2>2. CASE v < scene.post /\ scene.late = "validationOOG"
    <3>1. trace.validationOOG /\ trace.output = Data("ExecutionResult", Ok)
      BY <1>2, <2>0, <2>2, ExecutedFields
    <3>2. text = "validationOOG"
      BY <2>0, <3>1, DataFields DEF TraceSimulateHandleOp, ParseHexToRpcDataError
    <3> QED
      BY <2>2, <3>2
  <2>3. CASE scene.post <= v
    <3>0. ~ (v < scene.post)
      BY <1>0, <2>3
    <3>1. ~ trace.validationOOG /\ trace.output = Data("ExecutionResult", Ok)
      BY <1>2, <3>0, ExecutedFields
    <3>2. text = Outcome(trace)
      BY <2>0, <3>1, DataFields DEF TraceSimulateHandleOp, ParseHexToRpcDataError
    <3>3. Outcome(trace) = IF trace.reverts = <<>> THEN Ok ELSE LastRevert(trace)
      BY <3>1, AnswerIs DEF Outcome
    <3> QED
      BY <1>2, <2>3, <3>2, <3>3, Reverting DEF Ok
  <2> QED
    BY <1>0, <2>1, <2>2, <2>3
<1> QED
  BY <1>0, <1>1, <1>2, VerifiedCases
-----------------------------------------------------------------------------
(* Arithmetic.                                                             *)

LEMMA MiddleIsBetween ==
    ASSUME lo \in Nat, hi \in Int, Searching
    PROVE  /\ Middle \in Nat /\ Middle # 0 /\ lo <= Middle /\ Middle < hi
           /\ Middle + 1 \in Nat /\ Middle - 1 \in Int
BY GasAssumption DEF Searching, Middle

\* A whole search is at least one step.
LEMMA SearchStarts ==
    ASSUME lo = 0, hi = MaxGasLimit
    PROVE  Searching
BY GasAssumption DEF Searching

LEMMA TimesGrows ==
    ASSUME NEW k \in Nat, NEW a \in Nat, NEW b \in Nat, a <= b
    PROVE  k * a <= k * b
OBVIOUS

LEMMA Buffered ==
    ASSUME NEW found \in Nat, NEW enough \in Nat, found <= enough,
           NEW v, v = (found * (100 + BaseVGLBuffer)) \div 100
    PROVE  v \in Nat /\ found <= v /\ 100 * v <= (100 + BaseVGLBuffer) * enough
<1> DEFINE p == found * (100 + BaseVGLBuffer)
<1>1. p \in Nat /\ 100 * found <= p
  <2>1. BaseVGLBuffer \in Nat
    BY GasAssumption
  <2>2. p = 100 * found + found * BaseVGLBuffer /\ found * BaseVGLBuffer \in Nat
    BY <2>1
  <2> QED
    BY <2>2
<1>2. p <= (100 + BaseVGLBuffer) * enough
  <2>1. 100 + BaseVGLBuffer \in Nat
    BY GasAssumption
  <2>2. p = (100 + BaseVGLBuffer) * found
    BY <2>1
  <2> QED
    BY <2>1, <2>2, TimesGrows
<1>3. (100 + BaseVGLBuffer) * enough \in Nat
  BY GasAssumption
<1> HIDE DEF p
<1>4. v = p \div 100
  BY DEF p
<1>5. v \in Nat /\ found <= v /\ 100 * v <= p
  BY <1>1, <1>4
<1> QED
  BY <1>2, <1>3, <1>1, <1>5
-----------------------------------------------------------------------------
(* The steps.                                                              *)

LEMMA InitInv == EstInit => EstInv
<1> SUFFICES ASSUME EstInit PROVE EstInv
  OBVIOUS
<1>1. SceneAssumption(scene)
  BY GasAssumption DEF EstInit
<1> QED
  BY <1>1 DEF EstInit, EstInv, EstStages, Retrying

\* A search that starts knows nothing but the limit of the retry.
LEMMA StartSearchInv ==
    ASSUME EstInv, StartSearch, SceneAssumption(scene'), scene'.need = scene.need,
           scene'.post = scene.post, lastVGL' \in Nat, Retrying', UNCHANGED <<vgl, cgl>>
    PROVE  EstInv'
<1>1. scene'.need \in Nat /\ MaxGasLimit \in Nat
  BY GasAssumption, SceneFields DEF EstInv
<1>2. SearchingVGL'
  BY <1>1 DEF StartSearch, SearchingVGL
<1> QED
  BY <1>2 DEF EstInv, StartSearch, EstStages

LEMMA FailsInv ==
    ASSUME EstInv, EstFails, UNCHANGED <<scene, vgl>>, best' \in Nat, cgl' \in Nat,
           lastVGL' = lastVGL
    PROVE  EstInv'
BY DEF EstInv, EstFails, EstStages, Retrying

LEMMA EstimateUserOperationGasInv ==
    ASSUME EstInv, EstimateUserOperationGas PROVE EstInv'
<1> USE DEF EstimateUserOperationGas
<1>1. CASE estimating' = "err" /\ UNCHANGED <<search, lastVGL>>
  BY <1>1, FailsInv DEF EstFails, search, EstInv
<1>2. CASE estimating' = "prices" /\ UNCHANGED <<search, lastVGL>>
  BY <1>2 DEF EstInv, EstStages, search, Retrying
<1>3. CASE lastVGL' = 0 /\ StartSearch
  BY <1>3, StartSearchInv DEF EstInv, Retrying
<1> QED
  BY <1>1, <1>2, <1>3

\* New fees change nothing that the estimation looks for.
LEMMA GetGasPricesInv ==
    ASSUME EstInv, NEW baseFee, NEW suggested, GetGasPrices(baseFee, suggested)
    PROVE  EstInv'
<1>1. PICK op : scene' = [scene EXCEPT !.op = op] /\ "pvg" \in DOMAIN op /\ op.pvg = scene.op.pvg
  <2>1. PICK x, y : scene' = [scene EXCEPT !.op.maxFee = x, !.op.maxTip = y]
    BY DEF GetGasPrices
  <2> DEFINE op == [scene.op EXCEPT !.maxFee = x, !.maxTip = y]
  <2>2. scene' = [scene EXCEPT !.op = op]
    BY <2>1 DEF EstInv, SceneAssumption
  <2>3. "pvg" \in DOMAIN scene.op
    BY DEF EstInv, SceneAssumption
  <2>4. "pvg" \in DOMAIN op /\ op.pvg = scene.op.pvg
    BY <2>3
  <2> QED
    BY <2>2, <2>4
<1>2. /\ scene' = [scene EXCEPT !.op = op] /\ SceneAssumption(scene)
      /\ "pvg" \in DOMAIN op /\ op.pvg \in Nat
  BY <1>1, SceneFields DEF EstInv
<1>3. SceneAssumption(scene') /\ scene'.need = scene.need /\ scene'.post = scene.post
  BY <1>2 DEF SceneAssumption
<1> QED
  BY <1>3, StartSearchInv DEF GetGasPrices, Retrying

LEMMA SearchVGLInv ==
    ASSUME EstInv, SearchVGL PROVE EstInv'
<1> DEFINE text == SimulateHandleOp(Verified(Middle, 0, TRUE))
<1>1. /\ SceneAssumption(scene) /\ SearchingVGL /\ best \in Nat /\ scene.need \in Nat
      /\ estimating = "searchVGL" /\ lastVGL = 0 /\ lo \in Nat /\ hi \in Int
      /\ UNCHANGED <<scene, lastVGL, vgl, cgl>> /\ simErr' = text
  BY SceneFields DEF EstInv, SearchVGL, SearchingVGL, retry
<1>2. /\ Middle \in Nat /\ Middle # 0 /\ lo <= Middle /\ Middle < hi
      /\ Middle + 1 \in Nat /\ Middle - 1 \in Int
  BY <1>1, MiddleIsBetween DEF SearchVGL
<1>3. /\ text = Ok => scene.need <= Middle /\ CanPay(Middle, 0)
      /\ isPrefundNotPaid(text) => ~ CanPay(Middle, 0)
      /\ isValidationOOG(text) => Middle < scene.need
  BY <1>1, <1>2, Simulated
<1>4. CASE estimating' = "searchVGL"
  <2>1. SearchingVGL' => EstInv'
    BY <1>1, <1>2, <1>4 DEF EstInv, EstStages, SearchVGL, Retrying
  <2>2. CASE text = Ok /\ hi' = Middle - 1 /\ best' = Middle /\ UNCHANGED lo
    <3>1. CanPay(best, 0)' <=> CanPay(Middle, 0)
      BY <1>1, <2>2 DEF CanPay, Funds
    <3> QED
      BY <1>1, <1>2, <1>3, <2>1, <2>2, <3>1 DEF SearchingVGL
  <2>3. CASE isPrefundNotPaid(text) /\ hi' = Middle - 1 /\ UNCHANGED <<lo, best>>
    <3>1. best = 0
      <4>1. SUFFICES ASSUME best # 0 PROVE FALSE
        OBVIOUS
      <4>2. CanPay(best, 0) /\ Middle <= best
        BY <1>1, <1>2, <4>1 DEF SearchingVGL
      <4> QED
        BY <1>1, <1>2, <1>3, <2>3, <4>2, CanPayLess
    <3>2. text # Ok
      BY <2>3 DEF isPrefundNotPaid, Ok
    <3> QED
      BY <1>1, <1>2, <2>1, <2>3, <3>1, <3>2 DEF SearchingVGL
  <2>4. CASE isValidationOOG(text) /\ lo' = Middle + 1 /\ UNCHANGED <<hi, best>>
    <3>1. text # Ok
      BY <2>4 DEF isValidationOOG, Ok
    <3>2. CanPay(best, 0)' <=> CanPay(best, 0)
      BY <1>1, <2>4 DEF CanPay, Funds
    <3>3. lo' \in Nat /\ lo' <= scene'.need
      BY <1>1, <1>2, <1>3, <2>4
    <3>4. best' # 0 => best' = hi' + 1 /\ scene'.need <= best' /\ CanPay(best, 0)'
      BY <1>1, <2>4, <3>2 DEF SearchingVGL
    <3> QED
      BY <1>1, <2>1, <2>4, <3>1, <3>3, <3>4 DEF SearchingVGL
  <2> QED
    BY <1>4, <2>2, <2>3, <2>4 DEF SearchVGL, EstFails
<1>5. CASE EstFails /\ UNCHANGED best
  BY <1>1, <1>5, FailsInv DEF EstInv
<1> QED
  BY <1>1, <1>4, <1>5 DEF SearchVGL

LEMMA SearchVGLDoneInv ==
    ASSUME EstInv, SearchVGLDone PROVE EstInv'
<1>1. /\ SceneAssumption(scene) /\ SearchingVGL /\ best \in Nat /\ estimating = "searchVGL"
      /\ scene.need \in Nat /\ scene.post \in Nat /\ Cutoff \in Nat
      /\ UNCHANGED <<scene, search, lastVGL, cgl>>
  BY GasAssumption, SceneFields DEF EstInv, SearchVGLDone, search, retry
<1>2. CASE best = 0
  <2>1. simErr # Ok
    BY <1>1, <1>2, SearchStarts DEF SearchingVGL, SearchVGLDone
  <2> QED
    BY <1>1, <1>2, <2>1, FailsInv DEF SearchVGLDone, EstFails, EstInv, search
<1>3. CASE best # 0
  <2>1. vgl' = (best * (100 + BaseVGLBuffer)) \div 100 /\ estimating' = "trace"
    BY <1>3 DEF SearchVGLDone
  <2>2. scene.need <= best
    BY <1>1, <1>3 DEF SearchingVGL, EstInv, Retrying
  <2>3. \E enough \in {scene.need + Cutoff, scene.post} : best <= enough
    BY <1>1, <1>3 DEF SearchingVGL, EstInv, Retrying, SearchVGLDone, Searching
  <2>4. PICK enough \in {scene.need + Cutoff, scene.post} : best <= enough
    BY <2>3
  <2>5. /\ vgl' \in Nat /\ best <= vgl' /\ enough \in Nat
        /\ 100 * vgl' <= (100 + BaseVGLBuffer) * enough
    BY <1>1, <2>1, <2>4, Buffered
  <2>6. VGLIsTight'
    BY <1>1, <2>4, <2>5 DEF VGLIsTight
  <2>7. scene'.need <= vgl'
    BY <1>1, <2>2, <2>5
  <2> QED
    BY <1>1, <2>1, <2>5, <2>6, <2>7 DEF EstInv, EstStages, search, Retrying
<1> QED
  BY <1>2, <1>3

\* A retry is for an error that more verificationGas than vgl would avoid.
LEMMA RetryInv ==
    ASSUME EstInv, NEW text, Retry(text), UNCHANGED <<scene, vgl, cgl>>,
           scene.need <= vgl, isValidationOOG(text) => vgl < scene.post
    PROVE  EstInv'
<1>1. CASE isValidationOOG(text) /\ lastVGL' = vgl /\ StartSearch
  BY <1>1, StartSearchInv DEF EstInv, Retrying
<1>2. CASE EstFails /\ UNCHANGED <<search, retry>>
  BY <1>2, FailsInv DEF EstInv, search, retry
<1> QED
  BY <1>1, <1>2 DEF Retry

\* An execution without a gas price is never out of funds.
LEMMA TracedUnpaid ==
    ASSUME SceneAssumption(scene), NEW v \in Nat, NEW c \in Nat, scene.need <= v,
           NEW text, text = TraceSimulateHandleOp(Executed(v, c, FALSE))
    PROVE  isValidationOOG(text) => v < scene.post
BY Traced DEF Ok, isValidationOOG

LEMMA TraceExecutionInv ==
    ASSUME EstInv, TraceExecution PROVE EstInv'
<1> DEFINE text == TraceSimulateHandleOp(Executed(vgl, MaxGasLimit, FALSE))
<1>1. /\ SceneAssumption(scene) /\ vgl \in Nat /\ scene.need <= vgl /\ VGLIsTight
      /\ MaxGasLimit \in Nat /\ scene.traced \in Nat /\ scene.gas \in Nat /\ Cutoff \in Nat
      /\ scene.traced <= scene.gas /\ UNCHANGED <<scene, vgl>>
  BY GasAssumption, SceneFields DEF EstInv, TraceExecution
<1>2. CASE text = Ok
  <2>1. /\ cgl' = IF scene.traced < NonZeroValueCall THEN NonZeroValueCall ELSE scene.traced
        /\ estimating' = "confirm" /\ UNCHANGED <<search, retry>>
    BY <1>2 DEF TraceExecution
  <2>2. cgl' \in Nat /\ NonZeroValueCall <= cgl' /\ CGLIsTight'
    BY <1>1, <2>1 DEF CGLIsTight, NonZeroValueCall
  <2>3. VGLIsTight'
    BY <1>1 DEF VGLIsTight
  <2> QED
    BY <1>1, <2>1, <2>2, <2>3 DEF EstInv, EstStages, search, retry, Retrying
<1>3. CASE text # Ok
  <2>1. Retry(text) /\ UNCHANGED cgl
    BY <1>3 DEF TraceExecution
  <2>2. isValidationOOG(text) => vgl < scene.post
    BY <1>1, TracedUnpaid
  <2> QED
    BY <1>1, <2>1, <2>2, RetryInv
<1> QED
  BY <1>2, <1>3

\* What an execution that is paid for tells.
LEMMA TracedPaid ==
    ASSUME SceneAssumption(scene), NEW v \in Nat, NEW c \in Nat, scene.need <= v,
           NEW text, text = TraceSimulateHandleOp(Executed(v, c, TRUE))
    PROVE  /\ text = Ok => /\ scene.post <= v /\ scene.gas <= c /\ CanPay(v, c)
                           /\ scene.execution = "fine"
           /\ isPrefundNotPaid(text) => ~ CanPay(v, c)
           /\ isValidationOOG(text) => v < scene.post
           /\ isExecutionOOG(text) \/ isExecutionReverted(text) =>
                c < scene.gas \/ scene.execution = "drains"
BY Traced, ZenonT(30) DEF Ok, isPrefundNotPaid, isValidationOOG, isExecutionOOG, isExecutionReverted

LEMMA ConfirmInv ==
    ASSUME EstInv, Confirm PROVE EstInv'
<1> DEFINE text == TraceSimulateHandleOp(Executed(vgl, cgl, TRUE))
<1>1. /\ SceneAssumption(scene) /\ vgl \in Nat /\ cgl \in Nat /\ scene.need <= vgl
      /\ VGLIsTight /\ CGLIsTight /\ NonZeroValueCall <= cgl
      /\ scene.gas \in Nat /\ scene.need \in Nat /\ scene.post \in Nat /\ MaxGasLimit \in Nat
      /\ UNCHANGED <<scene, vgl, cgl>>
  BY GasAssumption, SceneFields DEF EstInv, Confirm
<1>2. VGLIsTight' /\ CGLIsTight'
  BY <1>1 DEF VGLIsTight, CGLIsTight
<1>3. CASE text = Ok /\ estimating' = "pvg" /\ UNCHANGED <<search, retry>>
  <2>1. scene.post <= vgl /\ scene.gas <= cgl /\ CanPay(vgl, cgl)
    BY <1>1, <1>3, TracedPaid
  <2>2. CanPay(vgl, cgl)'
    BY <1>1, <2>1 DEF CanPay, Funds
  <2>3. EstimateIsEnough'
    BY <1>1, <2>1, <2>2 DEF EstimateIsEnough
  <2> QED
    BY <1>1, <1>2, <1>3, <2>3 DEF EstInv, EstStages, search, retry, Retrying
<1>4. CASE /\ isExecutionOOG(text) \/ isExecutionReverted(text)
           /\ lo' = cgl /\ hi' = MaxGasLimit /\ best' = 0
           /\ estimating' = "searchCGL" /\ UNCHANGED retry
  <2>1. cgl < scene.gas \/ scene.execution = "drains"
    BY <1>1, <1>4, TracedPaid
  <2>2. SearchingCGL'
    <3>1. scene'.execution = "fine" => lo' <= scene'.gas
      BY <1>1, <1>4, <2>1
    <3> QED
      BY <1>1, <1>4, <3>1 DEF SearchingCGL
  <2> QED
    BY <1>1, <1>2, <1>4, <2>2 DEF EstInv, EstStages, retry, Retrying
<1>5. CASE Retry(text)
  <2>1. isValidationOOG(text) => vgl < scene.post
    BY <1>1, TracedPaid
  <2> QED
    BY <1>1, <1>5, <2>1, RetryInv
<1>6. text # Ok \/ ~ (isExecutionOOG(text) \/ isExecutionReverted(text))
  BY DEF Ok, isExecutionOOG, isExecutionReverted
<1> QED
  BY <1>3, <1>4, <1>5, <1>6 DEF Confirm

LEMMA SearchCGLInv ==
    ASSUME EstInv, SearchCGL PROVE EstInv'
<1> DEFINE text == TraceSimulateHandleOp(Executed(vgl, Middle, TRUE))
<1>1. /\ SceneAssumption(scene) /\ SearchingCGL /\ vgl \in Nat /\ cgl \in Nat /\ best \in Nat
      /\ scene.need <= vgl /\ VGLIsTight /\ CGLIsTight /\ NonZeroValueCall <= cgl
      /\ scene.gas \in Nat /\ scene.post \in Nat /\ estimating = "searchCGL"
      /\ UNCHANGED <<scene, lastVGL, vgl, cgl>>
  BY SceneFields DEF EstInv, SearchCGL, retry
<1>2. /\ lo \in Nat /\ hi \in Int /\ cgl <= lo
      /\ Middle \in Nat /\ Middle # 0 /\ lo <= Middle /\ Middle < hi
      /\ Middle + 1 \in Nat /\ Middle - 1 \in Int
  BY <1>1, MiddleIsBetween DEF SearchCGL, SearchingCGL
<1>3. VGLIsTight' /\ CGLIsTight'
  BY <1>1 DEF VGLIsTight, CGLIsTight
<1>4. CASE UNCHANGED estimating
  <2>1. SearchingCGL' /\ best' \in Nat => EstInv'
    BY <1>1, <1>3, <1>4 DEF EstInv, EstStages, Retrying
  <2>2. CASE text = Ok /\ hi' = Middle - 1 /\ best' = Middle /\ UNCHANGED lo
    <3>1. /\ scene.post <= vgl /\ scene.gas <= Middle /\ CanPay(vgl, Middle)
          /\ scene.execution = "fine"
      BY <1>1, <1>2, <2>2, TracedPaid
    <3>2. CanPay(vgl, best)'
      BY <1>1, <2>2, <3>1 DEF CanPay, Funds
    <3> QED
      BY <1>1, <1>2, <2>1, <2>2, <3>1, <3>2 DEF SearchingCGL
  <2>3. CASE isPrefundNotPaid(text) /\ hi' = Middle - 1 /\ UNCHANGED <<lo, best>>
    <3>1. best = 0
      <4>1. SUFFICES ASSUME best # 0 PROVE FALSE
        OBVIOUS
      <4>2. CanPay(vgl, best) /\ Middle <= best
        BY <1>1, <1>2, <4>1 DEF SearchingCGL
      <4>3. CanPay(vgl, Middle)
        BY <1>1, <1>2, <4>2, CanPayLess
      <4> QED
        BY <1>1, <1>2, <2>3, <4>3, TracedPaid
    <3> QED
      BY <1>1, <1>2, <2>1, <2>3, <3>1 DEF SearchingCGL
  <2>4. CASE /\ isExecutionOOG(text) \/ isExecutionReverted(text)
             /\ lo' = Middle + 1 /\ UNCHANGED <<hi, best>>
    <3>1. Middle < scene.gas \/ scene.execution = "drains"
      BY <1>1, <1>2, <2>4, TracedPaid
    <3>2. /\ lo' \in Nat /\ cgl' <= lo'
          /\ scene'.execution = "fine" => lo' <= scene'.gas
      BY <1>1, <1>2, <2>4, <3>1
    <3>3. CanPay(vgl, best)' <=> CanPay(vgl, best)
      BY <1>1, <2>4 DEF CanPay, Funds
    <3> QED
      BY <1>1, <1>2, <2>1, <2>4, <3>2, <3>3 DEF SearchingCGL
  <2> QED
    BY <1>1, <1>4, <2>2, <2>3, <2>4 DEF SearchCGL, EstFails
<1>5. CASE EstFails /\ UNCHANGED best
  BY <1>1, <1>5, FailsInv DEF EstInv
<1> QED
  BY <1>1, <1>4, <1>5 DEF SearchCGL

LEMMA SearchCGLDoneInv ==
    ASSUME EstInv, SearchCGLDone PROVE EstInv'
<1>1. /\ SceneAssumption(scene) /\ SearchingCGL /\ vgl \in Nat /\ cgl \in Nat /\ best \in Nat
      /\ scene.need <= vgl /\ VGLIsTight /\ NonZeroValueCall <= cgl
      /\ scene.gas \in Nat /\ scene.post \in Nat /\ Cutoff \in Nat
      /\ UNCHANGED <<scene, search, lastVGL, vgl>> /\ ~ Searching
  BY GasAssumption, SceneFields DEF EstInv, SearchCGLDone, retry
<1>2. CASE best = 0
  BY <1>1, <1>2, FailsInv DEF SearchCGLDone, search
<1>3. CASE best # 0
  <2>1. cgl' = best /\ estimating' = "pvg"
    BY <1>3 DEF SearchCGLDone
  <2>2. /\ lo \in Nat /\ hi \in Int /\ lo <= scene.gas /\ best = hi + 1 /\ cgl <= best
        /\ scene.gas <= best /\ scene.post <= vgl /\ CanPay(vgl, best)
    BY <1>1, <1>3 DEF SearchingCGL
  <2>3. best <= scene.gas + Cutoff
    BY <1>1, <2>2 DEF Searching
  <2>4. CGLIsTight' /\ VGLIsTight'
    BY <1>1, <2>1, <2>3 DEF CGLIsTight, VGLIsTight
  <2>5. CanPay(vgl, cgl)' /\ NonZeroValueCall <= cgl'
    <3>1. CanPay(vgl, cgl)'
      BY <1>1, <2>1, <2>2 DEF CanPay, Funds
    <3>2. NonZeroValueCall <= cgl'
      BY <1>1, <2>1, <2>2 DEF NonZeroValueCall
    <3> QED
      BY <3>1, <3>2
  <2>6. EstimateIsEnough'
    BY <1>1, <2>1, <2>2, <2>5 DEF EstimateIsEnough
  <2> QED
    BY <1>1, <2>1, <2>4, <2>5, <2>6 DEF EstInv, EstStages, search, Retrying
<1> QED
  BY <1>2, <1>3

LEMMA CalcPVGInv ==
    ASSUME EstInv, NEW l1, CalcPVG(l1) PROVE EstInv'
<1>1. /\ estimating = "pvg" /\ estimating' = "ok"
      /\ UNCHANGED <<scene, best, lastVGL, vgl, cgl>>
  BY DEF CalcPVG, search, retry
<1>2. CanPay(vgl, cgl)' <=> CanPay(vgl, cgl)
  BY <1>1 DEF CanPay, Funds
<1>3. (VGLIsTight' <=> VGLIsTight) /\ (CGLIsTight' <=> CGLIsTight)
  BY <1>1 DEF VGLIsTight, CGLIsTight
<1> QED
  BY <1>1, <1>2, <1>3 DEF EstInv, EstStages, EstimateIsEnough, Retrying

LEMMA NodeFailsInv ==
    ASSUME EstInv, NodeFails PROVE EstInv'
BY FailsInv DEF NodeFails, EstInv, search, retry

LEMMA StutterInv ==
    ASSUME EstInv, UNCHANGED estVars PROVE EstInv'
<1>1. UNCHANGED <<estimating, scene, lo, hi, best, simErr, lastVGL, vgl, cgl>>
  BY DEF estVars, search, retry
<1> QED
  BY <1>1 DEF EstInv, SearchingVGL, SearchingCGL, EstimateIsEnough, VGLIsTight, CGLIsTight,
              CanPay, Funds, Retrying

LEMMA NextInv == EstInv /\ [EstNext]_estVars => EstInv'
<1> SUFFICES ASSUME EstInv, [EstNext]_estVars PROVE EstInv'
  OBVIOUS
<1>1. CASE EstNext
  BY <1>1, EstimateUserOperationGasInv, GetGasPricesInv, SearchVGLInv, SearchVGLDoneInv,
     TraceExecutionInv, ConfirmInv, SearchCGLInv, SearchCGLDoneInv, CalcPVGInv, NodeFailsInv
     DEF EstNext, EstimateStep
<1>2. CASE UNCHANGED estVars
  BY <1>2, StutterInv
<1> QED
  BY <1>1, <1>2

LEMMA EstInvAlways == EstSpec => []EstInv
BY InitInv, NextInv, PTL DEF EstSpec

\* estimate.go:165-175: with the limits of an estimate the op is verified,
\* executed and paid for, for every scene, batch gas limit, cutoff, buffer and
\* number of retries (EstimateIsEnough).
THEOREM Enough == EstSpec => []EstimateIsEnough
<1>1. EstInv => EstimateIsEnough
  BY DEF EstInv, EstimateIsEnough
<1> QED
  BY <1>1, EstInvAlways, PTL

\* estimate.go:90 and :183: neither search stops further than the cutoff above
\* what is enough (EstimateIsTight).
THEOREM Tight == EstSpec => []EstimateIsTight
<1>1. EstInv => EstimateIsTight
  BY DEF EstInv, EstimateIsTight, VGLIsTight, CGLIsTight
<1> QED
  BY <1>1, EstInvAlways, PTL
-----------------------------------------------------------------------------
(* Types.                                                                  *)

\* All of EstTypeOK but for pvg, which is what the L1 makes of it.
SearchTypes ==
    /\ lo \in Nat /\ hi \in Int /\ simErr \in Texts \union {Ok}
    /\ attempts \in 0 .. MaxRetries

\* A simulation says Ok or one of the texts of the EntryPoint.
LEMMA SimulatedText ==
    ASSUME SceneAssumption(scene), NEW v \in Nat
    PROVE  SimulateHandleOp(Verified(v, 0, TRUE)) \in Texts \union {Ok}
<1>1. scene.oog \in Texts
  BY SceneFields
<1>2. "AA21" \in Texts /\ "AA31" \in Texts
  BY DEF Texts
<1> DEFINE answer == Verified(v, 0, TRUE)
<1>3. \/ answer = Data("FailedOp", scene.oog)
      \/ \E text \in {"AA21", "AA31"} : answer = Data("FailedOp", text)
      \/ answer = Data("ExecutionResult", Ok)
  BY VerifiedCases
<1>4. /\ \A text : SimulateHandleOp(Data("FailedOp", text)) = text
      /\ SimulateHandleOp(Data("ExecutionResult", Ok)) = Ok
  BY SimulateHandleOpIs
<1> HIDE DEF answer
<1>5. SimulateHandleOp(answer) \in Texts \union {Ok}
  BY <1>1, <1>2, <1>3, <1>4
<1> QED
  BY <1>5 DEF answer

LEMMA TracedText ==
    ASSUME SceneAssumption(scene), NEW v \in Nat, NEW c \in Nat, NEW paid \in BOOLEAN,
           scene.need <= v
    PROVE  TraceSimulateHandleOp(Executed(v, c, paid)) \in Texts \union {Ok}
<1>1. {"AA21", "AA31", "AA51", "validationOOG", "other", "executionOOG", "executionReverted"}
        \subseteq Texts
  BY DEF Texts
<1> QED
  BY <1>1, Traced

\* A retry is counted as long as there are some left.
LEMMA RetryTypes ==
    ASSUME SearchTypes, NEW text, Retry(text) PROVE SearchTypes'
<1>1. MaxRetries \in Nat /\ MaxGasLimit \in Nat
  BY GasAssumption
<1>2. CASE attempts < MaxRetries /\ attempts' = attempts + 1 /\ StartSearch
  BY <1>1, <1>2 DEF SearchTypes, StartSearch
<1>3. CASE UNCHANGED <<search, retry>>
  BY <1>3 DEF SearchTypes, search, retry
<1> QED
  BY <1>2, <1>3 DEF Retry

LEMMA SearchTypesInit == EstInit => SearchTypes
BY GasAssumption DEF EstInit, SearchTypes

LEMMA SearchTypesNext == EstInv /\ SearchTypes /\ [EstNext]_estVars => SearchTypes'
<1> SUFFICES ASSUME EstInv, SearchTypes, [EstNext]_estVars PROVE SearchTypes'
  OBVIOUS
<1>1. SceneAssumption(scene) /\ vgl \in Nat /\ cgl \in Nat /\ MaxGasLimit \in Nat
  BY GasAssumption DEF EstInv
<1>2. ASSUME UNCHANGED <<search, attempts>> PROVE SearchTypes'
  BY <1>2 DEF SearchTypes, search
<1>3. ASSUME StartSearch, UNCHANGED attempts PROVE SearchTypes'
  BY <1>1, <1>3 DEF SearchTypes, StartSearch
<1>4. CASE EstimateUserOperationGas
  BY <1>2, <1>3, <1>4 DEF EstimateUserOperationGas
<1>5. ASSUME NEW baseFee, NEW suggested, GetGasPrices(baseFee, suggested) PROVE SearchTypes'
  BY <1>3, <1>5 DEF GetGasPrices
<1>6. ASSUME Searching
      PROVE  /\ Middle \in Nat /\ Middle + 1 \in Nat /\ Middle - 1 \in Int
  BY <1>6, MiddleIsBetween DEF SearchTypes
<1>7. CASE SearchVGL
  <2>1. simErr' \in Texts \union {Ok}
    BY <1>1, <1>6, <1>7, SimulatedText DEF SearchVGL
  <2>2. lo' \in Nat /\ hi' \in Int /\ UNCHANGED attempts
    BY <1>6, <1>7 DEF SearchVGL, SearchTypes, retry
  <2> QED
    BY <2>1, <2>2 DEF SearchTypes
<1>8. CASE SearchCGL
  <2>1. scene.need <= vgl
    BY <1>8 DEF EstInv, SearchCGL
  <2>2. simErr' \in Texts \union {Ok}
    BY <1>1, <1>6, <1>8, <2>1, TracedText DEF SearchCGL
  <2>3. lo' \in Nat /\ hi' \in Int /\ UNCHANGED attempts
    BY <1>6, <1>8 DEF SearchCGL, SearchTypes, retry
  <2> QED
    BY <2>2, <2>3 DEF SearchTypes
<1>9. CASE SearchVGLDone \/ SearchCGLDone \/ NodeFails
  BY <1>2, <1>9 DEF SearchVGLDone, SearchCGLDone, NodeFails, retry
<1>10. CASE TraceExecution
  BY <1>2, <1>10, RetryTypes DEF TraceExecution, retry
<1>11. CASE Confirm
  <2> DEFINE text == TraceSimulateHandleOp(Executed(vgl, cgl, TRUE))
  <2>1. text \in Texts \union {Ok}
    BY <1>1, <1>11, TracedText DEF EstInv, Confirm
  <2>2. \/ UNCHANGED <<search, retry>>
        \/ lo' = cgl /\ hi' = MaxGasLimit /\ simErr' = text /\ UNCHANGED retry
        \/ Retry(text)
    BY <1>11 DEF Confirm
  <2> HIDE DEF text
  <2> QED
    BY <1>1, <1>2, <2>1, <2>2, RetryTypes DEF SearchTypes, retry
<1>12. ASSUME NEW l1, CalcPVG(l1) PROVE SearchTypes'
  BY <1>2, <1>12 DEF CalcPVG, retry
<1>13. CASE UNCHANGED estVars
  BY <1>2, <1>13 DEF estVars, retry
<1> QED
  BY <1>4, <1>5, <1>7, <1>8, <1>9, <1>10, <1>11, <1>12, <1>13 DEF EstNext, EstimateStep
-----------------------------------------------------------------------------
(* An estimation ends.                                                      *)

\* The rounds count for more than what is left of a search.
LEMMA RoundsCount ==
    ASSUME NEW n \in Nat, NEW m \in Nat, NEW k \in Nat, NEW a \in Nat, NEW b \in Nat,
           m < n, b < k
    PROVE  m * k + b < n * k + a
<1>1. PICK d \in Nat : n = m + 1 + d
  <2>1. n - m - 1 \in Nat /\ n = m + 1 + (n - m - 1)
    OBVIOUS
  <2> QED
    BY <2>1
<1>2. n * k = m * k + k + d * k
  BY <1>1
<1>3. d * k \in Nat /\ m * k \in Nat
  OBVIOUS
<1> QED
  BY <1>2, <1>3

\* The upper end of a search never passes the limit of a batch.
EndInv == SearchTypes /\ hi <= MaxGasLimit

Counted ==
    /\ Rounds \in Nat /\ Rest \in Nat /\ Rest < MaxGasLimit + 1
    /\ StepsLeft \in Nat

LEMMA RoundsIs ==
    ASSUME EndInv, estimating \in EstStages
    PROVE  Counted
<1>1. MaxRetries - attempts \in Nat
  BY GasAssumption DEF EndInv, SearchTypes
<1>2. Rank[estimating] \in 0 .. 7
  BY DEF Rank, EstStages
<1>3. Rounds \in Nat
  BY <1>1, <1>2 DEF Rounds
<1>4. Rest \in Nat /\ Rest < MaxGasLimit + 1
  BY GasAssumption DEF EndInv, SearchTypes, Rest, Searching
<1>5. Rounds * (MaxGasLimit + 1) \in Nat
  BY <1>3, GasAssumption
<1> QED
  BY <1>3, <1>4, <1>5 DEF StepsLeft, Counted

\* A step that goes on to a later stage, or uses up a retry,
LEMMA NextRound ==
    ASSUME Counted, Counted', Rounds' < Rounds
    PROVE  StepsLeft' < StepsLeft
<1>1. /\ Rounds \in Nat /\ Rest \in Nat
      /\ Rounds' \in Nat /\ Rest' \in Nat /\ Rest' < MaxGasLimit + 1 /\ MaxGasLimit + 1 \in Nat
  BY GasAssumption DEF Counted
<1>2. Rounds' * (MaxGasLimit + 1) + Rest' < Rounds * (MaxGasLimit + 1) + Rest
  BY <1>1, RoundsCount
<1> QED
  BY <1>2 DEF StepsLeft

\* and one that stays in its search and leaves less of it, is an advance.
LEMMA LessToSearch ==
    ASSUME Counted, Counted', UNCHANGED <<estimating, attempts>>, Rest' < Rest
    PROVE  StepsLeft' < StepsLeft
<1>1. Rounds' = Rounds
  BY DEF Rounds
<1>2. Rounds \in Nat /\ Rest \in Nat /\ Rest' \in Nat /\ Rounds * (MaxGasLimit + 1) \in Nat
  BY <1>1, GasAssumption DEF Counted
<1> QED
  BY <1>1, <1>2 DEF StepsLeft

LEMMA LaterStage ==
    ASSUME EndInv, Counted, Counted', UNCHANGED attempts,
           estimating \in EstStages, estimating' \in EstStages,
           Rank[estimating'] < Rank[estimating]
    PROVE  StepsLeft' < StepsLeft
<1>1. MaxRetries - attempts \in Nat /\ attempts' = attempts
  BY GasAssumption DEF EndInv, SearchTypes
<1>2. Rank[estimating'] \in Nat /\ Rank[estimating] \in Nat
  BY DEF Rank, EstStages
<1>3. Rounds' < Rounds
  BY <1>1, <1>2 DEF Rounds
<1> QED
  BY <1>3, NextRound

\* A retry starts from the first search, but there is one retry less.
LEMMA RetryAdvances ==
    ASSUME EndInv, Counted, Counted', estimating \in {"trace", "confirm"}, NEW text, Retry(text)
    PROVE  StepsLeft' < StepsLeft
<1>1. CASE attempts < MaxRetries /\ attempts' = attempts + 1 /\ StartSearch
  <2>1. estimating' = "searchVGL" /\ Rank[estimating'] = 5 /\ Rank[estimating] \in 3 .. 4
    BY <1>1 DEF StartSearch, Rank
  <2>2. attempts \in Nat /\ MaxRetries \in Nat
    BY GasAssumption DEF EndInv, SearchTypes
  <2>3. Rounds' < Rounds
    BY <1>1, <2>1, <2>2 DEF Rounds
  <2> QED
    BY <2>3, NextRound
<1>2. CASE EstFails /\ UNCHANGED <<search, retry>>
  BY <1>2, LaterStage DEF EstFails, EstStages, Rank, retry
<1> QED
  BY <1>1, <1>2 DEF Retry

\* One step of a search leaves less of it.
LEMMA SearchShrinks ==
    ASSUME EndInv, Counted, Counted', estimating \in {"searchVGL", "searchCGL"}, Searching,
           UNCHANGED <<estimating, attempts>>,
           \/ hi' = Middle - 1 /\ lo' = lo
           \/ lo' = Middle + 1 /\ hi' = hi
    PROVE  StepsLeft' < StepsLeft
<1>1. lo \in Nat /\ hi \in Int /\ Cutoff \in Nat /\ 1 < Cutoff
  BY GasAssumption DEF EndInv, SearchTypes
<1>2. Middle \in Nat /\ lo <= Middle /\ Middle < hi
  BY <1>1, MiddleIsBetween
<1>3. hi' - lo' < hi - lo /\ 0 < hi - lo /\ Rest = hi - lo
  BY <1>1, <1>2 DEF Rest, Searching
<1>4. Rest' = hi' - lo' \/ Rest' = 0
  BY DEF Rest
<1>5. Rest' < Rest
  BY <1>3, <1>4
<1> QED
  BY <1>5, LessToSearch

\* No search looks beyond the limit of a batch.
LEMMA EndInvNext == EstInv /\ EndInv /\ [EstNext]_estVars => EndInv'
<1> SUFFICES ASSUME EstInv, EndInv, [EstNext]_estVars PROVE EndInv'
  OBVIOUS
<1>1. SearchTypes'
  BY SearchTypesNext DEF EndInv
<1>2. CASE UNCHANGED hi
  BY <1>1, <1>2 DEF EndInv
<1>3. CASE hi' = MaxGasLimit
  BY <1>1, <1>3, GasAssumption DEF EndInv
<1>4. ASSUME Searching, hi' = Middle - 1 PROVE EndInv'
  <2>1. Middle \in Nat /\ Middle < hi /\ hi \in Int /\ hi <= MaxGasLimit
    BY <1>4, MiddleIsBetween DEF EndInv, SearchTypes
  <2> QED
    BY <1>1, <1>4, <2>1, GasAssumption DEF EndInv
<1>5. CASE EstimateUserOperationGas \/ \E baseFee \in 0 .. 1 : GetGasPrices(baseFee, 1)
  BY <1>2, <1>3, <1>5 DEF EstimateUserOperationGas, GetGasPrices, StartSearch, search
<1>6. CASE SearchVGL \/ SearchCGL
  BY <1>2, <1>4, <1>6 DEF SearchVGL, SearchCGL
<1>7. CASE SearchVGLDone \/ SearchCGLDone \/ NodeFails \/ \E l1 \in L1s : CalcPVG(l1)
  BY <1>2, <1>7 DEF SearchVGLDone, SearchCGLDone, NodeFails, CalcPVG, search
<1>8. CASE TraceExecution
  BY <1>2, <1>3, <1>8 DEF TraceExecution, Retry, StartSearch, search
<1>9. CASE Confirm
  BY <1>2, <1>3, <1>9 DEF Confirm, Retry, StartSearch, search
<1>10. CASE UNCHANGED estVars
  BY <1>2, <1>10 DEF estVars, search
<1> QED
  BY <1>5, <1>6, <1>7, <1>8, <1>9, <1>10 DEF EstNext, EstimateStep

\* Every step of an estimation is an advance.
LEMMA StepAdvances ==
    ASSUME EstInv, EndInv, Counted, Counted', EstNext
    PROVE  StepsLeft' < StepsLeft
<1> USE DEF Rank, EstStages
<1>1. CASE EstimateUserOperationGas
  <2>1. /\ estimating = "idle" /\ estimating' \in {"err", "prices", "searchVGL"}
        /\ UNCHANGED attempts
    BY <1>1 DEF EstimateUserOperationGas, StartSearch
  <2> QED
    BY <2>1, LaterStage
<1>2. ASSUME NEW baseFee \in 0 .. 1, GetGasPrices(baseFee, 1) PROVE StepsLeft' < StepsLeft
  <2>1. estimating = "prices" /\ estimating' = "searchVGL" /\ UNCHANGED attempts
    BY <1>2 DEF GetGasPrices, StartSearch
  <2> QED
    BY <2>1, LaterStage
<1>3. CASE SearchVGL \/ SearchCGL
  <2>1. estimating \in {"searchVGL", "searchCGL"} /\ Searching /\ UNCHANGED attempts
    BY <1>3 DEF SearchVGL, SearchCGL, retry
  <2>2. \/ EstFails
        \/ /\ UNCHANGED estimating
           /\ (hi' = Middle - 1 /\ lo' = lo) \/ (lo' = Middle + 1 /\ hi' = hi)
    BY <1>3 DEF SearchVGL, SearchCGL
  <2>3. CASE EstFails
    <3>1. estimating' = "err"
      BY <2>3 DEF EstFails
    <3> QED
      BY <2>1, <3>1, LaterStage
  <2> QED
    BY <2>1, <2>2, <2>3, SearchShrinks
<1>4. CASE SearchVGLDone
  <2>1. estimating = "searchVGL" /\ estimating' \in {"pvg", "err", "trace"} /\ UNCHANGED attempts
    BY <1>4 DEF SearchVGLDone, retry
  <2> QED
    BY <2>1, LaterStage
<1>5. CASE TraceExecution
  <2> DEFINE text == TraceSimulateHandleOp(Executed(vgl, MaxGasLimit, FALSE))
  <2>1. estimating = "trace" /\ ((estimating' = "confirm" /\ UNCHANGED attempts) \/ Retry(text))
    BY <1>5 DEF TraceExecution, retry
  <2> HIDE DEF text
  <2>2. CASE estimating' = "confirm" /\ UNCHANGED attempts
    BY <2>1, <2>2, LaterStage
  <2> QED
    BY <2>1, <2>2, RetryAdvances
<1>6. CASE Confirm
  <2> DEFINE text == TraceSimulateHandleOp(Executed(vgl, cgl, TRUE))
  <2>1. /\ estimating = "confirm"
        /\ (estimating' \in {"pvg", "searchCGL"} /\ UNCHANGED attempts) \/ Retry(text)
    BY <1>6 DEF Confirm, retry
  <2> HIDE DEF text
  <2>2. CASE estimating' \in {"pvg", "searchCGL"} /\ UNCHANGED attempts
    BY <2>1, <2>2, LaterStage
  <2> QED
    BY <2>1, <2>2, RetryAdvances
<1>7. CASE SearchCGLDone
  <2>1. estimating = "searchCGL" /\ estimating' \in {"err", "pvg"} /\ UNCHANGED attempts
    BY <1>7 DEF SearchCGLDone, EstFails, retry
  <2> QED
    BY <2>1, LaterStage
<1>8. ASSUME NEW l1, CalcPVG(l1) PROVE StepsLeft' < StepsLeft
  <2>1. estimating = "pvg" /\ estimating' = "ok" /\ UNCHANGED attempts
    BY <1>8 DEF CalcPVG, retry
  <2> QED
    BY <2>1, LaterStage
<1>9. CASE NodeFails
  <2>1. /\ estimating \in {"prices", "trace", "confirm", "pvg", "searchVGL", "searchCGL"}
        /\ estimating' = "err" /\ UNCHANGED attempts
    BY <1>9 DEF NodeFails, EstFails, retry
  <2> QED
    BY <2>1, LaterStage
<1> QED
  BY <1>1, <1>2, <1>3, <1>4, <1>5, <1>6, <1>7, <1>8, <1>9 DEF EstNext, EstimateStep

\* What the steps of a specification that contains an estimation rest on.
LEMMA EndInvInit == EstInit => EndInv
BY SearchTypesInit, GasAssumption DEF EstInit, EndInv

LEMMA EndInvCounts == EstInv /\ EndInv => Counted
BY RoundsIs DEF EstInv

LEMMA NextAdvances ==
    EstInv /\ EndInv /\ Counted /\ Counted' /\ [EstNext]_estVars => [StepsLeft' < StepsLeft]_estVars
BY StepAdvances

\* estimate.go:61, 97 and 191: every step of an estimation, whatever the node
\* answers, leaves fewer steps, and there is only a number of them from the start:
\* for every batch gas limit, cutoff and number of retries (EstimationAdvances).
THEOREM Advances == EstSpec => EstimationAdvances
<1> DEFINE Less == StepsLeft' < StepsLeft
<1>1. Counted => StepsLeft \in Nat
  BY DEF Counted
<1>2. EstInv /\ EndInv /\ Counted /\ Counted' /\ [EstNext]_estVars => [Less]_estVars
  BY NextAdvances
<1> HIDE DEF Less
<1>3. EstSpec => [](EstInv /\ EndInv /\ Counted)
  BY EstInvAlways, EndInvInit, EndInvNext, EndInvCounts, PTL DEF EstSpec
<1>4. EstSpec => [](StepsLeft \in Nat) /\ [][Less]_estVars
  BY <1>1, <1>2, <1>3, PTL DEF EstSpec
<1> QED
  BY <1>4 DEF EstimationAdvances, Less
=============================================================================
