----------------------------- MODULE NodeAnswers -----------------------------
(***************************************************************************)
(* How the answers of the node to simulateHandleOp and simulateValidation  *)
(* are decoded, and what an error is taken for.  A decoded answer is Ok or *)
(* the text of an error.                                                   *)
(***************************************************************************)
EXTENDS Sequences

Ok == "ok"

\* The texts of errors that the code tells apart.  The codes are those of the
\* EntryPoint; "other" stands for all others, as AA24 or AA25.
Texts == {"AA13", "AA21", "AA23", "AA31", "AA33", "AA40", "AA41", "AA51",
          "outOfBounds", "validationOOG", "executionOOG", "executionReverted",
          "panic", "undecodable", "connection", "other"}

\* An error of a call: nil, one without data (of the connection, say), or one
\* with data.  Its data is the ABI encoding of an error, with a reason, or
\* else something that is no such encoding ("bytes"), nothing ("empty"), or no
\* hex string at all ("none").
Nil              == [type |-> "nil", abi |-> "none", text |-> Ok]
Plain(text)      == [type |-> "plain", abi |-> "none", text |-> text]
Data(abi, text)  == [type |-> "data", abi |-> abi, text |-> text]

Unpacks(err, name) == err.type = "data" /\ err.abi = name

NewExecutionResult(err)  == Unpacks(err, "ExecutionResult")
NewValidationResult(err) == Unpacks(err, "ValidationResult")
NewFailedOp(err)         == Unpacks(err, "FailedOp")
DecodeRevert(err)        == Unpacks(err, "Error")
DecodePanic(err)         == Unpacks(err, "Panic")

\* The output of a trace becomes an error that carries it, if it is hex.
ParseHexToRpcDataError(abi) == abi # "none"
-----------------------------------------------------------------------------
\* eth_call of simulateHandleOp: it always reverts, with a result or a reason.
SimulateHandleOp(err) ==
    CASE NewExecutionResult(err) -> Ok
      [] NewFailedOp(err) -> err.text
      [] err = Nil -> "undecodable"
      [] OTHER -> err.text

\* eth_call of simulateValidation: no error is an error.
SimulateValidation(err) ==
    CASE NewValidationResult(err) -> Ok
      [] NewFailedOp(err) -> err.text
      [] OTHER -> "undecodable"

\* The last of the reverts that the tracer saw.
LastRevert(trace) ==
    LET last == trace.reverts[Len(trace.reverts)]
    IN  CASE last.abi = "empty" ->
                IF trace.executionOOG THEN "executionOOG" ELSE "executionReverted"
          [] DecodeRevert(last) -> last.text
          [] DecodePanic(last) -> "panic"
          [] OTHER -> "undecodable"

\* What the output of a trace says, and failing that its error.
Outcome(trace) ==
    CASE NewExecutionResult(trace.output) ->
            IF trace.reverts = <<>> THEN Ok ELSE LastRevert(trace)
      [] NewFailedOp(trace.output) -> trace.output.text
      [] OTHER -> IF trace.error # Ok THEN trace.error ELSE "undecodable"

\* debug_traceCall of simulateHandleOp with the execution tracer.
TraceSimulateHandleOp(trace) ==
    CASE trace.call # Nil -> trace.call.text
      [] trace.call = Nil /\ ~ ParseHexToRpcDataError(trace.output.abi) -> "undecodable"
      [] OTHER -> IF trace.validationOOG THEN "validationOOG" ELSE Outcome(trace)
-----------------------------------------------------------------------------
isPrefundNotPaid(text) == text \in {"AA21", "AA31"}

isValidationOOG(text) ==
    text \in {"AA40", "AA41", "AA51", "AA13", "AA23", "AA33", "outOfBounds", "validationOOG"}

isExecutionOOG(text)      == text = "executionOOG"
isExecutionReverted(text) == text = "executionReverted"
=============================================================================
