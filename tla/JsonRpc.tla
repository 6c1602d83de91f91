------------------------------- MODULE JsonRpc -------------------------------
(***************************************************************************)
(* jsonrpc.Controller over client.RpcAdapter: what becomes of a request.   *)
(*                                                                         *)
(* A request is a record of what the controller looks at: whether it was   *)
(* posted, is readable and is a JSON object; the JSON type of its id; its  *)
(* version and method; whether its params are an array, and the types of   *)
(* them; and for eth_call what they hold.                                  *)
(* An outcome is a call of a method, a call of the node, an error with its *)
(* code, whose id is that of the request or null, or a panic, which the    *)
(* recovery of the HTTP server turns into status 500.                      *)
(***************************************************************************)
EXTENDS Integers, Sequences, FiniteSets

Absent == "absent"

OfRequest == "of request"

Error(code, id)    == [kind |-> "error", code |-> code, id |-> id]
Panic              == [kind |-> "panic"]
Call(method, args) == [kind |-> "call", method |-> method, args |-> args]
Node(method)       == [kind |-> "node", method |-> method]
-----------------------------------------------------------------------------
(* The methods of RpcAdapter: the kinds of their inputs, and whether the   *)
(* type of the last is named optional.  A method is called by its name     *)
(* with a capital letter.                                                  *)

Method(inputs, optional, debug) == [inputs |-> inputs, optional |-> optional, debug |-> debug]

RpcAdapter ==
    [eth_sendUserOperation         |-> Method(<<"Map", "String">>, FALSE, FALSE),
     eth_estimateUserOperationGas  |-> Method(<<"Map", "String", "Map">>, TRUE, FALSE),
     eth_getUserOperationReceipt   |-> Method(<<"String">>, FALSE, FALSE),
     eth_getUserOperationByHash    |-> Method(<<"String">>, FALSE, FALSE),
     eth_supportedEntryPoints      |-> Method(<<>>, FALSE, FALSE),
     eth_chainId                   |-> Method(<<>>, FALSE, FALSE),
     debug_bundler_clearState      |-> Method(<<>>, FALSE, TRUE),
     debug_bundler_dumpMempool     |-> Method(<<"String">>, FALSE, TRUE),
     debugDumpBundlerState         |-> Method(<<>>, FALSE, TRUE),
     debug_bundler_sendBundleNow   |-> Method(<<>>, FALSE, TRUE),
     debug_bundler_setBundlingMode |-> Method(<<"String">>, FALSE, TRUE)]

\* Of these the case does not matter; all others are of the node.
bundlerMethods == DOMAIN RpcAdapter \ {"debugDumpBundlerState"}

\* A name in capitals is no method of the adapter.
Capitals == "ETH_SENDUSEROPERATION"

isStdEthereumRPCMethod(method) == method \notin bundlerMethods \union {Capitals}
-----------------------------------------------------------------------------
\* parseRequestId.
parseRequestId(request) == request.id \in {"null", "number", "string"}

hasOptionalInput(m) == m.optional

\* Mistake: the last input may be left out of any method.
hasValidParamLength_Any(numParams, m) == numParams \in {Len(m.inputs), Len(m.inputs) - 1}

hasValidParamLength(numParams, m) ==
    numParams = Len(m.inputs) \/ (hasOptionalInput(m) /\ numParams = Len(m.inputs) - 1)

isOptionalParamUndefined(numParams, m) == hasOptionalInput(m) /\ numParams = Len(m.inputs) - 1

Params(request, m) ==
    IF isOptionalParamUndefined(Len(request.params), m) THEN Append(request.params, "object")
    ELSE request.params

\* The kinds of Go that an argument is converted to: decoded JSON has floats of
\* 64 bits, of which a whole number is cut.  Of a kind that is not among them
\* the argument has no value.
Signed   == {"Int", "Int8", "Int16", "Int32", "Int64"}
Unsigned == {"Uint", "Uint8", "Uint16", "Uint32", "Uint64"}
Integral == Signed \union Unsigned
Kinds    == Integral \union {"Float32", "Float64", "Interface", "Map", "Slice", "String"}

Converts(type, kind) ==
    CASE kind \in Integral \union {"Float64"} -> type = "number"
      [] kind = "Float32" -> FALSE
      [] kind = "Map"     -> type = "object"
      [] kind = "Slice"   -> type = "array"
      [] kind = "String"  -> type = "string"
      [] OTHER            -> TRUE

\* reflect's Call panics unless it has an argument of the type of every input.
Invoke(method, args) ==
    LET m == RpcAdapter[method]
    IN  IF /\ Len(args) = Len(m.inputs)
           /\ \A i \in 1 .. Len(args) : m.inputs[i] \in Kinds /\ Converts(args[i], m.inputs[i])
        THEN Call(method, args) ELSE Panic

CallMethod(request) ==
    LET m == RpcAdapter[request.method]
        args == Params(request, m)
    IN  CASE ~ request.array -> Error(-32602, OfRequest)
          [] request.array /\ request.method \notin DOMAIN RpcAdapter ->
                Error(-32601, OfRequest)
          [] OTHER ->
                IF ~ hasValidParamLength(Len(request.params), m) THEN Error(-32602, OfRequest)
                ELSE IF \A i \in 1 .. Len(args) :
                            i <= Len(m.inputs) => Converts(args[i], m.inputs[i])
                     THEN Invoke(request.method, args) ELSE Error(-32602, OfRequest)
-----------------------------------------------------------------------------
\* handleEthRequest: the request is passed on, if its params are an array.
handleEthRequest(request) ==
    IF ~ request.array THEN Error(-32602, "null") ELSE Node(request.method)

\* handleEthCallRequest: what it takes for granted panics.
handleEthCallRequest(request) ==
    CASE ~ request.array -> Panic
      [] /\ request.array /\ Len(request.params) > 0
         /\ request.params[1] # "object" \/ ~ request.callOk -> Error(-32602, "null")
      [] OTHER -> IF Len(request.params) < 2 THEN Node("eth_call")
                  ELSE IF request.params[2] # "string" THEN Panic
                  ELSE IF request.blockOk THEN Node("eth_call") ELSE Error(-32602, "null")

routeStdEthereumRPCRequest(request) ==
    IF request.method = "eth_call" THEN handleEthCallRequest(request) ELSE handleEthRequest(request)

Controller(request) ==
    CASE ~ request.posted \/ ~ request.readable \/ ~ request.object -> Error(-32700, "null")
      [] request.posted /\ request.readable /\ request.object /\ ~ parseRequestId(request) ->
            Error(-32600, "null")
      [] OTHER ->
            IF ~ request.version \/ request.method = Absent THEN Error(-32600, OfRequest)
            ELSE IF isStdEthereumRPCMethod(request.method) THEN routeStdEthereumRPCRequest(request)
            ELSE CallMethod(request)

\* Without debug mode its methods are errors.
Enabled(method, debugMode) == RpcAdapter[method].debug => debugMode

\* An error of a method that is no RPCError is answered with this code.
NoRPCError == -32601

Result == [kind |-> "result", id |-> OfRequest]

\* A result of the node is answered with the id as it is printed, not as JSON.
sendRawJson(request) == IF request.id = "number" THEN Result ELSE [kind |-> "malformed"]

\* What the node makes of a request; a call that reverts comes with its data as a
\* string, as the error type of go-ethereum has it, or without.
NodeOutcomes == {"result", "failure", "reverted", "bareRevert"}

\* extractDataFromUnexportedError panics when there is no string.
AnswerOfNode(request, outcome) ==
    LET call == request.method = "eth_call"
    IN  CASE call /\ outcome \in {"result", "reverted"} -> Result
          [] call /\ outcome = "bareRevert"              -> Panic
          [] ~ call /\ outcome = "result"                -> sendRawJson(request)
          [] OTHER                                       -> Error(-32603, "null")
=============================================================================
