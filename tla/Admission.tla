------------------------------ MODULE Admission ------------------------------
(***************************************************************************)
(* What makes a new op acceptable before it is simulated: the decoding of  *)
(* userop.New and the checks of ValidateOpValues, each of which may ask    *)
(* for stakes that the context then keeps for the validation of the trace. *)
(*                                                                         *)
(* A view is what the chain and the pool say at the time:                  *)
(*   code, staked   the addresses that have code, that have a stake        *)
(*   deposit        the deposit of the op's paymaster                      *)
(*   baseFee        or NoBaseFee                                           *)
(*   fails          the calls of the node that fail: "code", "stake"...    *)
(*   pendingOk      what ValidatePendingOps of Mempool says                *)
(*   l1             what the L1 asks for                                   *)
(***************************************************************************)
EXTENDS Overhead, FiniteSets

CONSTANTS
    MaxVerificationGas,
    MaxBatchGasLimit

NoBaseFee == -1
-----------------------------------------------------------------------------
(* userop.New.  A JSON value is one of these.                              *)

Numerals   == {"0x12", "12", "-1"}      \* strings that are numbers
ByteString == {"0x12", "0x"}
JsonTexts  == Numerals \union ByteString \union {"text"}
JsonValues == JsonTexts \union {"number", "object", "unset"}

\* decodeOpTypes, and that the decoder takes no other type.
decodeOpTypes(value, type) ==
    CASE type = "Address" -> value \in JsonTexts
      [] type = "Int"     -> value \in Numerals \union {"number"}
      [] type = "Bytes"   -> value \in ByteString

validateAddressType(value) == value \in {"0x12", "12"}
validateBigIntType(value)  == value # "-1"

\* raw has a value for the sender, a number and a byte string of the op.
NewOp(raw) ==
    /\ decodeOpTypes(raw.sender, "Address") /\ validateAddressType(raw.sender)
    /\ decodeOpTypes(raw.number, "Int") /\ validateBigIntType(raw.number)
    /\ decodeOpTypes(raw.bytes, "Bytes")
-----------------------------------------------------------------------------
(* A check says whether the op passes and whose stake is known by then.    *)

Verdict(ok, known)  == [ok |-> ok, known |-> known]
Verdicts(checks) ==
    Verdict(\A v \in checks : v.ok, UNION {v.known : v \in checks})

\* getStakeWithEthClient: an answer is kept.
gs(address, view) == IF "stake" \in view.fails THEN {} ELSE {address}

ValidateSender(op, view) ==
    Verdict(/\ "code" \notin view.fails
            /\ (op.sender \in view.code) # (op.initCode.len > 0), {})

\* Mistake: the factory is not looked up, as nothing is made of its stake.
ValidateInitCode_NoStake(op, view) ==
    Verdict(op.initCode.len > 0 => GetFactory(op) # NoAddress, {})

ValidateInitCode(op, view) ==
    IF op.initCode.len = 0 \/ GetFactory(op) = NoAddress
    THEN Verdict(op.initCode.len = 0, {})
    ELSE LET known == gs(GetFactory(op), view) IN Verdict(known # {}, known)

ValidateVerificationGas(op, view) ==
    Verdict(/\ op.vgl <= MaxVerificationGas
            /\ op.intent \/ /\ "l1" \notin view.fails
                            /\ op.pvg >= CalcPreVerificationGas(op, view.l1), {})

ValidatePaymasterAndData(op, view) ==
    IF op.paymasterAndData.len = 0 THEN Verdict(TRUE, {})
    ELSE IF \/ op.paymasterAndData.len \in 1 .. AddressLength - 1
            \/ "code" \in view.fails
            \/ GetPaymaster(op) \notin view.code
         THEN Verdict(FALSE, {})
         ELSE LET known == gs(GetPaymaster(op), view)
              IN  Verdict(known # {} /\ view.deposit >= GetMaxPrefund(op), known)

ValidateCallGasLimit(op, view) == Verdict(op.cgl >= NonZeroValueCall, {})

ValidateFeePerGas(op, view) ==
    Verdict(/\ "baseFee" \notin view.fails
            /\ IF view.baseFee = NoBaseFee THEN op.maxTip = op.maxFee
               ELSE op.maxTip <= op.maxFee /\ op.maxFee >= view.baseFee, {})

\* Asks for the sender's stake before it looks at the pool.
ValidatePendingOps(op, view) ==
    LET known == gs(op.sender, view) IN Verdict(known # {} /\ view.pendingOk, known)

\* Of preVerificationGas only what does not go to the L1 counts.
ValidateGasAvailable(op, view) ==
    Verdict(GetMaxGasAvailable(op) - op.pvg + StaticPVG(Sanitized(op)) <= MaxBatchGasLimit, {})

\* All of them run, at the same time, whatever the others say.
ValidateOpValues(op, view) ==
    Verdicts({ValidateSender(op, view), ValidateInitCode(op, view),
              ValidateVerificationGas(op, view), ValidatePaymasterAndData(op, view),
              ValidatePendingOps(op, view), ValidateGasAvailable(op, view)}
             \union (IF op.intent THEN {}
                     ELSE {ValidateCallGasLimit(op, view), ValidateFeePerGas(op, view)}))
=============================================================================
