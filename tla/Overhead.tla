------------------------------- MODULE Overhead -------------------------------
(***************************************************************************)
(* The gas that a UserOperation needs beside its own execution: the        *)
(* parameters of gas.Overhead, preVerificationGas with its L1 part on a    *)
(* rollup, and what the op itself says of its gas.                         *)
(*                                                                         *)
(* An op is a record.  Of the fields that are hashed or sent as bytes it   *)
(* has the numbers of zero and non-zero bytes; initCode and                *)
(* paymasterAndData have a length and the address they start with.         *)
(***************************************************************************)
EXTENDS Integers

CONSTANT NoAddress      \* the zero address

intrinsicFixed == 21000
perUserOpFixed == 22874
perUserOpMultiplier == 25
zeroByte    == 4
nonZeroByte == 16
sanitizedPVG == 100000
sanitizedVGL == 1000000
sanitizedCGL == 1000000
AddressLength == 20

\* The gas of CALL with a value, from a warm account.
NonZeroValueCall == 700 + 9000 + 100 + 2300

\* GetFactory and GetPaymaster: of too few bytes there is no address.
AddressOf(bytes) == IF bytes.len < AddressLength THEN NoAddress ELSE bytes.address
GetFactory(op)   == AddressOf(op.initCode)
GetPaymaster(op) == AddressOf(op.paymasterAndData)

\* A paymaster has its call and its postOp verified with the same limit.
GetMaxGasAvailable(op) ==
    op.vgl * (IF GetPaymaster(op) = NoAddress THEN 1 ELSE 3) + op.pvg + op.cgl

GetMaxPrefund(op) == GetMaxGasAvailable(op) * op.maxFee

\* internal/utils.AddBuffer, in percent.
AddBuffer(amount, factor) == (amount * (1000 + factor * 10)) \div 1000
-----------------------------------------------------------------------------
\* The bytes of a number that are not zero, of the 32 of its word.
NonZeroBytes(n) ==
    CASE n = 0 -> 0 [] 0 < n /\ n < 256 -> 1 [] 256 <= n /\ n < 65536 -> 2 [] OTHER -> 3

\* Pack: the gas fields, the signature, and all the rest of the op.
Pack(op) ==
    LET nonZero == NonZeroBytes(op.pvg) + NonZeroBytes(op.vgl) + NonZeroBytes(op.cgl)
    IN  [zero    |-> 3 * 32 - nonZero + op.signature.zero + op.rest.zero,
         nonZero |-> nonZero + op.signature.nonZero + op.rest.nonZero]

Size(bytes) == bytes.zero + bytes.nonZero

CalcCallDataCost(op) ==
    LET bytes == Pack(op) IN zeroByte * bytes.zero + nonZeroByte * bytes.nonZero

CalcPerUserOpCost(op) == perUserOpMultiplier * ((Size(Pack(op)) + 31) \div 32) + perUserOpFixed

\* The fields that are not final when gas is estimated count as if they were.
Sanitized(op) ==
    [op EXCEPT !.pvg = sanitizedPVG, !.vgl = sanitizedVGL, !.cgl = sanitizedCGL,
               !.signature = [zero |-> 0, nonZero |-> Size(@)]]

StaticPVG(op) == intrinsicFixed + CalcCallDataCost(op) + CalcPerUserOpCost(op)

\* CalcArbitrumPVGWithEthClient: gas for the L1, as NodeInterface estimates it.
CalcArbitrumPVG(static, l1) == static + l1.gas

\* CalcOptimismPVGWithEthClient: the L1 fee in gas of the op's own price.
CalcOptimismPVG(op, static, l1) ==
    LET l2priority == op.maxTip + l1.baseFee
        l2price    == IF l2priority < op.maxFee THEN l2priority ELSE op.maxFee
    IN  static + (l1.fee \div l2price)

\* Mistake: the op is taken as it is.
CalcPreVerificationGas_AsIs(op, l1) ==
    CASE l1.chain = "arbitrum" -> CalcArbitrumPVG(StaticPVG(op), l1)
      [] l1.chain = "optimism" -> CalcOptimismPVG(op, StaticPVG(op), l1)
      [] OTHER -> StaticPVG(op)

\* l1 is what the L1 asks for at the time.
CalcPreVerificationGas(op, l1) ==
    LET static == StaticPVG(Sanitized(op))
    IN  CASE l1.chain = "arbitrum" -> CalcArbitrumPVG(static, l1)
          [] l1.chain = "optimism" -> CalcOptimismPVG(op, static, l1)
          [] OTHER -> static

\* The percentages that private.go and searcher.go set for a chain.
pvgBufferFactor(chain) ==
    CASE chain = "arbitrum" -> 16 [] chain = "optimism" -> 1 [] OTHER -> 0

CalcPreVerificationGasWithBuffer(op, l1) ==
    AddBuffer(CalcPreVerificationGas(op, l1), pvgBufferFactor(l1.chain))
=============================================================================
