--------------------------- MODULE TraceValidation ---------------------------
(***************************************************************************)
(* simulation.TraceSimulateValidation: what a trace of simulateValidation  *)
(* shows of an op, and whether the rules for bundlers allow it.            *)
(*                                                                         *)
(* A trace has, for each of the three parts that the EntryPoint divides    *)
(* validation into, the opcodes with their number, the contracts looked at *)
(* and the accesses to storage, [addr, kind, slot]; the hashed strings,    *)
(* [prefix, slot], of which the prefix may be an address; and the calls.   *)
(***************************************************************************)
EXTENDS Overhead, FiniteSets, Sequences

CONSTANTS
    EntryPoint,
    ChainID,
    AltMempools     \* configurations: [id, chainIds, allowlist]

Entities == {"factory", "account", "paymaster"}

bannedOpCodes == {"GASPRICE", "GASLIMIT", "DIFFICULTY", "TIMESTAMP", "BASEFEE", "BLOCKHASH",
    "NUMBER", "SELFBALANCE", "BALANCE", "ORIGIN", "GAS", "CREATE", "COINBASE", "SELFDESTRUCT"}

\* The slots that a mapping's struct may take after the hashed one.
SlotWindow == 128
-----------------------------------------------------------------------------
\* altmempools.New keeps the exceptions of the configurations for this chain.
HasInvalidStorageAccessException(entity, contract, slot) ==
    {alt.id : alt \in {a \in AltMempools :
        /\ ChainID \in a.chainIds
        /\ [rule |-> "invalidStorageAccess", entity |-> entity, contract |-> contract, slot |-> slot]
                \in a.allowlist}}

\* newKnownEntity: of the stakes that the context knows.
AddressOfEntity(op, entity) ==
    CASE entity = "factory"   -> GetFactory(op)
      [] entity = "account"   -> op.sender
      [] entity = "paymaster" -> GetPaymaster(op)

Level(trace, entity) ==
    CASE entity = "factory"   -> trace.levels[1]
      [] entity = "account"   -> trace.levels[2]
      [] entity = "paymaster" -> trace.levels[3]

IsStaked(op, entity, staked) == AddressOfEntity(op, entity) \in staked

\* The name of an address that is an entity, and else the address.
addr2KnownEntity(op, addr) ==
    CASE addr = GetFactory(op) -> "factory"
      [] addr # GetFactory(op) /\ addr = op.sender -> "account"
      [] OTHER -> IF addr = GetPaymaster(op) THEN "paymaster" ELSE addr

\* newStorageSlotsByEntity: the hashes of strings that start with the address.
SlotsOf(trace, addr) ==
    IF addr = NoAddress THEN {} ELSE {k.slot : k \in {h \in trace.keccak : h.prefix = addr}}

isAssociatedWith(slots, slot) == \E k \in slots : slot \in k .. k + SlotWindow
-----------------------------------------------------------------------------
\* Process, for one entity and one access: what it takes to be allowed.
\* Mistake: an account that does not exist yet may be read by anyone.
AccessNeeds_NoInitCode(op, trace, entity, a, staked) ==
    CASE a.addr \in {op.sender, EntryPoint} -> "nothing"
      [] isAssociatedWith(SlotsOf(trace, op.sender), a.slot) -> "nothing"
      [] OTHER -> "stake"

AccessNeeds(op, trace, entity, a, staked) ==
    LET self == AddressOfEntity(op, entity)
    IN  IF a.addr \in {op.sender, EntryPoint} THEN "nothing"
        ELSE IF isAssociatedWith(SlotsOf(trace, op.sender), a.slot)
        THEN IF op.initCode.len > 0 /\ (~ IsStaked(op, "factory", staked) \/ self # op.sender)
             THEN "stake" ELSE "nothing"
        ELSE IF isAssociatedWith(SlotsOf(trace, self), a.slot) \/ a.addr = self THEN "stake"
        ELSE IF HasInvalidStorageAccessException(entity, addr2KnownEntity(op, a.addr), a.slot) # {}
        THEN "altMempool" ELSE "forbidden"

\* At the first that is forbidden it ends; the last slot of an address that
\* needs a stake stands for all of them.
Process(op, trace, entity, staked) ==
    LET needs == {AccessNeeds(op, trace, entity, a, staked) : a \in Level(trace, entity).access}
    IN  "forbidden" \notin needs /\ ("stake" \in needs => IsStaked(op, entity, staked))
-----------------------------------------------------------------------------
\* newCallStack: a return belongs to the last call that has not ended.  Of
\* creations and reverted calls nothing is kept.
callStack(calls) ==
    LET After(stack, call) ==
            IF call.type \notin {"RETURN", "REVERT"} THEN [stack EXCEPT !.open = Append(@, call)]
            ELSE [open |-> IF stack.open = <<>> THEN <<>> ELSE SubSeq(stack.open, 1, Len(stack.open) - 1),
                  out |-> IF /\ call.type = "RETURN" /\ stack.open # <<>>
                             /\ stack.open[Len(stack.open)].type # "CREATE"
                          THEN stack.out \union {[method |-> stack.open[Len(stack.open)].method,
                                                  return |-> call.data]}
                          ELSE stack.out]
        upTo[n \in 0 .. Len(calls)] ==
            IF n = 0 THEN [open |-> <<>>, out |-> {}] ELSE After(upTo[n - 1], calls[n])
    IN  upTo[Len(calls)].out

\* A return is the length of a context, or Undecodable.
Undecodable == -1

PaymasterContexts(trace) ==
    {c.return : c \in {k \in callStack(trace.calls) : k.method = "validatePaymasterUserOp"}}

Opcodes(trace, entity) == DOMAIN Level(trace, entity).opcodes

Create2Allowed(op, trace) ==
    /\ "CREATE2" \in Opcodes(trace, "factory") =>
            Level(trace, "factory").opcodes["CREATE2"] <= 1 /\ op.initCode.len > 0
    /\ "CREATE2" \notin Opcodes(trace, "account") \union Opcodes(trace, "paymaster")

TraceSimulateValidation(op, trace, staked) ==
    /\ trace.fails = FALSE /\ Len(trace.levels) = 3
    /\ \A entity \in Entities :
            /\ Opcodes(trace, entity) \cap bannedOpCodes = {}
            /\ Process(op, trace, entity, staked)
    /\ Create2Allowed(op, trace)
    /\ \A context \in PaymasterContexts(trace) :
            /\ context # Undecodable
            /\ context > 0 => IsStaked(op, "paymaster", staked)

TouchedContracts(trace) == UNION {Level(trace, entity).sized : entity \in Entities}
=============================================================================
