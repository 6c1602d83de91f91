------------------------------- MODULE Lookup -------------------------------
(***************************************************************************)
(* eth_getUserOperationReceipt and eth_getUserOperationByHash: the head is *)
(* asked for, the event of the op looked for from some blocks before it,   *)
(* then receipt and transaction are read, each with a call of its own.  In *)
(* between the chain goes on, and may be reorganised.                      *)
(***************************************************************************)
EXTENDS Integers

CONSTANTS
    LookupOps,      \* ops, one for every bundle
    Window,         \* how far back events are looked for: 10000 blocks
    MaxHead         \* bound

ASSUME LookupAssumption == Window \in Nat /\ MaxHead \in Nat

VARIABLES
    head,           \* the last block
    block,          \* of every op's transaction its block, or Pending, or Unsent
    looking,        \* the lookup
    steady          \* the chain was not reorganised since it began

lookVars == <<head, block, looking, steady>>

Receipt == "eth_getUserOperationReceipt"

Unsent  == 0
Pending == -1
Mined(op) == block[op] > 0

\* Else also the method, the op, the block where the search for events starts,
\* the block of the receipt, and whether the op was mined when the lookup began.
Idle    == [step |-> "idle"]

LookInit ==
    /\ head \in 0 .. MaxHead
    /\ block = [op \in LookupOps |-> Unsent]
    /\ looking = Idle /\ steady = TRUE
-----------------------------------------------------------------------------
(* The chain (external).                                                   *)

NewBlock ==
    /\ head < MaxHead
    /\ head' = head + 1
    /\ \E ops \in SUBSET {op \in LookupOps : block[op] = Pending} :
            block' = [op \in LookupOps |-> IF op \in ops THEN head' ELSE block[op]]
    /\ UNCHANGED <<looking, steady>>

\* The last block is replaced by one without its bundles.
Reorg ==
    /\ head > 0
    /\ \E op \in LookupOps : block[op] = head
    /\ block' = [op \in LookupOps |-> IF block[op] = head THEN Pending ELSE block[op]]
    /\ steady' = FALSE
    /\ UNCHANGED <<head, looking>>
-----------------------------------------------------------------------------
(* filterUserOperationEvent.                                               *)

\* Mistake: the block is left out that is just as old.
StartBlock_After == IF head - Window > 0 THEN head - Window + 1 ELSE 0

StartBlock == IF head - Window > 0 THEN head - Window ELSE 0

InWindow(op) == Mined(op) /\ block[op] >= looking.from

\* HasUserOpHash looks for the hash among keys of entry point, sender and nonce.
HasUserOpHash == FALSE

\* A receipt is looked for in the pool first.
BeginLookup(method, op) ==
    /\ looking.step = "idle"
    /\ looking' = [method |-> method, op |-> op, from |-> 0, block |-> 0, mined |-> Mined(op),
                   step |-> IF method = Receipt /\ HasUserOpHash THEN "pooled" ELSE "number"]
    /\ steady' = TRUE
    /\ UNCHANGED <<head, block>>

Step(step) == looking' = [looking EXCEPT !.step = step]

BlockNumber ==
    /\ looking.step = "number"
    /\ looking' = [looking EXCEPT !.step = "filter", !.from = StartBlock]
    /\ UNCHANGED <<head, block, steady>>

\* The event has the hash of the op that was executed.
FilterEvents(hash) ==
    /\ looking.step = "filter"
    /\ Step(IF InWindow(looking.op) /\ hash THEN "receipt" ELSE "missing")
    /\ UNCHANGED <<head, block, steady>>

TransactionReceipt ==
    /\ looking.step = "receipt"
    /\ looking' = [looking EXCEPT !.step = IF Mined(looking.op) THEN "transaction" ELSE "error",
                                  !.block = block[looking.op]]
    /\ UNCHANGED <<head, block, steady>>

\* A receipt only needs the transaction; an op is taken out of its input,
\* which is that of handleOps unless a contract called the EntryPoint.
TransactionByHash(direct) ==
    /\ looking.step = "transaction"
    /\ Step(IF Mined(looking.op) /\ (looking.method = Receipt \/ direct) THEN "found" ELSE "missing")
    /\ UNCHANGED <<head, block, steady>>

LookupFails ==
    /\ looking.step \in {"number", "filter", "receipt", "transaction"}
    /\ Step("error")
    /\ UNCHANGED <<head, block, steady>>

LookupEnded == looking.step \in {"found", "missing", "error", "pooled"}
=============================================================================
