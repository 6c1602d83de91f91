----------------------------- MODULE Reputation -----------------------------
(***************************************************************************)
(* The paymasters' counts of ops seen and included, in the DB: the         *)
(* handlers CheckStatus and IncOpsSeen of the client, and IncOpsIncluded   *)
(* of the bundler.  Each is one transaction of the DB (external), which    *)
(* works on what it read when it began.  If a key that it read was written *)
(* in the meantime its own writes are refused.                             *)
(*                                                                         *)
(* Time passes in half hours; a transaction looks at the clock as it ends. *)
(***************************************************************************)
EXTENDS Integers, FiniteSets

CONSTANTS
    Paymasters,
    RepProcesses,                   \* whoever uses the DB
    EmaHours,                       \* emaHours, and the least that decays
    MinInclusionRateDenominator,
    BanSlack,
    StoredCounts,                   \* what an earlier process left
    MaxAge                          \* half hours after which age is not told apart

Unknown == [seen |-> 0, included |-> 0, age |-> -1]     \* no such key
Counts  == [seen : Nat, included : Nat, age : 0 .. MaxAge] \union {Unknown}

ASSUME ReputationAssumption ==
    /\ EmaHours \in Nat \ {0} /\ MinInclusionRateDenominator \in Nat \ {0}
    /\ BanSlack \in Nat /\ MaxAge \in Nat
    /\ StoredCounts \subseteq [Paymasters -> Counts]

VARIABLES
    counts,     \* for every paymaster its counts, or Unknown
    txns        \* for every process its transaction, or NoTxn

repVars == <<counts, txns>>

NoTxn   == [state |-> "none", read |-> <<>>, overwritten |-> {}]

RepInit ==
    /\ counts \in StoredCounts
    /\ txns = [p \in RepProcesses |-> NoTxn]
-----------------------------------------------------------------------------
\* applyExpWeights: what the counts are after the whole hours since they were
\* written.  Once both are small they stay.
applyExpWeights(c) ==
    LET Weigh(k) ==
            IF k.seen < EmaHours /\ k.included < EmaHours THEN k
            ELSE [k EXCEPT !.seen = @ - @ \div EmaHours, !.included = @ - @ \div EmaHours]
        after[h \in 0 .. MaxAge \div 2] == IF h = 0 THEN c ELSE Weigh(after[h - 1])
    IN  after[c.age \div 2]

getOpsCountByPaymaster(c) == IF c = Unknown THEN c ELSE applyExpWeights(c)

getStatus(c) ==
    LET k == getOpsCountByPaymaster(c)
    IN  IF k.seen \div MinInclusionRateDenominator <= k.included + BanSlack
        THEN "ok" ELSE "banned"

\* What each handler writes to the counts it read.
getOpsCountValue(seen, included) == [seen |-> seen, included |-> included, age |-> 0]

Touched(c) == LET k == applyExpWeights(c) IN getOpsCountValue(k.seen, k.included)
incrementOpsSeen(c) ==
    LET k == getOpsCountByPaymaster(c) IN getOpsCountValue(k.seen + 1, k.included)
incrementOpsIncluded(c, n) ==
    LET k == getOpsCountByPaymaster(c) IN getOpsCountValue(k.seen, k.included + n)
-----------------------------------------------------------------------------
(* Transactions.                                                           *)

Open(p) == txns[p].state = "open"

BeginTxn(p) == txns' = [txns EXCEPT ![p] = [state |-> "open", read |-> counts, overwritten |-> {}]]

Discard(p) == txns' = [txns EXCEPT ![p] = NoTxn] /\ UNCHANGED counts

\* Mistake: the counts are read in a transaction of their own.
Refused_Never(p, written) == FALSE

\* written maps the keys that are written, which have all been read.
Refused(p, written) == txns[p].overwritten \cap DOMAIN written # {}

Apply(p, written) ==
    /\ counts' = [m \in Paymasters |-> IF m \in DOMAIN written THEN written[m] ELSE counts[m]]
    /\ txns' = [q \in RepProcesses |->
                    IF q = p THEN NoTxn
                    ELSE IF Open(q)
                    THEN [txns[q] EXCEPT !.overwritten = @ \union DOMAIN written]
                    ELSE txns[q]]

Commit(p, written) == IF Refused(p, written) THEN Discard(p) ELSE Apply(p, written)

Only(m, c) == [k \in {m} |-> c]

\* A paymaster that is banned is an error, and the transaction ends with it.
Banned(p, m) == getStatus(txns[p].read[m]) = "banned"

\* What CheckStatus writes: the counts as they are now, if there are any.
StatusWrites(p, m) ==
    IF txns[p].read[m] = Unknown THEN <<>> ELSE Only(m, Touched(txns[p].read[m]))

StatusPasses(p, m) == ~ Banned(p, m) /\ ~ Refused(p, StatusWrites(p, m))

\* Mistake: the counts of a banned paymaster are written as well.
CheckStatus_Writes(p, m) == Commit(p, StatusWrites(p, m))

CheckStatus(p, m) == IF Banned(p, m) THEN Discard(p) ELSE Commit(p, StatusWrites(p, m))

SeenWrites(p, m) == Only(m, incrementOpsSeen(txns[p].read[m]))
IncOpsSeen(p, m) == Commit(p, SeenWrites(p, m))

\* n is the number of ops in the batch of every paymaster.
IncludedWrites(p, n) ==
    [m \in {k \in Paymasters : n[k] > 0} |-> incrementOpsIncluded(txns[p].read[m], n[m])]
IncOpsIncluded(p, n) == Commit(p, IncludedWrites(p, n))

\* Half an hour.
Older(c) == IF c = Unknown \/ c.age = MaxAge THEN c ELSE [c EXCEPT !.age = @ + 1]

Tick ==
    /\ counts' = [m \in Paymasters |-> Older(counts[m])]
    /\ txns' = [p \in RepProcesses |->
                    IF ~ Open(p) THEN txns[p]
                    ELSE [txns[p] EXCEPT !.read = [m \in Paymasters |-> Older(@[m])]]]

\* Any process that uses the DB, in any order.
RepNext ==
    \/ \E p \in RepProcesses : ~ Open(p) /\ BeginTxn(p) /\ UNCHANGED counts
    \/ \E p \in RepProcesses, m \in Paymasters :
            Open(p) /\ (CheckStatus(p, m) \/ IncOpsSeen(p, m))
    \/ \E p \in RepProcesses, n \in [Paymasters -> Nat] : Open(p) /\ IncOpsIncluded(p, n)
    \/ Tick

RepSpec == RepInit /\ [][RepNext]_repVars
=============================================================================
