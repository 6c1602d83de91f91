--------------------------- MODULE RpcServerProofs ---------------------------
(***************************************************************************)
(* What the server guarantees for any clients, requests, ops, chains and   *)
(* paymasters: that no update of a paymaster's counts is lost, that an     *)
(* estimate is admitted, that a trace is judged by the stakes there are,   *)
(* and that lookups and answers fit what was asked.                        *)
(***************************************************************************)
EXTENDS RpcServer, GasEstimateProofs, FiniteSetTheorems, WellFoundedInduction, TLAPS
-----------------------------------------------------------------------------
(* The transactions of Reputation, whatever processes use the DB.          *)

\* What an open transaction read is what is stored, but for the keys that were
\* written meanwhile.
SnapshotsHold ==
    \A p \in RepProcesses : Open(p) =>
        \A m \in Paymasters \ txns[p].overwritten : txns[p].read[m] = counts[m]

TxnsAreRecords ==
    \A p \in RepProcesses :
        \/ txns[p] = NoTxn
        \/ \E read, overwritten :
                txns[p] = [state |-> "open", read |-> read, overwritten |-> overwritten]

RepInv ==
    /\ TxnsAreRecords
    /\ counts = [m \in Paymasters |-> counts[m]]
    /\ txns = [p \in RepProcesses |-> txns[p]]
    /\ SnapshotsHold

\* A handler that is not refused writes what it would have written had it run
\* alone, to the counts of its paymasters and of no others.
CommitsAreExact ==
    \A p \in RepProcesses : Open(p) =>
        /\ \A m \in Paymasters : IncOpsSeen(p, m) =>
                counts' = IF Refused(p, SeenWrites(p, m)) THEN counts
                          ELSE [counts EXCEPT ![m] = incrementOpsSeen(counts[m])]
        /\ \A n \in [Paymasters -> Nat] : IncOpsIncluded(p, n) =>
                counts' = IF Refused(p, IncludedWrites(p, n)) THEN counts
                          ELSE [m \in Paymasters |->
                                    IF n[m] > 0 THEN incrementOpsIncluded(counts[m], n[m])
                                    ELSE counts[m]]
        /\ \A m \in Paymasters : CheckStatus(p, m) =>
                \/ counts' = counts
                \/ getStatus(counts[m]) = "ok" /\ counts' = [counts EXCEPT ![m] = Touched(counts[m])]
-----------------------------------------------------------------------------
LEMMA RepInitInv == RepInit => RepInv
<1> SUFFICES ASSUME RepInit PROVE RepInv
  OBVIOUS
<1>1. counts = [m \in Paymasters |-> counts[m]]
  BY ReputationAssumption DEF RepInit
<1> QED
  BY <1>1 DEF Open, RepInit, RepInv, SnapshotsHold, TxnsAreRecords, NoTxn

LEMMA BeginTxnInv ==
    ASSUME RepInv, NEW p \in RepProcesses, BeginTxn(p), UNCHANGED counts
    PROVE  RepInv'
<1>1. /\ txns' = [q \in RepProcesses |-> txns'[q]]
      /\ txns'[p] = [state |-> "open", read |-> counts, overwritten |-> {}]
      /\ \A q \in RepProcesses \ {p} : txns'[q] = txns[q]
  BY DEF BeginTxn, RepInv
<1>2. TxnsAreRecords'
  BY <1>1 DEF RepInv, TxnsAreRecords, NoTxn
<1>3. SnapshotsHold'
  BY <1>1 DEF RepInv, SnapshotsHold, Open
<1> QED
  BY <1>1, <1>2, <1>3 DEF RepInv

LEMMA DiscardInv ==
    ASSUME RepInv, NEW p \in RepProcesses, Discard(p)
    PROVE  RepInv'
<1>1. /\ \A q \in RepProcesses \ {p} : txns'[q] = txns[q]
      /\ UNCHANGED counts
  BY DEF Discard, RepInv, NoTxn
<1>2. txns' = [q \in RepProcesses |-> txns'[q]]
  BY DEF Discard, RepInv
<1>3. txns'[p] = NoTxn
  BY DEF Discard, RepInv
<1> QED
  BY <1>1, <1>2, <1>3 DEF Open, RepInv, SnapshotsHold, TxnsAreRecords, NoTxn

\* What a transaction writes it marks as overwritten for all that are open.
LEMMA ApplyInv ==
    ASSUME RepInv, NEW p \in RepProcesses, NEW written, Apply(p, written)
    PROVE  RepInv'
<1>1. /\ counts' = [m \in Paymasters |-> counts'[m]]
      /\ txns' = [q \in RepProcesses |-> txns'[q]]
      /\ txns'[p] = NoTxn
      /\ \A m \in Paymasters : m \notin DOMAIN written => counts'[m] = counts[m]
  BY DEF Apply
<1>2. ASSUME NEW q \in RepProcesses, q # p, Open(q)
      PROVE  txns'[q] = [state |-> "open", read |-> txns[q].read,
                         overwritten |-> txns[q].overwritten \union DOMAIN written]
  <2>1. txns'[q] = [txns[q] EXCEPT !.overwritten = @ \union DOMAIN written]
    BY <1>2 DEF Apply
  <2>2. PICK read, overwritten :
            txns[q] = [state |-> "open", read |-> read, overwritten |-> overwritten]
    BY <1>2 DEF Open, RepInv, TxnsAreRecords, NoTxn
  <2> QED
    BY <2>1, <2>2
<1>3. ASSUME NEW q \in RepProcesses, q # p, ~ Open(q)
      PROVE  txns'[q] = txns[q]
  BY <1>3 DEF Apply
<1>4. TxnsAreRecords'
  BY <1>1, <1>2, <1>3 DEF RepInv, TxnsAreRecords, NoTxn
<1>5. ASSUME NEW q \in RepProcesses, Open(q)',
             NEW m \in Paymasters \ txns'[q].overwritten
      PROVE  txns'[q].read[m] = counts'[m]
  <2>1. q # p /\ Open(q)
    BY <1>1, <1>3, <1>5 DEF Open, NoTxn
  <2>2. /\ txns'[q].read = txns[q].read
        /\ txns'[q].overwritten = txns[q].overwritten \union DOMAIN written
    <3>1. txns'[q] = [state |-> "open", read |-> txns[q].read,
                      overwritten |-> txns[q].overwritten \union DOMAIN written]
      BY <1>2, <2>1
    <3> QED
      BY <3>1
  <2>3. m \notin txns[q].overwritten /\ counts'[m] = counts[m]
    BY <1>1, <1>5, <2>2
  <2> QED
    BY <1>5, <2>1, <2>2, <2>3 DEF RepInv, SnapshotsHold
<1> QED
  BY <1>1, <1>4, <1>5 DEF RepInv, SnapshotsHold

LEMMA CommitInv ==
    ASSUME RepInv, NEW p \in RepProcesses, NEW written, Commit(p, written)
    PROVE  RepInv'
BY DiscardInv, ApplyInv DEF Commit

\* Time passes for what was read as it does for what is stored.
LEMMA TickInv ==
    ASSUME RepInv, Tick PROVE RepInv'
<1>1. /\ counts' = [m \in Paymasters |-> counts'[m]]
      /\ txns' = [q \in RepProcesses |-> txns'[q]]
      /\ \A m \in Paymasters : counts'[m] = Older(counts[m])
  BY DEF Tick
<1>2. ASSUME NEW q \in RepProcesses, Open(q)
      PROVE  txns'[q] = [state |-> "open",
                         read |-> [m \in Paymasters |-> Older(txns[q].read[m])],
                         overwritten |-> txns[q].overwritten]
  <2>1. txns'[q] = [txns[q] EXCEPT !.read = [m \in Paymasters |-> Older(@[m])]]
    BY <1>2 DEF Tick
  <2>2. PICK read, overwritten :
            txns[q] = [state |-> "open", read |-> read, overwritten |-> overwritten]
    BY <1>2 DEF Open, RepInv, TxnsAreRecords, NoTxn
  <2> QED
    BY <2>1, <2>2
<1>3. ASSUME NEW q \in RepProcesses, ~ Open(q)
      PROVE  txns'[q] = txns[q]
  BY <1>3 DEF Tick
<1>4. TxnsAreRecords'
  <2>1. ASSUME NEW q \in RepProcesses, ~ Open(q) PROVE txns'[q] = NoTxn
    BY <1>3, <2>1 DEF Open, RepInv, TxnsAreRecords
  <2> QED
    BY <1>2, <2>1 DEF TxnsAreRecords, NoTxn
<1>5. SnapshotsHold'
  BY <1>1, <1>2, <1>3 DEF Open, RepInv, SnapshotsHold
<1> QED
  BY <1>1, <1>4, <1>5 DEF RepInv

LEMMA RepNextInv == RepInv /\ [RepNext]_repVars => RepInv'
<1> SUFFICES ASSUME RepInv, [RepNext]_repVars PROVE RepInv'
  OBVIOUS
<1>1. ASSUME NEW p \in RepProcesses, BeginTxn(p), UNCHANGED counts PROVE RepInv'
  BY <1>1, BeginTxnInv
<1>2. ASSUME NEW p \in RepProcesses, NEW m \in Paymasters, CheckStatus(p, m) \/ IncOpsSeen(p, m)
      PROVE  RepInv'
  BY <1>2, DiscardInv, CommitInv DEF CheckStatus, IncOpsSeen
<1>3. ASSUME NEW p \in RepProcesses, NEW n, IncOpsIncluded(p, n) PROVE RepInv'
  BY <1>3, CommitInv DEF IncOpsIncluded
<1>4. CASE UNCHANGED repVars
  BY <1>4 DEF Open, repVars, RepInv, SnapshotsHold, TxnsAreRecords
<1> QED
  BY <1>1, <1>2, <1>3, <1>4, TickInv DEF RepNext

LEMMA RepInvAlways == RepSpec => []RepInv
BY RepInitInv, RepNextInv, PTL DEF RepSpec
-----------------------------------------------------------------------------
LEMMA ReadIsStored ==
    ASSUME RepInv, NEW p \in RepProcesses, Open(p), NEW written, ~ Refused(p, written),
           NEW m \in Paymasters, m \in DOMAIN written
    PROVE  txns[p].read[m] = counts[m]
BY DEF RepInv, SnapshotsHold, Refused

LEMMA SeenIsExact ==
    ASSUME RepInv, NEW p \in RepProcesses, Open(p), NEW m \in Paymasters, IncOpsSeen(p, m)
    PROVE  counts' = IF Refused(p, SeenWrites(p, m)) THEN counts
                     ELSE [counts EXCEPT ![m] = incrementOpsSeen(counts[m])]
<1> DEFINE written == SeenWrites(p, m)
<1>1. CASE Refused(p, written)
  BY <1>1 DEF IncOpsSeen, Commit, Discard
<1>2. CASE ~ Refused(p, written)
  <2>1. DOMAIN written = {m} /\ written[m] = incrementOpsSeen(txns[p].read[m])
    BY DEF SeenWrites, Only
  <2>2. txns[p].read[m] = counts[m]
    BY <1>2, <2>1, ReadIsStored
  <2>3. counts' = [k \in Paymasters |-> IF k \in DOMAIN written THEN written[k] ELSE counts[k]]
    BY <1>2 DEF IncOpsSeen, Commit, Apply
  <2> HIDE DEF written
  <2>4. counts' = [counts EXCEPT ![m] = incrementOpsSeen(counts[m])]
    BY <2>1, <2>2, <2>3 DEF RepInv
  <2> QED
    BY <1>2, <2>4 DEF written
<1> QED
  BY <1>1, <1>2

LEMMA IncludedIsExact ==
    ASSUME RepInv, NEW p \in RepProcesses, Open(p), NEW n \in [Paymasters -> Nat],
           IncOpsIncluded(p, n)
    PROVE  counts' = IF Refused(p, IncludedWrites(p, n)) THEN counts
                     ELSE [m \in Paymasters |->
                                IF n[m] > 0 THEN incrementOpsIncluded(counts[m], n[m])
                                ELSE counts[m]]
<1> DEFINE written == IncludedWrites(p, n)
<1>1. CASE Refused(p, written)
  BY <1>1 DEF IncOpsIncluded, Commit, Discard
<1>2. CASE ~ Refused(p, written)
  <2>1. /\ DOMAIN written = {k \in Paymasters : n[k] > 0}
        /\ \A m \in DOMAIN written :
                written[m] = incrementOpsIncluded(txns[p].read[m], n[m])
    BY DEF IncludedWrites
  <2>2. \A m \in DOMAIN written : txns[p].read[m] = counts[m]
    BY <1>2, <2>1, ReadIsStored
  <2>3. counts' = [k \in Paymasters |-> IF k \in DOMAIN written THEN written[k] ELSE counts[k]]
    BY <1>2 DEF IncOpsIncluded, Commit, Apply
  <2> HIDE DEF written
  <2>4. counts' = [m \in Paymasters |->
                        IF n[m] > 0 THEN incrementOpsIncluded(counts[m], n[m])
                        ELSE counts[m]]
    BY <2>1, <2>2, <2>3
  <2> QED
    BY <1>2, <2>4 DEF written
<1> QED
  BY <1>1, <1>2

LEMMA StatusIsExact ==
    ASSUME RepInv, NEW p \in RepProcesses, Open(p), NEW m \in Paymasters, CheckStatus(p, m)
    PROVE  \/ counts' = counts
           \/ getStatus(counts[m]) = "ok" /\ counts' = [counts EXCEPT ![m] = Touched(counts[m])]
<1> DEFINE written == StatusWrites(p, m)
<1>1. CASE Banned(p, m) \/ Refused(p, written)
  BY <1>1 DEF CheckStatus, Commit, Discard
<1>2. CASE ~ Banned(p, m) /\ ~ Refused(p, written)
  <2>0. counts' = [k \in Paymasters |-> IF k \in DOMAIN written THEN written[k] ELSE counts[k]]
    BY <1>2 DEF CheckStatus, Commit, Apply
  <2>1. CASE txns[p].read[m] = Unknown
    <3>1. DOMAIN written = {}
      BY <2>1 DEF StatusWrites
    <3> HIDE DEF written
    <3>2. counts' = counts
      BY <2>0, <3>1 DEF RepInv
    <3> QED
      BY <3>2
  <2>2. CASE txns[p].read[m] # Unknown
    <3>1. DOMAIN written = {m} /\ written[m] = Touched(txns[p].read[m])
      BY <2>2 DEF StatusWrites, Only
    <3>2. txns[p].read[m] = counts[m]
      BY <1>2, <3>1, ReadIsStored
    <3>3. getStatus(counts[m]) = "ok"
      BY <1>2, <3>2 DEF Banned, getStatus
    <3> HIDE DEF written
    <3>4. counts' = [counts EXCEPT ![m] = Touched(counts[m])]
      BY <2>0, <3>1, <3>2 DEF RepInv
    <3> QED
      BY <3>3, <3>4
  <2> QED
    BY <2>1, <2>2
<1> QED
  BY <1>1, <1>2

\* reputation.go:26-93: for any processes that use the DB at the same time, the
\* counts that a handler changes are those of now, to which its ops are added,
\* and a handler that would add to older ones is refused (CommitsAreExact).
THEOREM UpdatesAreExact == RepSpec => [][CommitsAreExact]_repVars
<1>1. RepInv => CommitsAreExact
  BY SeenIsExact, IncludedIsExact, StatusIsExact DEF CommitsAreExact
<1> QED
  BY <1>1, RepInvAlways, PTL DEF RepSpec
-----------------------------------------------------------------------------
(* The decay of the counts.  It is a function defined by recursion over    *)
(* the hours, so there is an induction: it is made from the least element  *)
(* of a set of naturals.                                                   *)

Stored == [seen : Nat, included : Nat, age : 0 .. MaxAge]

LEMMA LeastHour ==
  ASSUME NEW T \in SUBSET Nat, T # {}
  PROVE  \E x \in T : \A y \in T : x <= y
<1> DEFINE R == OpToRel(<, Nat)
<1>1. \E x \in T : \A y \in T : ~ (<<y, x>> \in R)
  <2>1. IsWellFoundedOn(R, Nat)
    BY NatLessThanWellFounded
  <2> HIDE DEF R
  <2> QED
    BY <2>1, WFMin
<1>2. PICK x \in T : \A y \in T : ~ (<<y, x>> \in R)
  BY <1>1
<1>3. ASSUME NEW y \in T PROVE x <= y
  <2>1. <<y, x>> \notin {p \in Nat \X Nat : p[1] < p[2]}
    BY <1>2, Zenon DEF OpToRel
  <2> QED
    BY <2>1
<1> QED
  BY <1>2, <1>3

LEMMA HourByHour ==
  ASSUME NEW T, 0 \in T, \A n \in Nat : n \in T => n + 1 \in T
  PROVE  Nat \subseteq T
<1> DEFINE U == {n \in Nat : n \notin T}
<1> SUFFICES ASSUME U # {} PROVE FALSE
  OBVIOUS
<1>1. PICK x \in U : \A y \in U : x <= y
  BY LeastHour
<1>2. x - 1 \in Nat /\ x - 1 \notin U
  BY <1>1
<1> QED
  BY <1>2

\* One hour of applyExpWeights.
Weighed(k) ==
    IF k.seen < EmaHours /\ k.included < EmaHours THEN k
    ELSE [k EXCEPT !.seen = @ - @ \div EmaHours, !.included = @ - @ \div EmaHours]

\* Counts that have become no larger, and are as old.
Faded(k, c) == k \in Stored /\ k.seen <= c.seen /\ k.included <= c.included /\ k.age = c.age

LEMMA WeighedFades ==
  ASSUME NEW c \in Stored, NEW k, Faded(k, c) PROVE Faded(Weighed(k), c)
<1>1. EmaHours \in Nat \ {0}
  BY ReputationAssumption
<1>2. \A n \in Nat : n - n \div EmaHours \in Nat /\ n - n \div EmaHours <= n
  <2> TAKE n \in Nat
  <2>1. n \div EmaHours \in Nat /\ n \div EmaHours <= n
    BY <1>1
  <2> QED
    BY <2>1
<1>3. k \in Stored /\ c.seen \in Nat /\ c.included \in Nat
  BY DEF Faded, Stored
<1>4. CASE Weighed(k) = k
  BY <1>4
<1>5. CASE Weighed(k) = [k EXCEPT !.seen = @ - @ \div EmaHours, !.included = @ - @ \div EmaHours]
  <2> DEFINE s == k.seen - k.seen \div EmaHours
             i == k.included - k.included \div EmaHours
  <2>1. s \in Nat /\ s <= k.seen /\ i \in Nat /\ i <= k.included
    BY <1>2, <1>3 DEF Stored
  <2>2. Weighed(k) = [k EXCEPT !.seen = s, !.included = i]
    BY <1>5
  <2> HIDE DEF s, i
  <2>3. Weighed(k) \in Stored /\ Weighed(k).seen = s /\ Weighed(k).included = i
        /\ Weighed(k).age = k.age
    BY <1>3, <2>1, <2>2 DEF Stored
  <2>4. k.seen \in Nat /\ k.included \in Nat
    BY <1>3 DEF Stored
  <2> QED
    BY <1>3, <2>1, <2>3, <2>4 DEF Faded
<1> QED
  BY <1>4, <1>5 DEF Weighed

\* The counts after each of n hours.
Fading(c, n, f) == f = [h \in 0 .. n |-> IF h = 0 THEN c ELSE Weighed(f[h - 1])]

LEMMA FadingExists ==
  ASSUME NEW c, NEW N \in Nat PROVE \E f : Fading(c, N, f)
<1> DEFINE T == {n \in Nat : \E f : Fading(c, n, f)}
<1>1. 0 \in T
  <2> DEFINE f == [h \in 0 .. 0 |-> c]
  <2>1. Fading(c, 0, f)
    BY DEF Fading
  <2> QED
    BY <2>1
<1>2. ASSUME NEW n \in Nat, n \in T PROVE n + 1 \in T
  <2>1. PICK f : Fading(c, n, f)
    BY <1>2
  <2> DEFINE g == [h \in 0 .. n + 1 |-> IF h = n + 1 THEN Weighed(f[n]) ELSE f[h]]
             Next(h) == IF h = 0 THEN c ELSE Weighed(g[h - 1])
  <2>2. ASSUME NEW h \in 0 .. n + 1 PROVE g[h] = Next(h)
    <3>1. CASE h = n + 1
      <4>1. g[h] = Weighed(f[n]) /\ g[n] = f[n] /\ h - 1 = n /\ h # 0
        BY <3>1
      <4> QED
        BY <4>1
    <3>2. CASE h # n + 1
      <4>1. h \in 0 .. n /\ g[h] = f[h]
        BY <3>2
      <4>2. f[h] = IF h = 0 THEN c ELSE Weighed(f[h - 1])
        BY <2>1, <4>1 DEF Fading
      <4>3. h # 0 => g[h - 1] = f[h - 1]
        BY <4>1
      <4> QED
        BY <4>1, <4>2, <4>3
    <3> QED
      BY <3>1, <3>2
  <2>3. g = [h \in 0 .. n + 1 |-> g[h]]
    OBVIOUS
  <2> HIDE DEF g
  <2>4. Fading(c, n + 1, g)
    BY <2>2, <2>3 DEF Fading
  <2> QED
    BY <2>4
<1> HIDE DEF T
<1>3. Nat \subseteq T
  BY <1>1, <1>2, HourByHour
<1> QED
  BY <1>3 DEF T

LEMMA FadingFades ==
  ASSUME NEW c \in Stored, NEW N \in Nat, NEW f, Fading(c, N, f), NEW h \in 0 .. N
  PROVE  Faded(f[h], c)
<1> DEFINE T == {n \in Nat : n <= N => Faded(f[n], c)}
<1>1. 0 \in T
  BY DEF Fading, Faded, Stored
<1>2. ASSUME NEW n \in Nat, n \in T PROVE n + 1 \in T
  <2> SUFFICES ASSUME n + 1 <= N PROVE Faded(f[n + 1], c)
    OBVIOUS
  <2>1. Faded(f[n], c)
    BY <1>2
  <2>2. f[n + 1] = Weighed(f[n])
    <3>1. n + 1 \in 0 .. N /\ n + 1 # 0 /\ (n + 1) - 1 = n
      OBVIOUS
    <3> QED
      BY <3>1 DEF Fading
  <2> QED
    BY <2>1, <2>2, WeighedFades
<1> HIDE DEF T
<1>3. Nat \subseteq T
  BY <1>1, <1>2, HourByHour
<1>4. h \in Nat /\ h <= N
  OBVIOUS
<1> QED
  BY <1>3, <1>4 DEF T

\* utils.go:58-65: the decay makes no count larger and none negative, however
\* old it is.
LEMMA DecayFades ==
  ASSUME NEW c \in Stored PROVE Faded(applyExpWeights(c), c)
<1> DEFINE N == MaxAge \div 2
           after == CHOOSE f : Fading(c, N, f)
<1>1. N \in Nat /\ c.age \in 0 .. MaxAge /\ MaxAge \in Nat
  BY ReputationAssumption DEF Stored
<1>2. Fading(c, N, after)
  BY <1>1, FadingExists
<1>3. applyExpWeights(c) = after[c.age \div 2]
  BY DEF applyExpWeights, Fading, Weighed
<1>4. c.age \div 2 \in 0 .. N
  BY <1>1
<1> HIDE DEF N, after
<1> QED
  BY <1>1, <1>2, <1>3, <1>4, FadingFades

\* What every handler writes are counts again.
LEMMA WritesAreCounts ==
  ASSUME NEW c \in Counts, NEW n \in Nat
  PROVE  /\ c # Unknown => Touched(c) \in Counts
         /\ incrementOpsSeen(c) \in Counts /\ incrementOpsIncluded(c, n) \in Counts
<1>1. MaxAge \in Nat
  BY ReputationAssumption
<1>2. \A s \in Nat, i \in Nat : getOpsCountValue(s, i) \in Counts
  BY <1>1 DEF getOpsCountValue, Counts
<1>3. ASSUME c # Unknown
      PROVE  applyExpWeights(c).seen \in Nat /\ applyExpWeights(c).included \in Nat
  <2>1. c \in Stored
    BY <1>3 DEF Counts, Stored
  <2>2. applyExpWeights(c) \in Stored
    BY <2>1, DecayFades DEF Faded
  <2> QED
    BY <2>2 DEF Stored
<1>4. getOpsCountByPaymaster(c).seen \in Nat /\ getOpsCountByPaymaster(c).included \in Nat
  <2>1. Unknown.seen \in Nat /\ Unknown.included \in Nat
    BY DEF Unknown
  <2> QED
    BY <1>3, <2>1 DEF getOpsCountByPaymaster
<1>5. getOpsCountByPaymaster(c).seen + 1 \in Nat /\ getOpsCountByPaymaster(c).included + n \in Nat
  BY <1>4
<1> QED
  BY <1>2, <1>3, <1>4, <1>5 DEF Touched, incrementOpsSeen, incrementOpsIncluded

LEMMA OlderIsCount ==
  ASSUME NEW c \in Counts PROVE Older(c) \in Counts
<1>1. CASE c = Unknown \/ c.age = MaxAge
  BY <1>1 DEF Older
<1>2. CASE c # Unknown /\ c.age # MaxAge
  <2>1. c \in Stored /\ MaxAge \in Nat /\ Older(c) = [c EXCEPT !.age = @ + 1]
    BY <1>2, ReputationAssumption DEF Counts, Stored, Older
  <2>2. c.age + 1 \in 0 .. MaxAge
    BY <1>2, <2>1 DEF Stored
  <2> QED
    BY <2>1, <2>2 DEF Counts, Stored
<1> QED
  BY <1>1, <1>2

\* The DB holds counts, and a transaction has read counts.
RepTypes ==
    /\ counts \in [Paymasters -> Counts]
    /\ \A p \in RepProcesses :
            /\ Open(p) => txns[p].read \in [Paymasters -> Counts]
            /\ txns[p].overwritten \subseteq Paymasters

LEMMA TxnFields ==
  ASSUME RepInv, NEW p \in RepProcesses
  PROVE  /\ Open(p) => \E read, overwritten :
                txns[p] = [state |-> "open", read |-> read, overwritten |-> overwritten]
         /\ ~ Open(p) => txns[p] = NoTxn
<1>1. NoTxn.state # "open"
  BY DEF NoTxn
<1> QED
  BY <1>1 DEF RepInv, TxnsAreRecords, Open

LEMMA RepInitTypes == RepInit => RepTypes
BY ReputationAssumption DEF RepInit, RepTypes, Open, NoTxn

LEMMA BeginTxnTypes ==
  ASSUME RepInv, RepTypes, NEW p \in RepProcesses, BeginTxn(p), UNCHANGED counts
  PROVE  RepTypes'
<1>1. /\ txns'[p] = [state |-> "open", read |-> counts, overwritten |-> {}]
      /\ \A q \in RepProcesses \ {p} : txns'[q] = txns[q]
  BY DEF BeginTxn, RepInv
<1> QED
  BY <1>1 DEF RepTypes, Open

LEMMA DiscardTypes ==
  ASSUME RepInv, RepTypes, NEW p \in RepProcesses, Discard(p) PROVE RepTypes'
<1>1. /\ txns'[p] = NoTxn /\ UNCHANGED counts
      /\ \A q \in RepProcesses \ {p} : txns'[q] = txns[q]
  BY DEF Discard, RepInv
<1> QED
  BY <1>1 DEF RepTypes, Open, NoTxn

LEMMA ApplyTypes ==
  ASSUME RepInv, RepTypes, NEW p \in RepProcesses, NEW written, Apply(p, written),
         DOMAIN written \subseteq Paymasters, \A m \in DOMAIN written : written[m] \in Counts
  PROVE  RepTypes'
<1>1. counts' \in [Paymasters -> Counts]
  BY DEF Apply, RepTypes
<1>2. ASSUME NEW q \in RepProcesses
      PROVE  /\ Open(q)' => txns'[q].read \in [Paymasters -> Counts]
             /\ txns'[q].overwritten \subseteq Paymasters
  <2>1. CASE q = p \/ ~ Open(q)
    <3>1. txns'[q] = NoTxn
      BY <2>1, TxnFields DEF Apply
    <3> QED
      BY <3>1 DEF Open, NoTxn
  <2>2. CASE q # p /\ Open(q)
    <3>1. txns'[q] = [txns[q] EXCEPT !.overwritten = @ \union DOMAIN written]
      BY <2>2 DEF Apply
    <3>2. txns'[q].read = txns[q].read
          /\ txns'[q].overwritten = txns[q].overwritten \union DOMAIN written
      BY <2>2, <3>1, TxnFields
    <3> QED
      BY <2>2, <3>2 DEF RepTypes
  <2> QED
    BY <2>1, <2>2
<1> QED
  BY <1>1, <1>2 DEF RepTypes

LEMMA CommitTypes ==
  ASSUME RepInv, RepTypes, NEW p \in RepProcesses, NEW written, Commit(p, written),
         DOMAIN written \subseteq Paymasters, \A m \in DOMAIN written : written[m] \in Counts
  PROVE  RepTypes'
BY DiscardTypes, ApplyTypes DEF Commit

LEMMA TickTypes ==
  ASSUME RepInv, RepTypes, Tick PROVE RepTypes'
<1>1. counts' \in [Paymasters -> Counts]
  BY OlderIsCount DEF Tick, RepTypes
<1>2. ASSUME NEW q \in RepProcesses
      PROVE  /\ Open(q)' => txns'[q].read \in [Paymasters -> Counts]
             /\ txns'[q].overwritten \subseteq Paymasters
  <2>1. CASE ~ Open(q)
    <3>1. txns'[q] = NoTxn
      BY <2>1, TxnFields DEF Tick
    <3> QED
      BY <3>1 DEF Open, NoTxn
  <2>2. CASE Open(q)
    <3>1. txns'[q] = [txns[q] EXCEPT !.read = [m \in Paymasters |-> Older(txns[q].read[m])]]
      BY <2>2 DEF Tick
    <3>2. txns'[q].read = [m \in Paymasters |-> Older(txns[q].read[m])]
          /\ txns'[q].overwritten = txns[q].overwritten
      BY <2>2, <3>1, TxnFields
    <3>3. txns[q].read \in [Paymasters -> Counts] /\ txns[q].overwritten \subseteq Paymasters
      BY <2>2 DEF RepTypes
    <3> QED
      BY <3>2, <3>3, OlderIsCount
  <2> QED
    BY <2>1, <2>2
<1> QED
  BY <1>1, <1>2 DEF RepTypes

\* Each handler, in a transaction that is open.
LEMMA HandlersType ==
  ASSUME RepInv, RepTypes, NEW p \in RepProcesses, Open(p)
  PROVE  /\ \A m \in Paymasters : CheckStatus(p, m) \/ IncOpsSeen(p, m) => RepTypes'
         /\ \A n \in [Paymasters -> Nat] : IncOpsIncluded(p, n) => RepTypes'
<1>1. \A m \in Paymasters : txns[p].read[m] \in Counts
  BY DEF RepTypes
<1>2. ASSUME NEW m \in Paymasters, CheckStatus(p, m) PROVE RepTypes'
  <2>1. CASE txns[p].read[m] = Unknown
    <3>1. DOMAIN StatusWrites(p, m) = {}
      BY <2>1 DEF StatusWrites
    <3> QED
      BY <1>2, <3>1, CommitTypes, DiscardTypes DEF CheckStatus
  <2>2. CASE txns[p].read[m] # Unknown
    <3>1. /\ DOMAIN StatusWrites(p, m) = {m}
          /\ StatusWrites(p, m)[m] = Touched(txns[p].read[m])
      BY <2>2 DEF StatusWrites, Only
    <3>2. Touched(txns[p].read[m]) \in Counts
      BY <1>1, <2>2, WritesAreCounts, 0 \in Nat
    <3>3. DOMAIN StatusWrites(p, m) \subseteq Paymasters
          /\ \A k \in DOMAIN StatusWrites(p, m) : StatusWrites(p, m)[k] \in Counts
      BY <3>1, <3>2
    <3> QED
      BY <1>2, <3>3, CommitTypes, DiscardTypes DEF CheckStatus
  <2> QED
    BY <2>1, <2>2
<1>3. ASSUME NEW m \in Paymasters, IncOpsSeen(p, m) PROVE RepTypes'
  <2>1. /\ DOMAIN SeenWrites(p, m) = {m}
        /\ SeenWrites(p, m)[m] = incrementOpsSeen(txns[p].read[m])
    BY DEF SeenWrites, Only
  <2>2. incrementOpsSeen(txns[p].read[m]) \in Counts
    BY <1>1, WritesAreCounts, 0 \in Nat
  <2>3. DOMAIN SeenWrites(p, m) \subseteq Paymasters
        /\ \A k \in DOMAIN SeenWrites(p, m) : SeenWrites(p, m)[k] \in Counts
    BY <2>1, <2>2
  <2> QED
    BY <1>3, <2>3, CommitTypes DEF IncOpsSeen
<1>4. ASSUME NEW n \in [Paymasters -> Nat], IncOpsIncluded(p, n) PROVE RepTypes'
  <2>1. /\ DOMAIN IncludedWrites(p, n) \subseteq Paymasters
        /\ \A k \in DOMAIN IncludedWrites(p, n) :
                IncludedWrites(p, n)[k] = incrementOpsIncluded(txns[p].read[k], n[k])
    BY DEF IncludedWrites
  <2>2. \A k \in DOMAIN IncludedWrites(p, n) : IncludedWrites(p, n)[k] \in Counts
    <3> TAKE k \in DOMAIN IncludedWrites(p, n)
    <3>1. k \in Paymasters /\ txns[p].read[k] \in Counts /\ n[k] \in Nat
      BY <1>1, <2>1
    <3> QED
      BY <2>1, <3>1, WritesAreCounts
  <2> QED
    BY <1>4, <2>1, <2>2, CommitTypes DEF IncOpsIncluded
<1> QED
  BY <1>2, <1>3, <1>4

\* reputation.go:26-93 and utils.go:42-95: for any processes that use the DB at
\* the same time, and whatever an earlier process left, it holds counts and
\* nothing else: none is negative, and a count is a natural number however
\* often it was written and however old it became.
THEOREM CountsAreCounts == RepSpec => [](counts \in [Paymasters -> Counts])
<1>1. RepInv /\ RepTypes /\ [RepNext]_repVars => RepTypes'
  <2> SUFFICES ASSUME RepInv, RepTypes, [RepNext]_repVars PROVE RepTypes'
    OBVIOUS
  <2>1. CASE UNCHANGED repVars
    BY <2>1 DEF repVars, RepTypes, Open
  <2> QED
    BY <2>1, BeginTxnTypes, HandlersType, TickTypes DEF RepNext
<1>2. RepTypes => counts \in [Paymasters -> Counts]
  BY DEF RepTypes
<1> QED
  BY <1>1, <1>2, RepInitTypes, RepInvAlways, PTL DEF RepSpec
-----------------------------------------------------------------------------
(* What stays as it is: the situation, and all of the op but its prices,   *)
(* and but what an estimation makes of it.                                 *)

SceneOK ==
    /\ situation \in Situations /\ IsOp(scene.op) /\ scene.chain = situation.scene.chain
    /\ scene.op.sender = situation.scene.op.sender
    /\ scene.op.intent = situation.scene.op.intent
    /\ scene.op.initCode = situation.scene.op.initCode
    /\ scene.op.paymasterAndData = situation.scene.op.paymasterAndData

\* A situation is chosen once.
LEMMA SituationStays == [RpcNext]_rpcVars => UNCHANGED situation
<1> SUFFICES ASSUME [RpcNext]_rpcVars PROVE UNCHANGED situation
  OBVIOUS
<1>1. CASE UNCHANGED rpcVars
  BY <1>1 DEF rpcVars
<1>2. ASSUME NEW c \in Clients, ServerStep(c) PROVE UNCHANGED situation
  BY <1>2 DEF ServerStep, HandleRequest, Estimate, Look, ValidateValues, BeginStatus, EndStatus,
              SimulateOp, BeginSeen, EndSeen, AddToPool
<1>3. CASE BundlerStep
  BY <1>3 DEF BundlerStep, Relay, CountIncluded, DropSent
<1>4. CASE ChainMoves \/ TimePasses
  BY <1>4 DEF ChainMoves, TimePasses
<1> QED
  BY <1>1, <1>2, <1>3, <1>4 DEF RpcNext

\* A request that estimates is an estimation (GasEstimate), and nothing else is.
LEMMA StepOfEstimation == [RpcNext]_rpcVars => [EstNext]_estVars
<1> SUFFICES ASSUME [RpcNext]_rpcVars PROVE [EstNext]_estVars
  OBVIOUS
<1>1. CASE UNCHANGED rpcVars
  BY <1>1 DEF rpcVars
<1>2. ASSUME NEW c \in Clients, ServerStep(c) PROVE [EstNext]_estVars
  <2>1. CASE Estimate(c)
    BY <2>1 DEF Estimate, EstNext
  <2>2. CASE ~ Estimate(c)
    BY <1>2, <2>2 DEF ServerStep, HandleRequest, Look, ValidateValues, BeginStatus, EndStatus,
                      SimulateOp, BeginSeen, EndSeen, AddToPool
  <2> QED
    BY <2>1, <2>2
<1>3. CASE BundlerStep
  BY <1>3 DEF BundlerStep, Relay, CountIncluded, DropSent
<1>4. CASE ChainMoves \/ TimePasses
  BY <1>4 DEF ChainMoves, TimePasses
<1> QED
  BY <1>1, <1>2, <1>3, <1>4 DEF RpcNext

\* So what is proved of an estimation holds in the server.
LEMMA EstimationHolds == RpcSpec => []EstInv
<1>1. RpcInit => EstInv
  BY InitInv DEF RpcInit
<1>2. EstInv /\ [RpcNext]_rpcVars => EstInv'
  BY StepOfEstimation, NextInv
<1> QED
  BY <1>1, <1>2, PTL DEF RpcSpec

\* estimate.go:165-175: what the server answers to an estimation is enough.
THEOREM EnoughInServer == RpcSpec => []EstimateIsEnough
<1>1. EstInv => EstimateIsEnough
  BY DEF EstInv, EstimateIsEnough
<1> QED
  BY <1>1, EstimationHolds, PTL

\* estimate.go:90 and :183: and it is not far more than that.
THEOREM TightInServer == RpcSpec => []EstimateIsTight
<1>1. EstInv => EstimateIsTight
  BY DEF EstInv, EstimateIsTight, VGLIsTight, CGLIsTight
<1> QED
  BY <1>1, EstimationHolds, PTL

\* estimate.go:61, 97 and 191: a request that estimates comes to an end, whatever the
\* node answers and the other requests do meanwhile (EstimationAdvances).
THEOREM AdvancesInServer == RpcSpec => EstimationAdvances
<1> DEFINE Less == StepsLeft' < StepsLeft
<1>1. RpcInit => EndInv
  BY EndInvInit DEF RpcInit
<1>2. EstInv /\ EndInv /\ [RpcNext]_rpcVars => EndInv'
  BY StepOfEstimation, EndInvNext
<1>3. EstInv /\ EndInv => Counted
  BY EndInvCounts
<1>4. Counted => StepsLeft \in Nat
  BY DEF Counted
<1>5. EstInv /\ EndInv /\ Counted /\ Counted' /\ [RpcNext]_rpcVars => [Less]_estVars
  BY StepOfEstimation, NextAdvances
<1> HIDE DEF Less
<1>6. RpcSpec => [](EstInv /\ EndInv /\ Counted)
  BY <1>1, <1>2, <1>3, EstimationHolds, PTL DEF RpcSpec
<1>7. RpcSpec => [](StepsLeft \in Nat) /\ [][Less]_estVars
  BY <1>4, <1>5, <1>6, PTL DEF RpcSpec
<1> QED
  BY <1>7 DEF EstimationAdvances, Less

\* GetGasPrices sets the prices of the op and nothing else.
LEMMA SceneStep == SceneOK /\ EstInv /\ [RpcNext]_rpcVars => SceneOK'
<1> SUFFICES ASSUME SceneOK, EstInv, [RpcNext]_rpcVars PROVE SceneOK'
  OBVIOUS
<1>1. UNCHANGED situation
  BY SituationStays
<1>2. [EstNext]_estVars
  BY StepOfEstimation
<1>3. UNCHANGED scene \/ \E baseFee \in 0 .. 1 : GetGasPrices(baseFee, 1)
  BY <1>2 DEF estVars, EstNext, EstimateStep, EstimateUserOperationGas, SearchVGL, SearchVGLDone,
              TraceExecution, Confirm, SearchCGL, SearchCGLDone, CalcPVG, NodeFails
<1>4. CASE UNCHANGED scene
  BY <1>1, <1>4 DEF SceneOK
<1>5. ASSUME NEW baseFee \in 0 .. 1, GetGasPrices(baseFee, 1) PROVE SceneOK'
  <2> DEFINE p == NewGasPrices(baseFee, 1)
  <2>1. scene' = [scene EXCEPT !.op.maxFee = p.maxFee, !.op.maxTip = p.maxTip]
    BY <1>5 DEF GetGasPrices
  <2>2. p.maxFee \in Nat /\ p.maxTip \in Nat
    BY DEF NewGasPrices
  <2> HIDE DEF p
  <2>3. "op" \in DOMAIN scene /\ "chain" \in DOMAIN scene
    BY DEF EstInv, SceneAssumption
  <2>4. scene'.op = [scene.op EXCEPT !.maxFee = p.maxFee, !.maxTip = p.maxTip] /\ scene'.chain = scene.chain
    BY <2>1, <2>3
  <2>5. IsOp(scene'.op) /\ scene'.op.sender = scene.op.sender /\ scene'.op.intent = scene.op.intent
        /\ scene'.op.initCode = scene.op.initCode
        /\ scene'.op.paymasterAndData = scene.op.paymasterAndData
    BY <2>2, <2>4 DEF SceneOK, IsOp
  <2> QED
    BY <1>1, <2>4, <2>5 DEF SceneOK, IsOp
<1> QED
  BY <1>3, <1>4, <1>5

LEMMA SceneHolds == RpcSpec => []SceneOK
<1>1. RpcInit => SceneOK
  BY RpcAssumption DEF RpcInit, SceneOK
<1> QED
  BY <1>1, SceneStep, EstimationHolds, PTL DEF RpcSpec
-----------------------------------------------------------------------------
(* Lookups.                                                                *)

LookSteps == {"number", "filter", "receipt", "transaction", "found", "missing", "error", "pooled"}

ChainTypes ==
    /\ head \in Nat /\ steady \in BOOLEAN
    /\ block \in [Clients -> Int]
    /\ \A c \in Clients : block[c] <= head

LookingTypes ==
    \/ looking = Idle
    \/ looking \in [method : {looking.method}, op : Clients, from : Int, block : Int,
                    mined : BOOLEAN, step : LookSteps]

\* While the chain is steady an op that was mined stays where it is; events are
\* looked for from a block that has been far enough from the head, and will be.
Found ==
    /\ looking.mined => Mined(looking.op)
    /\ looking.step = "filter" => looking.from = 0 \/ looking.from <= head - Window
    /\ looking.step = "receipt" => Mined(looking.op)
    /\ looking.step = "transaction" => Mined(looking.op) /\ looking.block = block[looking.op]
    /\ looking.step = "found" => Mined(looking.op) /\ looking.block = block[looking.op]
    /\ looking.step = "missing" =>
            \/ ~ looking.mined \/ head - block[looking.op] > Window
            \/ situation.scene.op.intent \/ (looking.method # Receipt /\ ~ situation.direct)

LookInv == ChainTypes /\ LookingTypes /\ (looking.step # "idle" /\ steady => Found)

\* The op of the lookup was mined or not; blocks that come change nothing else.
LEMMA ChainGoesOn ==
  ASSUME LookInv, UNCHANGED <<looking, situation>>, ChainTypes',
         steady' => steady /\ head <= head' /\ \A c \in Clients : Mined(c) => block'[c] = block[c]
  PROVE  LookInv'
<1>1. LookingTypes'
  BY DEF LookInv, LookingTypes
<1>2. ASSUME looking.step # "idle", steady' PROVE Found'
  <2>1. looking.op \in Clients /\ Found /\ looking.from \in Int
    BY <1>2 DEF LookInv, LookingTypes, Idle
  <2>2. /\ head \in Nat /\ head' \in Nat /\ head <= head' /\ Window \in Nat
        /\ block[looking.op] \in Int /\ block'[looking.op] \in Int
        /\ Mined(looking.op) => block'[looking.op] = block[looking.op]
    BY <1>2, <2>1, LookupAssumption DEF LookInv, ChainTypes
  <2>3. looking' = looking /\ situation' = situation
    OBVIOUS
  <2>4. Mined(looking.op) => Mined(looking.op)'
    BY <2>1, <2>2, <2>3 DEF Mined
  <2>5. looking.from <= head - Window => looking.from <= head' - Window
    BY <2>1, <2>2
  <2>6. Mined(looking.op) /\ head - block[looking.op] > Window
        => head' - block'[looking.op] > Window
    BY <2>2
  <2>7. (looking.mined => Mined(looking.op))'
    BY <2>1, <2>3, <2>4 DEF Found
  <2>8. (looking.step = "filter" => looking.from = 0 \/ looking.from <= head - Window)'
    BY <2>1, <2>3, <2>5 DEF Found
  <2>9. (looking.step = "receipt" => Mined(looking.op))'
    BY <2>1, <2>3, <2>4 DEF Found
  <2>10. (looking.step = "transaction"
            => Mined(looking.op) /\ looking.block = block[looking.op])'
    BY <2>1, <2>2, <2>3, <2>4 DEF Found
  <2>11. (looking.step = "found" => Mined(looking.op) /\ looking.block = block[looking.op])'
    BY <2>1, <2>2, <2>3, <2>4 DEF Found
  <2>12. (looking.step = "missing" =>
            \/ ~ looking.mined \/ head - block[looking.op] > Window
            \/ situation.scene.op.intent
            \/ (looking.method # Receipt /\ ~ situation.direct))'
    BY <2>1, <2>3, <2>6 DEF Found
  <2> QED
    BY <2>7, <2>8, <2>9, <2>10, <2>11, <2>12 DEF Found
<1> QED
  BY <1>1, <1>2 DEF LookInv

LEMMA RelayLooks ==
  ASSUME LookInv, Relay PROVE LookInv'
<1>1. PICK ops \in SUBSET {c \in pool : block[c] = Unsent} :
        block' = [c \in Clients |-> IF c \in ops THEN Pending ELSE block[c]]
  BY DEF Relay
<1>2. UNCHANGED <<head, looking, steady, situation>>
  BY DEF Relay
<1>3. ChainTypes'
  BY <1>1, <1>2 DEF ChainTypes, LookInv, Pending
<1>4. \A c \in Clients : Mined(c) => block'[c] = block[c]
  BY <1>1 DEF Mined, Unsent
<1>5. head <= head'
  BY <1>2 DEF LookInv, ChainTypes
<1> QED
  BY <1>2, <1>3, <1>4, <1>5, ChainGoesOn

LEMMA ChainMovesLooks ==
  ASSUME LookInv, ChainMoves PROVE LookInv'
<1>1. UNCHANGED <<situation, looking>> /\ LookupOps = Clients
  BY RpcAssumption DEF ChainMoves, NewBlock, Reorg
<1>2. CASE NewBlock
  <2>1. PICK ops \in SUBSET {op \in Clients : block[op] = Pending} :
          block' = [op \in Clients |-> IF op \in ops THEN head' ELSE block[op]]
    BY <1>1, <1>2 DEF NewBlock
  <2>2. head' = head + 1 /\ steady' = steady
    BY <1>2 DEF NewBlock
  <2>3. ChainTypes' /\ head <= head'
    BY <2>1, <2>2 DEF ChainTypes, LookInv
  <2>4. \A c \in Clients : Mined(c) => block'[c] = block[c]
    BY <2>1 DEF Mined, Pending
  <2>5. steady' => steady /\ head <= head' /\ \A c \in Clients : Mined(c) => block'[c] = block[c]
    BY <2>2, <2>3, <2>4
  <2>6. UNCHANGED <<looking, situation>> /\ ChainTypes'
    BY <1>1, <2>3
  <2> QED
    BY <2>5, <2>6, ChainGoesOn
<1>3. CASE Reorg
  <2>1. steady' = FALSE /\ head' = head
        /\ block' = [op \in Clients |-> IF block[op] = head THEN Pending ELSE block[op]]
    BY <1>1, <1>3 DEF Reorg
  <2>2. \A c \in Clients : block[c] \in Int /\ block[c] <= head
    BY DEF ChainTypes, LookInv
  <2>3. \A c \in Clients : block'[c] \in Int /\ block'[c] <= head'
    <3> TAKE c \in Clients
    <3>1. block'[c] = IF block[c] = head THEN -1 ELSE block[c]
      BY <2>1 DEF Pending
    <3>2. head \in Nat /\ head' = head
      BY <2>1 DEF ChainTypes, LookInv
    <3> QED
      BY <2>2, <3>1, <3>2
  <2>4. block' \in [Clients -> Int]
    BY <2>1, <2>3
  <2>5. ChainTypes'
    BY <2>1, <2>3, <2>4 DEF ChainTypes, LookInv
  <2>6. steady' => steady /\ head <= head' /\ \A c \in Clients : Mined(c) => block'[c] = block[c]
    BY <2>1
  <2>7. UNCHANGED <<looking, situation>>
    BY <1>1
  <2> QED
    BY <2>5, <2>6, <2>7, ChainGoesOn
<1> QED
  BY <1>2, <1>3 DEF ChainMoves

\* A lookup goes on, from what Found says of it.
LEMMA LookLooks ==
  ASSUME SceneOK, LookInv, NEW c \in Clients, Look(c) PROVE LookInv'
<1>0. UNCHANGED situation /\ scene.op.intent = situation.scene.op.intent
  BY DEF Look, SceneOK
<1>1. CASE BeginLookup(Head(todo[c]).method, c)
  <2> DEFINE m == Head(todo[c]).method
  <2>1. /\ looking' = [method |-> m, op |-> c, from |-> 0, block |-> 0, mined |-> Mined(c),
                       step |-> "number"]
        /\ UNCHANGED <<head, block>> /\ steady' = TRUE
    BY <1>1 DEF BeginLookup, HasUserOpHash
  <2> HIDE DEF m
  <2>2. LookingTypes'
    BY <2>1 DEF LookingTypes, LookSteps, Mined
  <2>3. ChainTypes'
    BY <2>1 DEF LookInv, ChainTypes
  <2>4. Found'
    BY <2>1 DEF Found, Mined
  <2> QED
    BY <2>2, <2>3, <2>4 DEF LookInv
<1>2. CASE UNCHANGED <<head, block, steady>> /\ looking' = Idle
  BY <1>2 DEF LookInv, LookingTypes, ChainTypes, Idle
<1>3. ASSUME UNCHANGED <<head, block, steady>>, looking.step # "idle", LookingTypes',
             steady => Found'
      PROVE  LookInv'
  BY <1>3 DEF LookInv, ChainTypes
<1>4. ASSUME looking.step # "idle"
      PROVE  /\ looking \in [method : {looking.method}, op : Clients, from : Int, block : Int,
                             mined : BOOLEAN, step : LookSteps]
             /\ steady => Found
             /\ head \in Nat /\ Window \in Nat /\ block[looking.op] \in Int
             /\ block[looking.op] <= head
  BY <1>4, LookupAssumption DEF LookInv, LookingTypes, Idle, ChainTypes
<1>5. CASE BlockNumber
  <2>1. looking.step = "number" /\ UNCHANGED <<head, block, steady>>
        /\ looking' = [looking EXCEPT !.step = "filter", !.from = StartBlock]
    BY <1>5 DEF BlockNumber
  <2>2. StartBlock \in Int /\ (StartBlock = 0 \/ StartBlock <= head - Window)
    BY <1>4, <2>1 DEF StartBlock
  <2> HIDE DEF StartBlock
  <2>3. LookingTypes'
    BY <1>4, <2>1, <2>2 DEF LookingTypes, LookSteps
  <2>4. steady => Found'
    BY <1>4, <2>1, <2>2 DEF Found, Mined
  <2> QED
    BY <1>3, <2>1, <2>3, <2>4
<1>6. CASE FilterEvents(~ scene.op.intent)
  <2> DEFINE hit == InWindow(looking.op) /\ ~ scene.op.intent
  <2>1. looking.step = "filter" /\ UNCHANGED <<head, block, steady>>
        /\ looking' = [looking EXCEPT !.step = IF hit THEN "receipt" ELSE "missing"]
    BY <1>6 DEF FilterEvents, Step
  <2>2. CASE hit
    <3>1. looking' = [looking EXCEPT !.step = "receipt"] /\ Mined(looking.op)
      BY <2>1, <2>2 DEF InWindow
    <3>2. LookingTypes'
      BY <1>4, <2>1, <3>1 DEF LookingTypes, LookSteps
    <3>3. steady => Found'
      BY <1>4, <2>1, <3>1 DEF Found, Mined
    <3> QED
      BY <1>3, <2>1, <3>2, <3>3
  <2>3. CASE ~ hit
    <3>1. looking' = [looking EXCEPT !.step = "missing"]
      BY <2>1, <2>3
    <3>2. LookingTypes'
      BY <1>4, <2>1, <3>1 DEF LookingTypes, LookSteps
    <3>3. ASSUME steady PROVE Found'
      <4>1. Found
        BY <1>4, <2>1, <3>3
      <4>2. ~ Mined(looking.op) \/ block[looking.op] < looking.from \/ situation.scene.op.intent
        BY <1>0, <1>4, <2>1, <2>3 DEF InWindow
      <4>3. Mined(looking.op) /\ block[looking.op] < looking.from => head - block[looking.op] > Window
        BY <1>4, <2>1, <4>1 DEF Found, Mined
      <4>4. ~ looking.mined \/ head - block[looking.op] > Window \/ situation.scene.op.intent
        BY <4>1, <4>2, <4>3 DEF Found
      <4>5. looking'.mined = looking.mined /\ looking'.op = looking.op /\ looking'.step = "missing"
        BY <1>4, <2>1, <3>1
      <4> HIDE DEF hit
      <4> QED
        BY <1>0, <2>1, <4>1, <4>4, <4>5 DEF Found, Mined
    <3> QED
      BY <1>3, <2>1, <3>2, <3>3
  <2> QED
    BY <2>2, <2>3
<1>7. CASE TransactionReceipt
  <2>1. looking.step = "receipt" /\ UNCHANGED <<head, block, steady>>
        /\ looking' = [looking EXCEPT !.step = IF Mined(looking.op) THEN "transaction" ELSE "error",
                                      !.block = block[looking.op]]
    BY <1>7 DEF TransactionReceipt
  <2>2. LookingTypes'
    BY <1>4, <2>1 DEF LookingTypes, LookSteps
  <2>3. steady => Found'
    BY <1>4, <2>1 DEF Found, Mined
  <2> QED
    BY <1>3, <2>1, <2>2, <2>3
<1>8. CASE TransactionByHash(situation.direct)
  <2>1. looking.step = "transaction" /\ UNCHANGED <<head, block, steady>>
        /\ looking' = [looking EXCEPT !.step =
                        IF Mined(looking.op) /\ (looking.method = Receipt \/ situation.direct)
                        THEN "found" ELSE "missing"]
    BY <1>8 DEF TransactionByHash, Step
  <2>2. LookingTypes'
    BY <1>4, <2>1 DEF LookingTypes, LookSteps
  <2>3. steady => Found'
    BY <1>0, <1>4, <2>1 DEF Found, Mined
  <2> QED
    BY <1>3, <2>1, <2>2, <2>3
<1>9. CASE LookupFails
  <2>1. looking.step # "idle" /\ UNCHANGED <<head, block, steady>>
        /\ looking' = [looking EXCEPT !.step = "error"]
    BY <1>9 DEF LookupFails, Step
  <2>2. LookingTypes'
    BY <1>4, <2>1 DEF LookingTypes, LookSteps
  <2>3. steady => Found'
    BY <1>4, <2>1 DEF Found, Mined
  <2> QED
    BY <1>3, <2>1, <2>2, <2>3
<1> QED
  BY <1>1, <1>2, <1>5, <1>6, <1>7, <1>8, <1>9 DEF Look

LEMMA LookStep == SceneOK /\ LookInv /\ [RpcNext]_rpcVars => LookInv'
<1> SUFFICES ASSUME SceneOK, LookInv, [RpcNext]_rpcVars PROVE LookInv'
  OBVIOUS
<1>1. UNCHANGED situation
  BY SituationStays
<1>2. ASSUME UNCHANGED lookVars PROVE LookInv'
  <2>1. UNCHANGED <<head, block, looking, steady>>
    BY <1>2 DEF lookVars
  <2> QED
    BY <1>1, <2>1 DEF LookInv, ChainTypes, LookingTypes, Found, Mined
<1>3. CASE UNCHANGED rpcVars
  BY <1>2, <1>3 DEF rpcVars
<1>4. ASSUME NEW c \in Clients, ServerStep(c) PROVE LookInv'
  <2>1. CASE Look(c)
    BY <2>1, LookLooks
  <2>2. CASE ~ Look(c)
    BY <1>2, <1>4, <2>2 DEF ServerStep, HandleRequest, Estimate, ValidateValues, BeginStatus,
                            EndStatus, SimulateOp, BeginSeen, EndSeen, AddToPool
  <2> QED
    BY <2>1, <2>2
<1>5. CASE BundlerStep
  BY <1>2, <1>5, RelayLooks DEF BundlerStep, CountIncluded, DropSent
<1>6. CASE ChainMoves
  BY <1>6, ChainMovesLooks
<1>7. CASE TimePasses
  BY <1>2, <1>7 DEF TimePasses
<1> QED
  BY <1>3, <1>4, <1>5, <1>6, <1>7 DEF RpcNext

LEMMA LookHolds == RpcSpec => []LookInv
<1>1. RpcInit => LookInv
  BY RpcAssumption DEF RpcInit, LookInit, LookInv, ChainTypes, LookingTypes, Idle, Unsent
<1> QED
  BY <1>1, LookStep, SceneHolds, PTL DEF RpcSpec

\* filter/event.go:22-28 and opbyhash.go:39-48, with the calls before and after
\* them: whatever blocks come between the reads, what was mined and is recent is
\* found, and where it is (LookupsAreRight).
THEOREM LookupsFind == RpcSpec => []LookupsAreRight
<1>1. SceneOK /\ LookInv => LookupsAreRight
  <2> SUFFICES ASSUME SceneOK, LookInv, looking.step \in {"missing", "found"}, steady
               PROVE  IF looking.step = "found" THEN looking.block = block[looking.op]
                      ELSE \/ ~ looking.mined \/ head - block[looking.op] > Window
                           \/ scene.op.intent \/ (looking.method # Receipt /\ ~ situation.direct)
    BY DEF LookupsAreRight
  <2>1. Found
    BY DEF LookInv
  <2> QED
    BY <2>1 DEF Found, SceneOK
<1> QED
  BY <1>1, SceneHolds, LookHolds, PTL
-----------------------------------------------------------------------------
(* From the checks of an op to the pool.                                   *)

Passing == {"checked", "status", "vetted"}
Past    == {"simulated", "seen", "counted"}

HasStakes(op, k) == {op.sender, GetFactory(op), GetPaymaster(op)} \ {NoAddress} \subseteq k

\* What the checks leave of an op: it exists or is to be made, and its
\* paymaster, which may be the sender itself, exists.
CodeFits(op, code) ==
    /\ (op.sender \in code) # (op.initCode.len > 0)
    /\ GetPaymaster(op) = NoAddress \/ GetPaymaster(op) \in code

TouchesOwn(op, trace, staked, code) ==
    \A entity \in Entities : \A a \in Level(trace, entity).access :
        \/ AddressOfEntity(op, entity) \in staked
        \/ a.addr \in {op.sender, EntryPoint}
        \/ /\ isAssociatedWith(SlotsOf(trace, op.sender), a.slot)
           /\ op.sender \in code \/ (entity = "account" /\ GetFactory(op) \in staked)
        \/ HasInvalidStorageAccessException(entity, addr2KnownEntity(op, a.addr), a.slot) # {}

Known(c) == HasStakes(situation.scene.op, known[c]) /\ CodeFits(situation.scene.op, situation.view.code)

Owns ==
    ~ situation.scene.op.intent =>
        TouchesOwn(situation.scene.op, situation.trace, situation.view.staked, situation.view.code)

AdmTypes ==
    /\ stage \in [Clients -> Stages] /\ known = [c \in Clients |-> known[c]]
    /\ pool \subseteq Clients

\* The checks come first, then the trace is judged by what they know, and only
\* then the op goes on to the pool.
AdmInv ==
    /\ AdmTypes
    /\ \A c \in Clients : stage[c] \in Passing => Known(c)
    /\ (\E c \in Clients : stage[c] \in Past) \/ pool # {} => Owns

\* The client's op is that of the situation but for its gas and signature.
SameBut(op, was) ==
    /\ op.sender = was.sender /\ op.intent = was.intent
    /\ op.initCode = was.initCode /\ op.paymasterAndData = was.paymasterAndData

LEMMA OpOfSituation ==
  ASSUME SceneOK, NEW c \in Clients
  PROVE  SameBut(OpOf(c), situation.scene.op) /\ IsOp(situation.scene.op)
<1>1. SameBut(scene.op, situation.scene.op)
  BY DEF SceneOK, SameBut
<1>2. IsOp(situation.scene.op)
  BY RpcAssumption DEF SceneOK
<1>3. OpOf(c).sender = scene.op.sender /\ OpOf(c).intent = scene.op.intent
      /\ OpOf(c).initCode = scene.op.initCode
      /\ OpOf(c).paymasterAndData = scene.op.paymasterAndData
  BY DEF SceneOK, IsOp, OpOf
<1> QED
  BY <1>1, <1>2, <1>3 DEF SameBut

\* A check that passes has got the stake that it asked for.
LEMMA VerdictNeeds ==
  ASSUME NEW k, NEW also, Verdict(k # {} /\ also, k).ok PROVE k # {}
<1> SUFFICES ASSUME k = {} PROVE FALSE
  OBVIOUS
<1>1. Verdict(k # {} /\ also, k) = Verdict(FALSE, {}) /\ Verdict(FALSE, {}).ok = FALSE
  BY DEF Verdict
<1> QED
  BY <1>1

\* What the checks of its values say of an op that passes them.
LEMMA ChecksKnow ==
  ASSUME NEW op, NEW was, NEW view, IsOp(was), SameBut(op, was), ValidateOpValues(op, view).ok
  PROVE  HasStakes(was, ValidateOpValues(op, view).known) /\ CodeFits(was, view.code)
<1> DEFINE checks == {ValidateSender(op, view), ValidateInitCode(op, view),
                      ValidateVerificationGas(op, view), ValidatePaymasterAndData(op, view),
                      ValidatePendingOps(op, view), ValidateGasAvailable(op, view)}
                     \union (IF op.intent THEN {}
                             ELSE {ValidateCallGasLimit(op, view), ValidateFeePerGas(op, view)})
<1>1. ValidateOpValues(op, view) = Verdict(\A v \in checks : v.ok, UNION {v.known : v \in checks})
  BY DEF ValidateOpValues, Verdicts
<1>2. /\ ValidateSender(op, view) \in checks /\ ValidateInitCode(op, view) \in checks
      /\ ValidatePaymasterAndData(op, view) \in checks /\ ValidatePendingOps(op, view) \in checks
  OBVIOUS
<1> HIDE DEF checks
<1>3. \A v \in checks : v.ok /\ v.known \subseteq ValidateOpValues(op, view).known
  <2>1. ValidateOpValues(op, view).known = UNION {v.known : v \in checks}
    BY <1>1 DEF Verdict
  <2>2. \A v \in checks : v.ok
    BY <1>1 DEF Verdict
  <2> QED
    BY <2>1, <2>2
<1>4. /\ GetFactory(op) = GetFactory(was) /\ GetPaymaster(op) = GetPaymaster(was)
      /\ op.sender = was.sender /\ op.initCode.len = was.initCode.len
      /\ op.paymasterAndData.len = was.paymasterAndData.len
  BY DEF SameBut, GetFactory, GetPaymaster
<1>5. was.initCode.len \in Nat /\ was.paymasterAndData.len \in Nat
  BY DEF IsOp
<1>6. (was.sender \in view.code) # (was.initCode.len > 0)
  BY <1>2, <1>3, <1>4 DEF ValidateSender, Verdict
<1>7. was.sender \in ValidateOpValues(op, view).known
  <2>1. ValidatePendingOps(op, view) = Verdict(gs(op.sender, view) # {} /\ view.pendingOk, gs(op.sender, view))
    BY DEF ValidatePendingOps
  <2>2. gs(op.sender, view) # {} /\ gs(op.sender, view) \subseteq ValidateOpValues(op, view).known
    <3>1. ValidatePendingOps(op, view).ok /\ ValidatePendingOps(op, view).known \subseteq ValidateOpValues(op, view).known
      BY <1>2, <1>3
    <3>2. ValidatePendingOps(op, view).known = gs(op.sender, view)
      BY <2>1 DEF Verdict
    <3>3. gs(op.sender, view) # {}
      BY <2>1, <3>1, VerdictNeeds
    <3> QED
      BY <3>1, <3>2, <3>3
  <2> QED
    BY <1>4, <2>2 DEF gs
<1>8. GetFactory(was) = NoAddress \/ GetFactory(was) \in ValidateOpValues(op, view).known
  <2>1. CASE was.initCode.len = 0
    BY <2>1 DEF GetFactory, AddressOf, AddressLength
  <2>2. CASE was.initCode.len # 0 /\ GetFactory(was) # NoAddress
    <3>1. ValidateInitCode(op, view)
            = Verdict(gs(GetFactory(op), view) # {} /\ TRUE, gs(GetFactory(op), view))
      BY <1>4, <2>2 DEF ValidateInitCode
    <3>2. ValidateInitCode(op, view).ok
          /\ ValidateInitCode(op, view).known \subseteq ValidateOpValues(op, view).known
      BY <1>2, <1>3
    <3>3. ValidateInitCode(op, view).known = gs(GetFactory(op), view)
      BY <3>1 DEF Verdict
    <3>4. gs(GetFactory(op), view) # {}
      BY <3>1, <3>2, VerdictNeeds
    <3> QED
      BY <1>4, <3>2, <3>3, <3>4 DEF gs
  <2> QED
    BY <2>1, <2>2
<1>9. GetPaymaster(was) = NoAddress
      \/ (GetPaymaster(was) \in view.code /\ GetPaymaster(was) \in ValidateOpValues(op, view).known)
  <2>1. CASE was.paymasterAndData.len = 0
    BY <2>1 DEF GetPaymaster, AddressOf, AddressLength
  <2>2. CASE was.paymasterAndData.len # 0
    <3> DEFINE bad == \/ op.paymasterAndData.len \in 1 .. AddressLength - 1
                      \/ "code" \in view.fails
                      \/ GetPaymaster(op) \notin view.code
               asked == gs(GetPaymaster(op), view)
               paid == view.deposit >= GetMaxPrefund(op)
    <3>1. ValidatePaymasterAndData(op, view)
            = IF bad THEN Verdict(FALSE, {}) ELSE Verdict(asked # {} /\ paid, asked)
      BY <1>4, <2>2 DEF ValidatePaymasterAndData
    <3>2. ValidatePaymasterAndData(op, view).ok
          /\ ValidatePaymasterAndData(op, view).known \subseteq ValidateOpValues(op, view).known
      BY <1>2, <1>3
    <3>3. Verdict(FALSE, {}).ok = FALSE /\ Verdict(asked # {} /\ paid, asked).known = asked
      BY DEF Verdict
    <3> HIDE DEF bad, asked, paid
    <3>4. ~ bad
      BY <3>1, <3>2, <3>3
    <3>5. asked # {} /\ asked \subseteq ValidateOpValues(op, view).known
      BY <3>1, <3>2, <3>3, <3>4, VerdictNeeds
    <3>6. GetPaymaster(op) \in view.code /\ asked = gs(GetPaymaster(op), view)
      BY <3>4 DEF bad, asked
    <3> QED
      BY <1>4, <3>5, <3>6 DEF gs
  <2> QED
    BY <2>1, <2>2
<1> QED
  BY <1>6, <1>7, <1>8, <1>9 DEF HasStakes, CodeFits

\* The entities of an op are those of the op that was asked about.
LEMMA SameEntities ==
  ASSUME NEW op, NEW was, SameBut(op, was)
  PROVE  /\ \A entity \in Entities : AddressOfEntity(op, entity) = AddressOfEntity(was, entity)
         /\ \A addr : addr2KnownEntity(op, addr) = addr2KnownEntity(was, addr)
         /\ op.sender = was.sender /\ op.initCode = was.initCode
         /\ GetFactory(op) = GetFactory(was) /\ GetPaymaster(op) = GetPaymaster(was)
  BY DEF SameBut, Entities, AddressOfEntity, addr2KnownEntity, GetFactory, GetPaymaster

\* What a trace that is accepted says of every access.
LEMMA TraceJudged ==
  ASSUME NEW op, NEW was, NEW trace, NEW staked, NEW code, NEW k,
         IsOp(was), SameBut(op, was), CodeFits(was, code),
         TraceSimulateValidation(op, trace, k \cap staked)
  PROVE  TouchesOwn(was, trace, staked, code)
<1> SUFFICES ASSUME NEW entity \in Entities, NEW a \in Level(trace, entity).access
             PROVE  \/ AddressOfEntity(was, entity) \in staked
                    \/ a.addr \in {was.sender, EntryPoint}
                    \/ /\ isAssociatedWith(SlotsOf(trace, was.sender), a.slot)
                       /\ was.sender \in code \/ (entity = "account" /\ GetFactory(was) \in staked)
                    \/ HasInvalidStorageAccessException(entity, addr2KnownEntity(was, a.addr), a.slot) # {}
  BY DEF TouchesOwn
<1> DEFINE need == AccessNeeds(op, trace, entity, a, k \cap staked)
<1>1. Process(op, trace, entity, k \cap staked)
  BY DEF TraceSimulateValidation
<1>2. need # "forbidden" /\ (need = "stake" => IsStaked(op, entity, k \cap staked))
  BY <1>1 DEF Process
<1>3. /\ AddressOfEntity(op, entity) = AddressOfEntity(was, entity)
      /\ addr2KnownEntity(op, a.addr) = addr2KnownEntity(was, a.addr)
      /\ op.sender = was.sender /\ op.initCode = was.initCode
      /\ GetFactory(op) = GetFactory(was) /\ GetPaymaster(op) = GetPaymaster(was)
  BY SameEntities
<1>4. CASE a.addr \in {op.sender, EntryPoint}
  BY <1>3, <1>4
<1>5. CASE need = "stake"
  BY <1>2, <1>3, <1>5 DEF IsStaked
<1>6. CASE /\ a.addr \notin {op.sender, EntryPoint} /\ need # "stake"
           /\ isAssociatedWith(SlotsOf(trace, op.sender), a.slot)
  <2>1. ~ (op.initCode.len > 0)
        \/ (IsStaked(op, "factory", k \cap staked) /\ AddressOfEntity(op, entity) = op.sender)
    BY <1>6 DEF AccessNeeds
  <2>2. CASE ~ (was.initCode.len > 0)
    BY <1>3, <1>6, <2>2 DEF CodeFits
  <2>3. CASE /\ was.initCode.len > 0 /\ GetFactory(was) \in staked
             /\ AddressOfEntity(was, entity) = was.sender
    <3>1. CASE entity = "account"
      BY <1>3, <1>6, <2>3, <3>1
    <3>2. CASE entity = "factory"
      BY <2>3, <3>2 DEF AddressOfEntity
    <3>3. CASE entity = "paymaster"
      <4>1. GetPaymaster(was) = was.sender
        BY <2>3, <3>3 DEF AddressOfEntity
      <4>2. was.sender # NoAddress
        BY <1>3, <1>6 DEF isAssociatedWith, SlotsOf
      <4> QED
        BY <2>3, <4>1, <4>2 DEF CodeFits
    <3> QED
      BY <3>1, <3>2, <3>3 DEF Entities
  <2> QED
    BY <1>3, <2>1, <2>2, <2>3 DEF IsStaked, AddressOfEntity
<1>7. CASE /\ a.addr \notin {op.sender, EntryPoint} /\ need # "stake"
           /\ ~ isAssociatedWith(SlotsOf(trace, op.sender), a.slot)
  BY <1>2, <1>3, <1>7 DEF AccessNeeds
<1> QED
  BY <1>4, <1>5, <1>6, <1>7

\* The request of c goes on, and neither to checks it has not passed nor past a
\* trace that was not judged.
LEMMA StageGoesOn ==
  ASSUME AdmInv, NEW c \in Clients, NEW from, NEW to \in Stages, At(c, from, to),
         to \in Passing => from \in Passing, to \in Past => from \in Past,
         UNCHANGED <<situation, known, pool>>
  PROVE  AdmInv'
<1>1. stage[c] = from /\ stage' = [stage EXCEPT ![c] = to]
  BY DEF At
<1>2. AdmTypes'
  BY <1>1 DEF AdmInv, AdmTypes
<1>3. \A d \in Clients : /\ stage'[d] \in Passing => stage[d] \in Passing
                         /\ stage'[d] \in Past => stage[d] \in Past
  BY <1>1 DEF AdmInv, AdmTypes
<1>4. \A d \in Clients : stage'[d] \in Passing => Known(d)'
  BY <1>3 DEF AdmInv, Known
<1>5. (\E d \in Clients : stage'[d] \in Past) \/ pool' # {} => Owns'
  BY <1>3 DEF AdmInv, Owns
<1> QED
  BY <1>2, <1>4, <1>5 DEF AdmInv

LEMMA StageAnswered ==
  ASSUME AdmInv, NEW c \in Clients, NEW from, NEW answer, Answered(c, from, answer),
         UNCHANGED <<situation, known, pool>>
  PROVE  AdmInv'
<1>1. At(c, from, "idle")
  BY DEF Answered
<1> QED
  BY <1>1, StageGoesOn DEF Stages, Passing, Past

\* The checks pass.
LEMMA ValidateAdmits ==
  ASSUME SceneOK, AdmInv, NEW c \in Clients, ValidateValues(c) PROVE AdmInv'
<1>1. UNCHANGED <<situation, pool>>
  BY DEF ValidateValues
<1>2. ASSUME NEW code, MethodFails(c, "send", code),
             known' = [known EXCEPT ![c] = known'[c]]
      PROVE  AdmInv'
  <2>1. stage[c] = "send" /\ stage' = [stage EXCEPT ![c] = "idle"]
    BY <1>2 DEF MethodFails, Answered, At
  <2>2. AdmTypes'
    BY <1>1, <1>2, <2>1 DEF AdmInv, AdmTypes, Stages
  <2>3. ASSUME NEW d \in Clients, stage'[d] \in Passing \union Past
        PROVE  stage'[d] = stage[d] /\ known'[d] = known[d]
    BY <1>2, <2>1, <2>3 DEF AdmInv, AdmTypes, Passing, Past
  <2>4. \A d \in Clients : stage'[d] \in Passing => Known(d)'
    BY <1>1, <2>3 DEF AdmInv, Known
  <2>5. (\E d \in Clients : stage'[d] \in Past) \/ pool' # {} => Owns'
    BY <1>1, <2>3 DEF AdmInv, Owns
  <2> QED
    BY <2>2, <2>4, <2>5 DEF AdmInv
<1>3. ASSUME UNCHANGED known, MethodFails(c, "send", NoRPCError) PROVE AdmInv'
  BY <1>1, <1>3, StageAnswered DEF MethodFails
<1> DEFINE verdict == ValidateOpValues(OpOf(c), situation.view)
<1>4. ASSUME known' = [known EXCEPT ![c] = verdict.known], verdict.ok, At(c, "send", "checked")
      PROVE  AdmInv'
  <2>1. stage[c] = "send" /\ stage' = [stage EXCEPT ![c] = "checked"]
    BY <1>4 DEF At
  <2>2. AdmTypes'
    BY <1>1, <1>4, <2>1 DEF AdmInv, AdmTypes, Stages
  <2>3. ASSUME NEW d \in Clients, d # c PROVE stage'[d] = stage[d] /\ known'[d] = known[d]
    BY <1>4, <2>1, <2>3 DEF AdmInv, AdmTypes
  <2>4. known'[c] = verdict.known /\ stage'[c] = "checked"
    BY <1>4, <2>1 DEF AdmInv, AdmTypes
  <2>5. Known(c)'
    BY <1>1, <1>4, <2>4, OpOfSituation, ChecksKnow DEF Known
  <2>6. \A d \in Clients : stage'[d] \in Passing => Known(d)'
    BY <1>1, <2>3, <2>5 DEF AdmInv, Known
  <2>7. (\E d \in Clients : stage'[d] \in Past) \/ pool' # {} => Owns'
    BY <1>1, <2>3, <2>4 DEF AdmInv, Owns, Past
  <2> QED
    BY <2>2, <2>6, <2>7 DEF AdmInv
<1> QED
  <2>1. CASE MethodFails(c, "send", NoRPCError) /\ UNCHANGED known
    BY <1>3, <2>1
  <2>2. CASE \E op \in {OpOf(c)} : \E v \in {ValidateOpValues(op, situation.view)} :
                /\ known' = [known EXCEPT ![c] = v.known]
                /\ IF v.ok THEN At(c, "send", "checked") /\ UNCHANGED <<todo, answers>>
                   ELSE MethodFails(c, "send", -32602)
    <3> HIDE DEF verdict
    <3>1. /\ known' = [known EXCEPT ![c] = verdict.known]
          /\ IF verdict.ok THEN At(c, "send", "checked") ELSE MethodFails(c, "send", -32602)
      BY <2>2 DEF verdict
    <3>2. known' = [known EXCEPT ![c] = known'[c]]
      BY <3>1 DEF AdmInv, AdmTypes
    <3>3. CASE verdict.ok
      BY <1>4, <3>1, <3>3
    <3>4. CASE ~ verdict.ok
      BY <1>2, <3>1, <3>2, <3>4
    <3> QED
      BY <3>3, <3>4
  <2> QED
    BY <2>1, <2>2 DEF ValidateValues

\* The trace is judged by the stakes that are known.
LEMMA SimulateAdmits ==
  ASSUME SceneOK, AdmInv, NEW c \in Clients, SimulateOp(c) PROVE AdmInv'
<1>1. UNCHANGED <<situation, known, pool>>
  BY DEF SimulateOp
<1>2. ASSUME NEW code, MethodFails(c, "vetted", code) PROVE AdmInv'
  BY <1>1, <1>2, StageAnswered DEF MethodFails
<1>3. ASSUME OpOf(c).intent \/ TraceCodes(c) = {}, At(c, "vetted", "simulated") PROVE AdmInv'
  <2>1. stage[c] = "vetted" /\ stage' = [stage EXCEPT ![c] = "simulated"]
    BY <1>3 DEF At
  <2>2. AdmTypes'
    BY <1>1, <2>1 DEF AdmInv, AdmTypes, Stages
  <2>3. \A d \in Clients : stage'[d] \in Passing => Known(d)'
    BY <1>1, <2>1 DEF AdmInv, AdmTypes, Known, Passing
  <2>4. Known(c)
    BY <2>1 DEF AdmInv, Passing
  <2>5. SameBut(OpOf(c), situation.scene.op) /\ IsOp(situation.scene.op)
    BY OpOfSituation
  <2>6. ASSUME ~ situation.scene.op.intent
        PROVE  TouchesOwn(situation.scene.op, situation.trace, situation.view.staked,
                          situation.view.code)
    <3>1. TraceSimulateValidation(OpOf(c), situation.trace, known[c] \cap situation.view.staked)
      BY <1>3, <2>5, <2>6 DEF TraceCodes, SameBut
    <3> QED
      BY <2>4, <2>5, <3>1, TraceJudged DEF Known
  <2> QED
    BY <1>1, <2>2, <2>3, <2>6 DEF AdmInv, Owns
<1> QED
  <2>1. CASE OpOf(c).intent
    BY <1>2, <1>3, <2>1 DEF SimulateOp
  <2>2. CASE ~ OpOf(c).intent
    <3>1. CASE ValidationCodes \union TraceCodes(c) = {}
      BY <1>2, <1>3, <2>2, <3>1 DEF SimulateOp
    <3>2. CASE ValidationCodes \union TraceCodes(c) # {}
      BY <1>2, <2>2, <3>2 DEF SimulateOp
    <3> QED
      BY <3>1, <3>2
  <2> QED
    BY <2>1, <2>2

\* Every other step of the request of a client.
LEMMA ServerAdmits ==
  ASSUME SceneOK, AdmInv, NEW c \in Clients, ServerStep(c) PROVE AdmInv'
<1>0. ASSUME UNCHANGED <<situation, known, pool, stage>> PROVE AdmInv'
  BY <1>0 DEF AdmInv, AdmTypes, Known, Owns
<1>1. CASE HandleRequest(c)
  <2>1. UNCHANGED <<situation, known, pool>>
    BY <1>1 DEF HandleRequest
  <2>2. (\E answer : Answered(c, "idle", answer))
        \/ \E method : At(c, "idle", StageOf(method)) /\ StageOf(method) # "idle"
    BY <1>1 DEF HandleRequest, MethodFails
  <2>3. ASSUME NEW answer, Answered(c, "idle", answer) PROVE AdmInv'
    BY <2>1, <2>3, StageAnswered
  <2>4. ASSUME NEW method, At(c, "idle", StageOf(method)) PROVE AdmInv'
    <3>1. StageOf(method) \in Stages /\ StageOf(method) \notin Passing \union Past
      BY DEF StageOf, Stages, Passing, Past
    <3> QED
      BY <2>1, <2>4, <3>1, StageGoesOn
  <2> QED
    BY <2>2, <2>3, <2>4
<1>2. CASE Estimate(c)
  <2>1. UNCHANGED <<situation, known, pool>>
    BY <1>2 DEF Estimate
  <2>2. UNCHANGED stage \/ \E answer : Answered(c, "estimate", answer)
    BY <1>2 DEF Estimate, MethodFails
  <2> QED
    BY <1>0, <2>1, <2>2, StageAnswered
<1>3. CASE Look(c)
  <2>1. UNCHANGED <<situation, known, pool>>
    BY <1>3 DEF Look
  <2>2. UNCHANGED stage \/ \E answer : Answered(c, "lookup", answer)
    BY <1>3 DEF Look, MethodFails
  <2> QED
    BY <1>0, <2>1, <2>2, StageAnswered
<1>4. CASE BeginStatus(c)
  <2>1. UNCHANGED <<situation, known, pool>>
        /\ (At(c, "checked", "vetted") \/ At(c, "checked", "status"))
    BY <1>4 DEF BeginStatus
  <2> QED
    BY <2>1, StageGoesOn DEF Stages, Passing, Past
<1>5. CASE EndStatus(c)
  <2>1. UNCHANGED <<situation, known, pool>>
    BY <1>5 DEF EndStatus
  <2>2. At(c, "status", "vetted") \/ At(c, "status", "idle")
    BY <1>5 DEF EndStatus, MethodFails, Answered
  <2> QED
    BY <2>1, <2>2, StageGoesOn DEF Stages, Passing, Past
<1>6. CASE BeginSeen(c)
  <2>1. UNCHANGED <<situation, known, pool>>
        /\ (At(c, "simulated", "seen") \/ At(c, "simulated", "counted"))
    BY <1>6 DEF BeginSeen
  <2> QED
    BY <2>1, StageGoesOn DEF Stages, Passing, Past
<1>7. CASE EndSeen(c)
  <2>1. UNCHANGED <<situation, known, pool>>
    BY <1>7 DEF EndSeen
  <2>2. At(c, "seen", "counted") \/ At(c, "seen", "idle")
    BY <1>7 DEF EndSeen, MethodFails, Answered
  <2> QED
    BY <2>1, <2>2, StageGoesOn DEF Stages, Passing, Past
<1>8. CASE AddToPool(c)
  <2>1. UNCHANGED <<situation, known>> /\ pool' = pool \union {c}
        /\ stage[c] = "counted" /\ stage' = [stage EXCEPT ![c] = "idle"]
    BY <1>8 DEF AddToPool, Answered, At
  <2>2. AdmTypes'
    BY <2>1 DEF AdmInv, AdmTypes, Stages
  <2>3. \A d \in Clients : stage'[d] \in Passing => Known(d)'
    BY <2>1 DEF AdmInv, AdmTypes, Known, Passing
  <2>4. Owns'
    BY <2>1 DEF AdmInv, Owns, Past
  <2> QED
    BY <2>2, <2>3, <2>4 DEF AdmInv
<1> QED
  BY <1>1, <1>2, <1>3, <1>4, <1>5, <1>6, <1>7, <1>8, ValidateAdmits, SimulateAdmits DEF ServerStep

LEMMA AdmStep == SceneOK /\ AdmInv /\ [RpcNext]_rpcVars => AdmInv'
<1> SUFFICES ASSUME SceneOK, AdmInv, [RpcNext]_rpcVars PROVE AdmInv'
  OBVIOUS
<1>1. ASSUME UNCHANGED <<situation, known, stage>>, pool' \subseteq pool PROVE AdmInv'
  BY <1>1 DEF AdmInv, AdmTypes, Known, Owns
<1>2. CASE UNCHANGED rpcVars
  BY <1>1, <1>2 DEF rpcVars, sendVars
<1>3. ASSUME NEW c \in Clients, ServerStep(c) PROVE AdmInv'
  BY <1>3, ServerAdmits
<1>4. CASE BundlerStep
  BY <1>1, <1>4 DEF BundlerStep, Relay, CountIncluded, DropSent
<1>5. CASE ChainMoves \/ TimePasses
  BY <1>1, <1>5 DEF ChainMoves, TimePasses, sendVars
<1> QED
  BY <1>2, <1>3, <1>4, <1>5 DEF RpcNext

LEMMA AdmHolds == RpcSpec => []AdmInv
<1>1. RpcInit => AdmInv
  BY DEF RpcInit, AdmInv, AdmTypes, Stages, Passing, Past
<1> QED
  BY <1>1, AdmStep, SceneHolds, PTL DEF RpcSpec

\* standalone.go:128-132: no entity is taken for one without a stake because
\* nobody asked.
THEOREM StakesAsked == RpcSpec => []StakesAreKnown
<1>1. SceneOK /\ AdmInv => StakesAreKnown
  <2> SUFFICES ASSUME SceneOK, AdmInv, NEW c \in Clients, stage[c] = "vetted"
               PROVE  {OpOf(c).sender, GetFactory(OpOf(c)), PaymasterOf(c)} \ {NoAddress}
                        \subseteq known[c]
    BY DEF StakesAreKnown
  <2>1. Known(c)
    BY DEF AdmInv, Passing
  <2> QED
    BY <2>1, OpOfSituation, SameEntities DEF Known, HasStakes, PaymasterOf
<1> QED
  BY <1>1, SceneHolds, AdmHolds, PTL

\* storageslots.go:72-136: what an op of the pool touches of others is staked
\* for, or allowed.
THEOREM OwnTouched == RpcSpec => []PooledOpsTouchTheirOwn
<1>1. SceneOK /\ AdmInv => PooledOpsTouchTheirOwn
  <2> SUFFICES ASSUME SceneOK, AdmInv, NEW c \in pool, ~ OpOf(c).intent,
                      NEW entity \in Entities, NEW a \in Level(situation.trace, entity).access
               PROVE  \/ AddressOfEntity(OpOf(c), entity) \in situation.view.staked
                      \/ a.addr \in {OpOf(c).sender, EntryPoint}
                      \/ /\ isAssociatedWith(SlotsOf(situation.trace, OpOf(c).sender), a.slot)
                         /\ OpOf(c).sender \in situation.view.code
                              \/ (entity = "account" /\ GetFactory(OpOf(c)) \in situation.view.staked)
                      \/ HasInvalidStorageAccessException(entity, addr2KnownEntity(OpOf(c), a.addr), a.slot) # {}
    BY DEF PooledOpsTouchTheirOwn
  <2>1. c \in Clients
    BY DEF AdmInv, AdmTypes
  <2>2. SameBut(OpOf(c), situation.scene.op)
    BY <2>1, OpOfSituation
  <2>3. TouchesOwn(situation.scene.op, situation.trace, situation.view.staked, situation.view.code)
    BY <2>2 DEF AdmInv, Owns, SameBut
  <2>4. /\ AddressOfEntity(OpOf(c), entity) = AddressOfEntity(situation.scene.op, entity)
        /\ addr2KnownEntity(OpOf(c), a.addr) = addr2KnownEntity(situation.scene.op, a.addr)
        /\ OpOf(c).sender = situation.scene.op.sender
        /\ GetFactory(OpOf(c)) = GetFactory(situation.scene.op)
    BY <2>2, SameEntities
  <2> QED
    BY <2>3, <2>4 DEF TouchesOwn
<1> QED
  BY <1>1, SceneHolds, AdmHolds, PTL
-----------------------------------------------------------------------------
(* Counts, of the server and the bundler.                                  *)

\* Between its two steps a handler's transaction is open, and of a paymaster.
InTransaction ==
    /\ \A c \in Clients : stage[c] \in {"status", "seen"} =>
            Open(c) /\ GetPaymaster(situation.scene.op) # NoAddress
    /\ batch # {} => Open(BundlerProcess)

CountInv == RepInv /\ batch \subseteq Clients /\ InTransaction

LEMMA PaymasterOfSituation ==
  ASSUME SceneOK, NEW c \in Clients
  PROVE  PaymasterOf(c) = GetPaymaster(situation.scene.op)
         /\ GetPaymaster(situation.scene.op) \in Paymasters \union {NoAddress}
<1>1. SameBut(OpOf(c), situation.scene.op)
  BY OpOfSituation
<1> QED
  BY <1>1, RpcAssumption DEF SceneOK, SameBut, PaymasterOf, GetPaymaster

\* A transaction is begun by its own process, and ended by it only.
LEMMA OpenStays ==
  ASSUME RepInv, NEW p \in RepProcesses
  PROVE  /\ BeginTxn(p) => Open(p)' /\ \A q \in RepProcesses : Open(q) => Open(q)'
         /\ \A written : Commit(p, written) => \A q \in RepProcesses \ {p} : Open(q) => Open(q)'
         /\ Discard(p) => \A q \in RepProcesses \ {p} : Open(q) => Open(q)'
         /\ Tick => \A q \in RepProcesses : Open(q) => Open(q)'
<1>1. ASSUME NEW q \in RepProcesses, Open(q)
      PROVE  \A k : [txns[q] EXCEPT !.overwritten = k].state = "open"
                    /\ [txns[q] EXCEPT !.read = k].state = "open"
  <2>1. PICK read, overwritten :
            txns[q] = [state |-> "open", read |-> read, overwritten |-> overwritten]
    BY <1>1 DEF Open, RepInv, TxnsAreRecords, NoTxn
  <2> QED
    BY <2>1
<1>2. ASSUME NEW written, Apply(p, written), NEW q \in RepProcesses \ {p}, Open(q) PROVE Open(q)'
  <2>1. txns'[q] = [txns[q] EXCEPT !.overwritten = txns[q].overwritten \union DOMAIN written]
    BY <1>2 DEF Apply
  <2> QED
    BY <1>1, <1>2, <2>1 DEF Open
<1>3. ASSUME Discard(p), NEW q \in RepProcesses \ {p}, Open(q) PROVE Open(q)'
  BY <1>3 DEF Discard, Open, RepInv
<1>4. ASSUME Tick, NEW q \in RepProcesses, Open(q) PROVE Open(q)'
  <2>1. txns'[q] = [txns[q] EXCEPT !.read = [m \in Paymasters |-> Older(txns[q].read[m])]]
    BY <1>4 DEF Tick
  <2> QED
    BY <1>1, <1>4, <2>1 DEF Open
<1>5. BeginTxn(p) => Open(p)' /\ \A q \in RepProcesses : Open(q) => Open(q)'
  BY DEF BeginTxn, Open, RepInv
<1> QED
  BY <1>2, <1>3, <1>4, <1>5 DEF Commit

\* The handlers are those of Reputation.
LEMMA HandlersCommit ==
  ASSUME NEW p, NEW m, NEW n
  PROVE  /\ CheckStatus(p, m) => Discard(p) \/ \E w : Commit(p, w)
         /\ IncOpsSeen(p, m) => \E w : Commit(p, w)
         /\ IncOpsIncluded(p, n) => \E w : Commit(p, w)
  BY DEF CheckStatus, IncOpsSeen, IncOpsIncluded

\* A request is a transaction's in two of its stages only.
LEMMA StageOfStep ==
  ASSUME AdmInv, NEW c \in Clients, ServerStep(c)
  PROVE  /\ \A d \in Clients \ {c} : stage'[d] = stage[d]
         /\ \/ UNCHANGED repVars /\ (stage'[c] = stage[c] \/ stage'[c] \notin {"status", "seen"})
               /\ ~ (stage[c] = "seen" /\ stage'[c] = "counted")
            \/ BeginStatus(c) \/ EndStatus(c) \/ BeginSeen(c) \/ EndSeen(c)
<1>1. ASSUME NEW from, NEW to, At(c, from, to)
      PROVE  stage[c] = from /\ stage'[c] = to /\ \A d \in Clients \ {c} : stage'[d] = stage[d]
  BY <1>1 DEF At, AdmInv, AdmTypes
<1>2. ASSUME UNCHANGED stage
      PROVE  stage'[c] = stage[c] /\ \A d \in Clients \ {c} : stage'[d] = stage[d]
  BY <1>2
<1>3. CASE HandleRequest(c)
  <2>1. UNCHANGED repVars /\ \E to \in {"idle", "send", "estimate", "lookup"} : At(c, "idle", to)
    BY <1>3 DEF HandleRequest, MethodFails, Answered, StageOf
  <2> QED
    BY <1>1, <2>1
<1>4. CASE Estimate(c) \/ Look(c) \/ AddToPool(c)
  <2>1. UNCHANGED repVars /\ (UNCHANGED stage \/ \E from : At(c, from, "idle"))
    BY <1>4 DEF Estimate, Look, AddToPool, MethodFails, Answered
  <2> QED
    BY <1>1, <1>2, <2>1
<1>5. CASE ValidateValues(c) \/ SimulateOp(c)
  <2>1. UNCHANGED repVars /\ \E from : \E to \in {"idle", "checked", "simulated"} : At(c, from, to)
    <3>1. CASE ValidateValues(c)
      BY <3>1 DEF ValidateValues, MethodFails, Answered
    <3>2. CASE SimulateOp(c)
      BY <3>2 DEF SimulateOp, MethodFails, Answered
    <3> QED
      BY <1>5, <3>1, <3>2
  <2> QED
    BY <1>1, <2>1
<1>6. CASE BeginStatus(c)
  BY <1>1, <1>6 DEF BeginStatus
<1>7. CASE EndStatus(c)
  BY <1>1, <1>7 DEF EndStatus, MethodFails, Answered
<1>8. CASE BeginSeen(c)
  BY <1>1, <1>8 DEF BeginSeen
<1>9. CASE EndSeen(c)
  BY <1>1, <1>9 DEF EndSeen, MethodFails, Answered
<1> QED
  BY <1>3, <1>4, <1>5, <1>6, <1>7, <1>8, <1>9 DEF ServerStep

\* The transaction of one request goes on; those of the others stay as they are.
LEMMA CountGoesOn ==
  ASSUME CountInv, NEW c \in Clients, UNCHANGED <<situation, batch>>, RepInv',
         \A d \in Clients \ {c} : stage'[d] = stage[d],
         stage'[c] \in {"status", "seen"} =>
            Open(c)' /\ GetPaymaster(situation.scene.op) # NoAddress,
         \A q \in RepProcesses \ {c} : Open(q) => Open(q)'
  PROVE  CountInv'
<1>1. RepProcesses = Clients \union {BundlerProcess} /\ BundlerProcess \notin Clients
  BY RpcAssumption
<1>2. ASSUME NEW d \in Clients, stage'[d] \in {"status", "seen"}
      PROVE  Open(d)' /\ GetPaymaster(situation'.scene.op) # NoAddress
  BY <1>1, <1>2 DEF CountInv, InTransaction
<1>3. batch' # {} => Open(BundlerProcess)'
  BY <1>1 DEF CountInv, InTransaction
<1> QED
  BY <1>2, <1>3 DEF CountInv, InTransaction

LEMMA ServerCounts ==
  ASSUME SceneOK, AdmInv, CountInv, NEW c \in Clients, ServerStep(c) PROVE CountInv'
<1>1. UNCHANGED <<situation, batch>>
  BY DEF ServerStep, HandleRequest, Estimate, Look, ValidateValues, BeginStatus, EndStatus,
         SimulateOp, BeginSeen, EndSeen, AddToPool
<1>2. \A d \in Clients \ {c} : stage'[d] = stage[d]
  BY StageOfStep
<1>3. c \in RepProcesses /\ RepInv
  BY RpcAssumption DEF CountInv
<1>4. PaymasterOf(c) = GetPaymaster(situation.scene.op)
  BY PaymasterOfSituation
<1>5. CASE UNCHANGED repVars /\ (stage'[c] = stage[c] \/ stage'[c] \notin {"status", "seen"})
  <2>1. RepInv' /\ \A q \in RepProcesses : Open(q) => Open(q)'
    BY <1>3, <1>5 DEF repVars, RepInv, TxnsAreRecords, SnapshotsHold, Open
  <2>2. stage'[c] \in {"status", "seen"} =>
            Open(c)' /\ GetPaymaster(situation.scene.op) # NoAddress
    BY <1>3, <1>5, <2>1 DEF CountInv, InTransaction
  <2> QED
    BY <1>1, <1>2, <2>1, <2>2, CountGoesOn
<1>6. CASE BeginStatus(c) \/ BeginSeen(c)
  <2>1. UNCHANGED counts
    BY <1>6 DEF BeginStatus, BeginSeen
  <2>2. CASE PaymasterOf(c) = NoAddress
    <3>1. UNCHANGED txns /\ \E from : At(c, from, "vetted") \/ At(c, from, "counted")
      BY <1>6, <2>2 DEF BeginStatus, BeginSeen
    <3>2. stage'[c] \notin {"status", "seen"}
      BY <3>1 DEF At, AdmInv, AdmTypes
    <3>3. RepInv' /\ \A q \in RepProcesses : Open(q) => Open(q)'
      BY <1>3, <2>1, <3>1 DEF RepInv, TxnsAreRecords, SnapshotsHold, Open
    <3> QED
      BY <1>1, <1>2, <3>2, <3>3, CountGoesOn
  <2>3. CASE PaymasterOf(c) # NoAddress
    <3>1. BeginTxn(c)
      BY <1>6, <2>3 DEF BeginStatus, BeginSeen
    <3>2. RepInv'
      BY <1>3, <2>1, <3>1, BeginTxnInv
    <3>3. Open(c)' /\ \A q \in RepProcesses : Open(q) => Open(q)'
      BY <1>3, <3>1, OpenStays
    <3> QED
      BY <1>1, <1>2, <1>4, <2>3, <3>2, <3>3, CountGoesOn
  <2> QED
    BY <2>2, <2>3
<1>7. CASE EndStatus(c) \/ EndSeen(c)
  <2>1. Discard(c) \/ \E w : Commit(c, w)
    BY <1>7, HandlersCommit DEF EndStatus, EndSeen
  <2>2. RepInv' /\ \A q \in RepProcesses \ {c} : Open(q) => Open(q)'
    BY <1>3, <2>1, OpenStays, DiscardInv, CommitInv
  <2>3. \E from : At(c, from, "vetted") \/ At(c, from, "idle") \/ At(c, from, "counted")
    BY <1>7 DEF EndStatus, EndSeen, MethodFails, Answered
  <2>4. stage'[c] \notin {"status", "seen"}
    BY <2>3 DEF At, AdmInv, AdmTypes
  <2> QED
    BY <1>1, <1>2, <2>2, <2>4, CountGoesOn
<1> QED
  BY <1>5, <1>6, <1>7, StageOfStep

LEMMA CountStep == SceneOK /\ AdmInv /\ CountInv /\ [RpcNext]_rpcVars => CountInv'
<1> SUFFICES ASSUME SceneOK, AdmInv, CountInv, [RpcNext]_rpcVars PROVE CountInv'
  OBVIOUS
<1>1. /\ BundlerProcess \in RepProcesses /\ BundlerProcess \notin Clients
      /\ Clients \subseteq RepProcesses /\ RepInv
  BY RpcAssumption DEF CountInv
<1>2. ASSUME UNCHANGED <<situation, stage, repVars>>, batch' = batch PROVE CountInv'
  BY <1>2 DEF repVars, CountInv, RepInv, TxnsAreRecords, SnapshotsHold, Open, InTransaction
<1>3. CASE UNCHANGED rpcVars
  BY <1>2, <1>3 DEF rpcVars, sendVars
<1>4. CASE Relay
  <2>1. /\ UNCHANGED <<situation, stage, counts>> /\ BeginTxn(BundlerProcess)
        /\ batch' \subseteq Clients
    BY <1>4 DEF Relay, AdmInv, AdmTypes
  <2>2. RepInv' /\ Open(BundlerProcess)' /\ \A q \in RepProcesses : Open(q) => Open(q)'
    BY <1>1, <2>1, BeginTxnInv, OpenStays
  <2> QED
    BY <1>1, <2>1, <2>2 DEF CountInv, InTransaction
<1>5. CASE CountIncluded
  <2>1. UNCHANGED <<situation, stage>> /\ batch' = {} /\ IncOpsIncluded(BundlerProcess, OpsInBatch)
    BY <1>5 DEF CountIncluded
  <2>2. \E w : Commit(BundlerProcess, w)
    BY <2>1, HandlersCommit
  <2>3. RepInv' /\ \A q \in RepProcesses \ {BundlerProcess} : Open(q) => Open(q)'
    BY <1>1, <2>2, CommitInv, OpenStays
  <2> QED
    BY <1>1, <2>1, <2>3 DEF CountInv, InTransaction
<1>6. CASE DropSent \/ ChainMoves
  BY <1>2, <1>6 DEF DropSent, ChainMoves, sendVars
<1>7. CASE TimePasses
  <2>1. UNCHANGED <<situation, stage, batch>> /\ Tick
    BY <1>7 DEF TimePasses, sendVars
  <2>2. RepInv' /\ \A q \in RepProcesses : Open(q) => Open(q)'
    BY <1>1, <2>1, TickInv, OpenStays
  <2> QED
    BY <1>1, <2>1, <2>2 DEF CountInv, InTransaction
<1> QED
  BY <1>3, <1>4, <1>5, <1>6, <1>7, ServerCounts DEF RpcNext, BundlerStep

LEMMA CountHolds == RpcSpec => []CountInv
<1>1. RpcInit => CountInv
  BY RepInitInv DEF RpcInit, CountInv, InTransaction
<1> QED
  BY <1>1, CountStep, AdmHolds, SceneHolds, PTL DEF RpcSpec

\* An op is counted as seen.
LEMMA SeenCounted ==
  ASSUME SceneOK, AdmInv, CountInv, NEW c \in Clients, EndSeen(c), stage'[c] = "counted"
  PROVE  /\ counts'[PaymasterOf(c)].seen = getOpsCountByPaymaster(counts[PaymasterOf(c)]).seen + 1
         /\ counts'[PaymasterOf(c)].included
                = getOpsCountByPaymaster(counts[PaymasterOf(c)]).included
<1> DEFINE m == PaymasterOf(c)
<1>1. stage[c] = "seen" /\ IncOpsSeen(c, m)
  BY DEF EndSeen
<1>2. c \in RepProcesses /\ Open(c) /\ m \in Paymasters /\ RepInv
  BY <1>1, PaymasterOfSituation, RpcAssumption DEF CountInv, InTransaction
<1>3. ~ Refused(c, SeenWrites(c, m))
  <2>1. SUFFICES ASSUME Refused(c, SeenWrites(c, m)) PROVE FALSE
    OBVIOUS
  <2>2. At(c, "seen", "idle")
    BY <2>1 DEF EndSeen, MethodFails, Answered
  <2> QED
    BY <2>2 DEF At, AdmInv, AdmTypes
<1> HIDE DEF m
<1>4. counts' = [counts EXCEPT ![m] = incrementOpsSeen(counts[m])]
  BY <1>1, <1>2, <1>3, SeenIsExact
<1>5. counts'[m] = incrementOpsSeen(counts[m])
  BY <1>2, <1>4 DEF RepInv
<1>6. /\ counts'[m].seen = getOpsCountByPaymaster(counts[m]).seen + 1
      /\ counts'[m].included = getOpsCountByPaymaster(counts[m]).included
  BY <1>5 DEF incrementOpsSeen, getOpsCountValue
<1> QED
  BY <1>6 DEF m

\* A batch has so many ops of every paymaster.
LEMMA BatchCounts ==
  ASSUME CountInv PROVE OpsInBatch \in [Paymasters -> Nat]
<1>1. IsFiniteSet(batch)
  BY FS_Subset, RpcAssumption DEF CountInv
<1>2. ASSUME NEW k PROVE Cardinality({c \in batch : PaymasterOf(c) = k}) \in Nat
  BY <1>1, FS_Subset, FS_CardinalityType
<1> QED
  BY <1>2 DEF OpsInBatch

\* A batch is counted as included.
LEMMA IncludedCounted ==
  ASSUME CountInv, CountIncluded, pool' # pool, NEW m \in Paymasters
  PROVE  IF OpsInBatch[m] = 0 THEN counts'[m] = counts[m]
         ELSE /\ counts'[m].included
                    = getOpsCountByPaymaster(counts[m]).included + OpsInBatch[m]
              /\ counts'[m].seen = getOpsCountByPaymaster(counts[m]).seen
<1>1. OpsInBatch \in [Paymasters -> Nat]
  BY BatchCounts
<1>2. BundlerProcess \in RepProcesses /\ Open(BundlerProcess) /\ RepInv
  BY RpcAssumption DEF CountIncluded, CountInv, InTransaction
<1>3. ~ Refused(BundlerProcess, IncludedWrites(BundlerProcess, OpsInBatch))
      /\ IncOpsIncluded(BundlerProcess, OpsInBatch)
  BY DEF CountIncluded
<1> DEFINE n == OpsInBatch
<1> HIDE DEF n
<1>4. counts' = [k \in Paymasters |->
                    IF n[k] > 0 THEN incrementOpsIncluded(counts[k], n[k]) ELSE counts[k]]
  BY <1>1, <1>2, <1>3, IncludedIsExact DEF n
<1>5. n[m] \in Nat
  BY <1>1 DEF n
<1>6. CASE n[m] = 0
  BY <1>4, <1>6 DEF n
<1>7. CASE n[m] > 0
  <2>1. counts'[m] = incrementOpsIncluded(counts[m], n[m])
    BY <1>4, <1>7
  <2>2. /\ counts'[m].included = getOpsCountByPaymaster(counts[m]).included + n[m]
        /\ counts'[m].seen = getOpsCountByPaymaster(counts[m]).seen
    BY <2>1 DEF incrementOpsIncluded, getOpsCountValue
  <2> QED
    BY <1>7, <2>2 DEF n
<1> QED
  BY <1>5, <1>6, <1>7

\* reputation.go:57-93: whatever transactions overlap, no op is lost from the
\* counts of its paymaster and none is counted twice.
THEOREM CountsExact == RpcSpec => CountsAreExact
<1> DEFINE Seen(c) ==
              /\ counts'[PaymasterOf(c)].seen
                    = getOpsCountByPaymaster(counts[PaymasterOf(c)]).seen + 1
              /\ counts'[PaymasterOf(c)].included
                    = getOpsCountByPaymaster(counts[PaymasterOf(c)]).included
           Included(m) ==
              IF OpsInBatch[m] = 0 THEN counts'[m] = counts[m]
              ELSE /\ counts'[m].included
                        = getOpsCountByPaymaster(counts[m]).included + OpsInBatch[m]
                   /\ counts'[m].seen = getOpsCountByPaymaster(counts[m]).seen
           Exact ==
              /\ \A c \in Clients : stage[c] = "seen" /\ stage'[c] = "counted" => Seen(c)
              /\ batch # {} /\ pool' # pool /\ batch' = {} => \A m \in Paymasters : Included(m)
<1>1. ASSUME SceneOK, AdmInv, CountInv, [RpcNext]_rpcVars PROVE [Exact]_rpcVars
  <2>1. ASSUME NEW d \in Clients, ServerStep(d) PROVE Exact
    <3>1. batch' = batch
      BY <2>1 DEF ServerStep, HandleRequest, Estimate, Look, ValidateValues, BeginStatus, EndStatus,
                  SimulateOp, BeginSeen, EndSeen, AddToPool
    <3>2. ASSUME NEW c \in Clients, stage[c] = "seen", stage'[c] = "counted" PROVE Seen(c)
      <4>1. c = d
        BY <1>1, <2>1, <3>2, StageOfStep
      <4>2. ~ BeginStatus(c) /\ ~ EndStatus(c) /\ ~ BeginSeen(c)
        BY <3>2 DEF BeginStatus, EndStatus, BeginSeen, At
      <4>3. EndSeen(c)
        BY <1>1, <2>1, <3>2, <4>1, <4>2, StageOfStep
      <4> QED
        BY <1>1, <3>2, <4>3, SeenCounted
    <3> QED
      BY <3>1, <3>2
  <2>2. CASE BundlerStep \/ ChainMoves \/ TimePasses \/ UNCHANGED rpcVars
    <3>1. UNCHANGED stage
      BY <2>2 DEF BundlerStep, Relay, CountIncluded, DropSent, ChainMoves, TimePasses, sendVars, rpcVars
    <3>2. ASSUME batch # {}, pool' # pool, batch' = {}, NEW m \in Paymasters PROVE Included(m)
      <4>1. CountIncluded
        BY <2>2, <3>2 DEF BundlerStep, Relay, DropSent, ChainMoves, TimePasses, sendVars, rpcVars
      <4> QED
        BY <1>1, <3>2, <4>1, IncludedCounted
    <3> QED
      BY <3>1, <3>2
  <2> HIDE DEF Exact
  <2> QED
    BY <1>1, <2>1, <2>2 DEF RpcNext
<1> HIDE DEF Exact
<1>2. RpcSpec => [][Exact]_rpcVars
  BY <1>1, SceneHolds, AdmHolds, CountHolds, PTL DEF RpcSpec
<1>3. [][Exact]_rpcVars => CountsAreExact
  BY DEF Exact, CountsAreExact
<1> QED
  BY <1>2, <1>3
-----------------------------------------------------------------------------
(* Requests and answers.                                                   *)

Asked(c) == {situation.requests[c][i] : i \in 1 .. Len(situation.requests[c])}

ReqInv ==
    /\ todo \in [Clients -> Seq(HttpRequests)] /\ answers = [c \in Clients |-> answers[c]]
    /\ \A c \in Clients :
            /\ \A i \in 1 .. Len(todo[c]) : todo[c][i] \in Asked(c)
            /\ stage[c] # "idle" => todo[c] # <<>>
            /\ stage[c] = "estimate" => EstimatesGas(situation)
    /\ estimating # "idle" => EstimatesGas(situation)

\* What an answer leaves to do was asked.
LEMMA TailAsked ==
  ASSUME NEW S, NEW s \in Seq(S), s # <<>>
  PROVE  Tail(s) \in Seq(S) /\ \A i \in 1 .. Len(Tail(s)) : i + 1 \in 1 .. Len(s) /\ Tail(s)[i] = s[i + 1]
  OBVIOUS

LEMMA AnsweredAsks ==
  ASSUME SceneOK, AdmInv, ReqInv, NEW c \in Clients, NEW from, NEW answer, Answered(c, from, answer),
         todo[c] # <<>>, UNCHANGED situation,
         estimating' # "idle" => EstimatesGas(situation)
  PROVE  ReqInv'
<1>1. /\ stage' = [stage EXCEPT ![c] = "idle"] /\ answers' = [answers EXCEPT ![c] = answer]
      /\ todo' = [todo EXCEPT ![c] = Tail(todo[c])]
  BY DEF Answered, At
<1>2. todo[c] \in Seq(HttpRequests)
  BY DEF ReqInv
<1>3. Tail(todo[c]) \in Seq(HttpRequests)
      /\ \A i \in 1 .. Len(Tail(todo[c])) :
            i + 1 \in 1 .. Len(todo[c]) /\ Tail(todo[c])[i] = todo[c][i + 1]
  BY <1>2, TailAsked
<1>4. todo' \in [Clients -> Seq(HttpRequests)] /\ answers' = [d \in Clients |-> answers'[d]]
  BY <1>1, <1>3 DEF ReqInv
<1>5. ASSUME NEW d \in Clients
      PROVE  /\ \A i \in 1 .. Len(todo'[d]) : todo'[d][i] \in Asked(d)'
             /\ stage'[d] # "idle" => todo'[d] # <<>>
             /\ stage'[d] = "estimate" => EstimatesGas(situation')
  <2>1. CASE d = c
    <3>1. todo'[c] = Tail(todo[c]) /\ stage'[c] = "idle"
      BY <1>1 DEF ReqInv, AdmInv, AdmTypes
    <3> QED
      BY <1>3, <2>1, <3>1, SMTT(30) DEF ReqInv, Asked
  <2>2. CASE d # c
    <3>1. todo'[d] = todo[d] /\ stage'[d] = stage[d]
      BY <1>1, <2>2 DEF ReqInv, AdmInv, AdmTypes
    <3> QED
      BY <3>1 DEF ReqInv, Asked
  <2> QED
    BY <2>1, <2>2
<1>6. estimating' # "idle" => EstimatesGas(situation')
  BY DEF ReqInv
<1> QED
  BY <1>4, <1>5, <1>6 DEF ReqInv

\* A request that goes on is still there, and only one that asks for an
\* estimation estimates.
LEMMA AtAsks ==
  ASSUME SceneOK, AdmInv, ReqInv, NEW c \in Clients, NEW from, NEW to, At(c, from, to),
         UNCHANGED <<todo, situation>>, answers' = [d \in Clients |-> answers'[d]],
         from # "idle" \/ todo[c] # <<>>,
         to = "estimate" => EstimatesGas(situation),
         estimating' # "idle" => EstimatesGas(situation)
  PROVE  ReqInv'
<1>1. stage[c] = from /\ stage'[c] = to /\ \A d \in Clients \ {c} : stage'[d] = stage[d]
  BY DEF At, AdmInv, AdmTypes
<1>2. ASSUME NEW d \in Clients
      PROVE  /\ \A i \in 1 .. Len(todo'[d]) : todo'[d][i] \in Asked(d)'
             /\ stage'[d] # "idle" => todo'[d] # <<>>
             /\ stage'[d] = "estimate" => EstimatesGas(situation')
  <2>1. todo' = todo /\ situation' = situation
    OBVIOUS
  <2>2. \A i \in 1 .. Len(todo'[d]) : todo'[d][i] \in Asked(d)'
    BY <2>1, SMTT(30) DEF ReqInv, Asked
  <2>3. (stage[d] # "idle" => todo[d] # <<>>) /\ (stage[d] = "estimate" => EstimatesGas(situation))
    BY DEF ReqInv
  <2>4. CASE d = c
    BY <1>1, <2>1, <2>2, <2>3, <2>4
  <2>5. CASE d # c
    BY <1>1, <2>1, <2>2, <2>3, <2>5
  <2> QED
    BY <2>4, <2>5
<1>3. todo' \in [Clients -> Seq(HttpRequests)] /\ (estimating' # "idle" => EstimatesGas(situation'))
  BY DEF ReqInv
<1> QED
  BY <1>2, <1>3 DEF ReqInv

LEMMA CallOfMethod ==
  ASSUME NEW request, Controller(request).kind = "call"
  PROVE  Controller(request).method = request.method
  BY DEF Controller, CallMethod, Invoke, Call, Panic, Error, Node, routeStdEthereumRPCRequest,
         handleEthCallRequest, handleEthRequest

LEMMA HandleAsks ==
  ASSUME SceneOK, AdmInv, ReqInv, NEW c \in Clients, HandleRequest(c) PROVE ReqInv'
<1>1. UNCHANGED situation /\ todo[c] # <<>> /\ (estimating' # "idle" => EstimatesGas(situation))
  BY DEF HandleRequest, estVars, ReqInv
<1> DEFINE outcome == Controller(Head(todo[c]))
<1>2. CASE \E answer : Answered(c, "idle", answer)
  BY <1>1, <1>2, AnsweredAsks
<1>3. CASE outcome.kind = "call" /\ At(c, "idle", StageOf(outcome.method)) /\ UNCHANGED <<todo, answers>>
  <2>1. StageOf(outcome.method) = "estimate" => EstimatesGas(situation)
    <3> SUFFICES ASSUME StageOf(outcome.method) = "estimate" PROVE EstimatesGas(situation)
      OBVIOUS
    <3>1. outcome.method = "eth_estimateUserOperationGas"
      BY DEF StageOf
    <3>2. Head(todo[c]).method = "eth_estimateUserOperationGas"
      BY <1>3, <3>1, CallOfMethod
    <3>3. Head(todo[c]) \in Asked(c)
      <4>1. todo[c] \in Seq(HttpRequests)
        BY DEF ReqInv
      <4>2. 1 \in 1 .. Len(todo[c]) /\ Head(todo[c]) = todo[c][1]
        BY <1>1, <4>1
      <4> QED
        BY <4>2 DEF ReqInv
    <3> QED
      BY <3>2, <3>3 DEF Asked, EstimatesGas
  <2> HIDE DEF outcome
  <2>2. answers' = [d \in Clients |-> answers'[d]]
    BY <1>3 DEF ReqInv
  <2> QED
    BY <1>1, <1>3, <2>1, <2>2, AtAsks
<1>4. \/ \E answer : Answered(c, "idle", answer)
      \/ outcome.kind = "call" /\ At(c, "idle", StageOf(outcome.method)) /\ UNCHANGED <<todo, answers>>
  BY DEF HandleRequest, MethodFails
<1> QED
  BY <1>2, <1>3, <1>4

\* What every other step makes of the request of c.
LEMMA RequestGoesOn ==
  ASSUME AdmInv, ReqInv, NEW c \in Clients, ServerStep(c), ~ HandleRequest(c)
  PROVE  /\ UNCHANGED situation /\ (estimating' # estimating => stage[c] = "estimate")
         /\ \/ UNCHANGED <<todo, stage, answers>>
            \/ \E from \in Stages \ {"idle"}, code \in Int :
                    Answered(c, from, Result) \/ Answered(c, from, Error(code, OfRequest))
            \/ /\ UNCHANGED todo /\ answers' = [d \in Clients |-> answers'[d]]
               /\ \E from \in Stages \ {"idle"}, to \in Stages \ {"estimate"} : At(c, from, to)
<1>0. answers = [d \in Clients |-> answers[d]]
  BY DEF ReqInv
<1>1. CASE Estimate(c)
  <2>1. UNCHANGED situation /\ stage[c] = "estimate"
    BY <1>1 DEF Estimate
  <2>2. \/ UNCHANGED <<todo, stage, answers>>
        \/ Answered(c, "estimate", Result) \/ Answered(c, "estimate", Error(NoRPCError, OfRequest))
    BY <1>1 DEF Estimate, MethodFails
  <2> QED
    BY <2>1, <2>2 DEF Stages, NoRPCError
<1>2. CASE Look(c)
  <2>1. UNCHANGED <<situation, estimating>>
    BY <1>2 DEF Look, estVars
  <2>2. \/ UNCHANGED <<todo, stage, answers>>
        \/ Answered(c, "lookup", Result) \/ Answered(c, "lookup", Error(NoRPCError, OfRequest))
    BY <1>2 DEF Look, MethodFails
  <2> QED
    BY <2>1, <2>2 DEF Stages, NoRPCError
<1>3. CASE ValidateValues(c)
  <2>1. UNCHANGED <<situation, estimating>>
    BY <1>3 DEF ValidateValues, estVars
  <2>2. \/ At(c, "send", "checked") /\ UNCHANGED <<todo, answers>>
        \/ Answered(c, "send", Error(NoRPCError, OfRequest))
        \/ Answered(c, "send", Error(-32602, OfRequest))
    BY <1>3 DEF ValidateValues, MethodFails
  <2> QED
    BY <1>0, <2>1, <2>2 DEF Stages, NoRPCError
<1>4. CASE BeginStatus(c)
  <2>1. UNCHANGED <<situation, todo, answers, estimating>>
        /\ \E to \in {"vetted", "status"} : At(c, "checked", to)
    BY <1>4 DEF BeginStatus, estVars
  <2> QED
    BY <1>0, <2>1 DEF Stages
<1>5. CASE EndStatus(c)
  <2>1. UNCHANGED <<situation, estimating>>
    BY <1>5 DEF EndStatus, estVars
  <2>2. \/ At(c, "status", "vetted") /\ UNCHANGED <<todo, answers>>
        \/ /\ At(c, "status", "idle") /\ UNCHANGED todo
           /\ answers' = [answers EXCEPT ![c] = Error(NoRPCError, OfRequest)]
        \/ Answered(c, "status", Error(NoRPCError, OfRequest))
    BY <1>5 DEF EndStatus, MethodFails
  <2>3. answers' = [answers EXCEPT ![c] = Error(NoRPCError, OfRequest)]
        => answers' = [d \in Clients |-> answers'[d]]
    BY <1>0
  <2> QED
    BY <1>0, <2>1, <2>2, <2>3 DEF Stages, NoRPCError
<1>6. CASE SimulateOp(c)
  <2>1. UNCHANGED <<situation, estimating>>
    BY <1>6 DEF SimulateOp, estVars
  <2>2. \A code \in ValidationCodes \union TraceCodes(c) : code \in Int
    BY DEF ValidationCodes, TraceCodes
  <2>3. \/ At(c, "vetted", "simulated") /\ UNCHANGED <<todo, answers>>
        \/ \E code \in Int : Answered(c, "vetted", Error(code, OfRequest))
    BY <1>6, <2>2 DEF SimulateOp, MethodFails
  <2> QED
    BY <1>0, <2>1, <2>3 DEF Stages
<1>7. CASE BeginSeen(c)
  <2>1. UNCHANGED <<situation, todo, answers, estimating>>
        /\ \E to \in {"counted", "seen"} : At(c, "simulated", to)
    BY <1>7 DEF BeginSeen, estVars
  <2> QED
    BY <1>0, <2>1 DEF Stages
<1>8. CASE EndSeen(c)
  <2>1. UNCHANGED <<situation, estimating>>
    BY <1>8 DEF EndSeen, estVars
  <2>2. \/ At(c, "seen", "counted") /\ UNCHANGED <<todo, answers>>
        \/ Answered(c, "seen", Error(NoRPCError, OfRequest))
    BY <1>8 DEF EndSeen, MethodFails
  <2> QED
    BY <1>0, <2>1, <2>2 DEF Stages, NoRPCError
<1>9. CASE AddToPool(c)
  <2>1. UNCHANGED <<situation, estimating>> /\ Answered(c, "counted", Result)
    BY <1>9 DEF AddToPool, estVars
  <2> QED
    BY <2>1 DEF Stages
<1> QED
  BY <1>1, <1>2, <1>3, <1>4, <1>5, <1>6, <1>7, <1>8, <1>9 DEF ServerStep

LEMMA ReqStep == SceneOK /\ AdmInv /\ ReqInv /\ [RpcNext]_rpcVars => ReqInv'
<1> SUFFICES ASSUME SceneOK, AdmInv, ReqInv, [RpcNext]_rpcVars PROVE ReqInv'
  OBVIOUS
<1>1. ASSUME UNCHANGED <<situation, todo, stage, answers>>, 
             estimating' # "idle" => EstimatesGas(situation)
      PROVE  ReqInv'
  BY <1>1 DEF ReqInv, Asked
<1>2. CASE UNCHANGED rpcVars
  BY <1>1, <1>2 DEF ReqInv, rpcVars, sendVars, estVars
<1>3. CASE BundlerStep \/ ChainMoves \/ TimePasses
  BY <1>1, <1>3 DEF ReqInv, BundlerStep, Relay, CountIncluded, DropSent, ChainMoves, TimePasses,
                    sendVars, estVars
<1>4. ASSUME NEW c \in Clients, ServerStep(c), ~ HandleRequest(c) PROVE ReqInv'
  <2>1. UNCHANGED situation /\ (estimating' # estimating => stage[c] = "estimate")
    BY <1>4, RequestGoesOn
  <2>2. estimating' # "idle" => EstimatesGas(situation)
    BY <2>1 DEF ReqInv
  <2>3. CASE UNCHANGED <<todo, stage, answers>>
    BY <1>1, <2>1, <2>2, <2>3
  <2>4. ASSUME NEW from \in Stages \ {"idle"}, NEW answer, Answered(c, from, answer) PROVE ReqInv'
    <3>1. todo[c] # <<>>
      BY <2>4 DEF Answered, At, ReqInv
    <3> QED
      BY <2>1, <2>2, <2>4, <3>1, AnsweredAsks
  <2>5. ASSUME NEW from \in Stages \ {"idle"}, NEW to \in Stages \ {"estimate"}, At(c, from, to),
               UNCHANGED todo, answers' = [d \in Clients |-> answers'[d]]
        PROVE  ReqInv'
    BY <2>1, <2>2, <2>5, AtAsks
  <2> QED
    BY <1>4, <2>3, <2>4, <2>5, RequestGoesOn
<1>5. ASSUME NEW c \in Clients, HandleRequest(c) PROVE ReqInv'
  BY <1>5, HandleAsks
<1> QED
  BY <1>2, <1>3, <1>4, <1>5 DEF RpcNext

LEMMA ReqHolds == RpcSpec => []ReqInv
<1>1. RpcInit => ReqInv
  <2> SUFFICES ASSUME RpcInit PROVE ReqInv
    OBVIOUS
  <2>1. situation.requests \in [Clients -> Seq(HttpRequests)] /\ todo = situation.requests
    BY RpcAssumption DEF RpcInit
  <2>2. /\ stage = [c \in Clients |-> "idle"] /\ answers = [c \in Clients |-> [kind |-> "none"]]
        /\ estimating = "idle"
    BY DEF RpcInit, EstInit
  <2> QED
    BY <2>1, <2>2 DEF ReqInv, Asked
<1> QED
  BY <1>1, ReqStep, AdmHolds, SceneHolds, PTL DEF RpcSpec

\* rpc.go:22-86: the inputs of the methods are maps and strings.
LEMMA MethodInputs ==
  ASSUME NEW method \in DOMAIN RpcAdapter
  PROVE  RpcAdapter[method].inputs \in Seq({"Map", "String"}) /\ RpcAdapter[method].optional \in BOOLEAN
<1> DEFINE Inputs == Seq({"Map", "String"})
<1>1. <<>> \in Inputs /\ <<"String">> \in Inputs /\ <<"Map", "String">> \in Inputs
      /\ <<"Map", "String", "Map">> \in Inputs
  OBVIOUS
<1> HIDE DEF Inputs
<1>2. RpcAdapter[method] \in [inputs : Inputs, optional : BOOLEAN, debug : BOOLEAN]
  <2>1. \A inputs \in Inputs, optional, debug \in BOOLEAN :
            Method(inputs, optional, debug) \in [inputs : Inputs, optional : BOOLEAN, debug : BOOLEAN]
    BY DEF Method
  <2> DEFINE Takes == [inputs : Inputs, optional : BOOLEAN, debug : BOOLEAN]
  <2> HIDE DEF Takes
  <2>2. \A inputs \in Inputs, optional, debug \in BOOLEAN : Method(inputs, optional, debug) \in Takes
    BY <2>1 DEF Takes
  <2>3. method \in {"eth_sendUserOperation", "eth_estimateUserOperationGas",
                  "eth_getUserOperationReceipt", "eth_getUserOperationByHash",
                  "eth_supportedEntryPoints", "eth_chainId", "debug_bundler_clearState",
                  "debug_bundler_dumpMempool", "debugDumpBundlerState",
                  "debug_bundler_sendBundleNow", "debug_bundler_setBundlingMode"}
    BY DEF RpcAdapter
  <2>4. /\ RpcAdapter["eth_sendUserOperation"] \in Takes
        /\ RpcAdapter["eth_estimateUserOperationGas"] \in Takes
        /\ RpcAdapter["eth_getUserOperationReceipt"] \in Takes
        /\ RpcAdapter["eth_getUserOperationByHash"] \in Takes
        /\ RpcAdapter["eth_supportedEntryPoints"] \in Takes
        /\ RpcAdapter["eth_chainId"] \in Takes
        /\ RpcAdapter["debug_bundler_clearState"] \in Takes
        /\ RpcAdapter["debug_bundler_dumpMempool"] \in Takes
        /\ RpcAdapter["debugDumpBundlerState"] \in Takes
        /\ RpcAdapter["debug_bundler_sendBundleNow"] \in Takes
        /\ RpcAdapter["debug_bundler_setBundlingMode"] \in Takes
    BY <1>1, <2>2 DEF RpcAdapter
  <2> QED
    BY <2>3, <2>4 DEF Takes
<1> QED
  BY <1>2 DEF Inputs

\* The arguments that are converted are those that the method takes.
LEMMA MethodTakes ==
  ASSUME NEW request \in HttpRequests, request.method \in bundlerMethods
  PROVE  CallMethod(request).kind \in {"call", "error"}
         /\ (CallMethod(request).kind = "error" => CallMethod(request).id = OfRequest)
<1> DEFINE m == RpcAdapter[request.method]
           args == Params(request, m)
<1>1. m.inputs \in Seq({"Map", "String"}) /\ m.optional \in BOOLEAN
      /\ request.method \in DOMAIN RpcAdapter
  BY MethodInputs DEF bundlerMethods
<1>2. request.params \in Seq(STRING)
  BY DEF HttpRequests
<1> HIDE DEF m
<1>3. hasValidParamLength(Len(request.params), m) => Len(args) = Len(m.inputs)
  BY <1>1, <1>2 DEF Params, hasValidParamLength, isOptionalParamUndefined, hasOptionalInput
<1>4. \A i \in 1 .. Len(m.inputs) : m.inputs[i] \in Kinds
  BY <1>1 DEF Kinds
<1> HIDE DEF args
<1>5. CASE /\ request.array /\ hasValidParamLength(Len(request.params), m)
           /\ \A i \in 1 .. Len(args) : i <= Len(m.inputs) => Converts(args[i], m.inputs[i])
  <2>1. CallMethod(request) = Invoke(request.method, args)
    BY <1>1, <1>5 DEF CallMethod, m, args
  <2>2. Len(args) = Len(m.inputs) /\ Len(m.inputs) \in Nat
    BY <1>1, <1>3, <1>5
  <2>3. \A i \in 1 .. Len(args) : m.inputs[i] \in Kinds /\ Converts(args[i], m.inputs[i])
    BY <1>4, <1>5, <2>2
  <2>4. Invoke(request.method, args) = Call(request.method, args)
    BY <2>2, <2>3 DEF Invoke, m
  <2> QED
    BY <2>1, <2>4 DEF Call
<1>6. CASE ~ /\ request.array /\ hasValidParamLength(Len(request.params), m)
             /\ \A i \in 1 .. Len(args) : i <= Len(m.inputs) => Converts(args[i], m.inputs[i])
  <2>1. CallMethod(request) = Error(-32602, OfRequest)
    BY <1>1, <1>6 DEF CallMethod, m, args
  <2> QED
    BY <2>1 DEF Error
<1> QED
  BY <1>5, <1>6

\* handler.go:117-482: what the controller makes of a request for the bundler.
LEMMA ControllerFits ==
  ASSUME NEW request \in HttpRequests, request.posted, request.readable, request.object,
         parseRequestId(request), request.method \in bundlerMethods \union {Capitals}
  PROVE  Controller(request).kind \in {"call", "error"}
         /\ (Controller(request).kind = "error" => Controller(request).id = OfRequest)
<1>1. CASE ~ request.version \/ request.method = Absent
  <2>1. Controller(request) = Error(-32600, OfRequest)
    BY <1>1 DEF Controller
  <2> QED
    BY <2>1 DEF Error
<1>2. CASE request.version /\ request.method # Absent
  <2>1. Controller(request) = CallMethod(request)
    BY <1>2 DEF Controller, isStdEthereumRPCMethod
  <2>2. CASE request.method \in bundlerMethods
    BY <2>1, <2>2, MethodTakes
  <2>3. CASE request.method = Capitals
    <3>1. Capitals \notin DOMAIN RpcAdapter
      BY DEF RpcAdapter, Capitals
    <3>2. CallMethod(request) = Error(-32602, OfRequest) \/ CallMethod(request) = Error(-32601, OfRequest)
      BY <2>3, <3>1 DEF CallMethod
    <3> QED
      BY <2>1, <3>2 DEF Error
  <2> QED
    BY <2>2, <2>3
<1> QED
  BY <1>1, <1>2

\* handler.go:117-482: whatever a client sends for a method of the bundler, it
\* gets a result or an error, with the id that it sent.
THEOREM AnswersFit == RpcSpec => AnswersFitTheirRequests
<1> DEFINE Fits(c) ==
              LET request == Head(todo[c])
              IN  /\ todo'[c] # todo[c]
                  /\ request.posted /\ request.readable /\ request.object /\ parseRequestId(request)
                  /\ request.method \in bundlerMethods \union {Capitals}
                  => answers'[c].kind \in {"result", "error"} /\ answers'[c].id = OfRequest
           Fit == \A c \in Clients : Fits(c)
<1>1. ASSUME SceneOK, AdmInv, ReqInv, [RpcNext]_rpcVars PROVE [Fit]_rpcVars
  <2>1. ASSUME UNCHANGED todo PROVE Fit
    BY <2>1
  <2>2. ASSUME NEW d \in Clients, NEW from, NEW answer, Answered(d, from, answer),
               answer.kind \in {"result", "error"}, answer.id = OfRequest
        PROVE  Fit
    <3>1. answers' = [answers EXCEPT ![d] = answer] /\ todo' = [todo EXCEPT ![d] = Tail(todo[d])]
      BY <2>2 DEF Answered
    <3>2. answers'[d] = answer /\ \A c \in Clients \ {d} : todo'[c] = todo[c]
      BY <1>1, <3>1 DEF ReqInv
    <3> QED
      BY <2>2, <3>2
  <2>3. Result.kind = "result" /\ Result.id = OfRequest
        /\ \A code : Error(code, OfRequest).kind = "error" /\ Error(code, OfRequest).id = OfRequest
    BY DEF Result, Error
  <2>4. ASSUME NEW d \in Clients, HandleRequest(d) PROVE Fit
    <3> DEFINE request == Head(todo[d])
    <3>1. todo[d] # <<>> /\ todo[d] \in Seq(HttpRequests)
      BY <1>1, <2>4 DEF HandleRequest, ReqInv
    <3>2. request \in HttpRequests
      BY <3>1
    <3> HIDE DEF Fit
    <3>3. CASE /\ request.posted /\ request.readable /\ request.object /\ parseRequestId(request)
               /\ request.method \in bundlerMethods \union {Capitals}
      <4>1. Controller(request).kind \in {"call", "error"}
            /\ (Controller(request).kind = "error" => Controller(request).id = OfRequest)
        BY <3>2, <3>3, ControllerFits
      <4>2. \/ UNCHANGED todo
            \/ Answered(d, "idle", Controller(request)) /\ Controller(request).kind = "error"
            \/ Answered(d, "idle", Result) \/ Answered(d, "idle", Error(NoRPCError, OfRequest))
        BY <2>4, <4>1 DEF HandleRequest, MethodFails
      <4>3. CASE Answered(d, "idle", Controller(request)) /\ Controller(request).kind = "error"
        BY <2>2, <4>1, <4>3
      <4> QED
        BY <2>1, <2>2, <2>3, <4>2, <4>3
    <3>4. CASE ~ /\ request.posted /\ request.readable /\ request.object /\ parseRequestId(request)
                 /\ request.method \in bundlerMethods \union {Capitals}
      <4>1. UNCHANGED todo \/ todo' = [todo EXCEPT ![d] = Tail(todo[d])]
        BY <2>4 DEF HandleRequest, MethodFails, Answered
      <4>2. \A c \in Clients \ {d} : todo'[c] = todo[c]
        BY <1>1, <4>1 DEF ReqInv
      <4>3. \A c \in Clients \ {d} : Fits(c)
        BY <4>2
      <4>4. Fits(d)
        BY <3>4
      <4> QED
        BY <4>3, <4>4 DEF Fit
    <3> QED
      BY <3>3, <3>4
  <2>5. ASSUME NEW d \in Clients, ServerStep(d), ~ HandleRequest(d) PROVE Fit
    <3> HIDE DEF Fit
    <3> QED
      BY <1>1, <2>1, <2>2, <2>3, <2>5, RequestGoesOn
  <2>6. CASE BundlerStep \/ ChainMoves \/ TimePasses \/ UNCHANGED rpcVars
    <3>1. UNCHANGED todo
      BY <2>6 DEF BundlerStep, Relay, CountIncluded, DropSent, ChainMoves, TimePasses, sendVars, rpcVars
    <3> QED
      BY <2>1, <3>1
  <2> HIDE DEF Fit
  <2> QED
    BY <1>1, <2>4, <2>5, <2>6 DEF RpcNext
<1> HIDE DEF Fit
<1>2. RpcSpec => [][Fit]_rpcVars
  BY <1>1, SceneHolds, AdmHolds, ReqHolds, PTL DEF RpcSpec
<1>3. [][Fit]_rpcVars => AnswersFitTheirRequests
  BY DEF Fit, AnswersFitTheirRequests
<1> QED
  BY <1>2, <1>3
-----------------------------------------------------------------------------
(* Estimates are admitted.                                                 *)

L1OK(l1) == l1.gas \in Nat /\ l1.fee \in Nat /\ l1.baseFee \in Nat

\* What is paid for the bytes of an op is more than a transaction costs at all.
LEMMA StaticCosts ==
  ASSUME NEW op, IsOp(op)
  PROVE  StaticPVG(Sanitized(op)) \in Nat /\ StaticPVG(Sanitized(op)) >= intrinsicFixed
<1> DEFINE s == Sanitized(op)
           words == 3 * 32
<1>1. /\ s.pvg \in Nat /\ s.vgl \in Nat /\ s.cgl \in Nat
      /\ s.signature = [zero |-> 0, nonZero |-> Size(op.signature)]
      /\ s.rest = op.rest /\ op.rest.zero \in Nat /\ op.rest.nonZero \in Nat
      /\ op.signature.zero \in Nat /\ op.signature.nonZero \in Nat
  BY DEF Sanitized, IsOp, sanitizedPVG, sanitizedVGL, sanitizedCGL
<1> HIDE DEF s
<1>2. \A n \in Nat : NonZeroBytes(n) \in 0 .. 3
  BY DEF NonZeroBytes
<1>3. Pack(s).zero \in Nat /\ Pack(s).nonZero \in Nat
  <2> DEFINE k == NonZeroBytes(s.pvg) + NonZeroBytes(s.vgl) + NonZeroBytes(s.cgl)
  <2>1. k \in 0 .. 9
    BY <1>1, <1>2
  <2>2. Pack(s) = [zero |-> 3 * 32 - k + s.signature.zero + s.rest.zero,
                   nonZero |-> k + s.signature.nonZero + s.rest.nonZero]
    BY DEF Pack
  <2> HIDE DEF k
  <2>3. s.signature.zero = 0 /\ s.signature.nonZero \in Nat
    BY <1>1 DEF Size
  <2> QED
    BY <1>1, <2>1, <2>2, <2>3
<1>4. CalcCallDataCost(s) \in Nat
  BY <1>3 DEF CalcCallDataCost, zeroByte, nonZeroByte
<1>5. CalcPerUserOpCost(s) \in Nat
  <2>1. Size(Pack(s)) \in Nat
    BY <1>3 DEF Size
  <2> HIDE DEF s
  <2>2. (Size(Pack(s)) + 31) \div 32 \in Nat
    BY <2>1
  <2> QED
    BY <2>2 DEF CalcPerUserOpCost, perUserOpMultiplier, perUserOpFixed
<1> QED
  BY <1>4, <1>5 DEF StaticPVG, s, intrinsicFixed

LEMMA SanitizedFields ==
  ASSUME NEW op, IsOp(op)
  PROVE  /\ Sanitized(op).pvg = sanitizedPVG /\ Sanitized(op).vgl = sanitizedVGL
         /\ Sanitized(op).cgl = sanitizedCGL /\ Sanitized(op).rest = op.rest
         /\ Sanitized(op).signature = [zero |-> 0, nonZero |-> Size(op.signature)]
  BY DEF Sanitized, IsOp

\* The op that is sent with the limits of an estimate.
WithLimits(op, v, c, p) ==
    [op EXCEPT !.vgl = v, !.cgl = c, !.pvg = p,
               !.signature = [zero |-> 0, nonZero |-> Size(op.signature)]]

\* The limits and the signature do not count for preVerificationGas.
LEMMA SanitizedIsSame ==
  ASSUME NEW op, IsOp(op), NEW v \in Nat, NEW c \in Nat, NEW p \in Nat, NEW sent,
         sent = WithLimits(op, v, c, p)
  PROVE  /\ StaticPVG(Sanitized(sent)) = StaticPVG(Sanitized(op))
         /\ sent.maxFee = op.maxFee /\ sent.maxTip = op.maxTip
         /\ sent.vgl = v /\ sent.cgl = c /\ sent.pvg = p /\ sent.intent = op.intent
<1> DEFINE full == [zero |-> 0, nonZero |-> Size(op.signature)]
<1>1. Size(op.signature) \in Nat /\ Size(full) = Size(op.signature)
      /\ full \in [zero : Nat, nonZero : Nat]
  BY DEF IsOp, Size
<1> HIDE DEF full
<1>2. /\ sent.vgl = v /\ sent.cgl = c /\ sent.pvg = p /\ sent.signature = full
      /\ sent.maxFee = op.maxFee /\ sent.maxTip = op.maxTip /\ sent.intent = op.intent
      /\ sent.rest = op.rest
  BY DEF IsOp, full, WithLimits
<1>3. IsOp(sent)
  <2>1. sent = [op EXCEPT !.vgl = v, !.cgl = c, !.pvg = p, !.signature = full]
    BY DEF full, WithLimits
  <2> QED
    BY <1>1, <2>1, ZenonT(40) DEF IsOp
<1> DEFINE s == Sanitized(sent)
           t == Sanitized(op)
<1>4. /\ s.pvg = t.pvg /\ s.vgl = t.vgl /\ s.cgl = t.cgl /\ s.rest = t.rest
      /\ s.signature = t.signature
  <2>1. Size(sent.signature) = Size(op.signature)
    BY <1>1, <1>2
  <2>2. /\ s.pvg = sanitizedPVG /\ s.vgl = sanitizedVGL /\ s.cgl = sanitizedCGL /\ s.rest = op.rest
        /\ s.signature = [zero |-> 0, nonZero |-> Size(sent.signature)]
    BY <1>2, <1>3, SanitizedFields
  <2>3. /\ t.pvg = sanitizedPVG /\ t.vgl = sanitizedVGL /\ t.cgl = sanitizedCGL /\ t.rest = op.rest
        /\ t.signature = [zero |-> 0, nonZero |-> Size(op.signature)]
    BY SanitizedFields
  <2> QED
    BY <2>1, <2>2, <2>3
<1> HIDE DEF s, t
<1>5. Pack(s) = Pack(t)
  BY <1>4 DEF Pack
<1>6. StaticPVG(s) = StaticPVG(t)
  BY <1>5 DEF StaticPVG, CalcCallDataCost, CalcPerUserOpCost
<1> QED
  BY <1>2, <1>6 DEF s, t

\* The buffer makes up for what the L1 may become dearer.
LEMMA NoBufferNeeded ==
  ASSUME NEW x \in Nat PROVE AddBuffer(x, 0) = x
  BY DEF AddBuffer

LEMMA ArbitrumBuffer ==
  ASSUME NEW static \in Nat, NEW before \in Nat, NEW after \in Nat, 1000 * after <= 1160 * before
  PROVE  static + after <= AddBuffer(static + before, 16)
<1>1. 1000 * (static + after) <= (static + before) * (1000 + 16 * 10)
  OBVIOUS
<1> QED
  BY <1>1 DEF AddBuffer

LEMMA OptimismBuffer ==
  ASSUME NEW static \in Nat, static >= 101, NEW before \in Nat, NEW after \in Nat,
         1000 * after <= 1010 * before,
         NEW price \in Nat, NEW later \in Nat, 0 < price, price <= later
  PROVE  static + (after \div later) <= AddBuffer(static + (before \div price), 1)
<1> DEFINE q == before \div price
           r == after \div later
<1>1. q \in Nat /\ before < (q + 1) * price
  OBVIOUS
<1>2. r \in Nat /\ r * later <= after
  OBVIOUS
<1> HIDE DEF q, r
<1>3. r * price <= r * later
  BY <1>2
<1>4. 1000 * (r * price) <= 1010 * ((q + 1) * price)
  BY <1>1, <1>2, <1>3
<1>5. 1000 * r <= 1010 * (q + 1)
  <2>1. (1000 * r) * price <= (1010 * (q + 1)) * price
    BY <1>1, <1>2, <1>4
  <2> DEFINE a == 1000 * r
             b == 1010 * (q + 1)
  <2>2. a \in Nat /\ b \in Nat
    BY <1>1, <1>2
  <2> HIDE DEF a, b
  <2>3. ~ (a > b)
    <3> SUFFICES ASSUME a > b PROVE FALSE
      OBVIOUS
    <3>1. a * price > b * price
      BY <2>2
    <3> QED
      BY <2>1, <2>2, <3>1 DEF a, b
  <2> QED
    BY <2>2, <2>3 DEF a, b
<1>6. 1000 * (static + r) <= (static + q) * (1000 + 1 * 10)
  BY <1>1, <1>2, <1>5
<1>7. static + r <= ((static + q) * (1000 + 1 * 10)) \div 1000
  BY <1>1, <1>2, <1>6
<1> QED
  BY <1>7 DEF AddBuffer, q, r

\* An op whose gas is estimated has a price, and is charged what the L1 asked.
PricedInv ==
    /\ estimating \notin {"idle", "prices", "err"} => scene.op.maxFee > 0
    /\ estimating = "ok" =>
            \E l1 \in L1s : l1.chain = scene.chain /\ pvg = CalcPreVerificationGasWithBuffer(scene.op, l1)

LEMMA PricedStep == EstInv /\ SceneOK /\ PricedInv /\ [EstNext]_estVars => PricedInv'
<1> SUFFICES ASSUME EstInv, SceneOK, PricedInv, [EstNext]_estVars PROVE PricedInv'
  OBVIOUS
<1>1. CASE UNCHANGED estVars
  BY <1>1 DEF estVars, PricedInv
<1>2. CASE EstimateUserOperationGas
  BY <1>2 DEF EstimateUserOperationGas, StartSearch, PricedInv
<1>3. ASSUME NEW baseFee \in 0 .. 1, GetGasPrices(baseFee, 1) PROVE PricedInv'
  <2> DEFINE p == NewGasPrices(baseFee, 1)
  <2>1. scene' = [scene EXCEPT !.op.maxFee = p.maxFee, !.op.maxTip = p.maxTip]
        /\ estimating' = "searchVGL"
    BY <1>3 DEF GetGasPrices, StartSearch
  <2>2. p.maxFee \in Nat /\ p.maxFee > 0
    BY DEF NewGasPrices
  <2> HIDE DEF p
  <2>3. "op" \in DOMAIN scene
    BY DEF EstInv, SceneAssumption
  <2>4. scene'.op = [scene.op EXCEPT !.maxFee = p.maxFee, !.maxTip = p.maxTip]
    BY <2>1, <2>3
  <2>5. scene'.op.maxFee = p.maxFee
    BY <2>4 DEF SceneOK, IsOp
  <2> QED
    BY <2>1, <2>2, <2>5 DEF PricedInv
<1>4. ASSUME NEW l1 \in L1s, CalcPVG(l1) PROVE PricedInv'
  BY <1>4 DEF CalcPVG, PricedInv
<1>5. CASE SearchVGL \/ SearchVGLDone \/ TraceExecution \/ Confirm \/ SearchCGL \/ SearchCGLDone \/ NodeFails
  <2>1. scene' = scene /\ estimating \notin {"idle", "ok", "err"} /\ estimating' # "ok"
        /\ (estimating = "prices" => estimating' = "err")
    BY <1>5 DEF SearchVGL, SearchVGLDone, TraceExecution, Confirm, SearchCGL, SearchCGLDone, NodeFails,
                Retry, EstFails, StartSearch
  <2> QED
    BY <2>1 DEF PricedInv
<1> QED
  BY <1>1, <1>2, <1>3, <1>4, <1>5 DEF EstNext, EstimateStep

LEMMA PricedHolds == RpcSpec => []PricedInv
<1>1. RpcInit => PricedInv
  BY DEF RpcInit, EstInit, PricedInv
<1>2. EstInv /\ SceneOK /\ PricedInv /\ [RpcNext]_rpcVars => PricedInv'
  BY PricedStep, StepOfEstimation
<1> QED
  BY <1>1, <1>2, EstimationHolds, SceneHolds, PTL DEF RpcSpec

\* With the buffer of its chain an estimate is at least what is asked for later.
LEMMA BufferSuffices ==
  ASSUME NEW op, IsOp(op), op.maxFee > 0, NEW sent, StaticPVG(Sanitized(sent)) = StaticPVG(Sanitized(op)),
         sent.maxFee = op.maxFee, sent.maxTip = op.maxTip,
         NEW before, NEW after, L1OK(before), L1OK(after), L1Keeps(before, after)
  PROVE  CalcPreVerificationGas(sent, after) <= CalcPreVerificationGasWithBuffer(op, before)
         /\ CalcPreVerificationGasWithBuffer(op, before) \in Nat
<1> DEFINE static == StaticPVG(Sanitized(op))
<1>1. static \in Nat /\ static >= 101
  BY StaticCosts DEF intrinsicFixed
<1> HIDE DEF static
<1>2. /\ before.gas \in Nat /\ before.fee \in Nat /\ before.baseFee \in Nat
      /\ after.gas \in Nat /\ after.fee \in Nat /\ after.baseFee \in Nat /\ after.chain = before.chain
      /\ op.maxFee \in Nat /\ op.maxTip \in Nat
  BY DEF L1OK, L1Keeps, IsOp
<1>3. CASE before.chain = "arbitrum"
  <2>1. 1000 * after.gas <= 1160 * before.gas
    BY <1>3 DEF L1Keeps, pvgBufferFactor
  <2>2. static + after.gas <= AddBuffer(static + before.gas, 16)
    BY <1>1, <1>2, <2>1, ArbitrumBuffer, ZenonT(40)
  <2>3. CalcPreVerificationGas(sent, after) = static + after.gas
    BY <1>2, <1>3 DEF CalcPreVerificationGas, CalcArbitrumPVG, static
  <2>4. CalcPreVerificationGasWithBuffer(op, before) = AddBuffer(static + before.gas, 16)
    BY <1>3 DEF CalcPreVerificationGasWithBuffer, CalcPreVerificationGas, CalcArbitrumPVG,
                pvgBufferFactor, static
  <2>5. AddBuffer(static + before.gas, 16) \in Nat
    BY <1>1, <1>2 DEF AddBuffer
  <2> QED
    BY <2>2, <2>3, <2>4, <2>5
<1>4. CASE before.chain = "optimism"
  <2> DEFINE Price(l1) == IF op.maxTip + l1.baseFee < op.maxFee THEN op.maxTip + l1.baseFee ELSE op.maxFee
             price == Price(before)
             later == Price(after)
  <2>1. 1000 * after.fee <= 1010 * before.fee /\ 0 < before.baseFee /\ before.baseFee <= after.baseFee
    BY <1>4 DEF L1Keeps, pvgBufferFactor
  <2>2. price \in Nat /\ later \in Nat /\ 0 < price /\ price <= later
    BY <1>2, <2>1
  <2>3. CalcPreVerificationGas(sent, after) = static + (after.fee \div later)
    BY <1>2, <1>4 DEF CalcPreVerificationGas, CalcOptimismPVG, static
  <2>4. CalcPreVerificationGasWithBuffer(op, before) = AddBuffer(static + (before.fee \div price), 1)
    BY <1>4 DEF CalcPreVerificationGasWithBuffer, CalcPreVerificationGas, CalcOptimismPVG,
                pvgBufferFactor, static
  <2> HIDE DEF price, later
  <2>5. static + (after.fee \div later) <= AddBuffer(static + (before.fee \div price), 1)
    BY <1>1, <1>2, <2>1, <2>2, OptimismBuffer, ZenonT(40)
  <2>6. AddBuffer(static + (before.fee \div price), 1) \in Nat
    <3>1. before.fee \div price \in Nat
      BY <1>2, <2>2
    <3> QED
      BY <1>1, <3>1 DEF AddBuffer
  <2> QED
    BY <2>3, <2>4, <2>5, <2>6
<1>5. CASE before.chain \notin {"arbitrum", "optimism"}
  <2>1. CalcPreVerificationGas(sent, after) = static
    BY <1>2, <1>5 DEF CalcPreVerificationGas, static
  <2>2. CalcPreVerificationGasWithBuffer(op, before) = AddBuffer(static, 0)
    BY <1>5 DEF CalcPreVerificationGasWithBuffer, CalcPreVerificationGas, pvgBufferFactor, static
  <2> QED
    BY <1>1, <2>1, <2>2, NoBufferNeeded
<1> QED
  BY <1>3, <1>4, <1>5

\* verificationgas.go:28-34 and callgas.go:12-15: what the server estimates it
\* admits, although the op has other bytes by then and the L1 other prices.
THEOREM EstimatesAdmitted == RpcSpec => []EstimatedOpsAreAdmitted
<1>1. SceneOK /\ EstInv /\ ReqInv /\ PricedInv => EstimatedOpsAreAdmitted
  <2> SUFFICES ASSUME SceneOK, EstInv, ReqInv, PricedInv, estimating = "ok", NEW c \in Clients
               PROVE  /\ OpOf(c).vgl <= MaxVerificationGas
                            => ValidateVerificationGas(OpOf(c), situation.view).ok
                      /\ ValidateCallGasLimit(OpOf(c), situation.view).ok
    BY DEF EstimatedOpsAreAdmitted
  <2> DEFINE view == situation.view
             sent == OpOf(c)
             op == scene.op
  <2>1. PICK l1 \in L1s : l1.chain = scene.chain /\ pvg = CalcPreVerificationGasWithBuffer(op, l1)
    BY DEF PricedInv
  <2>2. "l1" \notin view.fails /\ L1Keeps(l1, view.l1) /\ L1OK(l1) /\ L1OK(view.l1)
    BY <2>1, RpcAssumption DEF ReqInv, SceneOK, L1OK
  <2>3. IsOp(op) /\ op.maxFee > 0 /\ vgl \in Nat /\ cgl \in Nat /\ NonZeroValueCall <= cgl
    BY DEF SceneOK, PricedInv, EstInv
  <2>4. sent = WithLimits(op, vgl, cgl, pvg)
    BY DEF OpOf, WithLimits
  <2> HIDE DEF view, sent, op
  <2>5. CalcPreVerificationGasWithBuffer(op, l1) \in Nat
    <3>1. /\ op.maxFee = op.maxFee /\ op.maxTip = op.maxTip
          /\ StaticPVG(Sanitized(op)) = StaticPVG(Sanitized(op))
      OBVIOUS
    <3> QED
      BY <2>2, <2>3, <3>1, BufferSuffices
  <2>6. pvg \in Nat
    BY <2>1, <2>5
  <2>7. /\ StaticPVG(Sanitized(sent)) = StaticPVG(Sanitized(op))
        /\ sent.maxFee = op.maxFee /\ sent.maxTip = op.maxTip
        /\ sent.vgl = vgl /\ sent.cgl = cgl /\ sent.pvg = pvg
    BY <2>3, <2>4, <2>6, SanitizedIsSame
  <2>8. CalcPreVerificationGas(sent, view.l1) <= CalcPreVerificationGasWithBuffer(op, l1)
    BY <2>2, <2>3, <2>7, BufferSuffices
  <2>9. CalcPreVerificationGas(sent, view.l1) <= sent.pvg
    BY <2>1, <2>7, <2>8
  <2>10. ASSUME sent.vgl <= MaxVerificationGas
         PROVE  ValidateVerificationGas(sent, view).ok
    <3>1. CalcPreVerificationGas(sent, view.l1) \in Int \/ sent.pvg >= CalcPreVerificationGas(sent, view.l1)
      BY <2>9
    <3> QED
      BY <2>2, <2>9, <2>10, <3>1 DEF ValidateVerificationGas, Verdict
  <2>11. ValidateCallGasLimit(sent, view).ok
    BY <2>3, <2>7 DEF ValidateCallGasLimit, Verdict
  <2> QED
    BY <2>10, <2>11 DEF sent, view
<1> QED
  BY <1>1, SceneHolds, EstimationHolds, ReqHolds, PricedHolds, PTL
-----------------------------------------------------------------------------
(* The types of all the state of the server.                               *)

EntitiesOf(op) == {op.sender, GetFactory(op), GetPaymaster(op)}

\* No check asks for the stake of another address than the op's own.
LEMMA ChecksAsk ==
  ASSUME NEW op, NEW view PROVE ValidateOpValues(op, view).known \subseteq EntitiesOf(op)
<1> DEFINE checks == {ValidateSender(op, view), ValidateInitCode(op, view),
                      ValidateVerificationGas(op, view), ValidatePaymasterAndData(op, view),
                      ValidatePendingOps(op, view), ValidateGasAvailable(op, view)}
                     \union (IF op.intent THEN {}
                             ELSE {ValidateCallGasLimit(op, view), ValidateFeePerGas(op, view)})
<1>1. \A ok, known_ : Verdict(ok, known_).known = known_
  BY DEF Verdict
<1>2. ValidateSender(op, view).known = {} /\ ValidateVerificationGas(op, view).known = {}
      /\ ValidateGasAvailable(op, view).known = {} /\ ValidateCallGasLimit(op, view).known = {}
      /\ ValidateFeePerGas(op, view).known = {}
  BY <1>1 DEF ValidateSender, ValidateVerificationGas, ValidateGasAvailable, ValidateCallGasLimit,
              ValidateFeePerGas
<1>3. \A address : gs(address, view) \subseteq {address}
  BY DEF gs
<1>4. ValidateInitCode(op, view).known \subseteq {GetFactory(op)}
  BY <1>1, <1>3 DEF ValidateInitCode
<1>5. ValidatePaymasterAndData(op, view).known \subseteq {GetPaymaster(op)}
  <2>1. CASE op.paymasterAndData.len = 0
    <3>1. ValidatePaymasterAndData(op, view) = Verdict(TRUE, {})
      BY <2>1 DEF ValidatePaymasterAndData
    <3>2. Verdict(TRUE, {}).known = {}
      BY DEF Verdict
    <3> QED
      BY <3>1, <3>2
  <2>2. CASE op.paymasterAndData.len # 0
    <3> DEFINE bad == \/ op.paymasterAndData.len \in 1 .. AddressLength - 1
                      \/ "code" \in view.fails
                      \/ GetPaymaster(op) \notin view.code
               asked == gs(GetPaymaster(op), view)
               paid == view.deposit >= GetMaxPrefund(op)
    <3>1. ValidatePaymasterAndData(op, view)
            = IF bad THEN Verdict(FALSE, {}) ELSE Verdict(asked # {} /\ paid, asked)
      BY <2>2 DEF ValidatePaymasterAndData
    <3>2. Verdict(FALSE, {}).known = {} /\ Verdict(asked # {} /\ paid, asked).known = asked
      BY DEF Verdict
    <3>3. asked \subseteq {GetPaymaster(op)}
      BY <1>3
    <3> HIDE DEF bad, asked, paid
    <3> QED
      BY <3>1, <3>2, <3>3
  <2> QED
    BY <2>1, <2>2
<1>6. ValidatePendingOps(op, view).known \subseteq {op.sender}
  BY <1>1, <1>3 DEF ValidatePendingOps
<1>7. \A v \in checks : v.known \subseteq EntitiesOf(op)
  BY <1>2, <1>4, <1>5, <1>6 DEF EntitiesOf
<1>8. ValidateOpValues(op, view).known = UNION {v.known : v \in checks}
  BY <1>1 DEF ValidateOpValues, Verdicts
<1> HIDE DEF checks
<1> QED
  BY <1>7, <1>8

KnownTypes == \A c \in Clients : known[c] \subseteq EntitiesOf(situation.scene.op)

LEMMA KnownStep == SceneOK /\ AdmInv /\ KnownTypes /\ [RpcNext]_rpcVars => KnownTypes'
<1> SUFFICES ASSUME SceneOK, AdmInv, KnownTypes, [RpcNext]_rpcVars PROVE KnownTypes'
  OBVIOUS
<1>1. UNCHANGED situation
  BY SituationStays
<1>2. CASE UNCHANGED known
  BY <1>1, <1>2 DEF KnownTypes
<1>3. ASSUME NEW c \in Clients, known' = [known EXCEPT ![c] = ValidateOpValues(OpOf(c), situation.view).known]
      PROVE  KnownTypes'
  <2>1. ValidateOpValues(OpOf(c), situation.view).known \subseteq EntitiesOf(OpOf(c))
    BY ChecksAsk
  <2>2. EntitiesOf(OpOf(c)) = EntitiesOf(situation.scene.op)
    BY OpOfSituation DEF SameBut, EntitiesOf, GetFactory, GetPaymaster
  <2>3. \A d \in Clients : known'[d] = known[d] \/ (d = c /\ known'[d] \subseteq EntitiesOf(situation.scene.op))
    BY <1>3, <2>1, <2>2 DEF AdmInv, AdmTypes
  <2> QED
    BY <1>1, <2>3 DEF KnownTypes
<1>4. \/ UNCHANGED known
      \/ \E c \in Clients : known' = [known EXCEPT ![c] = ValidateOpValues(OpOf(c), situation.view).known]
  <2>1. ASSUME NEW c \in Clients, ServerStep(c), ~ ValidateValues(c) PROVE UNCHANGED known
    BY <2>1 DEF ServerStep, HandleRequest, Estimate, Look, BeginStatus, EndStatus, SimulateOp, BeginSeen,
                EndSeen, AddToPool
  <2>2. ASSUME NEW c \in Clients, ValidateValues(c)
        PROVE  UNCHANGED known \/ known' = [known EXCEPT ![c] = ValidateOpValues(OpOf(c), situation.view).known]
    BY <2>2 DEF ValidateValues
  <2>3. CASE BundlerStep \/ ChainMoves \/ TimePasses \/ UNCHANGED rpcVars
    BY <2>3 DEF BundlerStep, Relay, CountIncluded, DropSent, ChainMoves, TimePasses, sendVars, rpcVars
  <2> QED
    BY <2>1, <2>2, <2>3 DEF RpcNext
<1> QED
  BY <1>2, <1>3, <1>4

AnswerKinds == {"none", "result", "error", "panic", "malformed"}
AnswerTypes == \A c \in Clients : answers[c].kind \in AnswerKinds

\* What a request can be answered at once.
LEMMA OutcomeKinds ==
  ASSUME NEW request
  PROVE  /\ Controller(request).kind \in {"call", "node", "error", "panic"}
         /\ \A node \in NodeOutcomes : AnswerOfNode(request, node).kind \in AnswerKinds
<1>1. /\ \A code, id : Error(code, id).kind = "error"
      /\ \A method, args : Call(method, args).kind = "call" /\ Node(method).kind = "node"
      /\ Panic.kind = "panic" /\ Result.kind = "result"
  BY DEF Error, Call, Node, Panic, Result
<1>2. \A method, args : Invoke(method, args).kind \in {"call", "panic"}
  BY <1>1 DEF Invoke
<1>3. CallMethod(request).kind \in {"call", "error", "panic"}
  BY <1>1, <1>2 DEF CallMethod
<1>4. routeStdEthereumRPCRequest(request).kind \in {"node", "error", "panic"}
  BY <1>1 DEF routeStdEthereumRPCRequest, handleEthCallRequest, handleEthRequest
<1>5. Controller(request).kind \in {"call", "node", "error", "panic"}
  BY <1>1, <1>3, <1>4 DEF Controller
<1>6. sendRawJson(request).kind \in {"result", "malformed"}
  BY <1>1 DEF sendRawJson
<1>7. \A node \in NodeOutcomes : AnswerOfNode(request, node).kind \in AnswerKinds
  BY <1>1, <1>6 DEF AnswerOfNode, AnswerKinds, NodeOutcomes
<1> QED
  BY <1>5, <1>7

LEMMA AnswerStep == ReqInv /\ AnswerTypes /\ [RpcNext]_rpcVars => AnswerTypes'
<1> SUFFICES ASSUME ReqInv, AnswerTypes, [RpcNext]_rpcVars PROVE AnswerTypes'
  OBVIOUS
<1>1. CASE UNCHANGED answers
  BY <1>1 DEF AnswerTypes
<1>2. ASSUME NEW c \in Clients, NEW answer, answer.kind \in AnswerKinds,
             answers' = [answers EXCEPT ![c] = answer]
      PROVE  AnswerTypes'
  <2>1. \A d \in Clients : answers'[d] = answers[d] \/ answers'[d] = answer
    BY <1>2 DEF ReqInv
  <2> QED
    BY <1>2, <2>1 DEF AnswerTypes
<1>3. Result.kind \in AnswerKinds /\ \A code : Error(code, OfRequest).kind \in AnswerKinds
  BY DEF Result, Error, AnswerKinds
<1>4. ASSUME NEW c \in Clients, ServerStep(c)
      PROVE  \/ UNCHANGED answers
             \/ \E answer : answer.kind \in AnswerKinds /\ answers' = [answers EXCEPT ![c] = answer]
  <2>1. CASE HandleRequest(c)
    <3> DEFINE request == Head(todo[c])
    <3>1. \/ UNCHANGED answers
          \/ Controller(request).kind \notin {"call", "node"}
                /\ answers' = [answers EXCEPT ![c] = Controller(request)]
          \/ \E node \in NodeOutcomes : answers' = [answers EXCEPT ![c] = AnswerOfNode(request, node)]
          \/ answers' = [answers EXCEPT ![c] = Result]
          \/ answers' = [answers EXCEPT ![c] = Error(NoRPCError, OfRequest)]
      BY <2>1 DEF HandleRequest, MethodFails, Answered
    <3> HIDE DEF request
    <3>2. Controller(request).kind \notin {"call", "node"} => Controller(request).kind \in AnswerKinds
      BY OutcomeKinds DEF AnswerKinds
    <3> QED
      BY <1>3, <3>1, <3>2, OutcomeKinds
  <2>2. CASE Estimate(c) \/ Look(c) \/ AddToPool(c)
    <3>1. \/ UNCHANGED answers \/ answers' = [answers EXCEPT ![c] = Result]
          \/ \E code : answers' = [answers EXCEPT ![c] = Error(code, OfRequest)]
      BY <2>2 DEF Estimate, Look, AddToPool, MethodFails, Answered
    <3> QED
      BY <1>3, <3>1
  <2>3. CASE ValidateValues(c) \/ SimulateOp(c)
    <3>1. \/ UNCHANGED answers \/ \E code : answers' = [answers EXCEPT ![c] = Error(code, OfRequest)]
      <4>1. CASE ValidateValues(c)
        BY <4>1 DEF ValidateValues, MethodFails, Answered
      <4>2. CASE SimulateOp(c)
        BY <4>2 DEF SimulateOp, MethodFails, Answered
      <4> QED
        BY <2>3, <4>1, <4>2
    <3> QED
      BY <1>3, <3>1
  <2>4. CASE BeginStatus(c) \/ EndStatus(c) \/ BeginSeen(c) \/ EndSeen(c)
    <3>1. \/ UNCHANGED answers \/ \E code : answers' = [answers EXCEPT ![c] = Error(code, OfRequest)]
      BY <2>4 DEF BeginStatus, EndStatus, BeginSeen, EndSeen, MethodFails, Answered
    <3> QED
      BY <1>3, <3>1
  <2> QED
    BY <1>4, <2>1, <2>2, <2>3, <2>4 DEF ServerStep
<1>5. CASE BundlerStep \/ ChainMoves \/ TimePasses \/ UNCHANGED rpcVars
  BY <1>1, <1>5 DEF BundlerStep, Relay, CountIncluded, DropSent, ChainMoves, TimePasses, sendVars, rpcVars
<1> QED
  BY <1>1, <1>2, <1>4, <1>5 DEF RpcNext

\* What is relayed is in the pool until it has been counted.
Relaying == batch \subseteq pool

LEMMA RelayingStep == AdmInv /\ Relaying /\ [RpcNext]_rpcVars => Relaying'
<1> SUFFICES ASSUME AdmInv, Relaying, [RpcNext]_rpcVars PROVE Relaying'
  OBVIOUS
<1>1. ASSUME UNCHANGED batch, pool \subseteq pool' PROVE Relaying'
  BY <1>1 DEF Relaying
<1>2. ASSUME NEW c \in Clients, ServerStep(c) PROVE Relaying'
  <2>1. CASE AddToPool(c)
    BY <1>1, <2>1 DEF AddToPool
  <2>2. CASE ~ AddToPool(c)
    BY <1>1, <1>2, <2>2 DEF ServerStep, HandleRequest, Estimate, Look, ValidateValues, BeginStatus,
                            EndStatus, SimulateOp, BeginSeen, EndSeen
  <2> QED
    BY <2>1, <2>2
<1>3. CASE BundlerStep
  BY <1>3 DEF BundlerStep, Relay, CountIncluded, DropSent, Relaying
<1>4. CASE ChainMoves \/ TimePasses \/ UNCHANGED rpcVars
  BY <1>1, <1>4 DEF ChainMoves, TimePasses, sendVars, rpcVars
<1> QED
  BY <1>2, <1>3, <1>4 DEF RpcNext

\* An op is not sent, or on its way, or in a block that there is.
BlockTypes ==
    /\ head \in 0 .. MaxHead
    /\ block = [c \in Clients |-> block[c]]
    /\ \A c \in Clients : block[c] \in {Unsent, Pending} \union 1 .. head

LEMMA BlockStep == BlockTypes /\ [RpcNext]_rpcVars => BlockTypes'
<1> SUFFICES ASSUME BlockTypes, [RpcNext]_rpcVars PROVE BlockTypes'
  OBVIOUS
<1>1. CASE UNCHANGED <<head, block>>
  BY <1>1 DEF BlockTypes
<1>2. LookupOps = Clients /\ MaxHead \in Nat
  BY RpcAssumption, LookupAssumption
<1>3. ASSUME NewBlock PROVE BlockTypes'
  <2>1. PICK ops \in SUBSET {op \in Clients : block[op] = Pending} :
            block' = [op \in Clients |-> IF op \in ops THEN head' ELSE block[op]]
    BY <1>2, <1>3 DEF NewBlock
  <2>2. head < MaxHead /\ head' = head + 1
    BY <1>3 DEF NewBlock
  <2>3. head' \in 0 .. MaxHead /\ head' \in 1 .. head' /\ 1 .. head \subseteq 1 .. head'
    BY <1>2, <2>2 DEF BlockTypes
  <2>4. \A c \in Clients : block'[c] \in {block[c], head'}
    BY <2>1
  <2> QED
    BY <2>1, <2>3, <2>4 DEF BlockTypes
<1>4. ASSUME Reorg PROVE BlockTypes'
  BY <1>2, <1>4 DEF Reorg, BlockTypes
<1>5. CASE Relay
  BY <1>5 DEF Relay, BlockTypes
<1>6. CASE CountIncluded \/ DropSent \/ TimePasses \/ UNCHANGED rpcVars
  BY <1>1, <1>6 DEF CountIncluded, DropSent, TimePasses, rpcVars, lookVars
<1>7. CASE ChainMoves
  BY <1>3, <1>4, <1>7 DEF ChainMoves
<1>8. ASSUME NEW c \in Clients, ServerStep(c) PROVE BlockTypes'
  <2>1. CASE Look(c)
    BY <1>1, <2>1 DEF Look, BeginLookup, BlockNumber, FilterEvents, TransactionReceipt, TransactionByHash,
                      LookupFails
  <2>2. CASE ~ Look(c)
    BY <1>1, <1>8, <2>2 DEF ServerStep, HandleRequest, Estimate, ValidateValues, BeginStatus, EndStatus,
                            SimulateOp, BeginSeen, EndSeen, AddToPool, lookVars
  <2> QED
    BY <2>1, <2>2
<1> QED
  BY <1>5, <1>6, <1>7, <1>8 DEF RpcNext, BundlerStep

\* The transactions of the server and the bundler are those of Reputation.
LEMMA RepTypesStep ==
  SceneOK /\ AdmInv /\ CountInv /\ RepTypes /\ [RpcNext]_rpcVars => RepTypes'
<1> SUFFICES ASSUME SceneOK, AdmInv, CountInv, RepTypes, [RpcNext]_rpcVars PROVE RepTypes'
  OBVIOUS
<1>1. /\ BundlerProcess \in RepProcesses /\ Clients \subseteq RepProcesses /\ RepInv
  BY RpcAssumption DEF CountInv
<1>2. ASSUME UNCHANGED repVars PROVE RepTypes'
  BY <1>2 DEF repVars, RepTypes, Open
<1>3. ASSUME NEW c \in Clients, ServerStep(c) PROVE RepTypes'
  <2>1. CASE BeginStatus(c) \/ BeginSeen(c)
    <3>1. UNCHANGED counts /\ (UNCHANGED txns \/ BeginTxn(c))
      BY <2>1 DEF BeginStatus, BeginSeen
    <3> QED
      BY <1>1, <1>2, <3>1, BeginTxnTypes DEF repVars
  <2>2. CASE EndStatus(c) \/ EndSeen(c)
    <3>1. stage[c] \in {"status", "seen"}
      BY <2>2 DEF EndStatus, EndSeen
    <3>2. Open(c) /\ PaymasterOf(c) \in Paymasters
      BY <3>1, PaymasterOfSituation DEF CountInv, InTransaction
    <3>3. CheckStatus(c, PaymasterOf(c)) \/ IncOpsSeen(c, PaymasterOf(c))
      BY <2>2 DEF EndStatus, EndSeen
    <3> QED
      BY <1>1, <3>2, <3>3, HandlersType
  <2>3. CASE UNCHANGED repVars
    BY <1>2, <2>3
  <2> QED
    BY <1>3, <2>1, <2>2, <2>3, StageOfStep
<1>4. CASE Relay
  <2>1. UNCHANGED counts /\ BeginTxn(BundlerProcess)
    BY <1>4 DEF Relay
  <2> QED
    BY <1>1, <2>1, BeginTxnTypes
<1>5. CASE CountIncluded
  <2>1. Open(BundlerProcess) /\ IncOpsIncluded(BundlerProcess, OpsInBatch)
    BY <1>5 DEF CountIncluded, CountInv, InTransaction
  <2> QED
    BY <1>1, <2>1, BatchCounts, HandlersType
<1>6. CASE DropSent \/ ChainMoves \/ UNCHANGED rpcVars
  BY <1>2, <1>6 DEF DropSent, ChainMoves, rpcVars
<1>7. CASE TimePasses
  BY <1>1, <1>7, TickTypes DEF TimePasses
<1> QED
  BY <1>3, <1>4, <1>5, <1>6, <1>7 DEF RpcNext, BundlerStep

\* preVerificationGas is divided by a price that is not 0.
PVGTypes == pvg \in Nat

LEMMA PVGStep ==
  SceneOK /\ ReqInv /\ PricedInv /\ PVGTypes /\ [RpcNext]_rpcVars => PVGTypes'
<1> SUFFICES ASSUME SceneOK, ReqInv, PricedInv, PVGTypes, [RpcNext]_rpcVars PROVE PVGTypes'
  OBVIOUS
<1>1. [EstNext]_estVars
  BY StepOfEstimation
<1>2. CASE UNCHANGED pvg
  BY <1>2 DEF PVGTypes
<1>3. ASSUME NEW l1 \in L1s, CalcPVG(l1) PROVE PVGTypes'
  <2> DEFINE op == scene.op
             view == situation.view
  <2>1. l1.chain = scene.chain /\ pvg' = CalcPreVerificationGasWithBuffer(op, l1)
        /\ estimating = "pvg"
    BY <1>3 DEF CalcPVG
  <2>2. L1Keeps(l1, view.l1) /\ L1OK(l1) /\ L1OK(view.l1)
    BY <2>1, RpcAssumption DEF ReqInv, SceneOK, L1OK
  <2>3. IsOp(op) /\ op.maxFee > 0
    BY <2>1 DEF SceneOK, PricedInv
  <2> HIDE DEF op, view
  <2>4. /\ op.maxFee = op.maxFee /\ op.maxTip = op.maxTip
        /\ StaticPVG(Sanitized(op)) = StaticPVG(Sanitized(op))
    OBVIOUS
  <2>5. CalcPreVerificationGasWithBuffer(op, l1) \in Nat
    BY <2>2, <2>3, <2>4, BufferSuffices
  <2> QED
    BY <2>1, <2>5 DEF PVGTypes
<1>4. UNCHANGED pvg \/ \E l1 \in L1s : CalcPVG(l1)
  BY <1>1 DEF estVars, EstNext, EstimateStep, EstimateUserOperationGas, GetGasPrices, SearchVGL,
              SearchVGLDone, TraceExecution, Confirm, SearchCGL, SearchCGLDone, NodeFails
<1> QED
  BY <1>2, <1>3, <1>4

\* What the server's state is made of, whatever it is asked.
ServerTypes ==
    /\ SearchTypes /\ PVGTypes /\ KnownTypes /\ AnswerTypes /\ Relaying /\ BlockTypes /\ RepTypes

LEMMA ServerTypesInit == RpcInit => ServerTypes
<1> SUFFICES ASSUME RpcInit PROVE ServerTypes
  OBVIOUS
<1>1. SearchTypes
  BY SearchTypesInit DEF RpcInit
<1>2. PVGTypes
  BY DEF RpcInit, EstInit, PVGTypes
<1>3. KnownTypes /\ AnswerTypes /\ Relaying
  BY DEF RpcInit, KnownTypes, AnswerTypes, AnswerKinds, Relaying
<1>4. BlockTypes
  BY RpcAssumption, LookupAssumption DEF RpcInit, LookInit, BlockTypes
<1>5. RepTypes
  BY RepInitTypes DEF RpcInit
<1> QED
  BY <1>1, <1>2, <1>3, <1>4, <1>5 DEF ServerTypes

LEMMA ServerTypesHold == RpcSpec => []ServerTypes
<1> DEFINE Inv == EstInv /\ SceneOK /\ AdmInv /\ CountInv /\ ReqInv /\ PricedInv
<1>1. Inv /\ ServerTypes /\ [RpcNext]_rpcVars => ServerTypes'
  BY StepOfEstimation, SearchTypesNext, PVGStep, KnownStep, AnswerStep, RelayingStep, BlockStep, RepTypesStep
     DEF ServerTypes
<1>2. RpcSpec => []Inv
  BY EstimationHolds, SceneHolds, AdmHolds, CountHolds, ReqHolds, PricedHolds, PTL
<1> HIDE DEF Inv
<1> QED
  BY <1>1, <1>2, ServerTypesInit, PTL DEF RpcSpec

\* The state of the server as it is declared, for any clients and requests: in
\* particular what it keeps of an op's context are the stakes of its own
\* entities (context.go:58-71), no count of a paymaster is negative or made up
\* of anything else (utils.go:42-95), and a batch that is counted is still in
\* the pool (RpcTypeOK).
THEOREM ServerTyped == RpcSpec => []RpcTypeOK
<1>1. SceneOK /\ EstInv /\ AdmInv /\ ReqInv /\ ServerTypes => RpcTypeOK
  <2> SUFFICES ASSUME SceneOK, EstInv, AdmInv, ReqInv, ServerTypes PROVE RpcTypeOK
    OBVIOUS
  <2>1. EstTypeOK
    BY DEF ServerTypes, SearchTypes, PVGTypes, EstInv, EstTypeOK
  <2>2. ASSUME NEW c \in Clients
        PROVE  /\ known[c] \subseteq {OpOf(c).sender, GetFactory(OpOf(c)), PaymasterOf(c)}
               /\ answers[c].kind \in {"none", "result", "error", "panic", "malformed"}
               /\ stage[c] # "idle" => todo[c] # <<>>
    <3>1. /\ OpOf(c).sender = situation.scene.op.sender
          /\ GetFactory(OpOf(c)) = GetFactory(situation.scene.op)
          /\ PaymasterOf(c) = GetPaymaster(situation.scene.op)
      BY OpOfSituation DEF SameBut, GetFactory, GetPaymaster, PaymasterOf
    <3>2. known[c] \subseteq EntitiesOf(situation.scene.op)
      BY DEF ServerTypes, KnownTypes
    <3>3. answers[c].kind \in {"none", "result", "error", "panic", "malformed"}
      BY DEF ServerTypes, AnswerTypes, AnswerKinds
    <3> QED
      BY <3>1, <3>2, <3>3 DEF EntitiesOf, ReqInv
  <2>3. stage \in [Clients -> Stages] /\ pool \subseteq Clients /\ batch \subseteq pool
    BY DEF AdmInv, AdmTypes, ServerTypes, Relaying
  <2>4. \A m \in Paymasters : counts[m] = Unknown \/
            (counts[m].seen \in Nat /\ counts[m].included \in Nat /\ counts[m].age \in 0 .. MaxAge)
    <3> TAKE m \in Paymasters
    <3>1. counts[m] \in Counts
      BY DEF ServerTypes, RepTypes
    <3> QED
      BY <3>1 DEF Counts
  <2>5. \A p \in RepProcesses : txns[p].overwritten \subseteq Paymasters
    BY DEF ServerTypes, RepTypes
  <2>6. head \in 0 .. MaxHead /\ \A c \in Clients : block[c] \in {Unsent, Pending} \union 1 .. head
    BY DEF ServerTypes, BlockTypes
  <2> QED
    BY <2>1, <2>2, <2>3, <2>4, <2>5, <2>6 DEF RpcTypeOK
<1> QED
  BY <1>1, SceneHolds, EstimationHolds, AdmHolds, ReqHolds, ServerTypesHold, PTL
=============================================================================
