------------------------- MODULE BatchPipelineProofs -------------------------
(***************************************************************************)
(* The invariants of BatchPipeline, for any ops, fees and deposits.        *)
(***************************************************************************)
EXTENDS BatchPipeline, BatchHandlersProofs

ChainFees == Fees \union {None}

\* The context of the run when nothing has been done to it yet.
First == NewBatchHandlerContext(AdjustBatchSize(MaxBatch, dumped),
                                ctx.baseFee, ctx.tip, ctx.gasPrice)

\* The context is what handlers may have made of the first one.
TypeOK ==
    /\ dumped \in Dumps
    /\ deposit \in [Paymasters -> Deposits]
    /\ ctx \in Reduced(Ops, ChainFees, First)
    /\ ctx.baseFee = None <=> ctx.tip = None
    /\ stage \in {"dumped", "byGasPrice", "filtered", "byNonce", "limited", "paid"}
    /\ stage = "dumped" => ctx = First
    /\ stage # "paid" => ctx.removal = <<>>

\* A dump holds no op, and no key, twice.
LEMMA DumpIs ==
  ASSUME NEW s \in Dumps
  PROVE  /\ s \in Seq(Ops) /\ Distinct(s)
         /\ \A i, j \in 1 .. Len(s) : s[i].sender = s[j].sender /\ s[i].nonce = s[j].nonce => i = j
<1>1. s \in Seq(Ops)
  BY NumbersAssumption DEF Dumps, BoundedSeq, SeqOf
<1>2. ASSUME NEW i \in 1 .. Len(s), NEW j \in 1 .. Len(s),
             s[i].sender = s[j].sender, s[i].nonce = s[j].nonce
      PROVE  i = j
  BY <1>2 DEF Dumps
<1> QED
  BY <1>1, <1>2 DEF Distinct

\* t is the beginning of s.
Starts(t, s) == \E m \in 0 .. Len(s) : t = SubSeq(s, 1, m)

\* The context that AdjustBatchSize makes of a dump.
LEMMA FirstIs ==
  ASSUME NEW s \in Dumps, NEW bf \in ChainFees, NEW tip \in ChainFees, NEW gp \in ChainFees,
         NEW c, c = NewBatchHandlerContext(AdjustBatchSize(MaxBatch, s), bf, tip, gp)
  PROVE  /\ c \in Contexts(Ops, ChainFees) /\ Once(c) /\ Held(c) \subseteq ToSet(s)
         /\ c.baseFee = bf /\ c.tip = tip /\ c.gasPrice = gp
         /\ Starts(c.batch, s)
<1> DEFINE b == AdjustBatchSize(MaxBatch, s)
<1>1. s \in Seq(Ops) /\ Distinct(s)
  BY DumpIs
<1>2. PICK m \in 0 .. Len(s) : b = SubSeq(s, 1, m)
  <2>1. CASE Len(s) > MaxBatch /\ MaxBatch > 0
    BY <1>1, <2>1, NumbersAssumption DEF AdjustBatchSize
  <2>2. CASE ~ (Len(s) > MaxBatch /\ MaxBatch > 0)
    <3>1. b = s /\ s = SubSeq(s, 1, Len(s)) /\ Len(s) \in 0 .. Len(s)
      BY <1>1, <2>2 DEF AdjustBatchSize
    <3> QED
      BY <3>1
  <2> QED
    BY <2>1, <2>2
<1>3. b \in Seq(Ops) /\ ToSet(b) \subseteq ToSet(s) /\ Distinct(b)
  BY <1>1, <1>2, SubSeqSet
<1>0. Starts(b, s)
  BY <1>2 DEF Starts
<1> HIDE DEF b
<1>4. /\ c.batch = b /\ c.removal = <<>> /\ c.baseFee = bf /\ c.tip = tip /\ c.gasPrice = gp
      /\ c \in Contexts(Ops, ChainFees)
  <2>1. c = NewBatchHandlerContext(b, bf, tip, gp)
    BY DEF b
  <2> QED
    BY <1>3, <2>1 DEF NewBatchHandlerContext, Contexts
<1>5. ToSet(<<>>) = {} /\ Distinct(<<>>)
  BY DEF ToSet, Distinct
<1>6. Once(c) /\ Held(c) \subseteq ToSet(s)
  BY <1>3, <1>4, <1>5 DEF Once, Held
<1> QED
  BY <1>0, <1>4, <1>6

\* What the type of the context says of it.
LEMMA CtxIs ==
  ASSUME TypeOK
  PROVE  /\ ctx \in Contexts(Ops, ChainFees) /\ First \in Contexts(Ops, ChainFees)
         /\ ctx.batch \in Seq(Ops) /\ ctx.removal \in Seq(Ops)
         /\ ctx.baseFee \in ChainFees /\ ctx.tip \in ChainFees /\ ctx.gasPrice \in ChainFees
         /\ Once(ctx) /\ Held(ctx) \subseteq ToSet(dumped)
         /\ Starts(First.batch, dumped)
<1>1. ctx \in Contexts(Ops, ChainFees) /\ ctx \in Reduced(Ops, ChainFees, First)
  BY DEF TypeOK, Reduced
<1>2. /\ ctx.batch \in Seq(Ops) /\ ctx.removal \in Seq(Ops)
      /\ ctx.baseFee \in ChainFees /\ ctx.tip \in ChainFees /\ ctx.gasPrice \in ChainFees
  BY <1>1 DEF Contexts
<1>3. /\ First \in Contexts(Ops, ChainFees) /\ Once(First) /\ Held(First) \subseteq ToSet(dumped)
      /\ Starts(First.batch, dumped)
  <2>1. dumped \in Dumps /\ First = NewBatchHandlerContext(AdjustBatchSize(MaxBatch, dumped),
                                ctx.baseFee, ctx.tip, ctx.gasPrice)
    BY DEF First, TypeOK
  <2> QED
    BY <1>2, <2>1, FirstIs
<1>4. Once(ctx) /\ Held(ctx) \subseteq Held(First)
  BY <1>1, <1>3 DEF Reduced
<1> QED
  BY <1>1, <1>2, <1>3, <1>4

\* A handler that reduces the context keeps its type.
LEMMA HandleKeepsType ==
  ASSUME TypeOK, NEW from, NEW to \in {"byGasPrice", "filtered", "byNonce", "limited", "paid"},
         NEW result \in Reduced(Ops, ChainFees, ctx), Handle(from, to, result),
         to # "paid" => result.removal = ctx.removal /\ ctx.removal = <<>>
  PROVE  TypeOK'
<1>1. ctx \in Contexts(Ops, ChainFees) /\ First \in Contexts(Ops, ChainFees)
      /\ ctx \in Reduced(Ops, ChainFees, First)
  BY CtxIs DEF TypeOK
<1>2. Reduced(Ops, ChainFees, ctx) \subseteq Reduced(Ops, ChainFees, First)
  BY <1>1, ReducedIs
<1>3. ctx'.baseFee = ctx.baseFee /\ ctx'.tip = ctx.tip /\ ctx'.gasPrice = ctx.gasPrice
  BY DEF Handle, Reduced
<1>4. First' = First
  BY <1>3 DEF First, Handle
<1>5. ctx' \in Reduced(Ops, ChainFees, First')
  BY <1>2, <1>4 DEF Handle
<1>6. stage' = to /\ dumped' = dumped /\ deposit' = deposit
      /\ (to # "paid" => ctx'.removal = <<>>)
  BY DEF Handle
<1> QED
  BY <1>3, <1>5, <1>6 DEF TypeOK

-----------------------------------------------------------------------------
(* The order of the batch. *)

\* Where an op was in the dump.
LEMMA PositionIs ==
  ASSUME NEW s \in Dumps, NEW i \in 1 .. Len(s)
  PROVE  Position(s, s[i]) = i
<1>1. \A j \in 1 .. Len(s) : s[j] = s[i] => j = i
  BY DumpIs DEF Distinct
<1> QED
  BY <1>1 DEF Position

\* What DearestFirstThenOldest says of the batch r made of b, for a price.
Dearest(s, b, r, rank) ==
    /\ ToSet(r) = ToSet(b)
    /\ \A i, j \in 1 .. Len(r) : i < j =>
        /\ r[i] \in ToSet(b) /\ r[j] \in ToSet(b)
        /\ \/ rank[r[i]] > rank[r[j]]
           \/ rank[r[i]] = rank[r[j]] /\ Position(s, r[i]) < Position(s, r[j])

\* less compares by rank.
ByRank(less, rank, S) ==
    /\ rank \in [S -> Int]
    /\ \A x, y \in S : less[x][y] <=> rank[x] > rank[y]

\* The sort by price, from the batch as it was dumped.
LEMMA DearestOf ==
  ASSUME NEW s \in Dumps, NEW b, Starts(b, s), NEW rank, NEW less, ByRank(less, rank, ToSet(b))
  PROVE  Dearest(s, b, SliceStable(b, less), rank)
<1>9. PICK m \in 0 .. Len(s) : b = SubSeq(s, 1, m)
  BY DEF Starts
<1> DEFINE S == ToSet(b)
           r == SliceStable(b, less)
<1>1. s \in Seq(Ops) /\ Distinct(s)
  BY DumpIs
<1>2. b \in Seq(Ops) /\ Distinct(b) /\ Len(b) = m /\ \A i \in 1 .. m : b[i] = s[i]
  BY <1>1, <1>9, SubSeqSet
<1>0. \A x \in S : \E p \in 1 .. Len(b) : b[p] = x
  <2>1. b \in Seq(Ops)
    BY <1>2
  <2> QED
    BY <2>1 DEF ToSet
<1>3. b \in Seq(S)
  <2>1. b \in Seq(Ops)
    BY <1>2
  <2>2. \A p \in 1 .. Len(b) : b[p] \in S
    BY <2>1, ToSetIs
  <2> HIDE DEF S
  <2> QED
    BY <2>1, <2>2
<1>4. rank \in [S -> Int] /\ \A x, y \in S : less[x][y] <=> rank[x] > rank[y]
  BY DEF ByRank
<1> HIDE DEF S
<1>5. r \in Seq(S) /\ ToSet(r) = S
  BY <1>3, SliceStableSet DEF S
<1>6. \A i, j \in 1 .. Len(r) : i < j => Ahead(b, rank, r[i], r[j])
  BY <1>2, <1>3, <1>4, SliceStableOrder DEF S
<1> HIDE DEF r
<1>7. ASSUME NEW i \in 1 .. Len(r), NEW j \in 1 .. Len(r), i < j
      PROVE  /\ r[i] \in S /\ r[j] \in S
             /\ \/ rank[r[i]] > rank[r[j]]
                \/ rank[r[i]] = rank[r[j]] /\ Position(s, r[i]) < Position(s, r[j])
  <2>1. r[i] \in S /\ r[j] \in S
    BY <1>5
  <2>2. PICK p \in 1 .. Len(b) : b[p] = r[i]
    BY <1>0, <2>1
  <2>3. PICK q \in 1 .. Len(b) : b[q] = r[j]
    BY <1>0, <2>1
  <2>4. p \in 1 .. Len(s) /\ q \in 1 .. Len(s) /\ s[p] = r[i] /\ s[q] = r[j]
    BY <1>1, <1>2, <2>2, <2>3
  <2>5. Position(s, r[i]) = p /\ Position(s, r[j]) = q
    BY <2>4, PositionIs
  <2>6. Ahead(b, rank, r[i], r[j])
    BY <1>6, <1>7
  <2> QED
    BY <2>1, <2>2, <2>3, <2>5, <2>6 DEF Ahead
<1> QED
  BY <1>5, <1>7 DEF r, S, Dearest

\* SortByGasPrice puts the dearest first, whichever fees the chain has.
LEMMA DearestStep ==
  ASSUME TypeOK, ByGasPrice
  PROVE  DearestFirstThenOldest'
<1> DEFINE b == ctx.batch
           bf == ctx.baseFee
           S == ToSet(b)
           price == [x \in S |-> GetDynamicGasPrice(x, bf)]
           priceL == [x \in S |-> x.maxFee]
           dearer == [x \in S |-> [y \in S |->
                        GetDynamicGasPrice(x, bf) > GetDynamicGasPrice(y, bf)]]
           dearerL == [x \in S |-> [y \in S |-> x.maxFee > y.maxFee]]
<1>1. /\ b \in Seq(Ops) /\ bf \in ChainFees /\ dumped \in Dumps /\ Starts(b, dumped)
      /\ ctx \in Contexts(Ops, ChainFees)
      /\ ctx = First
  BY CtxIs DEF TypeOK, ByGasPrice, Handle
<1>3. AdjustBatchSize(MaxBatch, dumped) = b
  BY <1>1 DEF First, NewBatchHandlerContext
<1>4. /\ ctx' = SortByGasPrice(ctx) /\ stage' = "byGasPrice" /\ dumped' = dumped
  BY DEF ByGasPrice, Handle
<1>5. \A x \in S : x.maxFee \in Int /\ (bf # None => GetDynamicGasPrice(x, bf) \in Int)
  <2>1. \A x \in S : x.maxFee \in Nat /\ x.maxTip \in Nat
    BY <1>1, OpsAreValid DEF ToSet
  <2>2. bf # None => bf \in Nat
    BY <1>1, NumbersAssumption DEF ChainFees
  <2> HIDE DEF S, bf
  <2> QED
    BY <2>1, <2>2 DEF GetDynamicGasPrice
<1>6. CASE bf # None
  <2> DEFINE r == SliceStable(b, dearer)
  <2>1. price \in [S -> Int] /\ \A x, y \in S : dearer[x][y] <=> price[x] > price[y]
    BY <1>5, <1>6
  <2>2. ctx' = [ctx EXCEPT !.batch = r]
    BY <1>4, <1>6, Zenon DEF SortByGasPrice
  <2>3. Dearest(dumped, b, r, price)
    <3>1. dumped \in Dumps /\ ByRank(dearer, price, ToSet(b))
      BY <1>1, <2>1 DEF ByRank
    <3> HIDE DEF price, dearer, b
    <3> QED
      BY <1>1, <3>1, DearestOf
  <2> HIDE DEF r
  <2>4. ctx'.batch = r /\ ctx'.baseFee = bf
    BY <1>1, <2>2 DEF Contexts
  <2>5. \A x \in S : Price(x)' = price[x]
    BY <1>6, <2>4 DEF Price
  <2> HIDE DEF price, b, bf
  <2> QED
    BY <1>3, <1>4, <2>3, <2>4, <2>5 DEF DearestFirstThenOldest, Dearest
<1>7. CASE bf = None /\ ctx.gasPrice # None
  <2> DEFINE r == SliceStable(b, dearerL)
  <2>1. priceL \in [S -> Int] /\ \A x, y \in S : dearerL[x][y] <=> priceL[x] > priceL[y]
    BY <1>5, <1>7
  <2>2. ctx' = [ctx EXCEPT !.batch = r]
    BY <1>4, <1>7, Zenon DEF SortByGasPrice
  <2>3. Dearest(dumped, b, r, priceL)
    <3>1. dumped \in Dumps /\ ByRank(dearerL, priceL, ToSet(b))
      BY <1>1, <2>1 DEF ByRank
    <3> HIDE DEF priceL, dearerL, b
    <3> QED
      BY <1>1, <3>1, DearestOf
  <2> HIDE DEF r
  <2>4. ctx'.batch = r /\ ctx'.baseFee = bf
    BY <1>1, <2>2 DEF Contexts
  <2>5. \A x \in S : Price(x)' = priceL[x]
    BY <1>7, <2>4 DEF Price
  <2> HIDE DEF priceL, b, bf
  <2> QED
    BY <1>3, <1>4, <2>3, <2>4, <2>5 DEF DearestFirstThenOldest, Dearest
<1>8. CASE bf = None /\ ctx.gasPrice = None
  <2>1. ctx' = ctx
    BY <1>4, <1>8 DEF SortByGasPrice
  <2> QED
    BY <1>8, <2>1 DEF DearestFirstThenOldest
<1> QED
  BY <1>6, <1>7, <1>8

\* SortByNonce leaves no op directly behind one of its sender with a higher nonce.
LEMMA NonceStep ==
  ASSUME TypeOK, ByNonce
  PROVE  NeighboursInNonceOrder'
<1> DEFINE b == ctx.batch
           S == ToSet(b)
           earlier == [x \in S |-> [y \in S |-> x.sender = y.sender /\ x.nonce < y.nonce]]
           r == SliceStable(b, earlier)
<1>1. /\ b \in Seq(Ops) /\ dumped \in Dumps /\ S \subseteq ToSet(dumped) /\ Distinct(b)
      /\ ctx \in Contexts(Ops, ChainFees)
  BY CtxIs DEF TypeOK, Held, Once
<1>2. ctx' = [ctx EXCEPT !.batch = r]
  BY Zenon DEF ByNonce, Handle, SortByNonce
<1>3. \A x \in S : x \in Ops /\ x.nonce \in Nat
  BY <1>1, OpsAreValid DEF ToSet
<1>5. \A x, y \in S : earlier[x][y] <=> (x.sender = y.sender /\ x.nonce < y.nonce)
  OBVIOUS
<1>4. \A x, y \in S : earlier[x][y] => ~ earlier[y][x]
  <2> HIDE DEF earlier, S
  <2> QED
    BY <1>3, <1>5
<1>6. b \in Seq(S)
  <2>1. \A i \in 1 .. Len(b) : b[i] \in S
    <3> HIDE DEF b
    <3> QED
      BY <1>1, ToSetIs
  <2> HIDE DEF S
  <2> QED
    BY <1>1, <2>1
<1> HIDE DEF b, S, earlier
<1>7. r \in Seq(S) /\ \A i \in 1 .. Len(r) - 1 : ~ earlier[r[i + 1]][r[i]]
  BY <1>4, <1>6, SliceStableSet, SliceStableNeighbours
<1>8. r \in Seq(Ops) /\ Distinct(r)
  BY <1>1, SliceStableSet
<1> HIDE DEF r
<1>9. ctx'.batch = r
  BY <1>1, <1>2 DEF Contexts
<1>10. ASSUME NEW i \in 1 .. Len(r) - 1, r[i].sender = r[i + 1].sender
       PROVE  r[i].nonce < r[i + 1].nonce
  <2>1. i \in 1 .. Len(r) /\ i + 1 \in 1 .. Len(r) /\ i # i + 1
    BY <1>7
  <2>2. r[i] \in S /\ r[i + 1] \in S /\ r[i] # r[i + 1]
    BY <1>7, <1>8, <2>1 DEF Distinct
  <2>3. r[i].nonce # r[i + 1].nonce
    <3>1. dumped \in Seq(Ops)
      BY <1>1, DumpIs
    <3>2. PICK p \in 1 .. Len(dumped) : dumped[p] = r[i]
      BY <1>1, <2>2, <3>1, ToSetIs
    <3>3. PICK q \in 1 .. Len(dumped) : dumped[q] = r[i + 1]
      BY <1>1, <2>2, <3>1, ToSetIs
    <3> QED
      BY <1>1, <1>10, <2>2, <3>2, <3>3, DumpIs
  <2> QED
    BY <1>3, <1>5, <1>7, <1>10, <2>2, <2>3
<1> QED
  BY <1>9, <1>10 DEF NeighboursInNonceOrder
-----------------------------------------------------------------------------
(* Gas and fees. *)

\* MaintainGasLimit takes the longest prefix that stays under the limit.
LEMMA LongestStep ==
  ASSUME TypeOK, GasLimit
  PROVE  /\ IsPrefix(ctx'.batch, ctx.batch)
         /\ GasOf(ctx'.batch) < MaxBatchGasLimit \/ ctx'.batch = <<>>
         /\ \A n \in Len(ctx'.batch) + 1 .. Len(ctx.batch) :
                GasOf(SubSeq(ctx.batch, 1, n)) >= MaxBatchGasLimit
<1> DEFINE b == ctx.batch
<1>1. b \in Seq(Ops) /\ ctx \in Contexts(Ops, ChainFees)
  BY CtxIs
<1>2. (\A x \in Ops : x.gas \in Nat) /\ MaxBatchGasLimit \in Nat
  BY OpsAreValid, NumbersAssumption
<1>3. PICK m \in 0 .. Len(b) : CutsAt(ctx, MaxBatchGasLimit, m)
  BY <1>1, <1>2, MaintainGasLimitIs
<1> DEFINE t == SubSeq(b, 1, m)
<1>4. /\ ctx'.batch = t
      /\ m > 0 => GasOf(t) < MaxBatchGasLimit
      /\ m < Len(b) => GasOf(SubSeq(b, 1, m + 1)) >= MaxBatchGasLimit
  <2>1. ctx' = [ctx EXCEPT !.batch = t]
    BY <1>3 DEF CutsAt, GasLimit, Handle
  <2>2. ctx'.batch = t
    <3> HIDE DEF t
    <3> QED
      BY <1>1, <2>1 DEF Contexts
  <2> QED
    BY <1>3, <2>2 DEF CutsAt
<1> HIDE DEF b
<1>5. t \in Seq(Ops) /\ Len(t) = m /\ \A i \in 1 .. m : t[i] = b[i]
  BY <1>1, SubSeqSet
<1>6. IsPrefix(t, b)
  BY <1>1, <1>5 DEF IsPrefix
<1>7. m = 0 => t = <<>>
  BY <1>5
<1>8. ASSUME NEW n \in m + 1 .. Len(b)
      PROVE  GasOf(SubSeq(b, 1, n)) >= MaxBatchGasLimit
  <2>1. n \in 0 .. Len(b) /\ m + 1 \in 0 .. n /\ m < Len(b) /\ m + 1 \in 0 .. Len(b)
    BY <1>1
  <2>2. /\ GasOf(SubSeq(b, 1, n)) \in Nat /\ GasOf(SubSeq(b, 1, m + 1)) \in Nat
        /\ GasOf(SubSeq(b, 1, m + 1)) <= GasOf(SubSeq(b, 1, n))
    BY <1>1, <1>2, <2>1, GasOfPrefixes
  <2> QED
    BY <1>2, <1>4, <2>1, <2>2
<1> HIDE DEF t
<1>9. Len(t) = m /\ m \in Nat
  BY <1>1, <1>5
<1> QED
  BY <1>4, <1>6, <1>7, <1>8, <1>9 DEF b

\* Division keeps the order.
LEMMA QuotientsInOrder ==
  ASSUME NEW a \in Nat, NEW b \in Nat, NEW n \in Nat \ {0}, a <= b
  PROVE  a \div n \in Nat /\ b \div n \in Nat /\ a \div n <= b \div n
<1> DEFINE p == a \div n
           q == b \div n
<1>1. /\ p \in Int /\ q \in Int
      /\ n * p <= a /\ a < n * p + n
      /\ n * q <= b /\ b < n * q + n
  OBVIOUS
<1> HIDE DEF p, q
<1>2. p <= q
  <2>1. SUFFICES ASSUME p > q PROVE FALSE
    BY <1>1
  <2>2. p - q - 1 \in Nat /\ n * (p - q - 1) >= 0
    BY <1>1, <2>1
  <2>3. n * (p - q - 1) = n * p - n * q - n
    BY <1>1
  <2> QED
    BY <1>1, <2>2, <2>3
<1>3. p >= 0
  <2>1. SUFFICES ASSUME p < 0 PROVE FALSE
    BY <1>1
  <2>2. 0 - p - 1 \in Nat /\ n * (0 - p - 1) >= 0
    BY <1>1, <2>1
  <2>3. n * (0 - p - 1) = 0 - n * p - n
    BY <1>1
  <2> QED
    BY <1>1, <2>2, <2>3
<1> QED
  BY <1>1, <1>2, <1>3 DEF p, q

\* The means keep the order of tip and fee, and the tip is part of the cap.
LEMMA CapOverTip ==
  ASSUME TypeOK
  PROVE  TipWithinFeeCap
<1> DEFINE S == Ops \ Intents
           conv == Filter(ctx.batch, S)
           Tips == FoldLeft(LAMBDA sum, op : sum + op.maxTip, 0, conv)
           Fees_ == FoldLeft(LAMBDA sum, op : sum + op.maxFee, 0, conv)
<1>1. SUFFICES ASSUME conv # <<>>, ctx.baseFee # None
      PROVE  SuggestMeanGasTipCap(ctx.tip, conv) <= SuggestMeanGasFeeCap(ctx.baseFee, ctx.tip, conv)
  BY DEF TipWithinFeeCap
<1>2. ctx.baseFee \in Nat /\ ctx.tip \in Nat
  <2>1. ctx.baseFee \in ChainFees /\ ctx.tip \in ChainFees /\ ctx.tip # None
    BY <1>1, CtxIs DEF TypeOK
  <2> QED
    BY <1>1, <2>1, NumbersAssumption DEF ChainFees
<1>3. conv \in Seq(S) /\ Len(conv) \in Nat \ {0}
  <2>1. ctx.batch \in Seq(Ops)
    BY CtxIs
  <2>2. conv \in Seq(Ops) /\ ToSet(conv) \subseteq S
    BY <2>1, FilterSet
  <2> HIDE DEF conv
  <2>3. \A i \in 1 .. Len(conv) : conv[i] \in S
    BY <2>2, ToSetIs
  <2> HIDE DEF S
  <2> QED
    BY <1>1, <2>2, <2>3
<1> HIDE DEF conv
<1>4. Tips \in Nat /\ Fees_ \in Nat /\ Tips <= Fees_
  <2>1. \A x \in S : x.maxTip \in Nat /\ x.maxFee \in Nat /\ x.maxTip <= x.maxFee
    BY OpsAreValid
  <2> HIDE DEF S
  <2> QED
    BY <1>3, <2>1, TipsAtMostFees
<1>5. /\ SuggestMeanGasTipCap(ctx.tip, conv) = Larger(Tips \div Len(conv), ctx.tip)
      /\ SuggestMeanGasFeeCap(ctx.baseFee, ctx.tip, conv)
            = Larger(Fees_ \div Len(conv), ctx.tip + 2 * ctx.baseFee)
  BY Zenon DEF SuggestMeanGasTipCap, SuggestMeanGasFeeCap, Average
<1> HIDE DEF Tips, Fees_
<1>6. /\ Tips \div Len(conv) \in Nat /\ Fees_ \div Len(conv) \in Nat
      /\ Tips \div Len(conv) <= Fees_ \div Len(conv)
  BY <1>3, <1>4, QuotientsInOrder
<1> DEFINE x == Tips \div Len(conv)
           y == Fees_ \div Len(conv)
<1> HIDE DEF x, y
<1>7. Larger(x, ctx.tip) <= Larger(y, ctx.tip + 2 * ctx.baseFee)
  <2>1. x \in Nat /\ y \in Nat /\ x <= y
    BY <1>6 DEF x, y
  <2> QED
    BY <1>2, <2>1 DEF Larger
<1> QED
  BY <1>5, <1>7 DEF x, y
-----------------------------------------------------------------------------
(* Deposits. *)

AddingPrefund(s, pm) ==
    [i \in 1 .. Len(s) |-> [a \in Nat |->
        IF s[i].paymaster = pm /\ s[i] \notin Intents THEN a + s[i].prefund ELSE a]]

\* What a paymaster must pay for a batch is added up op by op.
LEMMA PrefundWalk ==
  ASSUME NEW s \in Seq(Ops), NEW pm
  PROVE  \E w : /\ IsWalk(w, Len(s), Nat, 0, AddingPrefund(s, pm))
                /\ w[Len(s)] = PrefundOf(s, pm)
<1> DEFINE n == Len(s)
           A == Nat
           step == AddingPrefund(s, pm)
           base == 0
           Fold(f) == [T \in SUBSET (DOMAIN s) |->
                        IF T = {} THEN base ELSE IF s[Max(T)].paymaster = pm /\ s[Max(T)] \notin Intents
                                THEN f[T \ {Max(T)}] + s[Max(T)].prefund ELSE f[T \ {Max(T)}]]
           f == CHOOSE f : f = Fold(f)
<1>1. PrefundOf(s, pm) = f[DOMAIN s]
  BY Zenon DEF PrefundOf, FoldLeft, MapThenFoldSet
<1>2. n \in Nat /\ DOMAIN s = 1 .. n
  OBVIOUS
<1>3. \A T \in SUBSET (1 .. n) : T # {} => Max(T) \in 1 .. n
  BY <1>2, MaxOfSegment
<1>4. base \in A /\ Closed(step, 1 .. n, A)
  BY OpsAreValid DEF AddingPrefund, Closed
<1>5. \A i \in 1 .. n : \A a \in A : step[i][a] = IF s[i].paymaster = pm /\ s[i] \notin Intents
                                THEN a + s[i].prefund ELSE a
  BY DEF AddingPrefund
<1> HIDE DEF n, A, step, base
<1>6. \E g : g = Fold(g)
  <2>1. PICK g : IsFoldLeft(g, n, A, base, step)
    BY <1>2, <1>4, FoldLeftExists
  <2>2. ASSUME NEW T \in SUBSET (1 .. n), T # {}
        PROVE  g[T] = IF s[Max(T)].paymaster = pm /\ s[Max(T)] \notin Intents
                                THEN g[T \ {Max(T)}] + s[Max(T)].prefund ELSE g[T \ {Max(T)}]
    <3>1. g[T] = step[Max(T)][g[T \ {Max(T)}]] /\ g[T \ {Max(T)}] \in A
      BY <2>1, <2>2 DEF IsFoldLeft
    <3> QED
      BY <1>3, <1>5, <2>2, <3>1
  <2>3. g = Fold(g)
    BY <1>2, <2>1, <2>2 DEF IsFoldLeft
  <2> QED
    BY <2>3
<1>7. f = Fold(f)
  <2> HIDE DEF Fold
  <2> QED
    BY <1>6
<1> HIDE DEF f
<1>8. f[{}] = base
  BY <1>7
<1>9. ASSUME NEW T \in SUBSET (1 .. n), T # {} /\ f[T \ {Max(T)}] \in A
      PROVE  f[T] = step[Max(T)][f[T \ {Max(T)}]]
  <2>1. f[T] = IF s[Max(T)].paymaster = pm /\ s[Max(T)] \notin Intents
                                THEN f[T \ {Max(T)}] + s[Max(T)].prefund ELSE f[T \ {Max(T)}]
    BY <1>2, <1>7, <1>9
  <2> QED
    BY <1>3, <1>5, <1>9, <2>1
<1>10. \E w : IsWalk(w, n, A, base, step) /\ w[n] = f[1 .. n]
  <2>1. GoesBy(f, n, A, base, step)
    BY <1>8, <1>9 DEF GoesBy
  <2> QED
    BY <1>2, <1>4, <2>1, WalkOfFold
<1> QED
  BY <1>1, <1>2, <1>10 DEF n, A, step, base

\* What the prefix of a batch up to m costs the paymaster.
Due(s, pm, m) == PrefundOf(SubSeq(s, 1, m), pm)

\* What a paymaster must pay for the first m ops of a batch grows op by op.
LEMMA DueIs ==
  ASSUME NEW s \in Seq(Ops), NEW pm
  PROVE  /\ Due(s, pm, 0) = 0
         /\ \A m \in 0 .. Len(s) : Due(s, pm, m) \in Nat
         /\ \A m \in 1 .. Len(s) :
                Due(s, pm, m) = IF s[m].paymaster = pm /\ s[m] \notin Intents
                                THEN Due(s, pm, m - 1) + s[m].prefund ELSE Due(s, pm, m - 1)
<1> DEFINE n == Len(s)
           step == AddingPrefund(s, pm)
<1>1. PICK w : IsWalk(w, n, Nat, 0, step)
  BY PrefundWalk
<1>2. n \in Nat /\ \A i \in 1 .. n : \A a \in Nat :
        step[i][a] = IF s[i].paymaster = pm /\ s[i] \notin Intents THEN a + s[i].prefund ELSE a
  BY DEF AddingPrefund
<1> HIDE DEF n, step
<1>3. /\ \A i \in 0 .. n : w[i] \in Nat
      /\ w[0] = 0
      /\ \A i \in 1 .. n : w[i] = step[i][w[i - 1]]
  BY <1>1 DEF IsWalk
<1>4. ASSUME NEW m \in 0 .. n PROVE Due(s, pm, m) = w[m]
  <2> DEFINE t == SubSeq(s, 1, m)
             stept == AddingPrefund(t, pm)
             Good == [i \in 0 .. m |-> {w[i]}]
  <2>1. t \in Seq(Ops) /\ Len(t) = m /\ \A i \in 1 .. m : t[i] = s[i]
    BY DEF n
  <2> HIDE DEF t
  <2>2. PICK x : IsWalk(x, m, Nat, 0, stept) /\ x[m] = PrefundOf(t, pm)
    BY <2>1, PrefundWalk
  <2>3. ASSUME NEW i \in 1 .. m, NEW a \in Nat, a \in Good[i - 1]
        PROVE  stept[i][a] \in Good[i]
    <3>1. i \in 1 .. n /\ i - 1 \in 0 .. m /\ i \in 0 .. m
      BY <1>2
    <3>2. a = w[i - 1] /\ Good[i] = {w[i]}
      BY <2>3, <3>1
    <3>3. stept[i][a] = IF t[i].paymaster = pm /\ t[i] \notin Intents THEN a + t[i].prefund ELSE a
      BY <2>1 DEF AddingPrefund
    <3>4. w[i] = step[i][w[i - 1]] /\ w[i - 1] \in Nat
      BY <1>2, <1>3, <3>1
    <3>5. /\ step[i][w[i - 1]] = IF s[i].paymaster = pm /\ s[i] \notin Intents
                                 THEN w[i - 1] + s[i].prefund ELSE w[i - 1]
          /\ t[i] = s[i]
      BY <1>2, <2>1, <3>1, <3>4
    <3> HIDE DEF Good, stept
    <3> QED
      BY <3>2, <3>3, <3>4, <3>5
  <2>4. 0 \in Good[0] /\ m \in Nat /\ m \in 0 .. m
    BY <1>3
  <2>5. x[m] \in Good[m]
    <3> HIDE DEF Good, stept
    <3> QED
      BY <2>2, <2>3, <2>4, WalkKeeps
  <2> QED
    BY <2>2, <2>4, <2>5 DEF t, Due
<1>5. ASSUME NEW m \in 1 .. n
      PROVE  Due(s, pm, m) = IF s[m].paymaster = pm /\ s[m] \notin Intents
                             THEN Due(s, pm, m - 1) + s[m].prefund ELSE Due(s, pm, m - 1)
  <2>1. m \in 0 .. n /\ m - 1 \in 0 .. n
    BY <1>2
  <2>2. w[m] = step[m][w[m - 1]] /\ w[m - 1] \in Nat
    BY <1>3, <2>1
  <2>3. step[m][w[m - 1]] = IF s[m].paymaster = pm /\ s[m] \notin Intents
                            THEN w[m - 1] + s[m].prefund ELSE w[m - 1]
    BY <1>2, <2>2
  <2> QED
    BY <1>4, <2>1, <2>2, <2>3
<1>6. 0 \in 0 .. n
  BY <1>2
<1> QED
  BY <1>3, <1>4, <1>5, <1>6 DEF n

\* Up to the first unpaid place PaymasterDeposit marks nothing and its deposits are
\* what is left; from there on the op there is the first one marked.
LEMMA FirstDropStep ==
  ASSUME TypeOK, Deposit
  PROVE  /\ Unpaid = {} <=> ctx'.removal = <<>>
         /\ Unpaid # {} => ctx'.removal[1] = ctx.batch[Min(Unpaid)]
<1> DEFINE b == ctx.batch
           n == Len(b)
           A == Payments(Ops, ChainFees, ctx, Paymasters)
           base == [deps |-> deposit, ctx |-> ctx]
           step == PayingFor(Ops, ChainFees, ctx, Paymasters, Intents)
           first == IF Unpaid = {} THEN n + 1 ELSE Min(Unpaid)
           Clean(a, i) == a.ctx = ctx /\ \A pm \in Paymasters : a.deps[pm] = deposit[pm] - Due(b, pm, i)
           Marked(a) == Len(a.ctx.removal) > 0 /\ a.ctx.removal[1] = b[first]
           Good == [i \in 0 .. n |-> {a \in A : (i < first => Clean(a, i)) /\ (i >= first => Marked(a))}]
<1>1. /\ b \in Seq(Ops) /\ ctx \in Contexts(Ops, ChainFees) /\ n \in Nat
      /\ deposit \in [Paymasters -> Int]
      /\ ctx.removal = <<>>
  <2>1. /\ ctx.batch \in Seq(Ops) /\ ctx \in Contexts(Ops, ChainFees)
    BY CtxIs
  <2>2. deposit \in [Paymasters -> Int]
    BY NumbersAssumption DEF TypeOK
  <2>3. ctx.removal = <<>>
    BY DEF TypeOK, Deposit, Handle
  <2> QED
    BY <2>1, <2>2, <2>3
<1>2. /\ \A x \in Ops : x.prefund \in Int
      /\ \A x \in Ops : x.prefund \in Nat /\ x.paymaster \in Paymasters \union {None}
      /\ None \notin Paymasters
  BY OpsAreValid, NumbersAssumption
<1>3. PICK w : IsWalk(w, n, A, base, step) /\ w[n].ctx = PaymasterDeposit(ctx, deposit, Intents)
  <2>1. /\ ctx \in Contexts(Ops, ChainFees) /\ deposit \in [Paymasters -> Int]
        /\ \A x \in Ops : x.prefund \in Int
    BY <1>1, <1>2
  <2>2. \E v : /\ IsWalk(v, Len(ctx.batch), Payments(Ops, ChainFees, ctx, Paymasters),
                            [deps |-> deposit, ctx |-> ctx],
                            PayingFor(Ops, ChainFees, ctx, Paymasters, Intents))
               /\ v[Len(ctx.batch)].ctx = PaymasterDeposit(ctx, deposit, Intents)
    BY <2>1, PaymasterDepositWalk
  <2> HIDE DEF n, A, base, step
  <2> QED
    BY <2>2 DEF n, A, base, step, b
<1>4. ctx' = w[n].ctx
  BY <1>3 DEF Deposit, Handle
<1>5. /\ first \in 1 .. n + 1
      /\ \A i \in 1 .. n : i < first => i \notin Unpaid
      /\ first <= n => first \in Unpaid
      /\ Unpaid = {} => first = n + 1
      /\ Unpaid # {} => first = Min(Unpaid) /\ first <= n
  <2>1. Unpaid \in SUBSET (1 .. n)
    BY DEF Unpaid
  <2> HIDE DEF n
  <2>2. CASE Unpaid = {}
    BY <1>1, <2>2
  <2>3. CASE Unpaid # {}
    <3>1. Min(Unpaid) \in Unpaid /\ \A y \in Unpaid : Min(Unpaid) <= y
      BY <1>1, <2>1, <2>3, MinOfSegment
    <3>2. first = Min(Unpaid)
      BY <2>3
    <3> HIDE DEF first
    <3>3. Min(Unpaid) \in 1 .. n
      BY <2>1, <3>1
    <3>4. ASSUME NEW i \in 1 .. n, i < first PROVE i \notin Unpaid
      BY <3>1, <3>2, <3>3, <3>4
    <3> QED
      BY <1>1, <2>3, <3>1, <3>2, <3>3, <3>4
  <2> QED
    BY <2>2, <2>3
<1>6. ASSUME NEW i \in 1 .. n
      PROVE  i \in Unpaid <=> /\ b[i].paymaster # None /\ b[i] \notin Intents
                              /\ Due(b, b[i].paymaster, i) > deposit[b[i].paymaster]
  BY DEF Unpaid, Due
<1> HIDE DEF first
<1>7. base \in Good[0]
  <2>1. base \in A
    BY <1>1, ReducedIs DEF Payments
  <2>2. Clean(base, 0)
    BY <1>1, DueIs
  <2>3. 0 \in 0 .. n /\ 0 < first
    BY <1>1, <1>5
  <2> HIDE DEF A, base, Clean, Marked
  <2> QED
    BY <2>1, <2>2, <2>3
<1>8. ASSUME NEW i \in 1 .. n, NEW a \in A, a \in Good[i - 1]
      PROVE  step[i][a] \in Good[i]
  <2> DEFINE op == b[i]
             pm == op.paymaster
             left == a.deps[pm] - op.prefund
             deps == [a.deps EXCEPT ![pm] = left]
             d == IF left < 0 THEN MarkOpIndexForRemoval(a.ctx, i - 1) ELSE a.ctx
  <2>1. i - 1 \in 0 .. n /\ i \in 0 .. n /\ op \in Ops /\ a.deps \in [Paymasters -> Int]
        /\ a.ctx \in Reduced(Ops, ChainFees, ctx)
        /\ op.prefund \in Nat /\ pm \in Paymasters \union {None}
    BY <1>1, <1>2 DEF Payments
  <2>2. (i - 1 < first => Clean(a, i - 1)) /\ (i - 1 >= first => Marked(a))
    <3> HIDE DEF A, Clean, Marked
    <3> QED
      BY <1>8, <2>1
  <2>3. step[i][a] = IF op \in Intents \/ pm = None THEN a ELSE [deps |-> deps, ctx |-> d]
    <3>1. step[i][a] = PayFor(ctx, Intents, a, i - 1)
      BY DEF PayingFor
    <3>2. (i - 1) + 1 = i
      BY <1>1
    <3> HIDE DEF step
    <3> QED
      BY <3>1, <3>2 DEF PayFor
  <2>4. step[i][a] \in A
    <3>0. IsWalk(w, n, A, base, step)
      BY <1>3
    <3>1. CASE op \in Intents \/ pm = None
      BY <2>3, <3>1
    <3>2. CASE ~ (op \in Intents \/ pm = None)
      <4>1. step[i][a] = [deps |-> deps, ctx |-> d]
        <5> HIDE DEF step, deps, d
        <5> QED
          BY <2>3, <3>2
      <4>2. deps \in [Paymasters -> Int]
        BY <2>1, <3>2
      <4>3. d \in Reduced(Ops, ChainFees, ctx)
        <5>1. a.ctx \in Contexts(Ops, ChainFees)
              /\ Reduced(Ops, ChainFees, a.ctx) \subseteq Reduced(Ops, ChainFees, ctx)
          BY <1>1, <2>1, ReducedIs
        <5>2. MarkOpIndexForRemoval(a.ctx, i - 1) \in Reduced(Ops, ChainFees, a.ctx)
          BY <1>1, <2>1, <5>1, MarkReduces
        <5> QED
          BY <2>1, <5>1, <5>2
      <4> HIDE DEF deps, d, step
      <4> QED
        BY <4>1, <4>2, <4>3 DEF Payments
    <3> QED
      BY <3>1, <3>2
  <2>5. ASSUME i < first PROVE Clean(step[i][a], i)
    <3>1. a.ctx = ctx /\ \A p \in Paymasters : a.deps[p] = deposit[p] - Due(b, p, i - 1)
      BY <1>5, <2>1, <2>2, <2>5
    <3>2. \A p \in Paymasters : Due(b, p, i) \in Nat /\ Due(b, p, i - 1) \in Nat
      BY <1>1, <2>1, DueIs
    <3>3. \A p \in Paymasters :
            Due(b, p, i) = IF pm = p /\ op \notin Intents
                           THEN Due(b, p, i - 1) + op.prefund ELSE Due(b, p, i - 1)
      BY <1>1, DueIs
    <3>4. CASE op \in Intents \/ pm = None
      <4>1. step[i][a] = a
        <5> HIDE DEF step, deps, d
        <5> QED
          BY <2>3, <3>4
      <4>2. \A p \in Paymasters : Due(b, p, i) = Due(b, p, i - 1)
        BY <1>2, <3>3, <3>4
      <4> HIDE DEF step
      <4> QED
        BY <3>1, <4>1, <4>2
    <3>5. CASE ~ (op \in Intents \/ pm = None)
      <4>1. step[i][a] = [deps |-> deps, ctx |-> d]
        <5> HIDE DEF step, deps, d
        <5> QED
          BY <2>3, <3>5
      <4>2. pm \in Paymasters
        BY <2>1, <3>5
      <4>3. left = deposit[pm] - Due(b, pm, i) /\ deposit[pm] \in Int
        <5>1. Due(b, pm, i) = Due(b, pm, i - 1) + op.prefund
          BY <3>3, <3>5, <4>2
        <5> HIDE DEF op, pm
        <5> QED
          BY <1>1, <2>1, <3>1, <3>2, <4>2, <5>1
      <4>4. ~ (left < 0)
        <5>1. i \notin Unpaid
          BY <1>5, <2>5
        <5>2. ~ (Due(b, pm, i) > deposit[pm])
          BY <1>6, <3>5, <5>1
        <5> HIDE DEF op, pm, left
        <5> QED
          BY <3>2, <4>2, <4>3, <5>2
      <4>5. d = ctx
        BY <3>1, <4>4
      <4>6. \A p \in Paymasters : deps[p] = deposit[p] - Due(b, p, i)
        <5>1. ASSUME NEW p \in Paymasters PROVE deps[p] = deposit[p] - Due(b, p, i)
          <6>1. CASE p = pm
            <7> HIDE DEF left, pm
            <7> QED
              BY <2>1, <4>3, <6>1
          <6>2. CASE p # pm
            <7>1. deps[p] = a.deps[p] /\ Due(b, p, i) = Due(b, p, i - 1)
              <8> HIDE DEF left, pm
              <8> QED
                BY <2>1, <3>3, <6>2
            <7> HIDE DEF deps
            <7> QED
              BY <3>1, <7>1
          <6> QED
            BY <6>1, <6>2
        <5> QED
          BY <5>1
      <4> HIDE DEF step, deps, d
      <4> QED
        BY <4>1, <4>5, <4>6
    <3> QED
      BY <3>4, <3>5
  <2>6. ASSUME i >= first PROVE Marked(step[i][a])
    <3>1. /\ a.ctx \in Contexts(Ops, ChainFees) /\ a.ctx.removal \in Seq(Ops)
      BY <1>1, <2>1, ReducedIs
    <3>2. CASE i - 1 >= first
      <4>1. Marked(a)
        BY <2>2, <3>2
      <4>2. d.removal = a.ctx.removal \/ \E x : d.removal = Append(a.ctx.removal, x)
        <5> HIDE DEF left
        <5>1. d = a.ctx \/ d = MarkOpIndexForRemoval(a.ctx, i - 1)
          OBVIOUS
        <5> HIDE DEF d
        <5> QED
          BY <3>1, <5>1 DEF MarkOpIndexForRemoval, Contexts
      <4>3. Len(d.removal) > 0 /\ d.removal[1] = a.ctx.removal[1]
        <5> HIDE DEF d
        <5> QED
          BY <3>1, <4>1, <4>2
      <4>4. step[i][a] = a \/ step[i][a].ctx = d
        <5> HIDE DEF step, deps, d
        <5> QED
          BY <2>3
      <4> HIDE DEF step, d
      <4> QED
        BY <4>1, <4>3, <4>4
    <3>3. CASE i = first
      <4>1. i \in Unpaid
        BY <1>1, <1>5, <3>3
      <4>2. pm # None /\ op \notin Intents /\ Due(b, pm, i) > deposit[pm] /\ pm \in Paymasters
        BY <1>6, <2>1, <4>1
      <4>3. a.ctx = ctx /\ \A p \in Paymasters : a.deps[p] = deposit[p] - Due(b, p, i - 1)
        BY <1>1, <1>5, <2>2, <3>3
      <4>4. Due(b, pm, i) \in Nat /\ Due(b, pm, i - 1) \in Nat
        BY <1>1, <2>1, DueIs
      <4>5. Due(b, pm, i) = Due(b, pm, i - 1) + op.prefund
        BY <1>1, <4>2, DueIs
      <4>6. left < 0
        <5>1. a.deps[pm] = deposit[pm] - Due(b, pm, i - 1) /\ deposit[pm] \in Int
          BY <1>1, <4>2, <4>3
        <5> HIDE DEF op, pm
        <5> QED
          BY <2>1, <4>2, <4>4, <4>5, <5>1
      <4>7. step[i][a].ctx = MarkOpIndexForRemoval(ctx, i - 1)
        <5>1. step[i][a] = [deps |-> deps, ctx |-> d]
          <6> HIDE DEF step, deps, d
          <6> QED
            BY <2>3, <4>2
        <5>2. d = MarkOpIndexForRemoval(ctx, i - 1)
          <6> HIDE DEF left
          <6> QED
            BY <4>3, <4>6
        <5> HIDE DEF step, deps, d
        <5> QED
          BY <5>1, <5>2
      <4>8. MarkOpIndexForRemoval(ctx, i - 1).removal = Append(ctx.removal, b[i])
        <5>1. i - 1 \in 0 .. Len(ctx.batch) - 1 /\ (i - 1) + 1 = i
          BY <1>1
        <5> QED
          BY <1>1, <5>1 DEF MarkOpIndexForRemoval, Contexts
      <4>9. Append(ctx.removal, b[i]) = <<b[first]>>
        BY <1>1, <3>3
      <4> HIDE DEF step
      <4> QED
        BY <4>7, <4>8, <4>9
    <3> QED
      BY <1>1, <1>5, <2>6, <3>2, <3>3
  <2> HIDE DEF A, Clean, Marked, step
  <2> QED
    BY <2>1, <2>4, <2>5, <2>6
<1>9. w[n] \in Good[n] /\ n \in 0 .. n
  <2>1. n \in 0 .. n
    BY <1>1
  <2>2. \A i \in 1 .. n : \A a \in A : a \in Good[i - 1] => step[i][a] \in Good[i]
    BY <1>8
  <2>3. IsWalk(w, n, A, base, step) /\ n \in Nat
    BY <1>1, <1>3
  <2> HIDE DEF A, step, base, Good, n
  <2>4. \A i \in 0 .. n : w[i] \in A /\ w[i] \in Good[i]
    BY <1>7, <2>2, <2>3, WalkKeeps
  <2> QED
    BY <2>1, <2>4
<1>10. (n < first => Clean(w[n], n)) /\ (n >= first => Marked(w[n]))
  <2> HIDE DEF Clean, Marked, A, n
  <2> QED
    BY <1>9
<1>11. CASE Unpaid = {}
  <2>1. w[n].ctx = ctx
    BY <1>1, <1>5, <1>10, <1>11
  <2> QED
    BY <1>1, <1>4, <1>11, <2>1
<1>12. CASE Unpaid # {}
  <2>1. Marked(w[n]) /\ first = Min(Unpaid)
    BY <1>1, <1>5, <1>10, <1>12
  <2>2. ctx'.removal # <<>> /\ ctx'.removal[1] = b[Min(Unpaid)]
    BY <1>4, <2>1
  <2> QED
    BY <1>12, <2>2
<1> QED
  BY <1>11, <1>12
-----------------------------------------------------------------------------
(* Where the ops end up. *)

\* A handler that reduces the context makes up no op and copies none.
LEMMA ReducedHolds ==
  ASSUME TypeOK, NEW d \in Reduced(Ops, ChainFees, ctx)
  PROVE  /\ Held(d) \subseteq Held(ctx)
         /\ Cardinality(Held(d)) = Len(d.batch) + Len(d.removal)
<1>1. ctx \in Contexts(Ops, ChainFees) /\ Once(ctx)
  BY CtxIs
<1>2. d \in Contexts(Ops, ChainFees) /\ Held(d) \subseteq Held(ctx) /\ Once(d)
  BY <1>1, ReducedIs
<1> QED
  BY <1>2, HeldCount

\* FilterUnderpriced keeps the intents and whatever offers enough.
LEMMA OffersStay ==
  ASSUME TypeOK, NEW op \in ToSet(ctx.batch), op \in Intents \/ Offers(op)
  PROVE  op \in ToSet(FilterUnderpriced(ctx, Intents).batch)
<1> DEFINE b == ctx.batch
           bf == ctx.baseFee
           dynamic == bf \notin {None, 0} /\ ctx.tip # None
           Pays(x) == IF dynamic THEN GetDynamicGasPrice(x, bf) >= bf + ctx.tip
                      ELSE ctx.gasPrice # None /\ x.maxFee >= ctx.gasPrice
           K == {x \in ToSet(b) : x \in Intents \/ Pays(x)}
           r == Filter(b, K)
<1>1. /\ b \in Seq(Ops) /\ ctx \in Contexts(Ops, ChainFees)
      /\ bf \in ChainFees /\ ctx.tip \in ChainFees
      /\ bf = None <=> ctx.tip = None
  BY CtxIs DEF TypeOK
<1>2. FilterUnderpriced(ctx, Intents).batch = r
  <2>1. FilterUnderpriced(ctx, Intents) = [ctx EXCEPT !.batch = r]
    BY Zenon DEF FilterUnderpriced
  <2> HIDE DEF r
  <2> QED
    BY <1>1, <2>1 DEF Contexts
<1>3. op.maxFee \in Nat /\ op.maxTip \in Nat
  <2>1. op \in Ops
    BY <1>1, ToSetIs
  <2> QED
    BY <2>1, OpsAreValid
<1>4. op \in Intents \/ Pays(op)
  <2>1. CASE op \in Intents
    BY <2>1
  <2>2. CASE Offers(op) /\ dynamic
    <3>1. bf \in Nat /\ ctx.tip \in Nat
      BY <1>1, <2>2, NumbersAssumption DEF ChainFees
    <3>2. op.maxTip >= ctx.tip /\ op.maxFee >= bf + ctx.tip
      BY <2>2 DEF Offers
    <3>3. GetDynamicGasPrice(op, bf) >= bf + ctx.tip
      BY <1>3, <2>2, <3>1, <3>2 DEF GetDynamicGasPrice
    <3> QED
      BY <2>2, <3>3
  <2>3. CASE Offers(op) /\ ~ dynamic
    BY <1>1, <2>3 DEF Offers
  <2> QED
    BY <2>1, <2>2, <2>3
<1>5. op \in K
  BY <1>4
<1> HIDE DEF K
<1>6. ToSet(r) = ToSet(b) \cap K
  BY <1>1, FilterSet
<1> QED
  BY <1>2, <1>5, <1>6

\* Handler by handler: what leaves the batch is marked, is filtered out, or does
\* not fit.
LEMMA ConservedStep ==
  ASSUME TypeOK, Next
  PROVE  /\ Held(ctx') \subseteq Held(ctx)
         /\ Cardinality(Held(ctx')) = Len(ctx'.batch) + Len(ctx'.removal)
         /\ ToSet(ctx.removal) \subseteq ToSet(ctx'.removal)
         /\ \A i \in 1 .. Len(ctx.batch) :
                \/ ctx.batch[i] \in Held(ctx')
                \/ Underpriced /\ ctx.batch[i] \notin Intents /\ ~ Offers(ctx.batch[i])
                \/ GasLimit /\ GasOf(SubSeq(ctx.batch, 1, i)) >= MaxBatchGasLimit
<1> DEFINE b == ctx.batch
<1>1. ctx \in Contexts(Ops, ChainFees) /\ b \in Seq(Ops)
  BY CtxIs
<1>2. \A x \in Ops : x.gas \in Nat /\ x.prefund \in Int
  BY OpsAreValid
<1>3. \A i \in 1 .. Len(b) : b[i] \in ToSet(b)
  BY <1>1, ToSetIs
<1>4. \A d : ToSet(d.batch) \subseteq Held(d)
  BY DEF Held
<1>5. ASSUME NEW d \in Rebatched(Ops, ChainFees, ctx), ctx' = d
      PROVE  /\ Held(ctx') \subseteq Held(ctx)
             /\ Cardinality(Held(ctx')) = Len(ctx'.batch) + Len(ctx'.removal)
             /\ ToSet(ctx.removal) \subseteq ToSet(ctx'.removal)
  BY <1>5, ReducedHolds DEF Rebatched
<1>6. CASE ByGasPrice
  <2>1. ctx' = SortByGasPrice(ctx)
    BY <1>6 DEF ByGasPrice, Handle
  <2>2. SortByGasPrice(ctx) \in Rebatched(Ops, ChainFees, ctx) /\ ToSet(ctx'.batch) = ToSet(b)
    BY <1>1, <2>1, SortByGasPriceReduces
  <2> QED
    BY <1>3, <1>4, <1>5, <2>1, <2>2
<1>7. CASE Underpriced
  <2>1. ctx' = FilterUnderpriced(ctx, Intents)
    BY <1>7 DEF Underpriced, Handle
  <2>2. FilterUnderpriced(ctx, Intents) \in Rebatched(Ops, ChainFees, ctx)
    BY <1>1, FilterUnderpricedReduces
  <2>3. ASSUME NEW i \in 1 .. Len(b), b[i] \in Intents \/ Offers(b[i])
        PROVE  b[i] \in Held(ctx')
    BY <1>3, <1>4, <2>1, <2>3, OffersStay
  <2> QED
    BY <1>5, <1>7, <2>1, <2>2, <2>3
<1>8. CASE ByNonce
  <2>1. ctx' = SortByNonce(ctx)
    BY <1>8 DEF ByNonce, Handle
  <2>2. SortByNonce(ctx) \in Rebatched(Ops, ChainFees, ctx) /\ ToSet(ctx'.batch) = ToSet(b)
    BY <1>1, <2>1, SortByNonceReduces
  <2> QED
    BY <1>3, <1>4, <1>5, <2>1, <2>2
<1>9. CASE GasLimit
  <2>1. ctx' = MaintainGasLimit(ctx, MaxBatchGasLimit)
    BY <1>9 DEF GasLimit, Handle
  <2>2. MaintainGasLimit(ctx, MaxBatchGasLimit) \in Rebatched(Ops, ChainFees, ctx)
    BY <1>1, <1>2, NumbersAssumption, MaintainGasLimitReduces
  <2>3. ctx'.batch \in Seq(Ops)
    BY <2>1, <2>2 DEF Rebatched, Reduced, Contexts
  <2>4. ASSUME NEW i \in 1 .. Len(b)
        PROVE  b[i] \in Held(ctx') \/ GasOf(SubSeq(b, 1, i)) >= MaxBatchGasLimit
    <3>1. CASE i <= Len(ctx'.batch)
      <4>1. i \in 1 .. Len(ctx'.batch)
        BY <2>3, <3>1
      <4>2. IsPrefix(ctx'.batch, b)
        BY <1>9, LongestStep
      <4>3. ctx'.batch[i] = b[i]
        BY <1>1, <2>3, <4>1, <4>2 DEF IsPrefix
      <4>4. b[i] \in ToSet(ctx'.batch)
        BY <2>3, <4>1, <4>3, ToSetIs
      <4> QED
        BY <1>4, <4>4
    <3>2. CASE i > Len(ctx'.batch)
      <4>1. i \in Len(ctx'.batch) + 1 .. Len(b)
        BY <1>1, <2>3, <3>2
      <4> QED
        BY <1>9, <4>1, LongestStep
    <3> QED
      BY <1>1, <2>3, <3>1, <3>2
  <2> QED
    BY <1>5, <1>9, <2>1, <2>2, <2>4
<1>10. CASE Deposit
  <2>1. ctx' = PaymasterDeposit(ctx, deposit, Intents)
    BY <1>10 DEF Deposit, Handle
  <2>2. deposit \in [Paymasters -> Int]
    BY NumbersAssumption DEF TypeOK
  <2>3. ctx' \in Reduced(Ops, ChainFees, ctx)
    BY <1>1, <1>2, <2>1, <2>2, PaymasterDepositReduces
  <2>4. Held(ctx') = Held(ctx) /\ ToSet(ctx.removal) \subseteq ToSet(ctx'.removal)
    BY <1>1, <1>2, <2>1, <2>2, PaymasterDepositHolds
  <2>5. Cardinality(Held(ctx')) = Len(ctx'.batch) + Len(ctx'.removal)
    BY <2>3, ReducedHolds
  <2> QED
    BY <1>3, <1>4, <2>4, <2>5
<1> QED
  BY <1>6, <1>7, <1>8, <1>9, <1>10 DEF Next
-----------------------------------------------------------------------------
(* Theorems. *)

\* The first half of TypeCorrect.
LEMMA TypeInit == Init => TypeOK
<1>1. SUFFICES ASSUME Init PROVE TypeOK
  OBVIOUS
<1>2. PICK bf, tip, gp \in ChainFees :
        /\ bf = None <=> tip = None
        /\ ctx = NewBatchHandlerContext(AdjustBatchSize(MaxBatch, dumped), bf, tip, gp)
  BY <1>1 DEF Init, ChainFees
<1>3. dumped \in Dumps
  BY <1>1 DEF Init
<1>4. /\ ctx \in Contexts(Ops, ChainFees) /\ ctx.baseFee = bf /\ ctx.tip = tip /\ ctx.gasPrice = gp
  BY <1>2, <1>3, FirstIs
<1>5. ctx = First
  BY <1>2, <1>4 DEF First
<1>6. ctx \in Reduced(Ops, ChainFees, First)
  BY <1>4, <1>5, ReducedIs
<1> QED
  BY <1>1, <1>2, <1>4, <1>5, <1>6 DEF Init, TypeOK, NewBatchHandlerContext

\* Every handler keeps the type, and the ops of the dump.
LEMMA TypeStep ==
  ASSUME TypeOK, [Next]_vars
  PROVE  TypeOK'
<1>1. ctx \in Contexts(Ops, ChainFees)
  BY CtxIs
<1>2. \A x \in Ops : x.gas \in Nat /\ x.prefund \in Int
  BY OpsAreValid
<1>0. \A d \in Rebatched(Ops, ChainFees, ctx) :
            d \in Reduced(Ops, ChainFees, ctx) /\ d.removal = ctx.removal
  BY DEF Rebatched
<1>9. stage # "paid" => ctx.removal = <<>>
  BY DEF TypeOK
<1>3. CASE ByGasPrice
  <2>1. SortByGasPrice(ctx) \in Rebatched(Ops, ChainFees, ctx)
    BY <1>1, SortByGasPriceReduces
  <2>2. stage = "dumped" /\ Handle("dumped", "byGasPrice", SortByGasPrice(ctx))
    BY <1>3 DEF ByGasPrice, Handle
  <2> QED
    BY <1>0, <1>9, <2>1, <2>2, HandleKeepsType
<1>4. CASE Underpriced
  <2>1. FilterUnderpriced(ctx, Intents) \in Rebatched(Ops, ChainFees, ctx)
    BY <1>1, FilterUnderpricedReduces
  <2>2. stage = "byGasPrice" /\ Handle("byGasPrice", "filtered", FilterUnderpriced(ctx, Intents))
    BY <1>4 DEF Underpriced, Handle
  <2> QED
    BY <1>0, <1>9, <2>1, <2>2, HandleKeepsType
<1>5. CASE ByNonce
  <2>1. SortByNonce(ctx) \in Rebatched(Ops, ChainFees, ctx)
    BY <1>1, SortByNonceReduces
  <2>2. stage = "filtered" /\ Handle("filtered", "byNonce", SortByNonce(ctx))
    BY <1>5 DEF ByNonce, Handle
  <2> QED
    BY <1>0, <1>9, <2>1, <2>2, HandleKeepsType
<1>6. CASE GasLimit
  <2>1. MaintainGasLimit(ctx, MaxBatchGasLimit) \in Rebatched(Ops, ChainFees, ctx)
    BY <1>1, <1>2, NumbersAssumption, MaintainGasLimitReduces
  <2>2. stage = "byNonce" /\ Handle("byNonce", "limited", MaintainGasLimit(ctx, MaxBatchGasLimit))
    BY <1>6 DEF GasLimit, Handle
  <2> QED
    BY <1>0, <1>9, <2>1, <2>2, HandleKeepsType
<1>7. CASE Deposit
  <2>1. deposit \in [Paymasters -> Int]
    BY NumbersAssumption DEF TypeOK
  <2>2. PaymasterDeposit(ctx, deposit, Intents) \in Reduced(Ops, ChainFees, ctx)
    BY <1>1, <1>2, <2>1, PaymasterDepositReduces
  <2> QED
    BY <1>7, <2>2, HandleKeepsType DEF Deposit
<1>8. CASE UNCHANGED vars
  BY <1>8 DEF vars, TypeOK, First
<1> QED
  BY <1>3, <1>4, <1>5, <1>6, <1>7, <1>8 DEF Next

\* The context never holds more than the dump, nor an op twice, at any stage.
THEOREM TypeCorrect == Spec => []TypeOK
<1>1. TypeOK /\ [Next]_vars => TypeOK'
  BY TypeStep
<1> QED
  BY <1>1, TypeInit, PTL DEF Spec

\* From SortByGasPrice to PaymasterDeposit no op is copied or made up, and every
\* one that leaves the batch is marked for removal, offers too little or does not
\* fit under the gas limit, whatever the deposits, fees and limits are.
THEOREM Conserved == Spec => OpsAreConserved
<1> DEFINE A ==
        /\ ToSet(ctx'.batch) \union ToSet(ctx'.removal)
                \subseteq ToSet(ctx.batch) \union ToSet(ctx.removal)
        /\ Cardinality(ToSet(ctx'.batch) \union ToSet(ctx'.removal))
                = Len(ctx'.batch) + Len(ctx'.removal)
        /\ ToSet(ctx.removal) \subseteq ToSet(ctx'.removal)
        /\ \A i \in 1 .. Len(ctx.batch) :
            \/ ctx.batch[i] \in ToSet(ctx'.batch) \union ToSet(ctx'.removal)
            \/ Underpriced /\ ctx.batch[i] \notin Intents /\ ~ Offers(ctx.batch[i])
            \/ GasLimit /\ GasOf(SubSeq(ctx.batch, 1, i)) >= MaxBatchGasLimit
<1>1. TypeOK /\ Next => A
  BY ConservedStep DEF Held
<1> HIDE DEF A
<1>2. TypeOK /\ [Next]_vars => [A]_vars
  BY <1>1
<1>3. Spec => [][A]_vars
  BY <1>2, TypeCorrect, PTL DEF Spec
<1> QED
  BY <1>3 DEF OpsAreConserved, A

\* SortByGasPrice is stable, and dearer means what the op really pays.
THEOREM DearestFirst == Spec => []DearestFirstThenOldest
<1>1. Init => DearestFirstThenOldest
  BY DEF Init, DearestFirstThenOldest
<1>2. ASSUME TypeOK, DearestFirstThenOldest, [Next]_vars PROVE DearestFirstThenOldest'
  <2>1. CASE ByGasPrice
    BY <1>2, <2>1, DearestStep
  <2>2. CASE Underpriced \/ ByNonce \/ GasLimit \/ Deposit
    <3>1. stage' # "byGasPrice"
      BY <2>2 DEF Underpriced, ByNonce, GasLimit, Deposit, Handle
    <3> QED
      BY <3>1 DEF DearestFirstThenOldest
  <2>3. CASE UNCHANGED vars
    BY <1>2, <2>3 DEF vars, DearestFirstThenOldest, Price
  <2> QED
    BY <1>2, <2>1, <2>2, <2>3 DEF Next
<1>3. TypeOK /\ DearestFirstThenOldest /\ [Next]_vars => DearestFirstThenOldest'
  BY <1>2
<1> QED
  BY <1>1, <1>3, TypeCorrect, PTL DEF Spec

\* SortByNonce orders neighbours, whatever less says of ops of two senders.
THEOREM NeighboursOrdered == Spec => []NeighboursInNonceOrder
<1>1. Init => NeighboursInNonceOrder
  BY DEF Init, NeighboursInNonceOrder
<1>2. ASSUME TypeOK, NeighboursInNonceOrder, [Next]_vars PROVE NeighboursInNonceOrder'
  <2>1. CASE ByNonce
    BY <1>2, <2>1, NonceStep
  <2>2. CASE ByGasPrice \/ Underpriced \/ GasLimit \/ Deposit
    <3>1. stage' # "byNonce"
      BY <2>2 DEF Underpriced, ByGasPrice, GasLimit, Deposit, Handle
    <3> QED
      BY <3>1 DEF NeighboursInNonceOrder
  <2>3. CASE UNCHANGED vars
    BY <1>2, <2>3 DEF vars, NeighboursInNonceOrder
  <2> QED
    BY <1>2, <2>1, <2>2, <2>3 DEF Next
<1>3. TypeOK /\ NeighboursInNonceOrder /\ [Next]_vars => NeighboursInNonceOrder'
  BY <1>2
<1> QED
  BY <1>1, <1>3, TypeCorrect, PTL DEF Spec

\* MaintainGasLimit cuts where the sum of the gas first reaches the limit.
THEOREM Longest == Spec => LongestBatchUnderTheLimit
<1> DEFINE A == GasLimit =>
                /\ IsPrefix(ctx'.batch, ctx.batch)
                /\ GasOf(ctx'.batch) < MaxBatchGasLimit \/ ctx'.batch = <<>>
                /\ \A n \in Len(ctx'.batch) + 1 .. Len(ctx.batch) :
                    GasOf(SubSeq(ctx.batch, 1, n)) >= MaxBatchGasLimit
<1>1. TypeOK => A
  BY LongestStep
<1> HIDE DEF A
<1>2. TypeOK /\ [Next]_vars => [A]_vars
  BY <1>1
<1>3. Spec => [][A]_vars
  BY <1>2, TypeCorrect, PTL DEF Spec
<1> QED
  BY <1>3 DEF LongestBatchUnderTheLimit, A

\* SuggestMeanGasTipCap and SuggestMeanGasFeeCap agree for every batch whose
\* ops passed ValidateFeePerGas.
THEOREM Capped == Spec => []TipWithinFeeCap
<1>1. TypeOK => TipWithinFeeCap
  BY CapOverTip
<1> QED
  BY <1>1, TypeCorrect, PTL

\* PaymasterDeposit drops nothing as long as the deposits last, and then first
\* the op with which they do not.
THEOREM FirstDropped == Spec => FirstDropIsUnpaid
<1> DEFINE A == Deposit => /\ Unpaid = {} <=> ctx'.removal = <<>>
                           /\ Unpaid # {} => ctx'.removal[1] = ctx.batch[Min(Unpaid)]
<1>1. TypeOK => A
  BY FirstDropStep
<1> HIDE DEF A
<1>2. TypeOK /\ [Next]_vars => [A]_vars
  BY <1>1
<1>3. Spec => [][A]_vars
  BY <1>2, TypeCorrect, PTL DEF Spec
<1> QED
  BY <1>3 DEF FirstDropIsUnpaid, A
=============================================================================
