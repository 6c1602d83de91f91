------------------------- MODULE BatchHandlersProofs -------------------------
(***************************************************************************)
(* What the handlers of a bundler run do to its context, for any ops and   *)
(* any length of the batch.  A fold is a function defined by recursion, so *)
(* it comes with an induction: FoldExists and FoldType make it, from the   *)
(* least element of a set of naturals, for a set in place of a formula.    *)
(***************************************************************************)
EXTENDS BatchHandlers, FiniteSetTheorems, WellFoundedInduction, TLAPS

(* Induction. *)

\* A set of naturals that is not empty has a least element.
LEMMA Least ==
  ASSUME NEW T \in SUBSET Nat, T # {}
  PROVE  \E x \in T : \A y \in T : x <= y
<1> DEFINE R == OpToRel(<, Nat)
<1>1. \E x \in T : \A y \in T : ~ (<<y, x>> \in R)
  <2>1. IsWellFoundedOn(R, Nat)
    BY NatLessThanWellFounded
  <2> HIDE DEF R
  <2> QED
    BY <2>1, WFMin
<1>2. PICK x \in T : \A y \in T : ~ (<<y, x>> \in R)
  BY <1>1
<1>3. ASSUME NEW y \in T PROVE x <= y
  <2>1. <<y, x>> \notin {p \in Nat \X Nat : p[1] < p[2]}
    BY <1>2, Zenon DEF OpToRel
  <2> QED
    BY <2>1
<1> QED
  BY <1>2, <1>3

\* Induction on the naturals, for a set instead of a formula.
LEMMA Induct ==
  ASSUME NEW T, 0 \in T, \A n \in Nat : n \in T => n + 1 \in T
  PROVE  Nat \subseteq T
<1> DEFINE U == {n \in Nat : n \notin T}
<1>1. SUFFICES ASSUME U # {} PROVE FALSE
  OBVIOUS
<1>2. PICK x \in U : \A y \in U : x <= y
  BY <1>1, Least
<1>3. x - 1 \in Nat /\ x - 1 \notin U
  BY <1>2
<1> QED
  BY <1>3

\* Min chooses the least element, as the handlers that look for a first op rely on.
LEMMA MinOfSegment ==
  ASSUME NEW n \in Nat, NEW S \in SUBSET (1 .. n), S # {}
  PROVE  Min(S) \in S /\ \A y \in S : Min(S) <= y
<1>1. S \in SUBSET Nat
  OBVIOUS
<1>2. \E x \in S : \A y \in S : x <= y
  BY <1>1, Least
<1> QED
  BY <1>2 DEF Min

\* Max chooses the greatest element.
LEMMA MaxOfSegment ==
  ASSUME NEW n \in Nat, NEW S \in SUBSET (1 .. n), S # {}
  PROVE  Max(S) \in S /\ \A y \in S : Max(S) >= y
<1> DEFINE T == {i \in 0 .. n : n - i \in S}
<1>1. PICK i \in T : \A j \in T : i <= j
  <2>1. PICK x \in S : TRUE
    OBVIOUS
  <2>2. n - x \in T
    BY <2>1
  <2> QED
    BY <2>2, Least, T \in SUBSET Nat, T # {}
<1>2. ASSUME NEW y \in S PROVE n - i >= y
  <2>1. n - y \in T
    OBVIOUS
  <2> QED
    BY <1>1, <2>1
<1>3. \E x \in S : \A y \in S : x >= y
  BY <1>2
<1> QED
  BY <1>3 DEF Max


-----------------------------------------------------------------------------
(* Folds. *)

Closed(step, D, A) == \A i \in D : \A a \in A : step[i][a] \in A

\* The function a fold over the set D is made of.
IsFold(f, D, pick, A, base, step) ==
    /\ f \in [SUBSET D -> A]
    /\ f[{}] = base
    /\ \A S \in SUBSET D : S # {} => f[S] = step[pick[S]][f[S \ {pick[S]}]]

\* A fold that takes the elements of a finite set in the order of pick has a value.
LEMMA FoldExists ==
  ASSUME NEW D, IsFiniteSet(D), NEW pick, \A S \in SUBSET D : S # {} => pick[S] \in S,
         NEW A, NEW base \in A, NEW step, Closed(step, D, A)
  PROVE  \E f : IsFold(f, D, pick, A, base, step)
<1> DEFINE Upto(m) == {S \in SUBSET D : Cardinality(S) <= m}
           Rest(S) == S \ {pick[S]}
           Is(m, f) == /\ f \in [Upto(m) -> A]
                       /\ \A S \in Upto(m) : f[S] = IF S = {} THEN base ELSE step[pick[S]][f[Rest(S)]]
           T == {m \in Nat : \E f : Is(m, f)}
<1>1. ASSUME NEW S \in SUBSET D
      PROVE  /\ Cardinality(S) \in Nat /\ (Cardinality(S) = 0 <=> S = {})
             /\ Cardinality(S) <= Cardinality(D)
             /\ S # {} => /\ pick[S] \in S /\ Rest(S) \in SUBSET D
                          /\ Cardinality(Rest(S)) = Cardinality(S) - 1
  <2>1. IsFiniteSet(S) /\ Cardinality(S) <= Cardinality(D)
    BY FS_Subset
  <2>2. Cardinality(S) \in Nat /\ (Cardinality(S) = 0 <=> S = {})
    BY <2>1, FS_CardinalityType, FS_EmptySet
  <2>3. S # {} => Cardinality(Rest(S)) = Cardinality(S) - 1
    BY <2>1, FS_RemoveElement
  <2> QED
    BY <2>1, <2>2, <2>3
<1>2. 0 \in T
  <2> DEFINE g == [S \in Upto(0) |-> base]
  <2>1. ASSUME NEW S \in Upto(0) PROVE S = {}
    <3>1. S \in SUBSET D /\ Cardinality(S) <= 0
      OBVIOUS
    <3>2. Cardinality(S) \in Nat /\ (Cardinality(S) = 0 => S = {})
      <4> HIDE DEF Upto, Rest
      <4> QED
        BY <1>1, <3>1
    <3> QED
      BY <3>1, <3>2
  <2>2. Is(0, g)
    BY <2>1
  <2> HIDE DEF g, Is
  <2> QED
    BY <2>2
<1>3. ASSUME NEW m \in Nat, m \in T PROVE m + 1 \in T
  <2>1. PICK f : Is(m, f)
    BY <1>3
  <2> DEFINE g == [S \in Upto(m + 1) |-> IF S = {} THEN base
                                         ELSE step[pick[S]][f[Rest(S)]]]
  <2>2. ASSUME NEW S \in Upto(m + 1), S # {}
        PROVE  Rest(S) \in Upto(m) /\ Rest(S) \in Upto(m + 1) /\ f[Rest(S)] \in A /\ pick[S] \in D
    <3>1. Rest(S) \in Upto(m) /\ Rest(S) \in Upto(m + 1) /\ pick[S] \in D
      BY <1>1, <2>2
    <3> QED
      BY <2>1, <3>1
  <2>3. ASSUME NEW S \in Upto(m + 1)
        PROVE  g[S] \in A
    BY <2>2 DEF Closed
  <2>4. ASSUME NEW S \in Upto(m + 1), S # {}
        PROVE  g[S] = step[pick[S]][g[Rest(S)]]
    <3>1. Rest(S) \in Upto(m) /\ Rest(S) \in Upto(m + 1)
      BY <2>2, <2>4
    <3>2. f[Rest(S)] = IF Rest(S) = {} THEN base ELSE step[pick[Rest(S)]][f[Rest(Rest(S))]]
      BY <2>1, <3>1
    <3>3. g[Rest(S)] = f[Rest(S)]
      BY <3>1, <3>2
    <3> QED
      BY <3>3, <2>4
  <2>5. g[{}] = base
    BY <1>1
  <2>6. Is(m + 1, g)
    <3>1. g \in [Upto(m + 1) -> A]
      BY <2>3
    <3> HIDE DEF g, Upto, Rest
    <3> QED
      BY <2>4, <2>5, <3>1
  <2> HIDE DEF g, Is
  <2> QED
    BY <2>6
<1>4. Cardinality(D) \in T
  <2>1. Cardinality(D) \in Nat
    BY FS_CardinalityType
  <2> HIDE DEF T
  <2> QED
    BY <1>2, <1>3, <2>1, Induct
<1>5. PICK f : Is(Cardinality(D), f)
  <2> HIDE DEF Is
  <2> QED
    BY <1>4
<1>6. Upto(Cardinality(D)) = SUBSET D
  BY <1>1
<1>7. f \in [SUBSET D -> A] /\ f[{}] = base
  BY <1>5, <1>6
<1>8. \A S \in SUBSET D : S # {} => f[S] = step[pick[S]][f[S \ {pick[S]}]]
  BY <1>5, <1>6
<1> QED
  BY <1>7, <1>8 DEF IsFold

\* What holds of the base and is kept by a step holds of a fold.
LEMMA FoldType ==
  ASSUME NEW D, IsFiniteSet(D), NEW pick, \A S \in SUBSET D : S # {} => pick[S] \in S,
         NEW A, NEW f, f[{}] \in A,
         \A S \in SUBSET D : S # {} /\ f[S \ {pick[S]}] \in A => f[S] \in A
  PROVE  f[D] \in A
<1> DEFINE T == {m \in Nat : \A S \in SUBSET D : Cardinality(S) = m => f[S] \in A}
<1>1. ASSUME NEW S \in SUBSET D
      PROVE  /\ Cardinality(S) \in Nat /\ (Cardinality(S) = 0 <=> S = {})
             /\ S # {} => /\ S \ {pick[S]} \in SUBSET D
                          /\ Cardinality(S \ {pick[S]}) = Cardinality(S) - 1
  <2>1. IsFiniteSet(S)
    BY FS_Subset
  <2>2. Cardinality(S) \in Nat /\ (Cardinality(S) = 0 <=> S = {})
    BY <2>1, FS_CardinalityType, FS_EmptySet
  <2>3. S # {} => Cardinality(S \ {pick[S]}) = Cardinality(S) - 1
    BY <2>1, FS_RemoveElement
  <2> QED
    BY <2>2, <2>3
<1>2. 0 \in T
  BY <1>1
<1>3. ASSUME NEW m \in Nat, m \in T PROVE m + 1 \in T
  <2>1. ASSUME NEW S \in SUBSET D, Cardinality(S) = m + 1
        PROVE  f[S] \in A
    <3>1. S # {} /\ Cardinality(S \ {pick[S]}) = m /\ S \ {pick[S]} \in SUBSET D
      BY <1>1, <2>1
    <3>2. f[S \ {pick[S]}] \in A
      BY <1>3, <3>1
    <3> QED
      BY <3>1, <3>2
  <2> QED
    BY <2>1
<1>4. Cardinality(D) \in T
  <2>1. Cardinality(D) \in Nat
    BY <1>1
  <2> HIDE DEF T
  <2> QED
    BY <1>2, <1>3, <2>1, Induct
<1> QED
  BY <1>4

\* The functions FoldLeft and FoldRight are made of, over the places of a sequence.
IsFoldLeft(f, n, A, base, step) ==
    /\ f \in [SUBSET (1 .. n) -> A]
    /\ f[{}] = base
    /\ \A S \in SUBSET (1 .. n) : S # {} => f[S] = step[Max(S)][f[S \ {Max(S)}]]

IsFoldRight(f, n, A, base, step) ==
    /\ f \in [SUBSET (1 .. n) -> A]
    /\ f[{}] = base
    /\ \A S \in SUBSET (1 .. n) : S # {} => f[S] = step[Min(S)][f[S \ {Min(S)}]]

\* The fold that FoldLeft is made of has a value.
LEMMA FoldLeftExists ==
  ASSUME NEW n \in Nat, NEW A, NEW base \in A, NEW step, Closed(step, 1 .. n, A)
  PROVE  \E f : IsFoldLeft(f, n, A, base, step)
<1> DEFINE D == 1 .. n
           pick == [S \in SUBSET D |-> Max(S)]
<1>1. IsFiniteSet(D)
  BY FS_Interval
<1>2. \A S \in SUBSET D : S # {} => pick[S] \in S
  BY MaxOfSegment
<1>3. \A S \in SUBSET D : pick[S] = Max(S)
  OBVIOUS
<1> HIDE DEF D, pick
<1>4. PICK f : IsFold(f, D, pick, A, base, step)
  BY <1>1, <1>2, FoldExists DEF D
<1>5. \A S \in SUBSET D : S # {} => f[S] = step[Max(S)][f[S \ {Max(S)}]]
  BY <1>3, <1>4 DEF IsFold
<1> QED
  BY <1>4, <1>5 DEF D, IsFold, IsFoldLeft

\* So has the one that FoldRight is made of.
LEMMA FoldRightExists ==
  ASSUME NEW n \in Nat, NEW A, NEW base \in A, NEW step, Closed(step, 1 .. n, A)
  PROVE  \E f : IsFoldRight(f, n, A, base, step)
<1> DEFINE D == 1 .. n
           pick == [S \in SUBSET D |-> Min(S)]
<1>1. IsFiniteSet(D)
  BY FS_Interval
<1>2. \A S \in SUBSET D : S # {} => pick[S] \in S
  BY MinOfSegment
<1>3. \A S \in SUBSET D : pick[S] = Min(S)
  OBVIOUS
<1> HIDE DEF D, pick
<1>4. PICK f : IsFold(f, D, pick, A, base, step)
  BY <1>1, <1>2, FoldExists DEF D
<1>5. \A S \in SUBSET D : S # {} => f[S] = step[Min(S)][f[S \ {Min(S)}]]
  BY <1>3, <1>4 DEF IsFold
<1> QED
  BY <1>4, <1>5 DEF D, IsFold, IsFoldRight

\* What holds of the base and is kept by a step holds of a fold from the left,
LEMMA FoldLeftType ==
  ASSUME NEW n \in Nat, NEW A, NEW f, f[{}] \in A,
         \A S \in SUBSET (1 .. n) : S # {} /\ f[S \ {Max(S)}] \in A => f[S] \in A
  PROVE  f[1 .. n] \in A
<1> DEFINE D == 1 .. n
           pick == [S \in SUBSET D |-> Max(S)]
<1>1. IsFiniteSet(D)
  BY FS_Interval
<1>2. \A S \in SUBSET D : S # {} => pick[S] \in S
  BY MaxOfSegment
<1>3. \A S \in SUBSET D : pick[S] = Max(S)
  OBVIOUS
<1>4. f[{}] \in A /\ \A S \in SUBSET D : S # {} /\ f[S \ {pick[S]}] \in A => f[S] \in A
  BY <1>3
<1> HIDE DEF D, pick
<1>5. f[D] \in A
  BY ONLY <1>1, <1>2, <1>4, FoldType
<1> QED
  BY <1>5 DEF D

\* and of a fold from the right.
LEMMA FoldRightType ==
  ASSUME NEW n \in Nat, NEW A, NEW f, f[{}] \in A,
         \A S \in SUBSET (1 .. n) : S # {} /\ f[S \ {Min(S)}] \in A => f[S] \in A
  PROVE  f[1 .. n] \in A
<1> DEFINE D == 1 .. n
           pick == [S \in SUBSET D |-> Min(S)]
<1>1. IsFiniteSet(D)
  BY FS_Interval
<1>2. \A S \in SUBSET D : S # {} => pick[S] \in S
  BY MinOfSegment
<1>3. \A S \in SUBSET D : pick[S] = Min(S)
  OBVIOUS
<1>4. f[{}] \in A /\ \A S \in SUBSET D : S # {} /\ f[S \ {pick[S]}] \in A => f[S] \in A
  BY <1>3
<1> HIDE DEF D, pick
<1>5. f[D] \in A
  BY ONLY <1>1, <1>2, <1>4, FoldType
<1> QED
  BY <1>5 DEF D
\* What a fold from the left does at each place.
IsWalk(f, n, A, base, step) ==
    /\ f \in [0 .. n -> A]
    /\ f[0] = base
    /\ \A i \in 1 .. n : f[i] = step[i][f[i - 1]]

\* The function f that FoldLeft chooses goes by these steps where it is in A.
GoesBy(f, n, A, base, step) ==
    /\ f[{}] = base
    /\ \A S \in SUBSET (1 .. n) :
            S # {} /\ f[S \ {Max(S)}] \in A => f[S] = step[Max(S)][f[S \ {Max(S)}]]

\* A fold ends where the walk does that takes its steps one by one.
LEMMA WalkOfFold ==
  ASSUME NEW n \in Nat, NEW A, NEW base \in A, NEW step, Closed(step, 1 .. n, A),
         NEW f, GoesBy(f, n, A, base, step)
  PROVE  \E w : IsWalk(w, n, A, base, step) /\ w[n] = f[1 .. n]
<1> DEFINE w == [i \in 0 .. n |-> f[1 .. i]]
           T == {i \in Nat : i <= n => f[1 .. i] \in A}
<1>1. ASSUME NEW i \in 1 .. n
      PROVE  /\ 1 .. i \in SUBSET (1 .. n) /\ 1 .. i # {} /\ Max(1 .. i) = i
             /\ (1 .. i) \ {Max(1 .. i)} = 1 .. i - 1
  <2>1. 1 .. i \in SUBSET (1 .. n) /\ i \in 1 .. i
    OBVIOUS
  <2>2. Max(1 .. i) \in 1 .. i /\ Max(1 .. i) >= i
    BY <2>1, MaxOfSegment
  <2>3. Max(1 .. i) = i
    BY <2>2
  <2>4. (1 .. i) \ {i} = 1 .. i - 1
    OBVIOUS
  <2> QED
    BY <2>1, <2>3, <2>4
<1>2. ASSUME NEW i \in 1 .. n, f[1 .. i - 1] \in A
      PROVE  f[1 .. i] = step[i][f[1 .. i - 1]] /\ f[1 .. i] \in A
  <2>1. f[1 .. i] = step[Max(1 .. i)][f[(1 .. i) \ {Max(1 .. i)}]]
    BY <1>1, <1>2 DEF GoesBy
  <2>2. f[1 .. i] = step[i][f[1 .. i - 1]]
    BY <1>1, <2>1
  <2> QED
    BY <1>2, <2>2 DEF Closed
<1>3. 0 \in T
  <2>1. 1 .. 0 = {}
    OBVIOUS
  <2> QED
    BY <2>1 DEF GoesBy
<1>4. ASSUME NEW i \in Nat, i \in T PROVE i + 1 \in T
  <2>1. ASSUME i + 1 <= n PROVE f[1 .. i + 1] \in A
    <3>1. i + 1 \in 1 .. n /\ f[1 .. (i + 1) - 1] \in A
      BY <1>4, <2>1
    <3> QED
      BY <1>2, <3>1
  <2> QED
    BY <2>1
<1>5. \A i \in 0 .. n : f[1 .. i] \in A
  <2>1. Nat \subseteq T
    <3> HIDE DEF T
    <3> QED
      BY <1>3, <1>4, Induct
  <2> QED
    BY <2>1
<1>6. w \in [0 .. n -> A] /\ w[n] = f[1 .. n]
  BY <1>5
<1>7. w[0] = base
  <2>1. 1 .. 0 = {}
    OBVIOUS
  <2> QED
    BY <2>1 DEF GoesBy
<1>8. ASSUME NEW i \in 1 .. n PROVE w[i] = step[i][w[i - 1]]
  <2>1. i \in 0 .. n /\ i - 1 \in 0 .. n
    OBVIOUS
  <2>2. w[i] = f[1 .. i] /\ w[i - 1] = f[1 .. i - 1]
    BY <2>1
  <2> QED
    BY <1>2, <1>5, <2>1, <2>2
<1> HIDE DEF w
<1> QED
  BY <1>6, <1>7, <1>8 DEF IsWalk

\* Induction along a walk.
LEMMA WalkKeeps ==
  ASSUME NEW n \in Nat, NEW A, NEW base, NEW step, NEW w, IsWalk(w, n, A, base, step),
         NEW Good, base \in Good[0],
         \A i \in 1 .. n : \A a \in A : a \in Good[i - 1] => step[i][a] \in Good[i]
  PROVE  \A i \in 0 .. n : w[i] \in A /\ w[i] \in Good[i]
<1> DEFINE T == {i \in Nat : i <= n => w[i] \in Good[i]}
<1>1. 0 \in T
  BY DEF IsWalk
<1>2. ASSUME NEW i \in Nat, i \in T PROVE i + 1 \in T
  <2>1. ASSUME i + 1 <= n PROVE w[i + 1] \in Good[i + 1]
    <3>1. i + 1 \in 1 .. n /\ i \in 0 .. n /\ (i + 1) - 1 = i
      BY <2>1
    <3>2. w[i] \in A /\ w[i] \in Good[i] /\ w[i + 1] = step[i + 1][w[i]]
      BY <1>2, <3>1 DEF IsWalk
    <3> QED
      BY <3>1, <3>2
  <2> QED
    BY <2>1
<1>3. Nat \subseteq T
  <2> HIDE DEF T
  <2> QED
    BY <1>1, <1>2, Induct
<1> QED
  BY <1>3 DEF IsWalk
-----------------------------------------------------------------------------
(* Sequences. *)

Distinct(s) == \A i, j \in 1 .. Len(s) : s[i] = s[j] => i = j

\* The elements of a sequence.
LEMMA ToSetIs ==
  ASSUME NEW S, NEW s \in Seq(S)
  PROVE  /\ ToSet(s) \subseteq S
         /\ \A i \in 1 .. Len(s) : s[i] \in ToSet(s)
         /\ \A x \in ToSet(s) : \E i \in 1 .. Len(s) : s[i] = x
BY DEF ToSet

\* What s \o t is made of.
LEMMA ConcatIs ==
  ASSUME NEW S, NEW s \in Seq(S), NEW t \in Seq(S)
  PROVE  /\ s \o t \in Seq(S)
         /\ Len(s \o t) = Len(s) + Len(t)
         /\ \A i \in 1 .. Len(s) : (s \o t)[i] = s[i]
         /\ \A i \in 1 .. Len(t) : (s \o t)[Len(s) + i] = t[i]
OBVIOUS

\* What RemoveAt leaves, and where.
LEMMA RemoveAtIs ==
  ASSUME NEW S, NEW s \in Seq(S), NEW i \in 1 .. Len(s)
  PROVE  /\ RemoveAt(s, i) \in Seq(S)
         /\ Len(RemoveAt(s, i)) = Len(s) - 1
         /\ \A j \in 1 .. Len(s) - 1 : RemoveAt(s, i)[j] = IF j < i THEN s[j] ELSE s[j + 1]
<1> DEFINE u == SubSeq(s, 1, i - 1)
           v == SubSeq(s, i + 1, Len(s))
<1>1. u \in Seq(S) /\ Len(u) = i - 1 /\ \A j \in 1 .. i - 1 : u[j] = s[j]
  OBVIOUS
<1>2. v \in Seq(S) /\ Len(v) = Len(s) - i /\ \A j \in 1 .. Len(s) - i : v[j] = s[i + j]
  OBVIOUS
<1> HIDE DEF u, v
<1>3. u \o v \in Seq(S) /\ Len(u \o v) = Len(s) - 1
  BY <1>1, <1>2
<1>4. ASSUME NEW j \in 1 .. Len(s) - 1
      PROVE  (u \o v)[j] = IF j < i THEN s[j] ELSE s[j + 1]
  BY <1>1, <1>2
<1> QED
  BY <1>3, <1>4 DEF RemoveAt, u, v

\* An element leaves, and no other comes or goes.
LEMMA RemoveAtSet ==
  ASSUME NEW S, NEW s \in Seq(S), NEW i \in 1 .. Len(s)
  PROVE  /\ ToSet(RemoveAt(s, i)) \subseteq ToSet(s)
         /\ ToSet(RemoveAt(s, i)) \union {s[i]} = ToSet(s)
         /\ Distinct(s) => /\ Distinct(RemoveAt(s, i))
                           /\ s[i] \notin ToSet(RemoveAt(s, i))
<1> DEFINE r == RemoveAt(s, i)
<1>1. r \in Seq(S) /\ Len(r) = Len(s) - 1
  BY RemoveAtIs
<1>2. \A j \in 1 .. Len(s) - 1 : (r[j] = s[j] /\ j < i) \/ (r[j] = s[j + 1] /\ j >= i)
  BY RemoveAtIs
<1> HIDE DEF r
<1>3. ASSUME NEW x \in ToSet(r) PROVE \E k \in 1 .. Len(s) : k # i /\ s[k] = x
  <2>1. PICK j \in 1 .. Len(r) : r[j] = x
    BY <1>1, ToSetIs
  <2>2. j \in 1 .. Len(s) - 1 /\ j \in 1 .. Len(s) /\ j + 1 \in 1 .. Len(s) /\ i \in Int
    BY <1>1
  <2>3. (s[j] = x /\ j < i) \/ (s[j + 1] = x /\ j >= i)
    BY <1>2, <2>1, <2>2
  <2> QED
    BY <2>2, <2>3
<1>4. ToSet(r) \subseteq ToSet(s)
  BY <1>3, ToSetIs
<1>5. ASSUME Distinct(s) PROVE Distinct(r)
  <2>1. ASSUME NEW j \in 1 .. Len(r), NEW k \in 1 .. Len(r), r[j] = r[k]
        PROVE  j = k
    BY <1>1, <1>2, <1>5, <2>1, j \in 1 .. Len(s) - 1, k \in 1 .. Len(s) - 1 DEF Distinct
  <2> QED
    BY <2>1 DEF Distinct
<1>6. ASSUME Distinct(s) PROVE s[i] \notin ToSet(r)
  BY <1>3, <1>6 DEF Distinct
<1>7. ASSUME NEW x \in ToSet(s), x # s[i] PROVE x \in ToSet(r)
  <2>1. PICK k \in 1 .. Len(s) : s[k] = x
    BY ToSetIs
  <2>2. CASE k < i
    <3>1. k \in 1 .. Len(s) - 1 /\ k \in 1 .. Len(r) /\ r[k] = s[k]
      BY <1>1, <2>2, RemoveAtIs DEF r
    <3> QED
      BY <1>1, <2>1, <3>1, ToSetIs
  <2>3. CASE k > i
    <3>1. k - 1 \in 1 .. Len(s) - 1 /\ k - 1 \in 1 .. Len(r)
      BY <1>1, <2>3
    <3>2. (k - 1) + 1 = k /\ ~ (k - 1 < i)
      BY <2>3
    <3>3. r[k - 1] = s[k]
      BY <1>2, <3>1, <3>2
    <3> QED
      BY <1>1, <2>1, <3>1, <3>3, ToSetIs
  <2> QED
    BY <1>7, <2>1, <2>2, <2>3
<1>8. s[i] \in ToSet(s)
  BY ToSetIs
<1> QED
  BY <1>4, <1>5, <1>6, <1>7, <1>8 DEF r

\* Append adds its element and no other.
LEMMA AppendSet ==
  ASSUME NEW S, NEW s \in Seq(S), NEW x \in S
  PROVE  /\ Append(s, x) \in Seq(S)
         /\ ToSet(Append(s, x)) = ToSet(s) \union {x}
         /\ Distinct(s) /\ x \notin ToSet(s) => Distinct(Append(s, x))
<1> DEFINE r == Append(s, x)
<1>1. r \in Seq(S) /\ Len(r) = Len(s) + 1 /\ r[Len(s) + 1] = x
      /\ \A j \in 1 .. Len(s) : r[j] = s[j]
  OBVIOUS
<1> HIDE DEF r
<1>2. ToSet(r) = ToSet(s) \union {x}
  <2>1. ASSUME NEW y \in ToSet(r) PROVE y \in ToSet(s) \union {x}
    <3>1. PICK j \in 1 .. Len(r) : r[j] = y
      BY <1>1, ToSetIs
    <3>2. j = Len(s) + 1 \/ j \in 1 .. Len(s)
      BY <1>1
    <3> QED
      BY <1>1, <3>1, <3>2, ToSetIs
  <2>2. ASSUME NEW y \in ToSet(s) PROVE y \in ToSet(r)
    <3>1. PICK j \in 1 .. Len(s) : s[j] = y
      BY ToSetIs
    <3>2. j \in 1 .. Len(r) /\ r[j] = y
      BY <1>1, <3>1
    <3> QED
      BY <1>1, <3>2, ToSetIs
  <2>3. x \in ToSet(r)
    <3>1. Len(s) + 1 \in 1 .. Len(r)
      BY <1>1
    <3> QED
      BY <1>1, <3>1, ToSetIs
  <2> QED
    BY <2>1, <2>2, <2>3
<1>3. ASSUME Distinct(s), x \notin ToSet(s) PROVE Distinct(r)
  <2>1. \A j \in 1 .. Len(s) : s[j] # x
    BY <1>3, ToSetIs
  <2> QED
    BY <1>1, <1>3, <2>1 DEF Distinct
<1> QED
  BY <1>1, <1>2, <1>3 DEF r

\* A sequence without repetitions is as long as its set is large.
LEMMA CountDistinct ==
  ASSUME NEW S, NEW s \in Seq(S), Distinct(s)
  PROVE  IsFiniteSet(ToSet(s)) /\ Cardinality(ToSet(s)) = Len(s)
<1>1. Len(s) \in Nat /\ s \in [1 .. Len(s) -> ToSet(s)]
  BY ToSetIs
<1>2. s \in Bijection(1 .. Len(s), ToSet(s))
  <2>1. s \in Injection(1 .. Len(s), ToSet(s))
    BY <1>1 DEF Distinct, Injection, IsInjective
  <2>2. s \in Surjection(1 .. Len(s), ToSet(s))
    BY <1>1, ToSetIs DEF Surjection
  <2> QED
    BY <2>1, <2>2 DEF Bijection
<1>3. ExistsBijection(1 .. Len(s), ToSet(s))
  BY <1>2 DEF ExistsBijection
<1>4. IsFiniteSet(1 .. Len(s)) /\ Cardinality(1 .. Len(s)) = Len(s)
  <2>1. 1 \in Int /\ Len(s) \in Int
    BY <1>1
  <2>2. /\ IsFiniteSet(1 .. Len(s))
        /\ Cardinality(1 .. Len(s)) = IF 1 > Len(s) THEN 0 ELSE Len(s) - 1 + 1
    BY ONLY <2>1, FS_Interval, Zenon
  <2> DEFINE n == Len(s)
             m == Cardinality(1 .. n)
  <2>3. n \in Nat /\ m = IF 1 > n THEN 0 ELSE n - 1 + 1
    BY <1>1, <2>2
  <2> HIDE DEF n, m
  <2>4. m = n
    BY <2>3
  <2> QED
    BY <2>2, <2>4 DEF m, n
<1> QED
  BY <1>3, <1>4, FS_Bijection
-----------------------------------------------------------------------------
(* Contexts. *)

\* A context over the ops of S, with fees of F.
Contexts(S, F) == [batch : Seq(S), removal : Seq(S), baseFee : F, tip : F, gasPrice : F]

\* The ops a context holds, and that it holds none of them twice.
Held(c) == ToSet(c.batch) \union ToSet(c.removal)
Once(c) == /\ Distinct(c.batch) /\ Distinct(c.removal)
           /\ ToSet(c.batch) \cap ToSet(c.removal) = {}

\* A context that holds no op twice holds as many as its two lists have places.
LEMMA HeldCount ==
  ASSUME NEW S, NEW F, NEW c \in Contexts(S, F), Once(c)
  PROVE  Cardinality(Held(c)) = Len(c.batch) + Len(c.removal)
<1>1. c.batch \in Seq(S) /\ c.removal \in Seq(S)
  BY DEF Contexts
<1>2. /\ Distinct(c.batch) /\ Distinct(c.removal)
      /\ ToSet(c.batch) \cap ToSet(c.removal) = {}
  BY DEF Once
<1>3. /\ IsFiniteSet(ToSet(c.batch)) /\ Cardinality(ToSet(c.batch)) = Len(c.batch)
      /\ IsFiniteSet(ToSet(c.removal)) /\ Cardinality(ToSet(c.removal)) = Len(c.removal)
  BY <1>1, <1>2, CountDistinct
<1>4. Cardinality(Held(c)) = Len(c.batch) + Len(c.removal) - Cardinality({})
  BY <1>2, <1>3, FS_Union DEF Held
<1>5. Cardinality({}) = 0 /\ Len(c.batch) \in Nat /\ Len(c.removal) \in Nat
  BY <1>1, FS_EmptySet
<1> DEFINE p == Len(c.batch)
           q == Len(c.removal)
           z == Cardinality({})
           h == Cardinality(Held(c))
<1> HIDE DEF p, q, z, h
<1>6. h = p + q - z /\ z = 0 /\ p \in Nat /\ q \in Nat
  BY <1>4, <1>5 DEF p, q, z, h
<1>7. h = p + q
  BY <1>6
<1> QED
  BY <1>7 DEF p, q, h

\* What a handler may make of the context c: it moves and drops ops.
Reduced(S, F, c) ==
    {d \in Contexts(S, F) :
        /\ Held(d) \subseteq Held(c)
        /\ Once(c) => Once(d)
        /\ d.baseFee = c.baseFee /\ d.tip = c.tip /\ d.gasPrice = c.gasPrice}

\* A reduced context holds no more ops than before, and none of them twice.
LEMMA ReducedIs ==
  ASSUME NEW S, NEW F, NEW c \in Contexts(S, F)
  PROVE  /\ c \in Reduced(S, F, c)
         /\ \A d \in Reduced(S, F, c) :
                /\ d \in Contexts(S, F) /\ d.batch \in Seq(S) /\ d.removal \in Seq(S)
                /\ Held(d) \subseteq Held(c) /\ (Once(c) => Once(d))
                /\ Reduced(S, F, d) \subseteq Reduced(S, F, c)
BY DEF Reduced, Contexts

\* What a handler that marks nothing may make of c.
Rebatched(S, F, c) == {d \in Reduced(S, F, c) : d.removal = c.removal}

\* A handler that only moves or leaves out ops of the batch reduces the context.
LEMMA BatchReduces ==
  ASSUME NEW S, NEW F, NEW c \in Contexts(S, F), NEW b \in Seq(S),
         ToSet(b) \subseteq ToSet(c.batch), Distinct(c.batch) => Distinct(b)
  PROVE  [c EXCEPT !.batch = b] \in Rebatched(S, F, c)
<1> DEFINE e == [c EXCEPT !.batch = b]
<1>1. /\ e \in Contexts(S, F) /\ e.batch = b /\ e.removal = c.removal
      /\ e.baseFee = c.baseFee /\ e.tip = c.tip /\ e.gasPrice = c.gasPrice
  BY DEF Contexts
<1> HIDE DEF e
<1> QED
  BY <1>1 DEF Rebatched, Reduced, Held, Once, e

\* MarkOpIndexForRemoval reduces the context, whatever the index (modules/context.go:53).
LEMMA MarkReduces ==
  ASSUME NEW S, NEW F, NEW c \in Contexts(S, F), NEW i \in Int
  PROVE  MarkOpIndexForRemoval(c, i) \in Reduced(S, F, c)
<1>1. CASE i \notin 0 .. Len(c.batch) - 1
  BY <1>1, ReducedIs DEF MarkOpIndexForRemoval
<1>2. CASE i \in 0 .. Len(c.batch) - 1
  <2> DEFINE b == RemoveAt(c.batch, i + 1)
             x == c.batch[i + 1]
             r == Append(c.removal, x)
             e == [c EXCEPT !.batch = b, !.removal = r]
  <2>1. c.batch \in Seq(S) /\ c.removal \in Seq(S) /\ i + 1 \in 1 .. Len(c.batch)
    BY <1>2 DEF Contexts
  <2>2. x \in S /\ x \in ToSet(c.batch)
    BY <2>1, ToSetIs
  <2> HIDE DEF x
  <2>3. /\ b \in Seq(S) /\ ToSet(b) \subseteq ToSet(c.batch)
        /\ Distinct(c.batch) => Distinct(b) /\ x \notin ToSet(b)
    BY <2>1, RemoveAtIs, RemoveAtSet DEF x
  <2>4. /\ r \in Seq(S) /\ ToSet(r) = ToSet(c.removal) \union {x}
        /\ Distinct(c.removal) /\ x \notin ToSet(c.removal) => Distinct(r)
    BY <2>1, <2>2, AppendSet
  <2> HIDE DEF b, r
  <2>5. /\ e \in Contexts(S, F) /\ e.batch = b /\ e.removal = r
        /\ e.baseFee = c.baseFee /\ e.tip = c.tip /\ e.gasPrice = c.gasPrice
    BY <2>3, <2>4 DEF Contexts
  <2>6. MarkOpIndexForRemoval(c, i) = e
    BY <1>2 DEF MarkOpIndexForRemoval, b, r, x
  <2> HIDE DEF e
  <2>7. Held(e) \subseteq Held(c)
    BY <2>2, <2>3, <2>4, <2>5 DEF Held
  <2>8. Once(c) => Once(e)
    BY <2>2, <2>3, <2>4, <2>5 DEF Once
  <2> QED
    BY <2>5, <2>6, <2>7, <2>8 DEF Reduced
<1> QED
  BY <1>1, <1>2

\* A marked op is still held.
LEMMA MarkHolds ==
  ASSUME NEW S, NEW F, NEW c \in Contexts(S, F), NEW i \in Int
  PROVE  Held(MarkOpIndexForRemoval(c, i)) = Held(c)
<1>1. CASE i \notin 0 .. Len(c.batch) - 1
  BY <1>1 DEF MarkOpIndexForRemoval
<1>2. CASE i \in 0 .. Len(c.batch) - 1
  <2> DEFINE b == RemoveAt(c.batch, i + 1)
             x == c.batch[i + 1]
             r == Append(c.removal, x)
             e == [c EXCEPT !.batch = b, !.removal = r]
  <2>1. c.batch \in Seq(S) /\ c.removal \in Seq(S) /\ i + 1 \in 1 .. Len(c.batch)
    BY <1>2 DEF Contexts
  <2>2. ToSet(b) \union {x} = ToSet(c.batch)
    BY <2>1, RemoveAtSet
  <2>3. ToSet(r) = ToSet(c.removal) \union {x}
    BY <2>1, AppendSet, ToSetIs
  <2> HIDE DEF x
  <2>6. b \in Seq(S) /\ r \in Seq(S)
    BY <2>1, RemoveAtIs, ToSetIs, AppendSet DEF x
  <2> HIDE DEF b, r
  <2>4. e.batch = b /\ e.removal = r
    BY <2>6 DEF Contexts
  <2>5. MarkOpIndexForRemoval(c, i) = e
    BY <1>2 DEF MarkOpIndexForRemoval, b, r, x
  <2> HIDE DEF e
  <2> QED
    BY <2>2, <2>3, <2>4, <2>5 DEF Held
<1> QED
  BY <1>1, <1>2

\* What was marked before stays marked.
LEMMA MarkLists ==
  ASSUME NEW S, NEW F, NEW c \in Contexts(S, F), NEW i \in Int
  PROVE  ToSet(c.removal) \subseteq ToSet(MarkOpIndexForRemoval(c, i).removal)
<1>1. CASE i \notin 0 .. Len(c.batch) - 1
  BY <1>1 DEF MarkOpIndexForRemoval
<1>2. CASE i \in 0 .. Len(c.batch) - 1
  <2> DEFINE x == c.batch[i + 1]
             r == Append(c.removal, x)
  <2>1. c.batch \in Seq(S) /\ c.removal \in Seq(S) /\ x \in S
    BY <1>2 DEF Contexts
  <2>2. MarkOpIndexForRemoval(c, i).removal = r
    BY <1>2 DEF MarkOpIndexForRemoval, Contexts
  <2> HIDE DEF x
  <2>3. ToSet(r) = ToSet(c.removal) \union {x}
    BY <2>1, AppendSet
  <2> QED
    BY <2>2, <2>3
<1> QED
  BY <1>1, <1>2

\* DropExpired and CodeHashes.
LEMMA MarkFromTheEndReduces ==
  ASSUME NEW S, NEW F, NEW c \in Contexts(S, F), NEW drop
  PROVE  MarkFromTheEnd(c, drop) \in Reduced(S, F, c)
<1> DEFINE n == Len(c.batch)
           A == Reduced(S, F, c)
           at(x) == Indices(c.batch)[x]
           Visit(i, d) == IF d.batch[i + 1] \in drop THEN MarkOpIndexForRemoval(d, i) ELSE d
           step == [x \in 1 .. n |-> [d \in A |-> Visit(at(x), d)]]
           Fold(f) == [T \in SUBSET (DOMAIN Indices(c.batch)) |->
                        IF T = {} THEN c ELSE Visit(at(Min(T)), f[T \ {Min(T)}])]
           f == CHOOSE f : f = Fold(f)
<1>1. MarkFromTheEnd(c, drop) = f[DOMAIN Indices(c.batch)]
  BY Zenon DEF MarkFromTheEnd, FoldRight, MapThenFoldSet
<1>2. n \in Nat /\ DOMAIN Indices(c.batch) = 1 .. n /\ \A x \in 1 .. n : at(x) \in Int
  BY DEF Indices, Contexts
<1>3. \A T \in SUBSET (1 .. n) : T # {} => Min(T) \in 1 .. n
  BY <1>2, MinOfSegment
<1>4. c \in A /\ \A i \in Int : \A d \in A : Visit(i, d) \in A
  BY MarkReduces, ReducedIs
<1> HIDE DEF n, A, Visit, at
<1>5. \E g : g = Fold(g)
  <2>1. Closed(step, 1 .. n, A)
    BY <1>2, <1>4 DEF Closed
  <2> HIDE DEF step
  <2>2. PICK g : IsFoldRight(g, n, A, c, step)
    BY <1>2, <1>4, <2>1, FoldRightExists
  <2>3. ASSUME NEW T \in SUBSET (1 .. n), T # {}
        PROVE  g[T] = Visit(at(Min(T)), g[T \ {Min(T)}])
    BY <1>3, <2>2, <2>3 DEF step, IsFoldRight
  <2>4. g = Fold(g)
    BY <1>2, <2>2, <2>3 DEF IsFoldRight
  <2> QED
    BY <2>4
<1>6. f = Fold(f)
  <2> HIDE DEF Fold
  <2> QED
    BY <1>5
<1> HIDE DEF f
<1>7. f[{}] \in A
  BY <1>4, <1>6
<1>8. ASSUME NEW T \in SUBSET (1 .. n), T # {}, f[T \ {Min(T)}] \in A
      PROVE  f[T] \in A
  <2>1. f[T] = Visit(at(Min(T)), f[T \ {Min(T)}])
    BY <1>2, <1>6, <1>8
  <2>2. at(Min(T)) \in Int
    BY <1>2, <1>3, <1>8
  <2> QED
    BY <1>4, <1>8, <2>1, <2>2
<1>9. f[1 .. n] \in A
  BY <1>2, <1>7, <1>8, FoldRightType
<1> QED
  BY <1>1, <1>2, <1>9 DEF A
-----------------------------------------------------------------------------
(* The order of a batch. *)

\* The place Insert gives to x.
Place(s, x, less) ==
    LET stops == {i \in 1 .. Len(s) : ~ less[x][s[i]]}
    IN  (IF stops = {} THEN 0 ELSE Max(stops)) + 1

\* Where the insertion sort of SliceStable puts an element, and what is around it.
LEMMA InsertIs ==
  ASSUME NEW S, NEW s \in Seq(S), NEW x \in S, NEW less
  PROVE  /\ Place(s, x, less) \in 1 .. Len(s) + 1
         /\ Place(s, x, less) > 1 => ~ less[x][s[Place(s, x, less) - 1]]
         /\ \A i \in 1 .. Len(s) : i >= Place(s, x, less) => less[x][s[i]]
         /\ Insert(s, x, less) \in Seq(S)
         /\ Len(Insert(s, x, less)) = Len(s) + 1
         /\ \A i \in 1 .. Len(s) + 1 :
                Insert(s, x, less)[i] = IF i < Place(s, x, less) THEN s[i]
                                        ELSE IF i = Place(s, x, less) THEN x ELSE s[i - 1]
<1> DEFINE stops == {i \in 1 .. Len(s) : ~ less[x][s[i]]}
           k == Place(s, x, less)
<1>1. /\ k \in 1 .. Len(s) + 1
      /\ k > 1 => ~ less[x][s[k - 1]]
      /\ \A i \in 1 .. Len(s) : i >= k => less[x][s[i]]
  <2>1. CASE stops = {}
    <3>1. k = 1
      BY <2>1 DEF Place
    <3> QED
      BY <2>1, <3>1
  <2>2. CASE stops # {}
    <3>1. Max(stops) \in stops /\ \A y \in stops : Max(stops) >= y
      <4>1. stops \in SUBSET (1 .. Len(s)) /\ Len(s) \in Nat
        OBVIOUS
      <4> HIDE DEF stops
      <4> QED
        BY <2>2, <4>1, MaxOfSegment
    <3>2. k = Max(stops) + 1
      BY <2>2 DEF Place
    <3> HIDE DEF k
    <3>3. ASSUME NEW i \in 1 .. Len(s), i >= k PROVE less[x][s[i]]
      <4>1. i \notin stops
        <5> HIDE DEF stops
        <5>1. Max(stops) \in Nat
          BY <3>1 DEF stops
        <5> QED
          BY <3>1, <3>2, <3>3, <5>1
      <4> QED
        BY <4>1
    <3>4. Max(stops) \in 1 .. Len(s) /\ ~ less[x][s[Max(stops)]]
      BY <3>1
    <3>5. k \in 1 .. Len(s) + 1 /\ k - 1 = Max(stops)
      BY <3>2, <3>4
    <3> HIDE DEF stops
    <3> QED
      BY <3>3, <3>4, <3>5
  <2> QED
    BY <2>1, <2>2
<1>2. Insert(s, x, less) = InsertAt(s, k, x)
  BY Zenon DEF Insert, Place
<1> DEFINE u == SubSeq(s, 1, k - 1)
           v == SubSeq(s, k, Len(s))
           y == <<x>>
<1> HIDE DEF k
<1>3. u \in Seq(S) /\ Len(u) = k - 1 /\ \A j \in 1 .. k - 1 : u[j] = s[j]
  BY <1>1
<1>4. v \in Seq(S) /\ Len(v) = Len(s) - k + 1 /\ \A j \in 1 .. Len(s) - k + 1 : v[j] = s[j + k - 1]
  BY <1>1
<1>5. y \in Seq(S) /\ Len(y) = 1 /\ y[1] = x
  OBVIOUS
<1> HIDE DEF u, v, y
<1> DEFINE uy == u \o y
<1>6. uy \in Seq(S) /\ Len(uy) = k /\ \A j \in 1 .. k : uy[j] = IF j < k THEN s[j] ELSE x
  <2>0. /\ uy \in Seq(S) /\ Len(uy) = Len(u) + Len(y)
        /\ \A j \in 1 .. Len(u) : uy[j] = u[j]
        /\ \A j \in 1 .. Len(y) : uy[Len(u) + j] = y[j]
    <3>1. u \in Seq(S) /\ y \in Seq(S)
      BY <1>3, <1>5
    <3> HIDE DEF stops
    <3> QED
      BY <3>1
  <2> HIDE DEF stops, uy
  <2>1. /\ uy \in Seq(S) /\ Len(uy) = k /\ \A j \in 1 .. Len(u) : uy[j] = u[j]
        /\ uy[k] = x
    <3>1. 1 \in 1 .. Len(y) /\ Len(u) + 1 = k
      BY <1>1, <1>3, <1>5
    <3> QED
      BY <1>3, <1>5, <2>0, <3>1
  <2>2. ASSUME NEW j \in 1 .. k PROVE uy[j] = IF j < k THEN s[j] ELSE x
    <3>1. CASE j < k
      BY <1>1, <1>3, <2>1, <3>1
    <3>2. CASE j = k
      BY <1>1, <2>1, <3>2
    <3>3. j < k \/ j = k
      BY <1>1
    <3> QED
      BY <3>1, <3>2, <3>3
  <2> QED
    BY <2>1, <2>2
<1> HIDE DEF uy
<1>7. uy \o v \in Seq(S) /\ Len(uy \o v) = Len(s) + 1
  <2>1. uy \o v \in Seq(S) /\ Len(uy \o v) = Len(uy) + Len(v)
    BY <1>4, <1>6, ConcatIs
  <2> QED
    BY <1>1, <1>4, <1>6, <2>1
<1>8. ASSUME NEW i \in 1 .. Len(s) + 1
      PROVE  (uy \o v)[i] = IF i < k THEN s[i] ELSE IF i = k THEN x ELSE s[i - 1]
  <2>1. CASE i <= k
    <3>1. i \in 1 .. k /\ (uy \o v)[i] = uy[i]
      BY <1>1, <1>4, <1>6, <2>1
    <3> QED
      BY <1>1, <1>6, <2>1, <3>1
  <2>2. CASE i > k
    <3>1. i - k \in 1 .. Len(s) - k + 1 /\ (uy \o v)[i] = v[i - k]
      BY <1>1, <1>4, <1>6, <2>2
    <3>2. v[i - k] = s[(i - k) + k - 1] /\ (i - k) + k - 1 = i - 1
      BY <1>1, <1>4, <3>1
    <3> QED
      BY <1>1, <2>2, <3>1, <3>2
  <2>3. i <= k \/ i > k
    BY <1>1
  <2> QED
    BY <2>1, <2>2, <2>3
<1>9. Insert(s, x, less) = uy \o v
  BY <1>2 DEF InsertAt, u, v, y, uy
<1> QED
  BY <1>1, <1>7, <1>8, <1>9 DEF k

\* An element comes, and no other comes or goes.
LEMMA InsertSet ==
  ASSUME NEW S, NEW s \in Seq(S), NEW x \in S, NEW less
  PROVE  /\ Insert(s, x, less) \in Seq(S)
         /\ ToSet(Insert(s, x, less)) = ToSet(s) \union {x}
         /\ Distinct(s) /\ x \notin ToSet(s) => Distinct(Insert(s, x, less))
<1> DEFINE r == Insert(s, x, less)
           k == Place(s, x, less)
<1>1. /\ k \in 1 .. Len(s) + 1 /\ r \in Seq(S) /\ Len(r) = Len(s) + 1
      /\ \A i \in 1 .. Len(s) + 1 : r[i] = IF i < k THEN s[i] ELSE IF i = k THEN x ELSE s[i - 1]
  BY InsertIs
<1> HIDE DEF r, k
<1>2. ASSUME NEW y \in ToSet(r) PROVE y \in ToSet(s) \union {x}
  <2>1. PICK i \in 1 .. Len(r) : r[i] = y
    BY <1>1, ToSetIs
  <2>2. \/ i < k /\ i \in 1 .. Len(s) /\ y = s[i]
        \/ y = x
        \/ i > k /\ i - 1 \in 1 .. Len(s) /\ y = s[i - 1]
    BY <1>1, <2>1
  <2> QED
    BY <2>2, ToSetIs
<1>3. ASSUME NEW y \in ToSet(s) PROVE y \in ToSet(r)
  <2>1. PICK i \in 1 .. Len(s) : s[i] = y
    BY ToSetIs
  <2>2. \/ i \in 1 .. Len(r) /\ r[i] = y
        \/ i + 1 \in 1 .. Len(r) /\ r[i + 1] = y
    <3>1. i \in 1 .. Len(s) + 1 /\ i + 1 \in 1 .. Len(s) + 1 /\ (i + 1) - 1 = i
      OBVIOUS
    <3>2. CASE i < k
      BY <1>1, <2>1, <3>1, <3>2
    <3>3. CASE ~ (i < k)
      <4>1. ~ (i + 1 < k) /\ i + 1 # k
        BY <1>1, <3>3
      <4> QED
        BY <1>1, <2>1, <3>1, <4>1
    <3> QED
      BY <3>2, <3>3
  <2>3. \E j \in 1 .. Len(r) : r[j] = y
    BY <2>2
  <2> QED
    BY <1>1, <2>3, ToSetIs
<1>4. x \in ToSet(r)
  <2>1. k \in 1 .. Len(r) /\ r[k] = x
    BY <1>1
  <2> QED
    BY <1>1, <2>1, ToSetIs
<1>5. ASSUME Distinct(s), x \notin ToSet(s) PROVE Distinct(r)
  <2>1. \A j \in 1 .. Len(s) : s[j] # x
    BY <1>5, ToSetIs
  <2>2. ASSUME NEW i \in 1 .. Len(r), NEW j \in 1 .. Len(r), r[i] = r[j], i < j PROVE FALSE
    <3>1. i \in 1 .. Len(s) /\ j - 1 \in 1 .. Len(s) /\ j \in 1 .. Len(s) + 1 /\ i \in 1 .. Len(s) + 1
      BY <1>1, <2>2
    <3>2. CASE j < k
      BY <1>1, <1>5, <2>2, <3>1, <3>2 DEF Distinct
    <3>3. CASE j = k
      BY <1>1, <2>1, <2>2, <3>1, <3>3
    <3>4. CASE j > k
      <4>1. r[j] = s[j - 1]
        BY <1>1, <3>1, <3>4
      <4>2. CASE i < k
        <5>1. s[i] = s[j - 1] /\ i # j - 1
          BY <1>1, <2>2, <3>1, <3>4, <4>1, <4>2
        <5> QED
          BY <1>5, <3>1, <5>1 DEF Distinct
      <4>3. CASE i = k
        BY <1>1, <2>1, <2>2, <3>1, <4>1, <4>3
      <4>4. CASE i > k
        <5>1. i - 1 \in 1 .. Len(s) /\ r[i] = s[i - 1]
          BY <1>1, <3>1, <4>4
        <5> QED
          BY <1>5, <2>2, <3>1, <4>1, <5>1 DEF Distinct
      <4> QED
        BY <1>1, <4>2, <4>3, <4>4
    <3> QED
      BY <1>1, <3>2, <3>3, <3>4
  <2>3. ASSUME NEW i \in 1 .. Len(r), NEW j \in 1 .. Len(r), r[i] = r[j] PROVE i = j
    BY <1>1, <2>2, <2>3
  <2> QED
    BY <2>3 DEF Distinct
<1> QED
  BY <1>1, <1>2, <1>3, <1>4, <1>5 DEF r

Inserting(S, s, less) == [i \in 1 .. Len(s) |-> [r \in Seq(S) |-> Insert(r, s[i], less)]]

\* SliceStable inserts the elements of s one after the other.
LEMMA SliceStableWalk ==
  ASSUME NEW S, NEW s \in Seq(S), NEW less
  PROVE  \E w : /\ IsWalk(w, Len(s), Seq(S), <<>>, Inserting(S, s, less))
                /\ w[Len(s)] = SliceStable(s, less)
<1> DEFINE n == Len(s)
           A == Seq(S)
           step == Inserting(S, s, less)
           Fold(f) == [T \in SUBSET (DOMAIN s) |->
                        IF T = {} THEN <<>> ELSE Insert(f[T \ {Max(T)}], s[Max(T)], less)]
           f == CHOOSE f : f = Fold(f)
<1>1. SliceStable(s, less) = f[DOMAIN s]
  BY Zenon DEF SliceStable, FoldLeft, MapThenFoldSet
<1>2. n \in Nat /\ DOMAIN s = 1 .. n /\ \A i \in 1 .. n : s[i] \in S
  OBVIOUS
<1>3. \A T \in SUBSET (1 .. n) : T # {} => Max(T) \in 1 .. n
  BY <1>2, MaxOfSegment
<1>4. /\ <<>> \in A
      /\ \A i \in 1 .. n : \A r \in A : step[i][r] = Insert(r, s[i], less)
      /\ Closed(step, 1 .. n, A)
  BY <1>2, InsertIs DEF Inserting, Closed
<1> HIDE DEF n, A, step
<1>5. \E g : g = Fold(g)
  <2>1. PICK g : IsFoldLeft(g, n, A, <<>>, step)
    BY <1>2, <1>4, FoldLeftExists
  <2>2. ASSUME NEW T \in SUBSET (1 .. n), T # {}
        PROVE  g[T] = Insert(g[T \ {Max(T)}], s[Max(T)], less)
    BY <1>3, <1>4, <2>1, <2>2 DEF IsFoldLeft
  <2>3. g = Fold(g)
    BY <1>2, <2>1, <2>2 DEF IsFoldLeft
  <2> QED
    BY <2>3
<1>6. f = Fold(f)
  <2> HIDE DEF Fold
  <2> QED
    BY <1>5
<1> HIDE DEF f
<1>7. f[{}] = <<>>
  BY <1>6
<1>8. ASSUME NEW T \in SUBSET (1 .. n), T # {} /\ f[T \ {Max(T)}] \in A
      PROVE  f[T] = step[Max(T)][f[T \ {Max(T)}]]
  <2>1. f[T] = Insert(f[T \ {Max(T)}], s[Max(T)], less)
    BY <1>2, <1>6, <1>8
  <2> QED
    BY <1>3, <1>4, <1>8, <2>1
<1>9. \E w : IsWalk(w, n, A, <<>>, step) /\ w[n] = f[1 .. n]
  <2>1. GoesBy(f, n, A, <<>>, step)
    BY <1>7, <1>8 DEF GoesBy
  <2> QED
    BY <1>2, <1>4, <2>1, WalkOfFold
<1> QED
  BY <1>1, <1>2, <1>9 DEF n, A, step

\* A sort keeps the elements, and none of them twice.
LEMMA SliceStableSet ==
  ASSUME NEW S, NEW s \in Seq(S), NEW less
  PROVE  /\ SliceStable(s, less) \in Seq(S)
         /\ ToSet(SliceStable(s, less)) = ToSet(s)
         /\ Distinct(s) => Distinct(SliceStable(s, less))
<1> DEFINE n == Len(s)
           A == Seq(S)
           step == Inserting(S, s, less)
           Upto(i) == {s[j] : j \in 1 .. i}
           Good == [i \in 0 .. n |->
                     {r \in A : ToSet(r) = Upto(i) /\ (Distinct(s) => Distinct(r))}]
<1>1. PICK w : IsWalk(w, n, A, <<>>, step) /\ w[n] = SliceStable(s, less)
  BY SliceStableWalk
<1>2. n \in Nat /\ Upto(n) = ToSet(s)
  BY DEF ToSet
<1>3. <<>> \in Good[0]
  BY DEF ToSet, Distinct
<1>4. ASSUME NEW i \in 1 .. n, NEW r \in A, r \in Good[i - 1]
      PROVE  step[i][r] \in Good[i]
  <2>1. s[i] \in S /\ step[i][r] = Insert(r, s[i], less)
    BY DEF Inserting
  <2>2. ToSet(r) = Upto(i - 1) /\ (Distinct(s) => Distinct(r))
    BY <1>4
  <2>3. Upto(i) = Upto(i - 1) \union {s[i]}
    OBVIOUS
  <2>4. Distinct(s) => s[i] \notin Upto(i - 1)
    BY DEF Distinct
  <2>5. /\ step[i][r] \in A /\ ToSet(step[i][r]) = Upto(i)
        /\ Distinct(s) => Distinct(step[i][r])
    <3> HIDE DEF Upto, step
    <3> QED
      BY <2>1, <2>2, <2>3, <2>4, InsertSet
  <2>6. i \in 0 .. n
    OBVIOUS
  <2> HIDE DEF Upto, step
  <2> QED
    BY <2>5, <2>6
<1>5. w[n] \in Good[n]
  <2> HIDE DEF Good, step, A
  <2> QED
    BY <1>1, <1>2, <1>3, <1>4, WalkKeeps
<1>6. n \in 0 .. n
  BY <1>2
<1>7. w[n] \in {r \in A : ToSet(r) = Upto(n) /\ (Distinct(s) => Distinct(r))}
  <2> HIDE DEF A, n, Upto
  <2> QED
    BY <1>5, <1>6
<1> HIDE DEF Upto
<1> QED
  BY <1>1, <1>2, <1>7
-----------------------------------------------------------------------------
(* Selection and sums. *)

Keeping(S, s, K) ==
    [i \in 1 .. Len(s) |-> [r \in Seq(S) |-> IF s[i] \in K THEN Append(r, s[i]) ELSE r]]

\* Filter keeps or leaves the elements of s one after the other.
LEMMA FilterWalk ==
  ASSUME NEW S, NEW s \in Seq(S), NEW K
  PROVE  \E w : /\ IsWalk(w, Len(s), Seq(S), <<>>, Keeping(S, s, K))
                /\ w[Len(s)] = Filter(s, K)
<1> DEFINE n == Len(s)
           A == Seq(S)
           step == Keeping(S, s, K)
           base == <<>>
           Fold(f) == [T \in SUBSET (DOMAIN s) |->
                        IF T = {} THEN base ELSE IF s[Max(T)] \in K THEN Append(f[T \ {Max(T)}], s[Max(T)]) ELSE f[T \ {Max(T)}]]
           f == CHOOSE f : f = Fold(f)
<1>1. Filter(s, K) = f[DOMAIN s]
  BY Zenon DEF Filter, FoldLeft, MapThenFoldSet
<1>2. n \in Nat /\ DOMAIN s = 1 .. n
  OBVIOUS
<1>3. \A T \in SUBSET (1 .. n) : T # {} => Max(T) \in 1 .. n
  BY <1>2, MaxOfSegment
<1>4. base \in A /\ Closed(step, 1 .. n, A)
  BY DEF Keeping, Closed
<1>5. \A i \in 1 .. n : \A a \in A : step[i][a] = IF s[i] \in K THEN Append(a, s[i]) ELSE a
  BY DEF Keeping
<1> HIDE DEF n, A, step, base
<1>6. \E g : g = Fold(g)
  <2>1. PICK g : IsFoldLeft(g, n, A, base, step)
    BY <1>2, <1>4, FoldLeftExists
  <2>2. ASSUME NEW T \in SUBSET (1 .. n), T # {}
        PROVE  g[T] = IF s[Max(T)] \in K THEN Append(g[T \ {Max(T)}], s[Max(T)]) ELSE g[T \ {Max(T)}]
    <3>1. g[T] = step[Max(T)][g[T \ {Max(T)}]] /\ g[T \ {Max(T)}] \in A
      BY <2>1, <2>2 DEF IsFoldLeft
    <3> QED
      BY <1>3, <1>5, <2>2, <3>1
  <2>3. g = Fold(g)
    BY <1>2, <2>1, <2>2 DEF IsFoldLeft
  <2> QED
    BY <2>3
<1>7. f = Fold(f)
  <2> HIDE DEF Fold
  <2> QED
    BY <1>6
<1> HIDE DEF f
<1>8. f[{}] = base
  BY <1>7
<1>9. ASSUME NEW T \in SUBSET (1 .. n), T # {} /\ f[T \ {Max(T)}] \in A
      PROVE  f[T] = step[Max(T)][f[T \ {Max(T)}]]
  <2>1. f[T] = IF s[Max(T)] \in K THEN Append(f[T \ {Max(T)}], s[Max(T)]) ELSE f[T \ {Max(T)}]
    BY <1>2, <1>7, <1>9
  <2> QED
    BY <1>3, <1>5, <1>9, <2>1
<1>10. \E w : IsWalk(w, n, A, base, step) /\ w[n] = f[1 .. n]
  <2>1. GoesBy(f, n, A, base, step)
    BY <1>8, <1>9 DEF GoesBy
  <2> QED
    BY <1>2, <1>4, <2>1, WalkOfFold
<1> QED
  BY <1>1, <1>2, <1>10 DEF n, A, step, base

\* Filter keeps the elements that are in K, and none of them twice.
LEMMA FilterSet ==
  ASSUME NEW S, NEW s \in Seq(S), NEW K
  PROVE  /\ Filter(s, K) \in Seq(S)
         /\ ToSet(Filter(s, K)) = ToSet(s) \cap K
         /\ Distinct(s) => Distinct(Filter(s, K))
<1> DEFINE n == Len(s)
           A == Seq(S)
           step == Keeping(S, s, K)
           Upto(i) == {s[j] : j \in 1 .. i}
           Good == [i \in 0 .. n |->
                     {r \in A : ToSet(r) = Upto(i) \cap K /\ (Distinct(s) => Distinct(r))}]
<1>1. PICK w : IsWalk(w, n, A, <<>>, step) /\ w[n] = Filter(s, K)
  BY FilterWalk
<1>2. n \in Nat /\ Upto(n) = ToSet(s)
  BY DEF ToSet
<1>3. <<>> \in Good[0]
  BY DEF ToSet, Distinct
<1>4. ASSUME NEW i \in 1 .. n, NEW r \in A, r \in Good[i - 1]
      PROVE  step[i][r] \in Good[i]
  <2>1. s[i] \in S /\ step[i][r] = IF s[i] \in K THEN Append(r, s[i]) ELSE r
    BY DEF Keeping
  <2>2. ToSet(r) = Upto(i - 1) \cap K /\ (Distinct(s) => Distinct(r))
    BY <1>4
  <2>3. Upto(i) = Upto(i - 1) \union {s[i]}
    OBVIOUS
  <2>4. Distinct(s) => s[i] \notin Upto(i - 1)
    BY DEF Distinct
  <2>5. /\ step[i][r] \in A /\ ToSet(step[i][r]) = Upto(i) \cap K
        /\ Distinct(s) => Distinct(step[i][r])
    <3> HIDE DEF Upto, step
    <3> QED
      BY <2>1, <2>2, <2>3, <2>4, AppendSet
  <2>6. i \in 0 .. n
    OBVIOUS
  <2> HIDE DEF Upto, step
  <2> QED
    BY <2>5, <2>6
<1>5. w[n] \in Good[n]
  <2> HIDE DEF Good, step, A
  <2> QED
    BY <1>1, <1>2, <1>3, <1>4, WalkKeeps
<1>6. n \in 0 .. n
  BY <1>2
<1>7. w[n] \in {r \in A : ToSet(r) = Upto(n) \cap K /\ (Distinct(s) => Distinct(r))}
  <2> HIDE DEF A, n, Upto
  <2> QED
    BY <1>5, <1>6
<1> HIDE DEF Upto
<1> QED
  BY <1>1, <1>2, <1>7

\* The values of v added up.
Adding(v) == [i \in DOMAIN v |-> [a \in Nat |-> a + v[i]]]

\* The gas of a batch is added up op by op.
LEMMA GasWalk ==
  ASSUME NEW S, \A x \in S : x.gas \in Nat, NEW s \in Seq(S)
  PROVE  \E w : /\ IsWalk(w, Len(s), Nat, 0, Adding([i \in 1 .. Len(s) |-> s[i].gas]))
                /\ w[Len(s)] = GasOf(s)
<1> DEFINE n == Len(s)
           A == Nat
           step == Adding([i \in 1 .. Len(s) |-> s[i].gas])
           base == 0
           Fold(f) == [T \in SUBSET (DOMAIN s) |->
                        IF T = {} THEN base ELSE f[T \ {Max(T)}] + s[Max(T)].gas]
           f == CHOOSE f : f = Fold(f)
<1>1. GasOf(s) = f[DOMAIN s]
  BY Zenon DEF GasOf, FoldLeft, MapThenFoldSet
<1>2. n \in Nat /\ DOMAIN s = 1 .. n
  OBVIOUS
<1>3. \A T \in SUBSET (1 .. n) : T # {} => Max(T) \in 1 .. n
  BY <1>2, MaxOfSegment
<1>4. base \in A /\ Closed(step, 1 .. n, A)
  BY DEF Adding, Closed
<1>5. \A i \in 1 .. n : \A a \in A : step[i][a] = a + s[i].gas
  BY DEF Adding
<1> HIDE DEF n, A, step, base
<1>6. \E g : g = Fold(g)
  <2>1. PICK g : IsFoldLeft(g, n, A, base, step)
    BY <1>2, <1>4, FoldLeftExists
  <2>2. ASSUME NEW T \in SUBSET (1 .. n), T # {}
        PROVE  g[T] = g[T \ {Max(T)}] + s[Max(T)].gas
    <3>1. g[T] = step[Max(T)][g[T \ {Max(T)}]] /\ g[T \ {Max(T)}] \in A
      BY <2>1, <2>2 DEF IsFoldLeft
    <3> QED
      BY <1>3, <1>5, <2>2, <3>1
  <2>3. g = Fold(g)
    BY <1>2, <2>1, <2>2 DEF IsFoldLeft
  <2> QED
    BY <2>3
<1>7. f = Fold(f)
  <2> HIDE DEF Fold
  <2> QED
    BY <1>6
<1> HIDE DEF f
<1>8. f[{}] = base
  BY <1>7
<1>9. ASSUME NEW T \in SUBSET (1 .. n), T # {} /\ f[T \ {Max(T)}] \in A
      PROVE  f[T] = step[Max(T)][f[T \ {Max(T)}]]
  <2>1. f[T] = f[T \ {Max(T)}] + s[Max(T)].gas
    BY <1>2, <1>7, <1>9
  <2> QED
    BY <1>3, <1>5, <1>9, <2>1
<1>10. \E w : IsWalk(w, n, A, base, step) /\ w[n] = f[1 .. n]
  <2>1. GoesBy(f, n, A, base, step)
    BY <1>8, <1>9 DEF GoesBy
  <2> QED
    BY <1>2, <1>4, <2>1, WalkOfFold
<1> QED
  BY <1>1, <1>2, <1>10 DEF n, A, step, base

\* The tips of a batch are added up op by op.
LEMMA TipWalk ==
  ASSUME NEW S, \A x \in S : x.maxTip \in Nat, NEW s \in Seq(S)
  PROVE  \E w : /\ IsWalk(w, Len(s), Nat, 0, Adding([i \in 1 .. Len(s) |-> s[i].maxTip]))
                /\ w[Len(s)] = FoldLeft(LAMBDA sum, op : sum + op.maxTip, 0, s)
<1> DEFINE n == Len(s)
           A == Nat
           step == Adding([i \in 1 .. Len(s) |-> s[i].maxTip])
           base == 0
           Fold(f) == [T \in SUBSET (DOMAIN s) |->
                        IF T = {} THEN base ELSE f[T \ {Max(T)}] + s[Max(T)].maxTip]
           f == CHOOSE f : f = Fold(f)
<1>1. FoldLeft(LAMBDA sum, op : sum + op.maxTip, 0, s) = f[DOMAIN s]
  BY Zenon DEF FoldLeft, MapThenFoldSet
<1>2. n \in Nat /\ DOMAIN s = 1 .. n
  OBVIOUS
<1>3. \A T \in SUBSET (1 .. n) : T # {} => Max(T) \in 1 .. n
  BY <1>2, MaxOfSegment
<1>4. base \in A /\ Closed(step, 1 .. n, A)
  BY DEF Adding, Closed
<1>5. \A i \in 1 .. n : \A a \in A : step[i][a] = a + s[i].maxTip
  BY DEF Adding
<1> HIDE DEF n, A, step, base
<1>6. \E g : g = Fold(g)
  <2>1. PICK g : IsFoldLeft(g, n, A, base, step)
    BY <1>2, <1>4, FoldLeftExists
  <2>2. ASSUME NEW T \in SUBSET (1 .. n), T # {}
        PROVE  g[T] = g[T \ {Max(T)}] + s[Max(T)].maxTip
    <3>1. g[T] = step[Max(T)][g[T \ {Max(T)}]] /\ g[T \ {Max(T)}] \in A
      BY <2>1, <2>2 DEF IsFoldLeft
    <3> QED
      BY <1>3, <1>5, <2>2, <3>1
  <2>3. g = Fold(g)
    BY <1>2, <2>1, <2>2 DEF IsFoldLeft
  <2> QED
    BY <2>3
<1>7. f = Fold(f)
  <2> HIDE DEF Fold
  <2> QED
    BY <1>6
<1> HIDE DEF f
<1>8. f[{}] = base
  BY <1>7
<1>9. ASSUME NEW T \in SUBSET (1 .. n), T # {} /\ f[T \ {Max(T)}] \in A
      PROVE  f[T] = step[Max(T)][f[T \ {Max(T)}]]
  <2>1. f[T] = f[T \ {Max(T)}] + s[Max(T)].maxTip
    BY <1>2, <1>7, <1>9
  <2> QED
    BY <1>3, <1>5, <1>9, <2>1
<1>10. \E w : IsWalk(w, n, A, base, step) /\ w[n] = f[1 .. n]
  <2>1. GoesBy(f, n, A, base, step)
    BY <1>8, <1>9 DEF GoesBy
  <2> QED
    BY <1>2, <1>4, <2>1, WalkOfFold
<1> QED
  BY <1>1, <1>2, <1>10 DEF n, A, step, base

\* The fees of a batch are added up op by op.
LEMMA FeeWalk ==
  ASSUME NEW S, \A x \in S : x.maxFee \in Nat, NEW s \in Seq(S)
  PROVE  \E w : /\ IsWalk(w, Len(s), Nat, 0, Adding([i \in 1 .. Len(s) |-> s[i].maxFee]))
                /\ w[Len(s)] = FoldLeft(LAMBDA sum, op : sum + op.maxFee, 0, s)
<1> DEFINE n == Len(s)
           A == Nat
           step == Adding([i \in 1 .. Len(s) |-> s[i].maxFee])
           base == 0
           Fold(f) == [T \in SUBSET (DOMAIN s) |->
                        IF T = {} THEN base ELSE f[T \ {Max(T)}] + s[Max(T)].maxFee]
           f == CHOOSE f : f = Fold(f)
<1>1. FoldLeft(LAMBDA sum, op : sum + op.maxFee, 0, s) = f[DOMAIN s]
  BY Zenon DEF FoldLeft, MapThenFoldSet
<1>2. n \in Nat /\ DOMAIN s = 1 .. n
  OBVIOUS
<1>3. \A T \in SUBSET (1 .. n) : T # {} => Max(T) \in 1 .. n
  BY <1>2, MaxOfSegment
<1>4. base \in A /\ Closed(step, 1 .. n, A)
  BY DEF Adding, Closed
<1>5. \A i \in 1 .. n : \A a \in A : step[i][a] = a + s[i].maxFee
  BY DEF Adding
<1> HIDE DEF n, A, step, base
<1>6. \E g : g = Fold(g)
  <2>1. PICK g : IsFoldLeft(g, n, A, base, step)
    BY <1>2, <1>4, FoldLeftExists
  <2>2. ASSUME NEW T \in SUBSET (1 .. n), T # {}
        PROVE  g[T] = g[T \ {Max(T)}] + s[Max(T)].maxFee
    <3>1. g[T] = step[Max(T)][g[T \ {Max(T)}]] /\ g[T \ {Max(T)}] \in A
      BY <2>1, <2>2 DEF IsFoldLeft
    <3> QED
      BY <1>3, <1>5, <2>2, <3>1
  <2>3. g = Fold(g)
    BY <1>2, <2>1, <2>2 DEF IsFoldLeft
  <2> QED
    BY <2>3
<1>7. f = Fold(f)
  <2> HIDE DEF Fold
  <2> QED
    BY <1>6
<1> HIDE DEF f
<1>8. f[{}] = base
  BY <1>7
<1>9. ASSUME NEW T \in SUBSET (1 .. n), T # {} /\ f[T \ {Max(T)}] \in A
      PROVE  f[T] = step[Max(T)][f[T \ {Max(T)}]]
  <2>1. f[T] = f[T \ {Max(T)}] + s[Max(T)].maxFee
    BY <1>2, <1>7, <1>9
  <2> QED
    BY <1>3, <1>5, <1>9, <2>1
<1>10. \E w : IsWalk(w, n, A, base, step) /\ w[n] = f[1 .. n]
  <2>1. GoesBy(f, n, A, base, step)
    BY <1>8, <1>9 DEF GoesBy
  <2> QED
    BY <1>2, <1>4, <2>1, WalkOfFold
<1> QED
  BY <1>1, <1>2, <1>10 DEF n, A, step, base

\* A longer prefix of a batch has no less gas.
LEMMA GasOfPrefixes ==
  ASSUME NEW S, \A x \in S : x.gas \in Nat, NEW s \in Seq(S)
  PROVE  \A m \in 0 .. Len(s) : \A k \in 0 .. m :
            /\ GasOf(SubSeq(s, 1, m)) \in Nat
            /\ GasOf(SubSeq(s, 1, k)) <= GasOf(SubSeq(s, 1, m))
<1> DEFINE n == Len(s)
           v == [i \in 1 .. Len(s) |-> s[i].gas]
           step == Adding(v)
<1>1. PICK w : IsWalk(w, n, Nat, 0, step)
  BY GasWalk
<1>2. n \in Nat /\ \A i \in 1 .. n : \A a \in Nat : step[i][a] = a + s[i].gas /\ s[i].gas \in Nat
  BY DEF Adding
<1> HIDE DEF n, step, v
<1>3. /\ \A i \in 0 .. n : w[i] \in Nat
      /\ w[0] = 0
      /\ \A i \in 1 .. n : w[i] = step[i][w[i - 1]]
  BY <1>1 DEF IsWalk
<1>4. ASSUME NEW m \in 0 .. n PROVE GasOf(SubSeq(s, 1, m)) = w[m]
  <2> DEFINE t == SubSeq(s, 1, m)
             u == [i \in 1 .. Len(t) |-> t[i].gas]
             stept == Adding(u)
             Good == [i \in 0 .. m |-> {w[i]}]
  <2>1. t \in Seq(S) /\ Len(t) = m /\ \A i \in 1 .. m : t[i] = s[i]
    BY DEF n
  <2> HIDE DEF t
  <2>2. PICK x : IsWalk(x, m, Nat, 0, stept) /\ x[m] = GasOf(t)
    BY <2>1, GasWalk
  <2>3. ASSUME NEW i \in 1 .. m, NEW a \in Nat, a \in Good[i - 1]
        PROVE  stept[i][a] \in Good[i]
    <3>1. i \in 1 .. n /\ i - 1 \in 0 .. m /\ i \in 0 .. m
      BY <1>2
    <3>2. a = w[i - 1] /\ Good[i] = {w[i]}
      BY <2>3, <3>1
    <3>3. stept[i][a] = a + t[i].gas
      BY <2>1 DEF Adding
    <3>4. w[i] = step[i][w[i - 1]] /\ w[i - 1] \in Nat
      BY <1>2, <1>3, <3>1
    <3>5. step[i][w[i - 1]] = w[i - 1] + s[i].gas /\ t[i] = s[i]
      BY <1>2, <2>1, <3>1, <3>4
    <3> HIDE DEF Good, stept
    <3> QED
      BY <3>2, <3>3, <3>4, <3>5
  <2>4. 0 \in Good[0] /\ m \in Nat /\ m \in 0 .. m
    BY <1>3
  <2>5. x[m] \in Good[m]
    <3> HIDE DEF Good, stept
    <3> QED
      BY <2>2, <2>3, <2>4, WalkKeeps
  <2> QED
    BY <2>2, <2>4, <2>5 DEF t
<1>5. ASSUME NEW m \in 0 .. n, NEW k \in 0 .. m PROVE w[k] <= w[m]
  <2> DEFINE Good == [i \in 0 .. n |-> {a \in Nat : i >= k => a >= w[k]}]
  <2>0. k \in 0 .. n /\ w[k] \in Nat
    BY <1>2, <1>3
  <2>1. 0 \in Good[0]
    BY <1>2, <1>3
  <2>2. ASSUME NEW i \in 1 .. n, NEW a \in Nat, a \in Good[i - 1], a = w[i - 1]
        PROVE  step[i][a] \in Good[i]
    <3>1. i - 1 \in 0 .. n /\ i \in 0 .. n
      BY <1>2
    <3>2. step[i][a] = a + s[i].gas /\ s[i].gas \in Nat
      BY <1>2
    <3>3. step[i][a] = w[i]
      BY <1>3, <2>2
    <3>4. a \in Nat /\ (i - 1 >= k => a >= w[k])
      BY <2>2, <3>1
    <3>5. step[i][a] \in Nat /\ (i >= k => step[i][a] >= w[k])
      <4> HIDE DEF Good
      <4>0. \A p, q, r \in Nat : p >= r => p + q \in Nat /\ p + q >= r
        OBVIOUS
      <4>1. CASE i - 1 >= k
        BY ONLY <2>0, <3>2, <3>4, <4>0, <4>1
      <4>2. CASE i - 1 < k
        BY <2>0, <3>2, <3>3, <3>4, <4>2
      <4> QED
        BY <2>0, <4>1, <4>2
    <3> QED
      BY <3>1, <3>5
  <2> DEFINE T == {i \in Nat : i <= n => w[i] \in Good[i]}
  <2>3. 0 \in T
    BY <1>3, <2>1
  <2>4. ASSUME NEW i \in Nat, i \in T PROVE i + 1 \in T
    <3>1. ASSUME i + 1 <= n PROVE w[i + 1] \in Good[i + 1]
      <4>1. i + 1 \in 1 .. n /\ (i + 1) - 1 = i /\ i \in 0 .. n /\ i <= n
        BY <1>2, <3>1
      <4>2. w[i] \in Good[i] /\ w[i] \in Nat /\ w[i + 1] = step[i + 1][w[i]]
        BY <1>3, <2>4, <4>1
      <4> HIDE DEF Good
      <4> QED
        BY <2>2, <4>1, <4>2
    <3> QED
      BY <3>1
  <2>5. Nat \subseteq T
    <3> HIDE DEF T
    <3> QED
      BY <2>3, <2>4, Induct
  <2>6. w[m] \in Good[m] /\ m >= k
    <3>1. m \in Nat /\ m <= n /\ m >= k
      BY <1>2
    <3> HIDE DEF Good
    <3> QED
      BY <2>5, <3>1
  <2> QED
    BY <1>2, <2>6
<1>6. ASSUME NEW m \in 0 .. n, NEW k \in 0 .. m PROVE k \in 0 .. n
  BY <1>2
<1> QED
  BY <1>3, <1>4, <1>5, <1>6 DEF n

\* The sum of the tips is at most that of the fees, op by op.
LEMMA TipsAtMostFees ==
  ASSUME NEW S, \A x \in S : x.maxTip \in Nat /\ x.maxFee \in Nat /\ x.maxTip <= x.maxFee,
         NEW s \in Seq(S)
  PROVE  /\ FoldLeft(LAMBDA sum, op : sum + op.maxTip, 0, s) \in Nat
         /\ FoldLeft(LAMBDA sum, op : sum + op.maxFee, 0, s) \in Nat
         /\ FoldLeft(LAMBDA sum, op : sum + op.maxTip, 0, s)
                <= FoldLeft(LAMBDA sum, op : sum + op.maxFee, 0, s)
<1> DEFINE n == Len(s)
           tips == Adding([i \in 1 .. Len(s) |-> s[i].maxTip])
           fees == Adding([i \in 1 .. Len(s) |-> s[i].maxFee])
           Tips == FoldLeft(LAMBDA sum, op : sum + op.maxTip, 0, s)
           Fees == FoldLeft(LAMBDA sum, op : sum + op.maxFee, 0, s)
<1>1. PICK v : IsWalk(v, n, Nat, 0, tips) /\ v[n] = Tips
  <2> HIDE DEF tips, Tips
  <2> QED
    BY TipWalk DEF tips, Tips
<1>2. PICK w : IsWalk(w, n, Nat, 0, fees) /\ w[n] = Fees
  <2> HIDE DEF fees, Fees
  <2> QED
    BY FeeWalk DEF fees, Fees
<1>3. /\ n \in Nat
      /\ \A i \in 1 .. n : \A a \in Nat : tips[i][a] = a + s[i].maxTip /\ fees[i][a] = a + s[i].maxFee
      /\ \A i \in 1 .. n : s[i].maxTip \in Nat /\ s[i].maxFee \in Nat /\ s[i].maxTip <= s[i].maxFee
  BY DEF Adding
<1> HIDE DEF n, tips, fees, Tips, Fees
<1> DEFINE Good == [i \in 0 .. n |-> {a \in Nat : a <= w[i]}]
<1>4. \A i \in 0 .. n : w[i] \in Nat
  BY <1>2 DEF IsWalk
<1>5. 0 \in Good[0]
  BY <1>2, <1>3 DEF IsWalk
<1>6. ASSUME NEW i \in 1 .. n, NEW a \in Nat, a \in Good[i - 1]
      PROVE  tips[i][a] \in Good[i]
  <2>1. i - 1 \in 0 .. n /\ i \in 0 .. n
    BY <1>3
  <2>2. a <= w[i - 1] /\ w[i - 1] \in Nat
    BY <1>4, <1>6, <2>1
  <2>3. w[i] = w[i - 1] + s[i].maxFee
    BY <1>2, <1>3, <2>2 DEF IsWalk
  <2>4. tips[i][a] \in Nat /\ tips[i][a] <= w[i]
    <3>1. tips[i][a] = a + s[i].maxTip
      BY <1>3
    <3>2. s[i].maxTip \in Nat /\ s[i].maxFee \in Nat /\ s[i].maxTip <= s[i].maxFee
      BY <1>3
    <3> HIDE DEF Good
    <3> QED
      BY <2>2, <2>3, <3>1, <3>2
  <2> QED
    BY <2>1, <2>4
<1>7. v[n] \in Good[n] /\ n \in 0 .. n
  <2>1. n \in Nat /\ n \in 0 .. n
    BY <1>3
  <2>2. \A i \in 1 .. n : \A a \in Nat : a \in Good[i - 1] => tips[i][a] \in Good[i]
    BY <1>6
  <2>3. IsWalk(v, n, Nat, 0, tips)
    BY <1>1
  <2> HIDE DEF Good
  <2>4. \A i \in 0 .. n : v[i] \in Nat /\ v[i] \in Good[i]
    BY ONLY <1>5, <2>1, <2>2, <2>3, WalkKeeps
  <2> QED
    BY <2>1, <2>4
<1>8. Tips \in Nat /\ Fees \in Nat /\ Tips <= Fees
  BY <1>1, <1>2, <1>4, <1>7
<1> QED
  BY <1>8 DEF Tips, Fees
-----------------------------------------------------------------------------
(* The handlers.                                                           *)

\* SortByGasPrice only moves ops of the batch.
LEMMA SortByGasPriceReduces ==
  ASSUME NEW S, NEW F, NEW c \in Contexts(S, F)
  PROVE  /\ SortByGasPrice(c) \in Rebatched(S, F, c)
         /\ ToSet(SortByGasPrice(c).batch) = ToSet(c.batch)
<1>1. c.batch \in Seq(S)
  BY DEF Contexts
<1>2. ASSUME NEW less
      PROVE  /\ [c EXCEPT !.batch = SliceStable(@, less)] \in Rebatched(S, F, c)
             /\ ToSet([c EXCEPT !.batch = SliceStable(@, less)].batch) = ToSet(c.batch)
  <2> DEFINE b == SliceStable(c.batch, less)
  <2>1. b \in Seq(S) /\ ToSet(b) = ToSet(c.batch) /\ (Distinct(c.batch) => Distinct(b))
    BY <1>1, SliceStableSet
  <2> HIDE DEF b
  <2>2. [c EXCEPT !.batch = b] \in Rebatched(S, F, c)
    BY <2>1, BatchReduces
  <2>3. [c EXCEPT !.batch = b].batch = b
    BY DEF Contexts
  <2> QED
    BY <2>1, <2>2, <2>3 DEF b
<1>3. c \in Rebatched(S, F, c)
  BY ReducedIs DEF Rebatched
<1>4. \/ SortByGasPrice(c) = c
      \/ \E less : SortByGasPrice(c) = [c EXCEPT !.batch = SliceStable(@, less)]
  <2>1. CASE c.baseFee # None
    BY <2>1, Zenon DEF SortByGasPrice
  <2>2. CASE c.baseFee = None /\ c.gasPrice # None
    BY <2>2, Zenon DEF SortByGasPrice
  <2>3. CASE c.baseFee = None /\ c.gasPrice = None
    BY <2>3 DEF SortByGasPrice
  <2> QED
    BY <2>1, <2>2, <2>3
<1> QED
  BY <1>2, <1>3, <1>4

\* So does SortByNonce.
LEMMA SortByNonceReduces ==
  ASSUME NEW S, NEW F, NEW c \in Contexts(S, F)
  PROVE  /\ SortByNonce(c) \in Rebatched(S, F, c)
         /\ ToSet(SortByNonce(c).batch) = ToSet(c.batch)
<1>1. c.batch \in Seq(S)
  BY DEF Contexts
<1> DEFINE ops  == ToSet(c.batch)
           less == [a \in ops |-> [b \in ops |-> a.sender = b.sender /\ a.nonce < b.nonce]]
           b    == SliceStable(c.batch, less)
<1>2. SortByNonce(c) = [c EXCEPT !.batch = b]
  BY Zenon DEF SortByNonce
<1> HIDE DEF less
<1>3. b \in Seq(S) /\ ToSet(b) = ToSet(c.batch) /\ (Distinct(c.batch) => Distinct(b))
  BY <1>1, SliceStableSet
<1> HIDE DEF b
<1>4. [c EXCEPT !.batch = b].batch = b
  BY DEF Contexts
<1> QED
  BY <1>2, <1>3, <1>4, BatchReduces

\* FilterUnderpriced only leaves ops out.
LEMMA FilterUnderpricedReduces ==
  ASSUME NEW S, NEW F, NEW c \in Contexts(S, F), NEW intents
  PROVE  FilterUnderpriced(c, intents) \in Rebatched(S, F, c)
<1>1. c.batch \in Seq(S)
  BY DEF Contexts
<1>2. PICK K : FilterUnderpriced(c, intents) = [c EXCEPT !.batch = Filter(@, K)]
  BY Zenon DEF FilterUnderpriced
<1> DEFINE b == Filter(c.batch, K)
<1>3. /\ b \in Seq(S) /\ ToSet(b) \subseteq ToSet(c.batch)
      /\ Distinct(c.batch) => Distinct(b)
  BY <1>1, FilterSet
<1>4. FilterUnderpriced(c, intents) = [c EXCEPT !.batch = b]
  BY <1>2
<1> HIDE DEF b
<1> QED
  BY <1>3, <1>4, BatchReduces

\* A prefix of a sequence.
LEMMA SubSeqSet ==
  ASSUME NEW S, NEW s \in Seq(S), NEW m \in 0 .. Len(s)
  PROVE  /\ SubSeq(s, 1, m) \in Seq(S) /\ Len(SubSeq(s, 1, m)) = m
         /\ \A i \in 1 .. m : SubSeq(s, 1, m)[i] = s[i]
         /\ ToSet(SubSeq(s, 1, m)) \subseteq ToSet(s)
         /\ Distinct(s) => Distinct(SubSeq(s, 1, m))
<1> DEFINE t == SubSeq(s, 1, m)
<1>1. t \in Seq(S) /\ Len(t) = m /\ \A i \in 1 .. m : t[i] = s[i] /\ i \in 1 .. Len(s)
  OBVIOUS
<1> HIDE DEF t
<1>2. ToSet(t) \subseteq ToSet(s)
  <2>1. ASSUME NEW x \in ToSet(t) PROVE x \in ToSet(s)
    <3>1. PICK i \in 1 .. Len(t) : t[i] = x
      BY <1>1, ToSetIs
    <3> QED
      BY <1>1, <3>1, ToSetIs
  <2> QED
    BY <2>1
<1>3. Distinct(s) => Distinct(t)
  BY <1>1 DEF Distinct
<1> QED
  BY <1>1, <1>2, <1>3 DEF t

\* Where MaintainGasLimit cuts.
CutsAt(c, limit, m) ==
    /\ MaintainGasLimit(c, limit) = [c EXCEPT !.batch = SubSeq(c.batch, 1, m)]
    /\ m > 0 => GasOf(SubSeq(c.batch, 1, m)) < limit
    /\ m < Len(c.batch) => GasOf(SubSeq(c.batch, 1, m + 1)) >= limit

\* MaintainGasLimit cuts the batch where the sum of the gas reaches the limit.
LEMMA MaintainGasLimitIs ==
  ASSUME NEW S, \A x \in S : x.gas \in Nat, NEW F, NEW c \in Contexts(S, F), NEW limit \in Nat
  PROVE  \E m \in 0 .. Len(c.batch) : CutsAt(c, limit, m)
<1> DEFINE s == c.batch
           over == {n \in 1 .. Len(s) : GasOf(SubSeq(s, 1, n)) >= limit}
<1>1. s \in Seq(S)
  BY DEF Contexts
<1>2. \A n \in 0 .. Len(s) : GasOf(SubSeq(s, 1, n)) \in Nat
  <2> HIDE DEF s
  <2> QED
    BY <1>1, GasOfPrefixes
<1>3. CASE over = {}
  <2>1. MaintainGasLimit(c, limit) = c
    BY <1>3, Zenon DEF MaintainGasLimit
  <2>2. SubSeq(s, 1, Len(s)) = s /\ Len(s) \in 0 .. Len(s) /\ (Len(s) > 0 => Len(s) \in 1 .. Len(s))
    BY <1>1
  <2>3. c = [c EXCEPT !.batch = SubSeq(s, 1, Len(s))]
    BY <2>2 DEF Contexts
  <2>4. Len(s) > 0 => GasOf(SubSeq(s, 1, Len(s))) < limit
    BY <1>2, <1>3, <2>2
  <2> HIDE DEF over
  <2>5. CutsAt(c, limit, Len(s))
    BY <2>1, <2>3, <2>4 DEF CutsAt
  <2> QED
    BY <2>2, <2>5
<1>4. CASE over # {}
  <2>1. Min(over) \in over /\ \A y \in over : Min(over) <= y
    <3>1. over \in SUBSET (1 .. Len(s)) /\ Len(s) \in Nat
      BY <1>1
    <3> HIDE DEF over
    <3> QED
      BY <1>4, <3>1, MinOfSegment
  <2> DEFINE m == Min(over) - 1
  <2>2. MaintainGasLimit(c, limit) = [c EXCEPT !.batch = SubSeq(c.batch, 1, m)]
    BY <1>4, Zenon DEF MaintainGasLimit
  <2>3. Min(over) \in 1 .. Len(s) /\ GasOf(SubSeq(s, 1, Min(over))) >= limit
    BY <2>1
  <2>4. m \in 0 .. Len(s) /\ m + 1 = Min(over)
    BY <1>1, <2>3
  <2>5. m > 0 => m \in 1 .. Len(s) /\ m \notin over
    <3> HIDE DEF over
    <3> QED
      BY <2>1, <2>4
  <2> HIDE DEF m
  <2>6. m > 0 => GasOf(SubSeq(s, 1, m)) < limit
    BY <1>2, <2>4, <2>5
  <2> HIDE DEF over
  <2>7. CutsAt(c, limit, m)
    BY <2>2, <2>3, <2>4, <2>6 DEF CutsAt
  <2> QED
    BY <2>4, <2>7
<1> QED
  BY <1>3, <1>4

\* MaintainGasLimit only leaves ops out.
LEMMA MaintainGasLimitReduces ==
  ASSUME NEW S, \A x \in S : x.gas \in Nat, NEW F, NEW c \in Contexts(S, F), NEW limit \in Nat
  PROVE  MaintainGasLimit(c, limit) \in Rebatched(S, F, c)
<1>1. c.batch \in Seq(S)
  BY DEF Contexts
<1>2. PICK m \in 0 .. Len(c.batch) : CutsAt(c, limit, m)
  BY MaintainGasLimitIs
<1> DEFINE b == SubSeq(c.batch, 1, m)
<1>3. /\ b \in Seq(S) /\ ToSet(b) \subseteq ToSet(c.batch)
      /\ Distinct(c.batch) => Distinct(b)
  BY <1>1, SubSeqSet
<1>4. MaintainGasLimit(c, limit) = [c EXCEPT !.batch = b]
  BY <1>2 DEF CutsAt
<1> HIDE DEF b
<1> QED
  BY <1>3, <1>4, BatchReduces

\* What PaymasterDeposit does with the op at an index of the batch.
PayFor(c, intents, acc, i) ==
    LET op   == c.batch[i + 1]
        pm   == op.paymaster
        left == acc.deps[pm] - op.prefund
    IN  IF op \in intents \/ pm = None THEN acc
        ELSE [deps |-> [acc.deps EXCEPT ![pm] = left],
              ctx  |-> IF left < 0 THEN MarkOpIndexForRemoval(acc.ctx, i) ELSE acc.ctx]

Payments(S, F, c, P) == [deps : [P -> Int], ctx : Reduced(S, F, c)]
PayingFor(S, F, c, P, intents) ==
    [x \in 1 .. Len(c.batch) |->
        [a \in Payments(S, F, c, P) |-> PayFor(c, intents, a, x - 1)]]

\* PaymasterDeposit goes through the batch as it was.
LEMMA PaymasterDepositWalk ==
  ASSUME NEW S, \A x \in S : x.prefund \in Int, NEW F, NEW c \in Contexts(S, F),
         NEW P, NEW deposit \in [P -> Int], NEW intents
  PROVE  /\ \E w : /\ IsWalk(w, Len(c.batch), Payments(S, F, c, P), [deps |-> deposit, ctx |-> c],
                             PayingFor(S, F, c, P, intents))
                   /\ w[Len(c.batch)].ctx = PaymasterDeposit(c, deposit, intents)
         /\ Closed(PayingFor(S, F, c, P, intents), 1 .. Len(c.batch), Payments(S, F, c, P))
<1> DEFINE s == Indices(c.batch)
           n == Len(c.batch)
           A == Payments(S, F, c, P)
           base == [deps |-> deposit, ctx |-> c]
           Visit(acc, i) == PayFor(c, intents, acc, i)
           step == PayingFor(S, F, c, P, intents)
           Fold(f) == [T \in SUBSET (DOMAIN s) |->
                        IF T = {} THEN base ELSE Visit(f[T \ {Max(T)}], s[Max(T)])]
           f == CHOOSE f : f = Fold(f)
<1>1. PaymasterDeposit(c, deposit, intents) = f[DOMAIN s].ctx
  BY Zenon DEF PaymasterDeposit, FoldLeft, MapThenFoldSet, PayFor
<1>2. n \in Nat /\ DOMAIN s = 1 .. n
      /\ \A x \in 1 .. n : s[x] = x - 1 /\ s[x] \in Int /\ s[x] + 1 \in 1 .. n
  BY DEF Indices, Contexts
<1>3. \A T \in SUBSET (1 .. n) : T # {} => Max(T) \in 1 .. n
  BY <1>2, MaxOfSegment
<1>4. base \in A /\ \A x \in 1 .. n : \A a \in A : Visit(a, s[x]) \in A
  <2>1. base \in A
    BY ReducedIs DEF Payments
  <2>2. ASSUME NEW x \in 1 .. n, NEW a \in A PROVE Visit(a, s[x]) \in A
    <3> DEFINE i == s[x]
               op == c.batch[i + 1]
               pm == op.paymaster
               left == a.deps[pm] - op.prefund
               deps == [a.deps EXCEPT ![pm] = left]
               d == IF left < 0 THEN MarkOpIndexForRemoval(a.ctx, i) ELSE a.ctx
    <3>1. i \in Int /\ a.deps \in [P -> Int] /\ a.ctx \in Reduced(S, F, c)
      BY <1>2 DEF Payments
    <3>2. op.prefund \in Int
      BY <1>2 DEF Contexts
    <3> HIDE DEF i, op, pm, s, n
    <3>3. pm \in P => left \in Int
      BY <3>1, <3>2
    <3>4. deps \in [P -> Int]
      <4> HIDE DEF left
      <4> QED
        BY <3>1, <3>3
    <3>5. MarkOpIndexForRemoval(a.ctx, i) \in Reduced(S, F, c)
      <4>1. a.ctx \in Contexts(S, F) /\ Reduced(S, F, a.ctx) \subseteq Reduced(S, F, c)
        BY <3>1, ReducedIs
      <4> QED
        BY <3>1, <4>1, MarkReduces
    <3>6. d \in Reduced(S, F, c)
      BY <3>1, <3>5
    <3>7. [deps |-> deps, ctx |-> d] \in A
      <4> HIDE DEF deps, d
      <4> QED
        BY <3>4, <3>6 DEF Payments
    <3>8. Visit(a, s[x]) = a \/ Visit(a, s[x]) = [deps |-> deps, ctx |-> d]
      BY Zenon DEF i, op, pm, PayFor
    <3> HIDE DEF Visit, deps, d, A
    <3> QED
      BY <3>7, <3>8
  <2> QED
    BY <2>1, <2>2
<1>5. \A x \in 1 .. n : \A a \in A : step[x][a] = Visit(a, s[x])
  BY <1>2 DEF PayingFor
<1> HIDE DEF n, A, Visit, s, base, step
<1>6. Closed(step, 1 .. n, A)
  BY <1>4, <1>5 DEF Closed
<1>7. \E g : g = Fold(g)
  <2>1. PICK g : IsFoldLeft(g, n, A, base, step)
    BY <1>2, <1>4, <1>6, FoldLeftExists
  <2>2. ASSUME NEW T \in SUBSET (1 .. n), T # {}
        PROVE  g[T] = Visit(g[T \ {Max(T)}], s[Max(T)])
    BY <1>3, <1>5, <2>1, <2>2 DEF IsFoldLeft
  <2>3. g = Fold(g)
    BY <1>2, <2>1, <2>2 DEF IsFoldLeft
  <2> QED
    BY <2>3
<1>8. f = Fold(f)
  <2> HIDE DEF Fold
  <2> QED
    BY <1>7
<1> HIDE DEF f
<1>9. f[{}] = base
  BY <1>8
<1>10. ASSUME NEW T \in SUBSET (1 .. n), T # {} /\ f[T \ {Max(T)}] \in A
       PROVE  f[T] = step[Max(T)][f[T \ {Max(T)}]]
  <2>1. f[T] = Visit(f[T \ {Max(T)}], s[Max(T)])
    BY <1>2, <1>8, <1>10
  <2> QED
    BY <1>3, <1>5, <1>10, <2>1
<1>11. \E w : IsWalk(w, n, A, base, step) /\ w[n] = f[1 .. n]
  <2>1. GoesBy(f, n, A, base, step)
    BY <1>9, <1>10 DEF GoesBy
  <2> QED
    BY <1>2, <1>4, <1>6, <2>1, WalkOfFold
<1> QED
  BY <1>1, <1>2, <1>6, <1>11 DEF n, A, base, step

\* PaymasterDeposit only marks ops of the batch.
LEMMA PaymasterDepositReduces ==
  ASSUME NEW S, \A x \in S : x.prefund \in Int, NEW F, NEW c \in Contexts(S, F),
         NEW P, NEW deposit \in [P -> Int], NEW intents
  PROVE  PaymasterDeposit(c, deposit, intents) \in Reduced(S, F, c)
<1> DEFINE n == Len(c.batch)
           A == Payments(S, F, c, P)
           base == [deps |-> deposit, ctx |-> c]
           step == PayingFor(S, F, c, P, intents)
<1>1. PICK w : IsWalk(w, n, A, base, step) /\ w[n].ctx = PaymasterDeposit(c, deposit, intents)
  <2> HIDE DEF n, A, base, step
  <2> QED
    BY PaymasterDepositWalk DEF n, A, base, step
<1>2. n \in 0 .. n
  BY DEF Contexts
<1>3. w[n] \in A
  <2> HIDE DEF n, A, base, step
  <2> QED
    BY <1>1, <1>2 DEF IsWalk
<1> QED
  BY <1>1, <1>3 DEF Payments

\* PaymasterDeposit lists what it takes out of the batch, though it may be the
\* wrong op.
LEMMA PaymasterDepositHolds ==
  ASSUME NEW S, \A x \in S : x.prefund \in Int, NEW F, NEW c \in Contexts(S, F),
         NEW P, NEW deposit \in [P -> Int], NEW intents
  PROVE  /\ Held(PaymasterDeposit(c, deposit, intents)) = Held(c)
         /\ ToSet(c.removal) \subseteq ToSet(PaymasterDeposit(c, deposit, intents).removal)
<1> DEFINE n == Len(c.batch)
           A == Payments(S, F, c, P)
           base == [deps |-> deposit, ctx |-> c]
           step == PayingFor(S, F, c, P, intents)
           Fine == {a \in A : /\ Held(a.ctx) = Held(c)
                              /\ ToSet(c.removal) \subseteq ToSet(a.ctx.removal)}
           Good == [i \in 0 .. n |-> Fine]
<1>1. PICK w : IsWalk(w, n, A, base, step) /\ w[n].ctx = PaymasterDeposit(c, deposit, intents)
  <2> HIDE DEF n, A, base, step
  <2> QED
    BY PaymasterDepositWalk DEF n, A, base, step
<1>2. n \in Nat /\ n \in 0 .. n /\ 0 \in 0 .. n
  BY DEF Contexts
<1>3. base \in Fine
  BY ReducedIs DEF Payments
<1>4. ASSUME NEW i \in 1 .. n, NEW a \in Fine PROVE step[i][a] \in Fine
  <2> DEFINE d == MarkOpIndexForRemoval(a.ctx, i - 1)
  <2>1. /\ a.ctx \in Contexts(S, F) /\ i - 1 \in Int
        /\ Held(a.ctx) = Held(c) /\ ToSet(c.removal) \subseteq ToSet(a.ctx.removal)
    BY <1>2 DEF Payments, Reduced
  <2>2. Held(d) = Held(c) /\ ToSet(c.removal) \subseteq ToSet(d.removal)
    BY <2>1, MarkHolds, MarkLists
  <2>3. step[i][a] = PayFor(c, intents, a, i - 1)
    BY DEF PayingFor
  <2>4. step[i][a].ctx = a.ctx \/ step[i][a].ctx = d
    <3> HIDE DEF d, step
    <3> QED
      BY <2>3 DEF PayFor, d
  <2>5. step[i][a] \in A
    <3>1. a \in A
      OBVIOUS
    <3>2. Closed(step, 1 .. n, A)
      BY PaymasterDepositWalk
    <3> HIDE DEF step, A, Fine
    <3> QED
      BY <3>1, <3>2 DEF Closed
  <2> HIDE DEF step, d, A
  <2> QED
    BY <2>1, <2>2, <2>4, <2>5
<1> HIDE DEF n, A, base, step, Fine
<1>5. /\ \A i \in 0 .. n : Good[i] = Fine
      /\ \A i \in 1 .. n : i - 1 \in 0 .. n /\ i \in 0 .. n
  BY <1>2
<1> HIDE DEF Good
<1>6. base \in Good[0]
  BY <1>2, <1>3, <1>5
<1>7. \A i \in 1 .. n : \A a \in A : a \in Good[i - 1] => step[i][a] \in Good[i]
  BY <1>4, <1>5
<1>8. \A i \in 0 .. n : w[i] \in A /\ w[i] \in Good[i]
  BY <1>1, <1>2, <1>6, <1>7, WalkKeeps
<1>9. w[n] \in Fine
  BY <1>2, <1>5, <1>8
<1> QED
  BY <1>1, <1>9 DEF Fine

\* A hash that is none of an intent of the batch has the index 0 (solveintents.go:120).
LEMMA BatchIndexIs ==
  ASSUME NEW S, NEW s \in Seq(S), NEW hash, NEW intents
  PROVE  BatchIndex(s, hash, intents) \in Nat
<1> DEFINE at == {i \in 1 .. Len(s) : s[i] = hash /\ hash \in intents}
<1>1. BatchIndex(s, hash, intents) = IF at = {} THEN 0 ELSE Min(at) - 1
  BY Zenon DEF BatchIndex
<1>2. at \in SUBSET (1 .. Len(s)) /\ Len(s) \in Nat
  OBVIOUS
<1>3. at # {} => Min(at) \in 1 .. Len(s)
  <2> HIDE DEF at
  <2> QED
    BY <1>2, MinOfSegment
<1> HIDE DEF at
<1> QED
  BY <1>1, <1>3

\* Whatever the Solver answers, the ops it drops leave by the batch's indices;
\* what it writes to an op is a hash of its answer.
LEMMA SolveIntentsReduces ==
  ASSUME NEW S, NEW F, NEW c \in Contexts(S, F), NEW D, NEW H, NEW sol \in [D -> H],
         NEW E, \A e \in E : e.hash \in H, NEW ext \in Seq(E), NEW intents
  PROVE  /\ SolveIntents(c, sol, ext, intents).ctx \in Reduced(S, F, c)
         /\ SolveIntents(c, sol, ext, intents).sol \in [D -> H]
<1> DEFINE n == Len(ext)
           R == Reduced(S, F, c)
           A == [out : {"ok", "panic", "error"}, ctx : R, sol : [D -> H]]
           base == [out |-> "ok", ctx |-> c, sol |-> sol]
           index(e) == BatchIndex(c.batch, e.hash, intents)
           Visit(acc, e) ==
            CASE acc.out # "ok" -> acc
              [] acc.out = "ok" /\ e.status \in Dropping ->
                    [acc EXCEPT !.ctx = MarkOpIndexForRemoval(@, index(e))]
              [] acc.out = "ok" /\ e.status = "Solved" ->
                    IF index(e) < Len(acc.ctx.batch)
                    THEN [acc EXCEPT !.sol[acc.ctx.batch[index(e) + 1]] = e.hash]
                    ELSE [acc EXCEPT !.out = "panic"]
              [] OTHER -> [acc EXCEPT !.out = "error"]
           step == [x \in 1 .. n |-> [a \in A |-> Visit(a, ext[x])]]
           Fold(f) == [T \in SUBSET (DOMAIN ext) |->
                        IF T = {} THEN base ELSE Visit(f[T \ {Max(T)}], ext[Max(T)])]
           f == CHOOSE f : f = Fold(f)
<1>1. SolveIntents(c, sol, ext, intents) = f[DOMAIN ext]
  BY Zenon DEF SolveIntents, FoldLeft, MapThenFoldSet
<1>2. n \in Nat /\ DOMAIN ext = 1 .. n /\ \A x \in 1 .. n : ext[x] \in E
  OBVIOUS
<1>3. \A T \in SUBSET (1 .. n) : T # {} => Max(T) \in 1 .. n
  BY <1>2, MaxOfSegment
<1>4. base \in A /\ \A e \in E : \A a \in A : Visit(a, e) \in A
  <2>1. base \in A
    BY ReducedIs
  <2>2. ASSUME NEW e \in E, NEW a \in A PROVE Visit(a, e) \in A
    <3>1. /\ a.out \in {"ok", "panic", "error"} /\ a.ctx \in R /\ a.sol \in [D -> H]
          /\ e.hash \in H
      OBVIOUS
    <3> DEFINE d == MarkOpIndexForRemoval(a.ctx, index(e))
               x == a.ctx.batch[index(e) + 1]
               m == [a.sol EXCEPT ![x] = e.hash]
    <3>2. d \in R
      <4>1. index(e) \in Int
        BY BatchIndexIs DEF Contexts
      <4> HIDE DEF index
      <4>2. a.ctx \in Contexts(S, F) /\ Reduced(S, F, a.ctx) \subseteq R
        BY <3>1, ReducedIs
      <4> HIDE DEF R
      <4> QED
        BY <4>1, <4>2, MarkReduces
    <3>3. m \in [D -> H]
      <4> HIDE DEF x, A, R
      <4> QED
        BY <3>1
    <3> HIDE DEF R
    <3>4. /\ [a EXCEPT !.ctx = d] \in A /\ [a EXCEPT !.sol = m] \in A
          /\ [a EXCEPT !.out = "panic"] \in A /\ [a EXCEPT !.out = "error"] \in A
      <4> HIDE DEF d, m
      <4> QED
        BY <3>1, <3>2, <3>3
    <3>5. [a EXCEPT !.sol[x] = e.hash] = [a EXCEPT !.sol = m]
      <4> HIDE DEF x
      <4> QED
        OBVIOUS
    <3>6. CASE a.out # "ok"
      BY <3>6
    <3>7. CASE a.out = "ok" /\ e.status \in Dropping
      <4>1. Visit(a, e) = [a EXCEPT !.ctx = d]
        <5> HIDE DEF index, A
        <5> QED
          BY <3>7 DEF Dropping
      <4> QED
        BY <3>4, <4>1
    <3>8. CASE a.out = "ok" /\ e.status = "Solved"
      <4>1. e.status \notin Dropping
        BY <3>8 DEF Dropping
      <4>2. Visit(a, e) = IF index(e) < Len(a.ctx.batch)
                          THEN [a EXCEPT !.sol[x] = e.hash] ELSE [a EXCEPT !.out = "panic"]
        <5> HIDE DEF index, A
        <5> QED
          BY <3>8, <4>1
      <4> HIDE DEF index, x, m, A, Visit
      <4> QED
        BY <3>4, <3>5, <4>2
    <3>9. CASE a.out = "ok" /\ e.status \notin Dropping /\ e.status # "Solved"
      <4>1. Visit(a, e) = [a EXCEPT !.out = "error"]
        <5> HIDE DEF index, A
        <5> QED
          BY <3>9
      <4> QED
        BY <3>4, <4>1
    <3> HIDE DEF index, x, m, d, A, Visit
    <3> QED
      BY <3>6, <3>7, <3>8, <3>9
  <2> QED
    BY <2>1, <2>2
<1>0. \A a \in A : a.ctx \in R /\ a.sol \in [D -> H]
  OBVIOUS
<1> HIDE DEF n, A, Visit, base
<1>5. \E g : g = Fold(g)
  <2>1. Closed(step, 1 .. n, A)
    BY <1>2, <1>4 DEF Closed
  <2> HIDE DEF step
  <2>2. PICK g : IsFoldLeft(g, n, A, base, step)
    BY <1>2, <1>4, <2>1, FoldLeftExists
  <2>3. ASSUME NEW T \in SUBSET (1 .. n), T # {}
        PROVE  g[T] = Visit(g[T \ {Max(T)}], ext[Max(T)])
    BY <1>3, <2>2, <2>3 DEF step, IsFoldLeft
  <2>4. g = Fold(g)
    BY <1>2, <2>2, <2>3 DEF IsFoldLeft
  <2> QED
    BY <2>4
<1>6. f = Fold(f)
  <2> HIDE DEF Fold
  <2> QED
    BY <1>5
<1> HIDE DEF f
<1>7. f[{}] \in A
  BY <1>4, <1>6
<1>8. ASSUME NEW T \in SUBSET (1 .. n), T # {}, f[T \ {Max(T)}] \in A
      PROVE  f[T] \in A
  <2>1. f[T] = Visit(f[T \ {Max(T)}], ext[Max(T)])
    BY <1>2, <1>6, <1>8
  <2>2. ext[Max(T)] \in E
    BY <1>2, <1>3, <1>8
  <2> QED
    BY <1>4, <1>8, <2>1, <2>2
<1>9. f[1 .. n] \in A
  BY <1>2, <1>7, <1>8, FoldLeftType
<1> QED
  BY <1>0, <1>1, <1>2, <1>9
-----------------------------------------------------------------------------
(* What the sorts achieve. *)

\* Insert keeps the neighbours of a sequence in order, if less is asymmetric.
LEMMA InsertNeighbours ==
  ASSUME NEW S, NEW s \in Seq(S), NEW x \in S, NEW less,
         \A a, b \in S : less[a][b] => ~ less[b][a],
         \A i \in 1 .. Len(s) - 1 : ~ less[s[i + 1]][s[i]]
  PROVE  \A i \in 1 .. Len(Insert(s, x, less)) - 1 :
            ~ less[Insert(s, x, less)[i + 1]][Insert(s, x, less)[i]]
<1> DEFINE r == Insert(s, x, less)
           k == Place(s, x, less)
<1>1. /\ k \in 1 .. Len(s) + 1
      /\ k > 1 => ~ less[x][s[k - 1]]
      /\ \A i \in 1 .. Len(s) : i >= k => less[x][s[i]]
      /\ Len(r) = Len(s) + 1
      /\ \A i \in 1 .. Len(s) + 1 : r[i] = IF i < k THEN s[i] ELSE IF i = k THEN x ELSE s[i - 1]
  BY InsertIs
<1> HIDE DEF r, k
<1>2. ASSUME NEW i \in 1 .. Len(r) - 1 PROVE ~ less[r[i + 1]][r[i]]
  <2>1. i \in 1 .. Len(s) + 1 /\ i + 1 \in 1 .. Len(s) + 1 /\ i \in 1 .. Len(s) /\ (i + 1) - 1 = i
    BY <1>1
  <2>2. CASE i + 1 < k
    <3>1. r[i] = s[i] /\ r[i + 1] = s[i + 1] /\ i \in 1 .. Len(s) - 1
      BY <1>1, <2>1, <2>2
    <3> QED
      BY <3>1
  <2>3. CASE i + 1 = k
    <3>1. r[i] = s[i] /\ r[i + 1] = x /\ k > 1 /\ k - 1 = i
      BY <1>1, <2>1, <2>3
    <3> QED
      BY <1>1, <3>1
  <2>4. CASE i = k
    <3>1. r[i] = x /\ r[i + 1] = s[i] /\ less[x][s[i]] /\ s[i] \in S
      BY <1>1, <2>1, <2>4
    <3> QED
      BY <3>1
  <2>5. CASE i > k
    <3>1. r[i] = s[i - 1] /\ r[i + 1] = s[i] /\ i - 1 \in 1 .. Len(s) - 1 /\ (i - 1) + 1 = i
      BY <1>1, <2>1, <2>5
    <3> QED
      BY <3>1
  <2> QED
    BY <1>1, <2>1, <2>2, <2>3, <2>4, <2>5
<1> QED
  BY <1>2 DEF r

\* No element of a sorted sequence is directly behind a greater one.
LEMMA SliceStableNeighbours ==
  ASSUME NEW S, NEW s \in Seq(S), NEW less, \A a, b \in S : less[a][b] => ~ less[b][a]
  PROVE  \A i \in 1 .. Len(SliceStable(s, less)) - 1 :
            ~ less[SliceStable(s, less)[i + 1]][SliceStable(s, less)[i]]
<1> DEFINE n == Len(s)
           A == Seq(S)
           step == Inserting(S, s, less)
           Fine == {r \in A : \A i \in 1 .. Len(r) - 1 : ~ less[r[i + 1]][r[i]]}
           Good == [i \in 0 .. n |-> Fine]
<1>1. PICK w : IsWalk(w, n, A, <<>>, step) /\ w[n] = SliceStable(s, less)
  BY SliceStableWalk
<1>2. n \in Nat /\ n \in 0 .. n /\ 0 \in 0 .. n
  OBVIOUS
<1>3. <<>> \in Fine
  OBVIOUS
<1>4. ASSUME NEW i \in 1 .. n, NEW r \in A, r \in Good[i - 1]
      PROVE  step[i][r] \in Good[i]
  <2>1. s[i] \in S /\ step[i][r] = Insert(r, s[i], less) /\ i - 1 \in 0 .. n /\ i \in 0 .. n
    BY DEF Inserting
  <2>2. \A j \in 1 .. Len(r) - 1 : ~ less[r[j + 1]][r[j]]
    BY <1>4, <2>1
  <2>3. Insert(r, s[i], less) \in Fine
    <3> DEFINE t == Insert(r, s[i], less)
    <3>1. t \in A
      BY <2>1, InsertIs
    <3>2. \A j \in 1 .. Len(t) - 1 : ~ less[t[j + 1]][t[j]]
      BY <2>1, <2>2, InsertNeighbours
    <3> HIDE DEF t, A
    <3>3. t \in Fine
      BY <3>1, <3>2
    <3> QED
      BY <3>3 DEF t
  <2> QED
    BY <2>1, <2>3
<1>5. w[n] \in Fine
  <2>0. <<>> \in Good[0] /\ Good[n] = Fine
    BY <1>2, <1>3
  <2> HIDE DEF Good, step, A, Fine, n
  <2>1. w[n] \in Good[n]
    <3>1. \A i \in 1 .. n : \A r \in A : r \in Good[i - 1] => step[i][r] \in Good[i]
      BY <1>4
    <3>2. IsWalk(w, n, A, <<>>, step) /\ n \in Nat /\ n \in 0 .. n
      BY <1>1, <1>2
    <3> QED
      BY <2>0, <3>1, <3>2, WalkKeeps
  <2> QED
    BY <2>0, <2>1
<1> QED
  BY <1>1, <1>5

\* An element that comes behind those before it and in front of the others.
LEMMA InsertOrder ==
  ASSUME NEW S, NEW s \in Seq(S), NEW x \in S, NEW less, NEW before,
         \A i, j \in 1 .. Len(s) : i < j => before[s[i]][s[j]],
         \A i \in 1 .. Len(s) : i < Place(s, x, less) => before[s[i]][x],
         \A i \in 1 .. Len(s) : i >= Place(s, x, less) => before[x][s[i]]
  PROVE  \A i, j \in 1 .. Len(Insert(s, x, less)) :
            i < j => before[Insert(s, x, less)[i]][Insert(s, x, less)[j]]
<1> DEFINE r == Insert(s, x, less)
           k == Place(s, x, less)
<1>1. /\ k \in 1 .. Len(s) + 1
      /\ Len(r) = Len(s) + 1
      /\ \A i \in 1 .. Len(s) + 1 : r[i] = IF i < k THEN s[i] ELSE IF i = k THEN x ELSE s[i - 1]
  BY InsertIs
<1>2. /\ \A i \in 1 .. Len(s) : i < k => before[s[i]][x]
      /\ \A i \in 1 .. Len(s) : i >= k => before[x][s[i]]
  OBVIOUS
<1> HIDE DEF r, k
<1>3. ASSUME NEW i \in 1 .. Len(r), NEW j \in 1 .. Len(r), i < j
      PROVE  before[r[i]][r[j]]
  <2>1. i \in 1 .. Len(s) + 1 /\ j \in 1 .. Len(s) + 1 /\ i \in 1 .. Len(s) /\ j - 1 \in 1 .. Len(s)
    BY <1>1, <1>3
  <2>2. CASE j < k
    <3>1. r[i] = s[i] /\ r[j] = s[j] /\ j \in 1 .. Len(s)
      BY <1>1, <1>3, <2>1, <2>2
    <3> QED
      BY <1>3, <2>1, <3>1
  <2>3. CASE j = k
    <3>1. r[i] = s[i] /\ r[j] = x /\ i < k
      BY <1>1, <1>3, <2>1, <2>3
    <3> QED
      BY <1>2, <2>1, <3>1
  <2>4. CASE j > k
    <3>1. r[j] = s[j - 1] /\ j - 1 >= k
      BY <1>1, <2>1, <2>4
    <3>2. CASE i < k
      <4>1. r[i] = s[i] /\ i < j - 1
        BY <1>1, <2>1, <3>1, <3>2
      <4> QED
        BY <2>1, <3>1, <4>1
    <3>3. CASE i = k
      <4>1. r[i] = x
        BY <1>1, <2>1, <3>3
      <4> QED
        BY <1>2, <2>1, <3>1, <4>1
    <3>4. CASE i > k
      <4>1. r[i] = s[i - 1] /\ i - 1 < j - 1 /\ i - 1 \in 1 .. Len(s)
        BY <1>1, <1>3, <2>1, <3>4
      <4> QED
        BY <2>1, <3>1, <4>1
    <3> QED
      BY <1>1, <3>2, <3>3, <3>4
  <2> QED
    BY <1>1, <2>2, <2>3, <2>4
<1> QED
  BY <1>3 DEF r

\* a is of a greater rank than b, or of the same and in front of it in s.
Ahead(s, rank, a, b) ==
    \/ rank[a] > rank[b]
    \/ rank[a] = rank[b] /\ \A p, q \in 1 .. Len(s) : s[p] = a /\ s[q] = b => p < q

\* The sort of a sequence by rank is stable.
LEMMA SliceStableOrder ==
  ASSUME NEW S, NEW s \in Seq(S), Distinct(s), NEW rank \in [S -> Int], NEW less,
         \A a, b \in S : less[a][b] <=> rank[a] > rank[b]
  PROVE  \A i, j \in 1 .. Len(SliceStable(s, less)) :
            i < j => Ahead(s, rank, SliceStable(s, less)[i], SliceStable(s, less)[j])
<1> DEFINE n == Len(s)
           A == Seq(S)
           step == Inserting(S, s, less)
           before == [a \in S |-> [b \in S |-> Ahead(s, rank, a, b)]]
           Upto(i) == {s[j] : j \in 1 .. i}
           InOrder(r) == \A i, j \in 1 .. Len(r) : i < j => before[r[i]][r[j]]
           Good == [i \in 0 .. n |-> {r \in A : ToSet(r) = Upto(i) /\ InOrder(r)}]
<1>1. PICK w : IsWalk(w, n, A, <<>>, step) /\ w[n] = SliceStable(s, less)
  BY SliceStableWalk
<1>2. n \in Nat /\ n \in 0 .. n /\ 0 \in 0 .. n
  OBVIOUS
<1>3. <<>> \in Good[0]
  BY DEF ToSet
<1>4. ASSUME NEW m \in 1 .. n, NEW r \in A, r \in Good[m - 1]
      PROVE  step[m][r] \in Good[m]
  <2> DEFINE x == s[m]
             k == Place(r, x, less)
             t == Insert(r, x, less)
  <2>1. x \in S /\ step[m][r] = t /\ m - 1 \in 0 .. n /\ m \in 0 .. n
    BY DEF Inserting
  <2>2. ToSet(r) = Upto(m - 1) /\ InOrder(r)
    BY <1>4, <2>1
  <2>3. Upto(m) = Upto(m - 1) \union {x}
    OBVIOUS
  <2>4. /\ k \in 1 .. Len(r) + 1
        /\ k > 1 => ~ less[x][r[k - 1]]
        /\ \A i \in 1 .. Len(r) : i >= k => less[x][r[i]]
    <3> HIDE DEF x, k
    <3> QED
      BY <2>1, InsertIs DEF k
  <2>5. ASSUME NEW i \in 1 .. Len(r)
        PROVE  r[i] \in S /\ \A p, q \in 1 .. n : s[p] = r[i] /\ s[q] = x => p < q
    <3>1. PICK p0 \in 1 .. m - 1 : s[p0] = r[i]
      <4>1. r[i] \in ToSet(r)
        BY ToSetIs
      <4> QED
        BY <2>2, <4>1
    <3>2. p0 \in 1 .. n /\ p0 < m /\ m \in 1 .. n /\ p0 \in Int /\ m \in Int
      BY <1>2
    <3>3. \A p \in 1 .. n : (s[p] = r[i] => p = p0) /\ (s[p] = x => p = m)
      BY <3>1, <3>2 DEF Distinct
    <3> QED
      BY <3>2, <3>3
  <2> HIDE DEF x, k
  <2>6. ASSUME NEW i \in 1 .. Len(r), i < k PROVE before[r[i]][x]
    <3>1. k > 1 /\ k - 1 \in 1 .. Len(r) /\ ~ less[x][r[k - 1]] /\ i <= k - 1
      BY <2>4, <2>6
    <3>2. r[i] \in S /\ r[k - 1] \in S /\ rank[r[i]] \in Int /\ rank[r[k - 1]] \in Int /\ rank[x] \in Int
      BY <2>1, <2>5, <3>1
    <3>3. ~ (rank[x] > rank[r[k - 1]])
      BY <2>1, <3>1, <3>2
    <3>4. rank[r[i]] >= rank[r[k - 1]]
      <4>1. CASE i = k - 1
        BY <3>2, <4>1
      <4>2. CASE i < k - 1
        <5>1. before[r[i]][r[k - 1]]
          BY <2>2, <3>1, <4>2
        <5>2. Ahead(s, rank, r[i], r[k - 1])
          BY <3>2, <5>1
        <5> QED
          BY <3>2, <5>2 DEF Ahead
      <4>3. i = k - 1 \/ i < k - 1
        BY <2>4, <3>1
      <4> QED
        BY <4>1, <4>2, <4>3
    <3>5. rank[r[i]] > rank[x] \/ rank[r[i]] = rank[x]
      <4>1. \A a, b, c \in Int : a >= b /\ ~ (c > b) => a > c \/ a = c
        OBVIOUS
      <4> QED
        BY ONLY <3>2, <3>3, <3>4, <4>1
    <3>6. Ahead(s, rank, r[i], x)
      BY <2>5, <3>5 DEF Ahead
    <3> QED
      BY <2>1, <3>2, <3>6
  <2>7. ASSUME NEW i \in 1 .. Len(r), i >= k PROVE before[x][r[i]]
    <3>1. less[x][r[i]] /\ r[i] \in S
      BY <2>4, <2>5, <2>7
    <3>2. rank[x] > rank[r[i]]
      BY <2>1, <3>1
    <3> QED
      BY <2>1, <3>1, <3>2 DEF Ahead
  <2>8. t \in A /\ ToSet(t) = Upto(m)
    <3> HIDE DEF Upto
    <3> QED
      BY <2>1, <2>2, <2>3, InsertSet
  <2>9. InOrder(t)
    <3>1. /\ \A i, j \in 1 .. Len(r) : i < j => before[r[i]][r[j]]
          /\ \A i \in 1 .. Len(r) : i < Place(r, x, less) => before[r[i]][x]
          /\ \A i \in 1 .. Len(r) : i >= Place(r, x, less) => before[x][r[i]]
      BY <2>2, <2>6, <2>7 DEF k
    <3> HIDE DEF before
    <3> QED
      BY <2>1, <3>1, InsertOrder
  <2> HIDE DEF t, Upto, InOrder, A
  <2>10. t \in Good[m]
    BY <2>1, <2>8, <2>9
  <2> QED
    BY <2>1, <2>10
<1>5. w[n] \in Good[n]
  <2> HIDE DEF Good, step, A, n
  <2>1. \A i \in 1 .. n : \A r \in A : r \in Good[i - 1] => step[i][r] \in Good[i]
    BY <1>4
  <2> QED
    BY <1>1, <1>2, <1>3, <2>1, WalkKeeps
<1>6. InOrder(w[n]) /\ w[n] \in A
  <2> HIDE DEF InOrder, Upto, A, n
  <2> QED
    BY <1>2, <1>5
<1>7. ASSUME NEW i \in 1 .. Len(w[n]), NEW j \in 1 .. Len(w[n]), i < j
      PROVE  Ahead(s, rank, w[n][i], w[n][j])
  <2>1. before[w[n][i]][w[n][j]]
    BY <1>6, <1>7
  <2>2. w[n][i] \in S /\ w[n][j] \in S
    BY <1>6
  <2> QED
    BY <2>1, <2>2
<1> QED
  BY <1>1, <1>7
=============================================================================
