-------------------------- MODULE FreqStatsProofs --------------------------
(***************************************************************************)
(* The windows of the most visited URLs, for any windows, ages and packs   *)
(* of visits, and the top that EnqueueLoop is given, for any limit.  IInv, *)
(* defined in FreqStats, is inductive.                                     *)
(***************************************************************************)
EXTENDS FreqStats, FiniteSetTheorems, SequenceTheorems, WellFoundedInduction, TLAPS

-----------------------------------------------------------------------------
(***************************************************************************)
(* Induction: a property of the naturals that fails fails first somewhere. *)
(***************************************************************************)
LEMMA LeastNat ==
  ASSUME NEW S, S \subseteq Nat, S # {}
  PROVE  \E k \in S : \A j \in S : k <= j
<1>1. \E k \in S : \A j \in S : ~(<<j, k>> \in OpToRel(<, Nat))
  BY NatLessThanWellFounded, WFMin
<1>2. ASSUME NEW j \in Nat, NEW k \in Nat, j < k
      PROVE  <<j, k>> \in OpToRel(<, Nat)
  BY <1>2 DEF OpToRel
<1>3. PICK k \in S : \A j \in S : ~(<<j, k>> \in OpToRel(<, Nat))
  BY <1>1
<1>4. ASSUME NEW j \in S PROVE k <= j
  <2>1. j \in Nat /\ k \in Nat /\ ~(j < k)
    BY <1>2, <1>3
  <2> QED BY <2>1
<1>5. QED
  BY <1>4

\* A set of naturals that has 0 and with k - 1 also k has all up to n.
LEMMA UpTo ==
  ASSUME NEW S, NEW n \in Nat, 0 \in S,
         \A k \in 1 .. n : k - 1 \in S => k \in S
  PROVE  \A k \in 0 .. n : k \in S
<1> SUFFICES ASSUME \E k \in 0 .. n : k \notin S
             PROVE  FALSE
  OBVIOUS
<1> DEFINE Bad == {k \in 0 .. n : k \notin S}
<1>1. PICK k \in Bad : \A j \in Bad : k <= j
  <2>1. Bad \subseteq Nat /\ Bad # {}
    OBVIOUS
  <2> HIDE DEF Bad
  <2> QED BY <2>1, LeastNat
<1>2. k \in 1 .. n /\ k - 1 \in 0 .. n /\ ~(k <= k - 1)
  BY <1>1
<1>3. k - 1 \in S
  BY <1>1, <1>2
<1> QED
  BY <1>1, <1>2, <1>3

LEMMA MaxUpTo ==
  ASSUME NEW S, S # {}, NEW n \in Nat, S \subseteq 0 .. n
  PROVE  Max(S) \in S /\ \A d \in S : d <= Max(S)
<1> DEFINE T == {m \in 0 .. n : n - m \in S}
<1>1. T \subseteq Nat /\ T # {}
  <2>1. PICK d \in S : TRUE
    OBVIOUS
  <2>2. n - d \in T
    BY <2>1
  <2>3. T \subseteq Nat
    OBVIOUS
  <2> HIDE DEF T
  <2> QED BY <2>2, <2>3
<1>2. PICK k \in T : \A j \in T : k <= j
  <2> HIDE DEF T
  <2> QED BY <1>1, LeastNat
<1>3. n - k \in S
  BY <1>2
<1>4. ASSUME NEW y \in S
      PROVE  y <= n - k
  <2>1. n - y \in T
    OBVIOUS
  <2> QED BY <1>2, <2>1
<1> QED
  BY <1>3, <1>4 DEF Max

-----------------------------------------------------------------------------
(***************************************************************************)
(* Sums.                                                                   *)
(***************************************************************************)
IsSum(sum, c, n) ==
  sum = [m \in 0 .. n |-> IF m = 0 THEN 0 ELSE sum[m - 1] + c[m]]

LEMMA SumExists ==
  ASSUME NEW c, NEW n \in Nat
  PROVE  \E sum : IsSum(sum, c, n)
<1> DEFINE S == {k \in Nat : \E sum : IsSum(sum, c, k)}
<1>1. 0 \in S
  <2>1. IsSum([m \in 0 .. 0 |-> 0], c, 0)
    BY DEF IsSum
  <2> QED BY <2>1
<1>2. ASSUME NEW k \in 1 .. n, k - 1 \in S
      PROVE  k \in S
  <2>1. PICK sum : IsSum(sum, c, k - 1)
    BY <1>2
  <2> DEFINE next == [m \in 0 .. k |-> IF m = k THEN sum[k - 1] + c[k] ELSE sum[m]]
  <2>2. IsSum(next, c, k)
    BY <2>1 DEF IsSum
  <2> QED BY <2>2
<1> HIDE DEF S
<1>3. n \in S
  BY <1>1, <1>2, UpTo
<1> QED
  BY <1>3 DEF S

LEMMA SumToIs ==
  ASSUME NEW c, NEW n \in Nat
  PROVE  \E sum : IsSum(sum, c, n) /\ SumTo(c, n) = sum[n]
<1> DEFINE sum == CHOOSE s : s = [m \in 0 .. n |-> IF m = 0 THEN 0 ELSE s[m - 1] + c[m]]
<1>1. SumTo(c, n) = sum[n]
  BY DEF SumTo
<1>2. IsSum(sum, c, n)
  BY SumExists DEF IsSum
<1> QED
  BY <1>1, <1>2

\* A shorter sum is the beginning of a longer one.
LEMMA SumAgrees ==
  ASSUME NEW c, NEW n \in Nat, NEW m \in 0 .. n, NEW s, NEW t, IsSum(s, c, n), IsSum(t, c, m)
  PROVE  t[m] = s[m]
<1> DEFINE S == {k \in 0 .. m : t[k] = s[k]}
<1>1. 0 \in S
  BY DEF IsSum
<1>2. ASSUME NEW k \in 1 .. m, k - 1 \in S
      PROVE  k \in S
  BY <1>2 DEF IsSum
<1> HIDE DEF S
<1>3. m \in S
  BY <1>1, <1>2, UpTo
<1> QED
  BY <1>3 DEF S

LEMMA SumToFacts ==
  ASSUME NEW c
  PROVE  /\ SumTo(c, 0) = 0
         /\ \A n \in Nat \ {0} : SumTo(c, n) = SumTo(c, n - 1) + c[n]
<1>1. SumTo(c, 0) = 0
  BY SumToIs DEF IsSum
<1>2. ASSUME NEW n \in Nat \ {0}
      PROVE  SumTo(c, n) = SumTo(c, n - 1) + c[n]
  <2>1. PICK s : IsSum(s, c, n) /\ SumTo(c, n) = s[n]
    BY SumToIs
  <2>2. PICK t : IsSum(t, c, n - 1) /\ SumTo(c, n - 1) = t[n - 1]
    BY SumToIs
  <2>3. t[n - 1] = s[n - 1]
    BY <2>1, <2>2, SumAgrees
  <2>4. s[n] = s[n - 1] + c[n]
    BY <2>1 DEF IsSum
  <2> QED BY <2>1, <2>2, <2>3, <2>4
<1> QED
  BY <1>1, <1>2

LEMMA SumToType ==
  ASSUME NEW n \in Nat, NEW c, \A k \in 1 .. n : c[k] \in Nat
  PROVE  \A m \in 0 .. n : SumTo(c, m) \in Nat
<1> DEFINE S == {k \in 0 .. n : SumTo(c, k) \in Nat}
<1>1. 0 \in S
  BY SumToFacts
<1>2. ASSUME NEW k \in 1 .. n, k - 1 \in S
      PROVE  k \in S
  <2>1. SumTo(c, k) = SumTo(c, k - 1) + c[k] /\ c[k] \in Nat /\ SumTo(c, k - 1) \in Nat
    BY <1>2, SumToFacts
  <2> QED BY <2>1
<1> HIDE DEF S
<1>3. \A k \in 0 .. n : k \in S
  BY <1>1, <1>2, UpTo
<1> QED
  BY <1>3 DEF S

LEMMA SumToSame ==
  ASSUME NEW n \in Nat, NEW c, NEW d, \A k \in 1 .. n : c[k] = d[k]
  PROVE  SumTo(c, n) = SumTo(d, n)
<1> DEFINE S == {k \in 0 .. n : SumTo(c, k) = SumTo(d, k)}
<1>1. 0 \in S
  BY SumToFacts
<1>2. ASSUME NEW k \in 1 .. n, k - 1 \in S
      PROVE  k \in S
  BY <1>2, SumToFacts
<1> HIDE DEF S
<1>3. n \in S
  BY <1>1, <1>2, UpTo
<1> QED
  BY <1>3 DEF S

LEMMA SumToZero ==
  ASSUME NEW n \in Nat, NEW c, \A k \in 1 .. n : c[k] = 0
  PROVE  SumTo(c, n) = 0
<1> DEFINE S == {k \in 0 .. n : SumTo(c, k) = 0}
<1>1. 0 \in S
  BY SumToFacts
<1>2. \A k \in 1 .. n : k - 1 \in S => k \in S
  BY SumToFacts
<1> HIDE DEF S
<1>3. n \in S
  BY <1>1, <1>2, UpTo
<1> QED
  BY <1>3 DEF S

LEMMA SumToMono ==
  ASSUME NEW n \in Nat, NEW c, NEW d, 
         \A k \in 1 .. n : c[k] \in Nat /\ d[k] \in Nat /\ c[k] <= d[k]
  PROVE  SumTo(c, n) <= SumTo(d, n)
<1> DEFINE S == {k \in 0 .. n : SumTo(c, k) <= SumTo(d, k)}
<1>1. 0 \in S
  BY SumToFacts
<1>2. ASSUME NEW k \in 1 .. n, k - 1 \in S
      PROVE  k \in S
  <2>1. /\ SumTo(c, k) = SumTo(c, k - 1) + c[k]
        /\ SumTo(d, k) = SumTo(d, k - 1) + d[k]
    BY SumToFacts
  <2>2. SumTo(c, k - 1) \in Nat /\ SumTo(d, k - 1) \in Nat
    BY SumToType
  <2> QED BY <1>2, <2>1, <2>2
<1> HIDE DEF S
<1>3. n \in S
  BY <1>1, <1>2, UpTo
<1> QED
  BY <1>3 DEF S

\* The sum of n and m terms is that of the first n and that of the m others.
LEMMA SumToSplit ==
  ASSUME NEW n \in Nat, NEW m \in Nat, NEW c, NEW d,
         \A k \in 1 .. n + m : c[k] \in Nat,
         \A k \in 1 .. m : d[k] = c[n + k]
  PROVE  SumTo(c, n + m) = SumTo(c, n) + SumTo(d, m)
<1> DEFINE S == {k \in 0 .. m : SumTo(c, n + k) = SumTo(c, n) + SumTo(d, k)}
<1>1. \A k \in 0 .. n + m : SumTo(c, k) \in Nat
  BY SumToType
<1>2. \A k \in 0 .. m : SumTo(d, k) \in Nat
  BY SumToType
<1>3. 0 \in S
  BY <1>1, SumToFacts
<1>4. ASSUME NEW k \in 1 .. m, k - 1 \in S
      PROVE  k \in S
  <2>1. SumTo(c, n + k) = SumTo(c, n + (k - 1)) + c[n + k]
    BY SumToFacts
  <2>2. SumTo(d, k) = SumTo(d, k - 1) + c[n + k]
    BY SumToFacts
  <2>3. c[n + k] \in Nat /\ SumTo(c, n) \in Nat /\ SumTo(d, k - 1) \in Nat
    BY <1>1, <1>2
  <2>4. SumTo(c, n + (k - 1)) = SumTo(c, n) + SumTo(d, k - 1)
    BY <1>4
  <2>5. SumTo(c, n + k) = SumTo(c, n) + SumTo(d, k)
    BY <2>1, <2>2, <2>3, <2>4
  <2> QED BY <2>5
<1> HIDE DEF S
<1>5. m \in S
  BY <1>3, <1>4, UpTo
<1> QED
  BY <1>5 DEF S

-----------------------------------------------------------------------------
(***************************************************************************)
(* The visits of a URL in a sequence.                                      *)
(***************************************************************************)
Weight(uts, u, t) == IF uts.url = u /\ uts.tp >= t THEN uts.cnt ELSE 0

Weights(s, u, t) ==
  [i \in 1 .. Len(s) |-> IF s[i].url = u /\ s[i].tp >= t THEN s[i].cnt ELSE 0]

LEMMA WeightsFacts ==
  ASSUME NEW s \in Seq(Uts), NEW u, NEW t
  PROVE  /\ Len(s) \in Nat
         /\ \A i \in 1 .. Len(s) : Weights(s, u, t)[i] = Weight(s[i], u, t)
         /\ \A i \in 1 .. Len(s) : Weights(s, u, t)[i] \in Nat
         /\ CntSince(s, u, t) = SumTo(Weights(s, u, t), Len(s))
<1>1. Len(s) \in Nat
  OBVIOUS
<1>2. \A i \in 1 .. Len(s) : s[i] \in Uts
  OBVIOUS
<1>3. \A e \in Uts : Weight(e, u, t) \in Nat
  BY DEF Weight, Uts
<1>4. \A i \in 1 .. Len(s) : Weights(s, u, t)[i] = Weight(s[i], u, t)
  BY DEF Weight, Weights
<1>5. CntSince(s, u, t) = SumTo(Weights(s, u, t), Len(s))
  BY DEF CntSince, Weights
<1> QED
  BY <1>1, <1>2, <1>3, <1>4, <1>5

LEMMA CntType ==
  ASSUME NEW s \in Seq(Uts), NEW u, NEW t
  PROVE  CntSince(s, u, t) \in Nat
BY WeightsFacts, SumToType

LEMMA CntEmpty ==
  ASSUME NEW u, NEW t
  PROVE  CntSince(<<>>, u, t) = 0
BY SumToFacts DEF CntSince

\* A part of a sequence: its visits are those of these positions.
LEMMA CntSplit ==
  ASSUME NEW s \in Seq(Uts), NEW k \in 0 .. Len(s), NEW u, NEW t
  PROVE  /\ SubSeq(s, 1, k) \in Seq(Uts) /\ SubSeq(s, k + 1, Len(s)) \in Seq(Uts)
         /\ CntSince(s, u, t) =
              CntSince(SubSeq(s, 1, k), u, t) + CntSince(SubSeq(s, k + 1, Len(s)), u, t)
<1> DEFINE n == Len(s)
           a == SubSeq(s, 1, k)
           b == SubSeq(s, k + 1, n)
<1>1. n \in Nat /\ k \in Nat /\ \A i \in 1 .. n : s[i] \in Uts
  OBVIOUS
<1>2. a \in Seq(Uts) /\ Len(a) = k /\ \A i \in 1 .. k : a[i] = s[i]
  <2>1. \A i \in 1 .. k : s[i] \in Uts
    BY <1>1
  <2>2. a \in Seq(Uts) /\ Len(a) = (IF 1 <= k THEN k - 1 + 1 ELSE 0)
        /\ \A i \in 1 .. k - 1 + 1 : a[i] = s[1 + i - 1]
    BY <1>1, <2>1, SubSeqProperties
  <2> QED BY <1>1, <2>2
<1>3. b \in Seq(Uts) /\ Len(b) = n - k /\ \A i \in 1 .. n - k : b[i] = s[k + i]
  <2>1. \A i \in k + 1 .. n : s[i] \in Uts
    BY <1>1
  <2>2. b \in Seq(Uts) /\ Len(b) = (IF k + 1 <= n THEN n - (k + 1) + 1 ELSE 0)
        /\ \A i \in 1 .. n - (k + 1) + 1 : b[i] = s[k + 1 + i - 1]
    <3> HIDE DEF n
    <3> QED BY <1>1, <2>1, SubSeqProperties
  <2> QED BY <1>1, <2>2
<1> DEFINE c == Weights(s, u, t)
<1>4. CntSince(s, u, t) = SumTo(c, n) /\ \A i \in 1 .. n : c[i] \in Nat
  BY WeightsFacts
<1>5. CntSince(a, u, t) = SumTo(c, k)
  <2>1. CntSince(a, u, t) = SumTo(Weights(a, u, t), k)
    BY <1>2, WeightsFacts
  <2> DEFINE d == Weights(a, u, t)
  <2>2. \A i \in 1 .. k : d[i] = Weight(a[i], u, t)
    <3> HIDE DEF a
    <3> QED BY <1>2, WeightsFacts
  <2>3. \A i \in 1 .. k : d[i] = c[i]
    <3>1. \A i \in 1 .. n : c[i] = Weight(s[i], u, t)
      BY WeightsFacts
    <3> HIDE DEF a, c, d
    <3> QED BY <1>1, <1>2, <2>2, <3>1
  <2>4. SumTo(d, k) = SumTo(c, k)
    <3> HIDE DEF c, d
    <3> QED BY <1>1, <2>3, SumToSame
  <2> QED BY <2>1, <2>4
<1>6. CntSince(b, u, t) = SumTo(Weights(b, u, t), n - k)
  BY <1>3, WeightsFacts
<1>7. \A i \in 1 .. n - k : Weights(b, u, t)[i] = c[k + i]
  <2> DEFINE d == Weights(b, u, t)
  <2>1. \A i \in 1 .. n - k : d[i] = Weight(b[i], u, t)
    <3> HIDE DEF b
    <3> QED BY <1>3, WeightsFacts
  <2>2. \A i \in 1 .. n : c[i] = Weight(s[i], u, t)
    BY WeightsFacts
  <2> HIDE DEF b, c, d, n
  <2>3. \A i \in 1 .. n - k : d[i] = c[k + i]
    BY <1>1, <1>3, <2>1, <2>2
  <2> QED BY <2>3 DEF d
<1>8. SumTo(c, n) = SumTo(c, k) + SumTo(Weights(b, u, t), n - k)
  <2>1. n = k + (n - k) /\ n - k \in Nat
    BY <1>1
  <2> DEFINE m == n - k
             d == Weights(b, u, t)
  <2>2. \A i \in 1 .. k + m : c[i] \in Nat
    BY <1>4, <2>1
  <2>3. m \in Nat /\ k \in Nat /\ \A i \in 1 .. m : d[i] = c[k + i]
    BY <1>1, <1>7, <2>1
  <2> HIDE DEF b, c, d, m
  <2>4. SumTo(c, k + m) = SumTo(c, k) + SumTo(d, m)
    BY <2>2, <2>3, SumToSplit
  <2> QED BY <2>1, <2>4 DEF m, d
<1> QED
  BY <1>2, <1>3, <1>4, <1>5, <1>6, <1>8

LEMMA CntAppend ==
  ASSUME NEW s \in Seq(Uts), NEW e \in Uts, NEW u, NEW t
  PROVE  CntSince(Append(s, e), u, t) = CntSince(s, u, t) + Weight(e, u, t)
<1> DEFINE r == Append(s, e)
           n == Len(s)
<1>1. n \in Nat /\ r \in Seq(Uts) /\ Len(r) = n + 1 /\ r[n + 1] = e
      /\ \A i \in 1 .. n : r[i] = s[i]
  OBVIOUS
<1> DEFINE c == Weights(r, u, t)
           d == Weights(s, u, t)
<1>2. CntSince(r, u, t) = SumTo(c, n + 1) /\ CntSince(s, u, t) = SumTo(d, n)
  BY <1>1, WeightsFacts
<1>3. \A i \in 1 .. n + 1 : c[i] = Weight(r[i], u, t)
  <2> HIDE DEF r
  <2> QED BY <1>1, WeightsFacts
<1>4. \A i \in 1 .. n : d[i] = Weight(s[i], u, t)
  BY WeightsFacts
<1> HIDE DEF c, d, r, n
<1>5. c[n + 1] = Weight(e, u, t)
  BY <1>1, <1>3
<1>6. \A i \in 1 .. n : c[i] = d[i]
  BY <1>1, <1>3, <1>4
<1>7. SumTo(c, n) = SumTo(d, n)
  BY <1>1, <1>6, SumToSame
<1>8. SumTo(c, n + 1) = SumTo(c, n) + c[n + 1]
  BY <1>1, SumToFacts
<1> QED
  BY <1>2, <1>5, <1>7, <1>8 DEF r

LEMMA CntTail ==
  ASSUME NEW s \in Seq(Uts), s # <<>>, NEW u, NEW t
  PROVE  CntSince(s, u, t) = Weight(Head(s), u, t) + CntSince(Tail(s), u, t)
<1> DEFINE b == Tail(s)
           n == Len(s)
           c == Weights(s, u, t)
           d == Weights(b, u, t)
           m == n - 1
<1>1. n \in Nat \ {0} /\ m \in Nat /\ n = 1 + m /\ Head(s) = s[1]
  OBVIOUS
<1>2. b \in Seq(Uts) /\ Len(b) = m /\ \A i \in 1 .. m : b[i] = s[i + 1]
  BY HeadTailProperties
<1>3. CntSince(s, u, t) = SumTo(c, n) /\ \A i \in 1 .. n : c[i] \in Nat
  BY WeightsFacts
<1>4. CntSince(b, u, t) = SumTo(d, m)
  BY <1>2, WeightsFacts
<1>5. \A i \in 1 .. m : d[i] = c[1 + i]
  <2>1. \A i \in 1 .. m : d[i] = Weight(b[i], u, t)
    <3> HIDE DEF b
    <3> QED BY <1>2, WeightsFacts
  <2>2. \A i \in 1 .. n : c[i] = Weight(s[i], u, t)
    BY WeightsFacts
  <2> HIDE DEF b, c, d, m
  <2> QED BY <1>1, <1>2, <2>1, <2>2
<1>6. c[1] = Weight(Head(s), u, t)
  BY <1>1, WeightsFacts
<1>7. SumTo(c, 1) = c[1]
  <2>1. SumTo(c, 1) = SumTo(c, 0) + c[1] /\ SumTo(c, 0) = 0 /\ c[1] \in Nat
    <3> HIDE DEF c
    <3> QED BY <1>1, <1>3, SumToFacts
  <2> HIDE DEF c
  <2> QED BY <2>1
<1>8. \A i \in 1 .. 1 + m : c[i] \in Nat
  BY <1>1, <1>3
<1> HIDE DEF b, c, d, m
<1>9. SumTo(c, 1 + m) = SumTo(c, 1) + SumTo(d, m)
  <2>1. 1 \in Nat /\ m \in Nat
    BY <1>1
  <2> QED BY <1>5, <1>8, <2>1, SumToSplit
<1> QED
  BY <1>1, <1>3, <1>4, <1>6, <1>7, <1>9 DEF b

\* Nothing of a sequence is since t when all of it is older.
LEMMA CntOld ==
  ASSUME NEW s \in Seq(Uts), NEW u, NEW t \in Int, \A i \in 1 .. Len(s) : s[i].tp < t
  PROVE  CntSince(s, u, t) = 0
<1>1. ASSUME NEW i \in 1 .. Len(s)
      PROVE  Weights(s, u, t)[i] = 0
  <2>1. s[i].tp \in Nat
    <3>1. s[i] \in Uts
      OBVIOUS
    <3> QED BY <3>1 DEF Uts
  <2>2. ~(s[i].tp >= t)
    BY <2>1
  <2> QED BY <2>2, WeightsFacts DEF Weight
<1> QED
  BY <1>1, WeightsFacts, SumToZero

LEMMA CntMost ==
  ASSUME NEW s \in Seq(Uts), NEW u, NEW t
  PROVE  CntSince(s, u, t) <= CntOf(s, u)
<1>1. ASSUME NEW i \in 1 .. Len(s)
      PROVE  Weights(s, u, t)[i] <= Weights(s, u, 0)[i]
  <2>1. s[i].tp \in Nat /\ s[i].cnt \in Nat
    <3>1. s[i] \in Uts
      OBVIOUS
    <3> QED BY <3>1 DEF Uts
  <2>2. Weight(s[i], u, t) <= Weight(s[i], u, 0)
    BY <2>1 DEF Weight
  <2> QED BY <2>2, WeightsFacts
<1> QED
  BY <1>1, WeightsFacts, SumToMono DEF CntOf

-----------------------------------------------------------------------------
(***************************************************************************)
(* The loop of merge.                                                      *)
(***************************************************************************)
FromA(a, b, i, j) == i < Len(a) /\ (j = Len(b) \/ a[i + 1].tp < b[j + 1].tp)

IsIt1(it1, a, b, n) ==
  it1 = [m \in 0 .. n |->
           IF m = 0 THEN 0
           ELSE IF FromA(a, b, it1[m - 1], m - 1 - it1[m - 1]) THEN it1[m - 1] + 1
           ELSE it1[m - 1]]

LEMMA It1Exists ==
  ASSUME NEW a, NEW b, NEW n \in Nat
  PROVE  \E it1 : IsIt1(it1, a, b, n)
<1> DEFINE S == {k \in Nat : \E it1 : IsIt1(it1, a, b, k)}
<1>1. 0 \in S
  <2>1. IsIt1([m \in 0 .. 0 |-> 0], a, b, 0)
    BY DEF IsIt1
  <2> QED BY <2>1
<1>2. ASSUME NEW k \in 1 .. n, k - 1 \in S
      PROVE  k \in S
  <2>1. PICK it : IsIt1(it, a, b, k - 1)
    BY <1>2
  <2> DEFINE last == IF FromA(a, b, it[k - 1], k - 1 - it[k - 1]) THEN it[k - 1] + 1
                     ELSE it[k - 1]
             next == [m \in 0 .. k |-> IF m = k THEN last ELSE it[m]]
  <2>2. IsIt1(next, a, b, k)
    BY <2>1 DEF IsIt1
  <2> QED BY <2>2
<1> HIDE DEF S
<1>3. n \in S
  BY <1>1, <1>2, UpTo
<1> QED
  BY <1>3 DEF S

LEMMA MergeIs ==
  ASSUME NEW a \in Seq(Uts), NEW b \in Seq(Uts)
  PROVE  \E it1 :
           /\ IsIt1(it1, a, b, Len(a) + Len(b))
           /\ MergeQueues(a, b) =
                [n \in 1 .. Len(a) + Len(b) |->
                   IF it1[n] # it1[n - 1] THEN a[it1[n]] ELSE b[n - it1[n]]]
<1> DEFINE N == Len(a) + Len(b)
           it == CHOOSE it1 : it1 =
                   [m \in 0 .. N |->
                      IF m = 0 THEN 0
                      ELSE IF FromA(a, b, it1[m - 1], m - 1 - it1[m - 1]) THEN it1[m - 1] + 1
                      ELSE it1[m - 1]]
<1>1. N \in Nat
  OBVIOUS
<1>2. IsIt1(it, a, b, N)
  <2>1. \E it1 : IsIt1(it1, a, b, N)
    <3> HIDE DEF N
    <3> QED BY <1>1, It1Exists
  <2> QED BY <2>1 DEF IsIt1
<1>3. MergeQueues(a, b) =
        [n \in 1 .. N |-> IF it[n] # it[n - 1] THEN a[it[n]] ELSE b[n - it[n]]]
  BY DEF MergeQueues, FromA
<1> HIDE DEF it
<1> QED
  BY <1>2, <1>3

\* What the loop has taken from either queue is in that queue.
LEMMA It1Bounds ==
  ASSUME NEW a \in Seq(Uts), NEW b \in Seq(Uts), NEW it1,
         IsIt1(it1, a, b, Len(a) + Len(b))
  PROVE  /\ it1[0] = 0
         /\ \A n \in 0 .. Len(a) + Len(b) : it1[n] \in 0 .. Len(a) /\ n - it1[n] \in 0 .. Len(b)
         /\ \A n \in 1 .. Len(a) + Len(b) : it1[n] = it1[n - 1] + 1 \/ it1[n] = it1[n - 1]
<1> DEFINE N == Len(a) + Len(b)
           S == {k \in 0 .. N : it1[k] \in 0 .. Len(a) /\ k - it1[k] \in 0 .. Len(b)}
<1>1. Len(a) \in Nat /\ Len(b) \in Nat /\ N \in Nat
  OBVIOUS
<1>2. it1[0] = 0
  BY <1>1 DEF IsIt1
<1>3. \A k \in 1 .. N : it1[k] = IF FromA(a, b, it1[k - 1], k - 1 - it1[k - 1])
                                 THEN it1[k - 1] + 1 ELSE it1[k - 1]
  BY <1>1 DEF IsIt1
<1>4. ASSUME NEW k \in 1 .. N, k - 1 \in S
      PROVE  k \in S
  <2> DEFINE i == it1[k - 1]
  <2>1. i \in 0 .. Len(a) /\ k - 1 - i \in 0 .. Len(b) /\ k \in 0 .. N /\ k <= Len(a) + Len(b)
    BY <1>1, <1>4
  <2>2. CASE FromA(a, b, i, k - 1 - i)
    <3>1. it1[k] = i + 1 /\ i < Len(a)
      BY <1>3, <2>2 DEF FromA
    <3> HIDE DEF i
    <3> QED BY <1>1, <2>1, <3>1
  <2>3. CASE ~FromA(a, b, i, k - 1 - i)
    <3>1. it1[k] = i /\ (i < Len(a) => k - 1 - i # Len(b))
      BY <1>3, <2>3 DEF FromA
    <3> HIDE DEF i
    <3> QED BY <1>1, <2>1, <3>1
  <2> QED BY <2>2, <2>3
<1> HIDE DEF S
<1>5. 0 \in S
  BY <1>1, <1>2 DEF S
<1> HIDE DEF N
<1>6. \A k \in 0 .. N : k \in S
  BY <1>1, <1>4, <1>5, UpTo
<1> QED
  BY <1>2, <1>3, <1>6 DEF S, N

\* The merged queue has what is in the two, once.
LEMMA MergeFacts ==
  ASSUME NEW a \in Seq(Uts), NEW b \in Seq(Uts)
  PROVE  /\ MergeQueues(a, b) \in Seq(Uts)
         /\ \A u, t : CntSince(MergeQueues(a, b), u, t) = CntSince(a, u, t) + CntSince(b, u, t)
<1> DEFINE N == Len(a) + Len(b)
           r == MergeQueues(a, b)
<1>1. PICK it1 : /\ IsIt1(it1, a, b, N)
                 /\ r = [n \in 1 .. N |->
                           IF it1[n] # it1[n - 1] THEN a[it1[n]] ELSE b[n - it1[n]]]
  BY MergeIs
<1>2. /\ it1[0] = 0
      /\ \A n \in 0 .. N : it1[n] \in 0 .. Len(a) /\ n - it1[n] \in 0 .. Len(b)
      /\ \A n \in 1 .. N : it1[n] = it1[n - 1] + 1 \/ it1[n] = it1[n - 1]
  BY <1>1, It1Bounds
<1>3. N \in Nat /\ Len(a) \in Nat /\ Len(b) \in Nat
  OBVIOUS
<1> HIDE DEF N, r
<1>4. ASSUME NEW n \in 1 .. N
      PROVE  \/ /\ it1[n] = it1[n - 1] + 1 /\ it1[n] \in 1 .. Len(a)
                /\ n - it1[n] = n - 1 - it1[n - 1]
                /\ r[n] = a[it1[n]]
             \/ /\ it1[n] = it1[n - 1] /\ n - it1[n] \in 1 .. Len(b)
                /\ n - it1[n] - 1 = n - 1 - it1[n - 1]
                /\ r[n] = b[n - it1[n]]
  <2> DEFINE i == it1[n - 1]
             j == it1[n]
  <2>1. i \in 0 .. Len(a) /\ n - 1 - i \in 0 .. Len(b)
    BY <1>2, <1>3
  <2>2. j \in 0 .. Len(a) /\ n - j \in 0 .. Len(b) /\ (j = i + 1 \/ j = i)
    BY <1>2, <1>3
  <2>3. r[n] = IF j # i THEN a[j] ELSE b[n - j]
    BY <1>1
  <2> HIDE DEF i, j
  <2>4. CASE j = i + 1
    <3>1. j # i /\ j \in 1 .. Len(a) /\ n - j = n - 1 - i
      BY <1>3, <2>1, <2>2, <2>4
    <3> QED BY <2>3, <2>4, <3>1 DEF i, j
  <2>5. CASE j = i
    <3>1. n - j \in 1 .. Len(b) /\ n - j - 1 = n - 1 - i
      BY <1>3, <2>1, <2>2, <2>5
    <3> QED BY <2>3, <2>5, <3>1 DEF i, j
  <2> QED BY <2>2, <2>4, <2>5
<1>5. r \in Seq(Uts) /\ Len(r) = N
  <2>1. \A n \in 1 .. N : r[n] \in Uts
    <3> SUFFICES ASSUME NEW n \in 1 .. N PROVE r[n] \in Uts
      OBVIOUS
    <3>1. \A i \in 1 .. Len(a) : a[i] \in Uts
      OBVIOUS
    <3>2. \A i \in 1 .. Len(b) : b[i] \in Uts
      OBVIOUS
    <3> QED BY <1>4, <3>1, <3>2
  <2>2. r \in [1 .. N -> Uts]
    BY <1>1, <2>1
  <2> QED BY <1>3, <2>2
<1>6. ASSUME NEW u, NEW t
      PROVE  CntSince(r, u, t) = CntSince(a, u, t) + CntSince(b, u, t)
  <2> DEFINE c == Weights(r, u, t)
             ca == Weights(a, u, t)
             cb == Weights(b, u, t)
             S == {k \in 0 .. N : SumTo(c, k) = SumTo(ca, it1[k]) + SumTo(cb, k - it1[k])}
  <2>1. /\ CntSince(r, u, t) = SumTo(c, N)
        /\ \A k \in 1 .. N : c[k] = Weight(r[k], u, t)
        /\ \A k \in 1 .. N : c[k] \in Nat
    BY <1>5, WeightsFacts
  <2>2. /\ CntSince(a, u, t) = SumTo(ca, Len(a))
        /\ \A k \in 1 .. Len(a) : ca[k] = Weight(a[k], u, t)
        /\ \A k \in 1 .. Len(a) : ca[k] \in Nat
    BY WeightsFacts
  <2>3. /\ CntSince(b, u, t) = SumTo(cb, Len(b))
        /\ \A k \in 1 .. Len(b) : cb[k] = Weight(b[k], u, t)
        /\ \A k \in 1 .. Len(b) : cb[k] \in Nat
    BY WeightsFacts
  <2> HIDE DEF c, ca, cb
  <2>4. \A k \in 0 .. Len(a) : SumTo(ca, k) \in Nat
    BY <1>3, <2>2, SumToType
  <2>5. \A k \in 0 .. Len(b) : SumTo(cb, k) \in Nat
    BY <1>3, <2>3, SumToType
  <2>6. 0 \in S
    BY <1>2, <1>3, SumToFacts
  <2>7. ASSUME NEW k \in 1 .. N, k - 1 \in S
        PROVE  k \in S
    <3> DEFINE i == it1[k - 1]
               j == it1[k]
    <3>1. SumTo(c, k) = SumTo(c, k - 1) + c[k]
      BY SumToFacts
    <3>2. SumTo(c, k - 1) = SumTo(ca, i) + SumTo(cb, k - 1 - i)
      BY <2>7
    <3>3. i \in 0 .. Len(a) /\ k - 1 - i \in 0 .. Len(b)
      BY <1>2, <1>3
    <3>4. SumTo(ca, i) \in Nat /\ SumTo(cb, k - 1 - i) \in Nat
      <4> HIDE DEF i
      <4> QED BY <2>4, <2>5, <3>3
    <3>5. CASE j = i + 1 /\ j \in 1 .. Len(a) /\ k - j = k - 1 - i /\ r[k] = a[j]
      <4>1. SumTo(ca, j) = SumTo(ca, j - 1) + ca[j] /\ j - 1 = i
        <5> HIDE DEF i, j
        <5>1. j \in Nat \ {0} /\ i \in Nat
          BY <1>3, <3>3, <3>5
        <5>2. j - 1 = i
          BY <3>5, <5>1
        <5> QED BY <5>1, <5>2, SumToFacts
      <4>2. ca[j] = c[k] /\ c[k] \in Nat
        <5> HIDE DEF j
        <5> QED BY <2>1, <2>2, <3>5
      <4>3. SumTo(c, k) = SumTo(ca, j) + SumTo(cb, k - j)
        <5> DEFINE x == SumTo(ca, i)
                   y == SumTo(cb, k - 1 - i)
        <5>1. SumTo(ca, j) = x + c[k] /\ SumTo(cb, k - j) = y
          BY <3>5, <4>1, <4>2
        <5>2. SumTo(c, k) = x + y + c[k] /\ x \in Nat /\ y \in Nat
          BY <3>1, <3>2, <3>4
        <5> HIDE DEF x, y
        <5> QED BY <4>2, <5>1, <5>2
      <4> QED BY <4>3
    <3>6. CASE j = i /\ k - j \in 1 .. Len(b) /\ k - j - 1 = k - 1 - i /\ r[k] = b[k - j]
      <4>1. SumTo(cb, k - j) = SumTo(cb, k - j - 1) + cb[k - j]
        <5> HIDE DEF i, j
        <5> QED BY <1>3, <3>6, SumToFacts
      <4>2. cb[k - j] = c[k] /\ c[k] \in Nat
        <5> HIDE DEF j
        <5> QED BY <2>1, <2>3, <3>6
      <4>3. SumTo(c, k) = SumTo(ca, j) + SumTo(cb, k - j)
        <5> DEFINE x == SumTo(ca, i)
                   y == SumTo(cb, k - 1 - i)
        <5>1. SumTo(ca, j) = x /\ SumTo(cb, k - j) = y + c[k]
          BY <3>6, <4>1, <4>2
        <5>2. SumTo(c, k) = x + y + c[k] /\ x \in Nat /\ y \in Nat
          BY <3>1, <3>2, <3>4
        <5> HIDE DEF x, y
        <5> QED BY <4>2, <5>1, <5>2
      <4> QED BY <4>3
    <3> QED BY <1>4, <3>5, <3>6
  <2> HIDE DEF S
  <2>8. N \in S
    <3>1. N \in 0 .. N
      BY <1>3
    <3>2. \A k \in 1 .. N : k - 1 \in S => k \in S
      BY <2>7
    <3>3. \A k \in 0 .. N : k \in S
      BY <1>3, <2>6, <3>2, UpTo
    <3> QED BY <3>1, <3>3
  <2>9. SumTo(c, N) = SumTo(ca, it1[N]) + SumTo(cb, N - it1[N])
    BY <2>8 DEF S
  <2>10. it1[N] = Len(a) /\ N - it1[N] = Len(b)
    <3>1. it1[N] \in 0 .. Len(a) /\ N - it1[N] \in 0 .. Len(b) /\ N = Len(a) + Len(b)
      BY <1>2, <1>3 DEF N
    <3> QED BY <1>3, <3>1
  <2> QED BY <2>1, <2>2, <2>3, <2>9, <2>10
<1> QED
  BY <1>5, <1>6 DEF r

-----------------------------------------------------------------------------
(***************************************************************************)
(* Windows and ages.                                                       *)
(***************************************************************************)
LEMMA FiniteMax ==
  ASSUME NEW S, S \subseteq Nat, S # {}, IsFiniteSet(S)
  PROVE  Max(S) \in S /\ \A d \in S : d <= Max(S)
<1>1. PICK seq \in Seq(S) : \A d \in S : \E n \in 1 .. Len(seq) : seq[n] = d
  BY DEF IsFiniteSet
<1> DEFINE n == Len(seq)
           Bounded(k) == \E m \in Nat : \A i \in 1 .. k : seq[i] <= m
           T == {k \in 0 .. n : Bounded(k)}
<1>2. n \in Nat /\ \A i \in 1 .. n : seq[i] \in Nat
  <2>1. n \in Nat /\ \A i \in 1 .. n : seq[i] \in S
    OBVIOUS
  <2> QED BY <2>1
<1>3. 0 \in T
  BY <1>2
<1>4. ASSUME NEW k \in 1 .. n, k - 1 \in T
      PROVE  k \in T
  <2>1. PICK m \in Nat : \A i \in 1 .. k - 1 : seq[i] <= m
    BY <1>4
  <2>2. seq[k] \in Nat /\ m + seq[k] \in Nat
    BY <1>2
  <2> HIDE DEF n
  <2>3. ASSUME NEW i \in 1 .. k
        PROVE  seq[i] <= m + seq[k]
    <3>1. i \in 1 .. k - 1 \/ i = k
      BY <1>2
    <3>2. seq[i] \in Nat
      BY <1>2
    <3> QED BY <2>1, <2>2, <3>1, <3>2
  <2>4. Bounded(k)
    BY <2>2, <2>3
  <2> QED BY <1>2, <2>4
<1> HIDE DEF T, n, Bounded
<1>5. \A k \in 0 .. n : k \in T
  BY <1>2, <1>3, <1>4, UpTo
<1>6. Bounded(n)
  <2>1. n \in T
    BY <1>2, <1>5
  <2> QED BY <2>1 DEF T
<1>7. PICK m \in Nat : \A i \in 1 .. n : seq[i] <= m
  BY <1>6 DEF Bounded
<1>8. S \subseteq 0 .. m
  BY <1>1, <1>7 DEF n
<1> QED
  BY <1>8, MaxUpTo

LEMMA WindowFacts ==
  /\ Hour \in Window /\ Day \in Window /\ Hour \in Nat /\ Day \in Nat
  /\ \A w \in Window : w \in Nat /\ Hour <= w /\ w <= Day
<1>1. Window \subseteq Nat /\ Window # {} /\ IsFiniteSet(Window)
  BY FreqStatsAssumption
<1>2. Day \in Window /\ \A w \in Window : w <= Day
  BY <1>1, FiniteMax DEF Day
<1>3. \E x \in Window : \A y \in Window : x =< y
  BY <1>1, LeastNat
<1>4. Hour \in Window /\ \A w \in Window : Hour <= w
  BY <1>3 DEF Hour, Min
<1> QED
  BY <1>1, <1>2, <1>4

LEMMA AgeFacts ==
  FirstTime \in Nat /\ \A age \in Age : age \in Nat /\ age <= FirstTime
BY FreqStatsAssumption, FiniteMax DEF FirstTime

-----------------------------------------------------------------------------
(***************************************************************************)
(* UrlFreqMap.                                                             *)
(***************************************************************************)
Counted(m) == \A u \in Url : m.freq[u] = CntOf(m.q, u)

LEMMA PoppedFacts ==
  ASSUME NEW m, m.q \in Seq(Uts), NEW t, NEW w
  PROVE  /\ Popped(m, t, w) \in 0 .. Len(m.q)
         /\ \A i \in 1 .. Popped(m, t, w) : t - m.q[i].tp > w
         /\ Popped(m, t, w) < Len(m.q) => ~(t - m.q[Popped(m, t, w) + 1].tp > w)
<1> DEFINE n == Len(m.q)
           S == {k \in 0 .. n : \A i \in 1 .. k : t - m.q[i].tp > w}
           p == Popped(m, t, w)
<1>1. n \in Nat /\ 0 \in S
  OBVIOUS
<1>2. p = Max(S)
  BY DEF Popped
<1>3. p \in S /\ \A k \in S : k <= p
  <2>1. S \subseteq 0 .. n /\ S # {}
    BY <1>1
  <2> HIDE DEF S, n
  <2> QED BY <1>1, <1>2, <2>1, MaxUpTo
<1>4. ASSUME p < n, t - m.q[p + 1].tp > w
      PROVE  FALSE
  <2>1. p \in 0 .. n /\ \A i \in 1 .. p : t - m.q[i].tp > w
    BY <1>3
  <2>2. p + 1 \in 0 .. n /\ \A i \in 1 .. p + 1 : i = p + 1 \/ i \in 1 .. p
    <3> HIDE DEF p
    <3> QED BY <1>1, <1>4, <2>1
  <2>3. p + 1 \in S
    BY <1>4, <2>1, <2>2
  <2>4. p + 1 <= p
    BY <1>3, <2>3
  <2> HIDE DEF p
  <2> QED BY <1>1, <2>1, <2>4
<1> QED
  BY <1>3, <1>4

LEMMA CheckCleanupFacts ==
  ASSUME NEW m, IsMap(m), Counted(m), NEW t \in Nat, NEW w \in Nat
  PROVE  /\ IsMap(CheckCleanup(m, t, w))
         /\ Counted(CheckCleanup(m, t, w))
         /\ CheckCleanup(m, t, w).q = SubSeq(m.q, Popped(m, t, w) + 1, Len(m.q))
         /\ \A u : \A s \in Int :
              /\ CntSince(CheckCleanup(m, t, w).q, u, s) <= CntSince(m.q, u, s)
              /\ t - w <= s => CntSince(CheckCleanup(m, t, w).q, u, s) = CntSince(m.q, u, s)
<1> DEFINE k == Popped(m, t, w)
           a == SubSeq(m.q, 1, k)
           b == SubSeq(m.q, k + 1, Len(m.q))
           r == CheckCleanup(m, t, w)
<1>1. m.q \in Seq(Uts) /\ m.freq \in [Url -> Nat] /\ Len(m.q) \in Nat
  BY DEF IsMap
<1>2. k \in 0 .. Len(m.q) /\ \A i \in 1 .. k : t - m.q[i].tp > w
  BY <1>1, PoppedFacts
<1>3. r.q = b /\ r.freq = [u \in Url |-> m.freq[u] - CntOf(a, u)]
  BY DEF CheckCleanup
<1> HIDE DEF k, r
<1>4. /\ a \in Seq(Uts) /\ b \in Seq(Uts)
      /\ \A u, s : CntSince(m.q, u, s) = CntSince(a, u, s) + CntSince(b, u, s)
  BY <1>1, <1>2, CntSplit
<1>5. \A u, s : CntSince(a, u, s) \in Nat /\ CntSince(b, u, s) \in Nat
  BY <1>4, CntType
<1>6. ASSUME NEW u \in Url
      PROVE  r.freq[u] = CntOf(b, u) /\ r.freq[u] \in Nat
  <2>1. m.freq[u] = CntSince(m.q, u, 0)
    BY DEF Counted, CntOf
  <2>2. r.freq[u] = m.freq[u] - CntSince(a, u, 0)
    BY <1>3 DEF CntOf
  <2>3. CntSince(m.q, u, 0) = CntSince(a, u, 0) + CntSince(b, u, 0)
    BY <1>4
  <2> HIDE DEF a, b
  <2>4. r.freq[u] = CntSince(b, u, 0)
    BY <1>5, <2>1, <2>2, <2>3
  <2> QED BY <1>5, <2>4 DEF CntOf
<1>7. ASSUME NEW u, NEW s \in Int, t - w <= s
      PROVE  CntSince(a, u, s) = 0
  <2>1. Len(a) = k /\ \A i \in 1 .. k : a[i] = m.q[i]
    BY <1>1, <1>2
  <2>2. \A i \in 1 .. k : m.q[i].tp \in Nat /\ m.q[i].tp < s
    <3> SUFFICES ASSUME NEW i \in 1 .. k PROVE m.q[i].tp \in Nat /\ m.q[i].tp < s
      OBVIOUS
    <3>1. i \in 1 .. Len(m.q)
      BY <1>1, <1>2
    <3>2. m.q[i] \in Uts
      BY <1>1, <3>1
    <3>3. m.q[i].tp \in Nat
      BY <3>2 DEF Uts
    <3>4. t - m.q[i].tp > w
      BY <1>2
    <3> DEFINE tp == m.q[i].tp
    <3> HIDE DEF tp
    <3>5. tp \in Nat /\ t - tp > w
      BY <3>3, <3>4 DEF tp
    <3>6. tp < s
      BY <1>7, <3>5
    <3> QED BY <3>3, <3>6 DEF tp
  <2>3. \A i \in 1 .. Len(a) : a[i].tp < s
    BY <2>1, <2>2
  <2> HIDE DEF a
  <2> QED BY <1>4, <2>3, CntOld
<1> HIDE DEF a, b
<1>8. IsMap(r)
  <2>1. r.freq \in [Url -> Nat]
    BY <1>3, <1>6
  <2> QED BY <1>3, <1>4, <2>1 DEF IsMap
<1>9. Counted(r)
  BY <1>3, <1>6 DEF Counted
<1>10. ASSUME NEW u, NEW s \in Int
       PROVE  /\ CntSince(b, u, s) <= CntSince(m.q, u, s)
              /\ t - w <= s => CntSince(b, u, s) = CntSince(m.q, u, s)
  <2> DEFINE x == CntSince(a, u, s)
             y == CntSince(b, u, s)
             z == CntSince(m.q, u, s)
  <2>1. x \in Nat /\ y \in Nat /\ z = x + y
    BY <1>4, <1>5
  <2>2. t - w <= s => x = 0
    BY <1>7
  <2> HIDE DEF x, y, z
  <2>3. y <= z /\ (t - w <= s => y = z)
    BY <2>1, <2>2
  <2> QED BY <2>3 DEF y, z
<1> QED
  BY <1>3, <1>8, <1>9, <1>10 DEF r, b, k

LEMMA WeightType ==
  ASSUME NEW e \in Uts, NEW u
  PROVE  \A s : Weight(e, u, s) \in Nat
BY DEF Weight, Uts

LEMMA InsertFacts ==
  ASSUME NEW m, IsMap(m), Counted(m), NEW e \in Uts, NEW t \in Nat, NEW w \in Nat
  PROVE  /\ IsMap(InsertVisitsPack(m, e, t, w))
         /\ Counted(InsertVisitsPack(m, e, t, w))
         /\ InsertVisitsPack(m, e, t, w).q =
              LET r == [freq |-> [m.freq EXCEPT ![e.url] = @ + e.cnt], q |-> Append(m.q, e)]
              IN  SubSeq(r.q, Popped(r, t, w) + 1, Len(r.q))
         /\ \A u : \A s \in Int :
              /\ CntSince(InsertVisitsPack(m, e, t, w).q, u, s) <=
                   CntSince(m.q, u, s) + Weight(e, u, s)
              /\ t - w <= s =>
                   CntSince(InsertVisitsPack(m, e, t, w).q, u, s) =
                     CntSince(m.q, u, s) + Weight(e, u, s)
<1> DEFINE r == [freq |-> [m.freq EXCEPT ![e.url] = @ + e.cnt], q |-> Append(m.q, e)]
<1>1. m.q \in Seq(Uts) /\ m.freq \in [Url -> Nat]
  BY DEF IsMap
<1>2. e.url \in Url /\ e.cnt \in Nat /\ e.tp \in Nat
  BY DEF Uts
<1>3. r.q = Append(m.q, e) /\ r.freq = [m.freq EXCEPT ![e.url] = @ + e.cnt]
  OBVIOUS
<1>4. InsertVisitsPack(m, e, t, w) = CheckCleanup(r, t, w)
  BY DEF InsertVisitsPack
<1> HIDE DEF r
<1>5. IsMap(r)
  <2>1. r.q \in Seq(Uts)
    BY <1>1, <1>3
  <2>2. r.freq \in [Url -> Nat]
    BY <1>1, <1>2, <1>3
  <2> QED BY <2>1, <2>2 DEF IsMap
<1>6. \A u, s : CntSince(r.q, u, s) = CntSince(m.q, u, s) + Weight(e, u, s)
  BY <1>1, <1>3, CntAppend
<1>7. Counted(r)
  <2> SUFFICES ASSUME NEW u \in Url PROVE r.freq[u] = CntOf(r.q, u)
    BY DEF Counted
  <2>1. r.freq[u] = m.freq[u] + IF u = e.url THEN e.cnt ELSE 0
    BY <1>1, <1>2, <1>3
  <2>2. Weight(e, u, 0) = IF u = e.url THEN e.cnt ELSE 0
    BY <1>2 DEF Weight
  <2>3. m.freq[u] = CntSince(m.q, u, 0)
    BY DEF Counted, CntOf
  <2>4. CntOf(r.q, u) = CntSince(m.q, u, 0) + Weight(e, u, 0)
    BY <1>6 DEF CntOf
  <2> QED BY <2>1, <2>2, <2>3, <2>4
<1> DEFINE c == CheckCleanup(r, t, w)
<1>8. /\ IsMap(c) /\ Counted(c) /\ c.q = SubSeq(r.q, Popped(r, t, w) + 1, Len(r.q))
      /\ \A u : \A s \in Int :
           /\ CntSince(c.q, u, s) <= CntSince(r.q, u, s)
           /\ t - w <= s => CntSince(c.q, u, s) = CntSince(r.q, u, s)
  BY <1>5, <1>7, CheckCleanupFacts
<1> HIDE DEF c
<1>9. \A u : \A s \in Int :
        /\ CntSince(c.q, u, s) <= CntSince(m.q, u, s) + Weight(e, u, s)
        /\ t - w <= s => CntSince(c.q, u, s) = CntSince(m.q, u, s) + Weight(e, u, s)
  BY <1>6, <1>8
<1> QED
  BY <1>4, <1>8, <1>9 DEF c, r

\* The window of an hour and that of a day get the same visits: the queue of
\* the hour remains the end of the queue of the day.
EndOf(a, b) == \E k \in 0 .. Len(b) : a = SubSeq(b, k + 1, Len(b))

LEMMA EndOfFacts ==
  ASSUME NEW b \in Seq(Uts), NEW k \in 0 .. Len(b)
  PROVE  /\ SubSeq(b, k + 1, Len(b)) \in Seq(Uts)
         /\ Len(SubSeq(b, k + 1, Len(b))) = Len(b) - k
         /\ \A i \in 1 .. Len(b) - k : SubSeq(b, k + 1, Len(b))[i] = b[k + i]
<1> DEFINE n == Len(b)
           a == SubSeq(b, k + 1, n)
<1>1. n \in Nat /\ k \in Nat /\ \A i \in k + 1 .. n : b[i] \in Uts
  OBVIOUS
<1> HIDE DEF n
<1>2. a \in Seq(Uts) /\ Len(a) = (IF k + 1 <= n THEN n - (k + 1) + 1 ELSE 0)
      /\ \A i \in 1 .. n - (k + 1) + 1 : a[i] = b[k + 1 + i - 1]
  BY <1>1, SubSeqProperties
<1> HIDE DEF a
<1>3. Len(a) = n - k /\ \A i \in 1 .. n - k : a[i] = b[k + i]
  BY <1>1, <1>2 DEF n
<1> QED
  BY <1>2, <1>3 DEF a, n

LEMMA EndOfByItems ==
  ASSUME NEW a \in Seq(Uts), NEW b \in Seq(Uts), Len(a) <= Len(b),
         \A i \in 1 .. Len(a) : a[i] = b[Len(b) - Len(a) + i]
  PROVE  EndOf(a, b)
<1> DEFINE k == Len(b) - Len(a)
           c == SubSeq(b, k + 1, Len(b))
<1>1. k \in 0 .. Len(b) /\ Len(a) \in Nat /\ Len(b) \in Nat
  OBVIOUS
<1>2. c \in Seq(Uts) /\ Len(c) = Len(b) - k /\ \A i \in 1 .. Len(b) - k : c[i] = b[k + i]
  <2> HIDE DEF k
  <2> QED BY <1>1, EndOfFacts
<1>3. Len(a) = Len(c) /\ \A i \in 1 .. Len(a) : a[i] = c[i]
  <2>1. Len(b) - k = Len(a)
    BY <1>1
  <2> HIDE DEF c
  <2> QED BY <1>2, <2>1
<1>4. a = c
  <2> HIDE DEF c
  <2> QED BY <1>2, <1>3, SeqEqual
<1> HIDE DEF k
<1> QED
  BY <1>1, <1>4 DEF EndOf

LEMMA EndOfItems ==
  ASSUME NEW a, NEW b \in Seq(Uts), EndOf(a, b)
  PROVE  /\ a \in Seq(Uts) /\ Len(a) <= Len(b)
         /\ \A i \in 1 .. Len(a) : a[i] = b[Len(b) - Len(a) + i]
<1>1. PICK k \in 0 .. Len(b) : a = SubSeq(b, k + 1, Len(b))
  BY DEF EndOf
<1>2. a \in Seq(Uts) /\ Len(a) = Len(b) - k /\ \A i \in 1 .. Len(b) - k : a[i] = b[k + i]
  BY <1>1, EndOfFacts
<1>3. Len(b) \in Nat /\ k \in 0 .. Len(b) /\ k = Len(b) - Len(a)
  BY <1>2
<1> QED
  BY <1>2, <1>3

LEMMA EndOfCounts ==
  ASSUME NEW a, NEW b \in Seq(Uts), EndOf(a, b), NEW u, NEW t
  PROVE  CntSince(a, u, t) <= CntSince(b, u, t)
<1>1. PICK k \in 0 .. Len(b) : a = SubSeq(b, k + 1, Len(b))
  BY DEF EndOf
<1> DEFINE p == SubSeq(b, 1, k)
<1>2. p \in Seq(Uts) /\ a \in Seq(Uts) /\ CntSince(b, u, t) = CntSince(p, u, t) + CntSince(a, u, t)
  BY <1>1, CntSplit
<1> HIDE DEF p
<1>3. CntSince(p, u, t) \in Nat /\ CntSince(a, u, t) \in Nat
  BY <1>2, CntType
<1> QED
  BY <1>2, <1>3

\* What the day's window pops, the hour's has popped: it is too old for both.
LEMMA InsertKeepsEnd ==
  ASSUME NEW h, NEW d, IsMap(h), IsMap(d), Counted(h), Counted(d), EndOf(h.q, d.q),
         NEW e \in Uts, NEW t \in Nat, NEW v \in Nat, NEW w \in Nat, v <= w
  PROVE  EndOf(InsertVisitsPack(h, e, t, v).q, InsertVisitsPack(d, e, t, w).q)
<1> DEFINE h1 == [freq |-> [h.freq EXCEPT ![e.url] = @ + e.cnt], q |-> Append(h.q, e)]
           d1 == [freq |-> [d.freq EXCEPT ![e.url] = @ + e.cnt], q |-> Append(d.q, e)]
           ph == Popped(h1, t, v)
           pd == Popped(d1, t, w)
           a == InsertVisitsPack(h, e, t, v).q
           b == InsertVisitsPack(d, e, t, w).q
           nh == Len(h.q) + 1
           nd == Len(d.q) + 1
<1>1. /\ h.q \in Seq(Uts) /\ d.q \in Seq(Uts) /\ Len(h.q) <= Len(d.q)
      /\ \A i \in 1 .. Len(h.q) : h.q[i] = d.q[Len(d.q) - Len(h.q) + i]
  BY EndOfItems DEF IsMap
<1>2. /\ h1.q \in Seq(Uts) /\ Len(h1.q) = nh /\ nh \in Nat
      /\ d1.q \in Seq(Uts) /\ Len(d1.q) = nd /\ nd \in Nat
      /\ nh <= nd
  BY <1>1
<1>3. \A i \in 1 .. nh : h1.q[i] = d1.q[nd - nh + i]
  <2> DEFINE lh == Len(h.q)
             ld == Len(d.q)
  <2>1. /\ \A i \in 1 .. lh : h1.q[i] = h.q[i]
        /\ \A i \in 1 .. ld : d1.q[i] = d.q[i]
        /\ h1.q[nh] = e /\ d1.q[nd] = e
    BY <1>1
  <2>2. /\ lh \in Nat /\ ld \in Nat /\ lh <= ld /\ nh = lh + 1 /\ nd = ld + 1
        /\ \A i \in 1 .. lh : h.q[i] = d.q[ld - lh + i]
    <3>1. lh \in Nat /\ ld \in Nat
      BY <1>1
    <3>2. nh = lh + 1 /\ nd = ld + 1
      OBVIOUS
    <3>3. lh <= ld /\ \A i \in 1 .. lh : h.q[i] = d.q[ld - lh + i]
      BY <1>1
    <3> QED BY <3>1, <3>2, <3>3
  <2> HIDE DEF lh, ld, nh, nd, h1, d1
  <2> SUFFICES ASSUME NEW i \in 1 .. nh PROVE h1.q[i] = d1.q[nd - nh + i]
    OBVIOUS
  <2>3. CASE i = nh
    <3>1. nd - nh + i = nd
      BY <2>2, <2>3
    <3> QED BY <2>1, <2>3, <3>1
  <2>4. CASE i # nh
    <3>1. i \in 1 .. lh /\ nd - nh + i = ld - lh + i /\ ld - lh + i \in 1 .. ld
      BY <2>2, <2>4
    <3> QED BY <2>1, <2>2, <3>1
  <2> QED BY <2>3, <2>4
<1>4. a = SubSeq(h1.q, ph + 1, nh) /\ b = SubSeq(d1.q, pd + 1, nd)
  <2>1. a = SubSeq(h1.q, ph + 1, Len(h1.q))
    BY InsertFacts
  <2>2. b = SubSeq(d1.q, pd + 1, Len(d1.q))
    BY InsertFacts
  <2> HIDE DEF h1, d1, a, b, nh, nd, ph, pd
  <2> QED BY <1>2, <2>1, <2>2
<1> HIDE DEF h1, d1, a, b, nh, nd
<1>5. /\ ph \in 0 .. nh
      /\ ph < nh => ~(t - h1.q[ph + 1].tp > v)
  BY <1>2, PoppedFacts
<1>6. /\ pd \in 0 .. nd
      /\ \A i \in 1 .. pd : t - d1.q[i].tp > w
  BY <1>2, PoppedFacts
<1> HIDE DEF ph, pd
<1>7. pd <= nd - nh + ph
  <2> SUFFICES ASSUME ~(pd <= nd - nh + ph) PROVE FALSE
    OBVIOUS
  <2>1. ph < nh /\ nd - nh + ph + 1 \in 1 .. pd /\ ph + 1 \in 1 .. nh
    BY <1>2, <1>5, <1>6
  <2> DEFINE x == h1.q[ph + 1]
  <2>2. x = d1.q[nd - nh + (ph + 1)] /\ nd - nh + (ph + 1) = nd - nh + ph + 1
    BY <1>2, <1>3, <1>5, <2>1
  <2>3. t - x.tp > w
    BY <1>6, <2>1, <2>2
  <2>4. ~(t - x.tp > v)
    BY <1>5, <2>1
  <2>5. x.tp \in Nat
    <3>1. x \in Uts
      BY <1>2, <2>1
    <3> QED BY <3>1 DEF Uts
  <2> DEFINE y == x.tp
  <2> HIDE DEF y
  <2>6. y \in Nat /\ t - y > w /\ ~(t - y > v)
    BY <2>3, <2>4, <2>5 DEF y
  <2> QED BY <2>6
<1>8. a \in Seq(Uts) /\ Len(a) = nh - ph /\ \A i \in 1 .. nh - ph : a[i] = h1.q[ph + i]
  BY <1>2, <1>4, <1>5, EndOfFacts
<1>9. b \in Seq(Uts) /\ Len(b) = nd - pd /\ \A i \in 1 .. nd - pd : b[i] = d1.q[pd + i]
  BY <1>2, <1>4, <1>6, EndOfFacts
<1>10. Len(a) <= Len(b)
  BY <1>2, <1>5, <1>6, <1>7, <1>8, <1>9
<1>11. ASSUME NEW i \in 1 .. Len(a)
       PROVE  a[i] = b[Len(b) - Len(a) + i]
  <2> DEFINE j == Len(b) - Len(a) + i
  <2>1. j \in 1 .. nd - pd /\ pd + j = nd - nh + (ph + i) /\ ph + i \in 1 .. nh /\ i \in 1 .. nh - ph
    BY <1>2, <1>5, <1>6, <1>7, <1>8, <1>9, <1>10
  <2> HIDE DEF j
  <2>2. a[i] = h1.q[ph + i] /\ b[j] = d1.q[pd + j]
    BY <1>8, <1>9, <2>1
  <2>3. h1.q[ph + i] = d1.q[nd - nh + (ph + i)]
    BY <1>3, <2>1
  <2>4. a[i] = b[j]
    BY <2>1, <2>2, <2>3
  <2> QED BY <2>4 DEF j
<1>12. EndOf(a, b)
  BY <1>8, <1>9, <1>10, <1>11, EndOfByItems
<1> QED
  BY <1>12 DEF a, b

LEMMA MergeMapFacts ==
  ASSUME NEW a, NEW b, IsMap(a), IsMap(b), Counted(a), Counted(b)
  PROVE  /\ IsMap(MergeMap(a, b)) /\ Counted(MergeMap(a, b))
         /\ \A u \in Url : MergeMap(a, b).freq[u] = a.freq[u] + b.freq[u]
         /\ \A u, t : CntSince(MergeMap(a, b).q, u, t) = CntSince(a.q, u, t) + CntSince(b.q, u, t)
<1> DEFINE r == MergeMap(a, b)
<1>1. /\ a.q \in Seq(Uts) /\ b.q \in Seq(Uts)
      /\ a.freq \in [Url -> Nat] /\ b.freq \in [Url -> Nat]
  BY DEF IsMap
<1>2. r.q = MergeQueues(a.q, b.q) /\ r.freq = [u \in Url |-> a.freq[u] + b.freq[u]]
  BY DEF MergeMap
<1> HIDE DEF r
<1>3. /\ r.q \in Seq(Uts)
      /\ \A u, t : CntSince(r.q, u, t) = CntSince(a.q, u, t) + CntSince(b.q, u, t)
  BY <1>1, <1>2, MergeFacts
<1>4. \A u \in Url : r.freq[u] = a.freq[u] + b.freq[u]
  BY <1>2
<1>5. r.freq \in [Url -> Nat]
  BY <1>1, <1>2
<1>6. Counted(r)
  BY <1>3, <1>4 DEF Counted, CntOf
<1> QED
  BY <1>3, <1>4, <1>5, <1>6 DEF IsMap, r

-----------------------------------------------------------------------------
(***************************************************************************)
(* The invariant.                                                          *)
(***************************************************************************)
LEMMA NewMapFacts ==
  /\ IsMap(NewMap) /\ Counted(NewMap)
  /\ NewMap.q = <<>> /\ \A u \in Url : NewMap.freq[u] = 0
<1>1. NewMap.q = <<>> /\ NewMap.freq = [u \in Url |-> 0]
  BY DEF NewMap
<1>2. <<>> \in Seq(Uts) /\ [u \in Url |-> 0] \in [Url -> Nat]
  OBVIOUS
<1>3. Counted(NewMap)
  BY <1>1, CntEmpty DEF Counted, CntOf
<1> QED
  BY <1>1, <1>2, <1>3 DEF IsMap

\* The parts of IInv, as the lemmas about UrlFreqMap have them.
LEMMA IInvParts ==
  ASSUME IInv
  PROVE  /\ filling \in BOOLEAN /\ merging \in BOOLEAN
         /\ q \in Seq(Uts) /\ events \in Seq(Uts)
         /\ now \in FirstTime .. MaxTime /\ now \in Nat /\ MaxTime \in Nat
         /\ ~merging => upd = NewMaps
         /\ \A w \in Window : /\ IsMap(upd[w]) /\ IsMap(mem[w])
                              /\ Counted(upd[w]) /\ Counted(mem[w])
         /\ EndOf(upd[Hour].q, upd[Day].q)
         /\ \A u \in Url : mem[Hour].freq[u] <= mem[Day].freq[u]
<1>1. TypeOK /\ FreqMatchesQueue /\ HourEndsDay /\ HourInDay
  BY DEF IInv
<1>2. MaxTime \in Nat /\ FirstTime \in Nat
  BY FreqStatsAssumption, AgeFacts
<1>3. now \in Nat
  BY <1>1, <1>2 DEF TypeOK
<1>4. \A w \in Window : Counted(upd[w]) /\ Counted(mem[w])
  BY <1>1 DEF FreqMatchesQueue, Counted
<1>5. EndOf(upd[Hour].q, upd[Day].q)
  BY <1>1 DEF HourEndsDay, EndOf
<1>6. filling \in BOOLEAN /\ merging \in BOOLEAN
  BY <1>1 DEF TypeOK
<1>7. q \in Seq(Uts) /\ events \in Seq(Uts) /\ now \in FirstTime .. MaxTime
      /\ (~merging => upd = NewMaps) /\ \A w \in Window : IsMap(upd[w]) /\ IsMap(mem[w])
  BY <1>1 DEF TypeOK
<1> QED
  BY <1>1, <1>2, <1>3, <1>4, <1>5, <1>6, <1>7 DEF HourInDay

There(w, u, t) == CntSince(q, u, t) + CntSince(upd[w].q, u, t) + CntSince(mem[w].q, u, t)

LEMMA ThereFacts ==
  ASSUME IInv, NEW w \in Window, NEW u \in Url, NEW t \in 0 - Day .. MaxTime
  PROVE  /\ t \in Int
         /\ CntSince(q, u, t) \in Nat /\ CntSince(upd[w].q, u, t) \in Nat
         /\ CntSince(mem[w].q, u, t) \in Nat /\ CntSince(events, u, t) \in Nat
         /\ There(w, u, t) <= CntSince(events, u, t)
         /\ now - w <= t => There(w, u, t) = CntSince(events, u, t)
<1>1. t \in Int
  BY WindowFacts, FreqStatsAssumption
<1>2. q \in Seq(Uts) /\ events \in Seq(Uts) /\ upd[w].q \in Seq(Uts) /\ mem[w].q \in Seq(Uts)
  BY IInvParts DEF IsMap
<1>3. /\ CntSince(q, u, t) \in Nat /\ CntSince(upd[w].q, u, t) \in Nat
      /\ CntSince(mem[w].q, u, t) \in Nat /\ CntSince(events, u, t) \in Nat
  BY <1>2, CntType
<1>4. /\ There(w, u, t) <= CntSince(events, u, t)
      /\ now - w <= t => There(w, u, t) = CntSince(events, u, t)
  BY DEF IInv, SinceInv, There
<1> QED
  BY <1>1, <1>3, <1>4

LEMMA InitIInv == Init => IInv
<1> SUFFICES ASSUME Init PROVE IInv
  OBVIOUS
<1>1. \A w \in Window : upd[w] = NewMap /\ mem[w] = NewMap
  BY DEF Init, NewMaps
<1>2. TypeOK
  <2>1. filling \in BOOLEAN /\ merging \in BOOLEAN
    BY DEF Init
  <2>2. q \in Seq(Uts) /\ events \in Seq(Uts) /\ (~merging => upd = NewMaps)
    BY DEF Init
  <2>3. now \in FirstTime .. MaxTime
    <3>1. FirstTime \in Nat /\ MaxTime \in Nat /\ FirstTime <= MaxTime
      BY FreqStatsAssumption, AgeFacts
    <3> QED BY <3>1 DEF Init
  <2> QED BY <1>1, <2>1, <2>2, <2>3, NewMapFacts DEF TypeOK
<1>3. FreqMatchesQueue
  BY <1>1, NewMapFacts DEF FreqMatchesQueue, Counted
<1>4. HourEndsDay
  <2>1. <<>> \in Seq(Uts) /\ Len(<<>>) <= Len(<<>>)
    OBVIOUS
  <2>2. \A i \in 1 .. Len(<<>>) : <<>>[i] = <<>>[Len(<<>>) - Len(<<>>) + i]
    OBVIOUS
  <2>3. EndOf(<<>>, <<>>)
    BY <2>1, <2>2, EndOfByItems
  <2>4. upd[Hour].q = <<>> /\ upd[Day].q = <<>>
    BY <1>1, WindowFacts, NewMapFacts
  <2> QED BY <2>3, <2>4 DEF EndOf, HourEndsDay
<1>5. HourInDay
  <2> SUFFICES ASSUME NEW u \in Url PROVE mem[Hour].freq[u] <= mem[Day].freq[u]
    BY DEF HourInDay
  <2>1. mem[Hour].freq[u] = 0 /\ mem[Day].freq[u] = 0
    BY <1>1, WindowFacts, NewMapFacts
  <2> QED BY <2>1
<1>6. SinceInv
  <2> SUFFICES ASSUME NEW w \in Window, NEW u \in Url, NEW t \in 0 - Day .. MaxTime
               PROVE  /\ There(w, u, t) <= CntSince(events, u, t)
                      /\ There(w, u, t) = CntSince(events, u, t)
    BY DEF SinceInv, There
  <2>1. upd[w].q = <<>> /\ mem[w].q = <<>> /\ q = <<>> /\ events = <<>>
    BY <1>1, NewMapFacts DEF Init
  <2>2. CntSince(<<>>, u, t) = 0
    BY CntEmpty
  <2> QED BY <2>1, <2>2 DEF There
<1> QED
  BY <1>2, <1>3, <1>4, <1>5, <1>6 DEF IInv

\* How the parts make up IInv again.
LEMMA IInvFromParts ==
  ASSUME q' \in Seq(Uts) /\ events' \in Seq(Uts),
         filling' \in BOOLEAN /\ merging' \in BOOLEAN,
         now' \in FirstTime .. MaxTime,
         ~merging' => upd' = NewMaps,
         \A w \in Window : /\ IsMap(upd'[w]) /\ IsMap(mem'[w])
                           /\ Counted(upd'[w]) /\ Counted(mem'[w]),
         EndOf(upd'[Hour].q, upd'[Day].q),
         \A u \in Url : mem'[Hour].freq[u] <= mem'[Day].freq[u],
         \A w \in Window, u \in Url, t \in 0 - Day .. MaxTime :
           /\ There(w, u, t)' <= CntSince(events', u, t)
           /\ now' - w <= t => There(w, u, t)' = CntSince(events', u, t)
  PROVE  IInv'
<1>1. TypeOK'
  BY DEF TypeOK, IsMap, Uts, NewMaps, NewMap, FirstTime
<1>2. FreqMatchesQueue'
  <2>1. \A w \in Window, u \in Url :
          upd'[w].freq[u] = CntOf(upd'[w].q, u) /\ mem'[w].freq[u] = CntOf(mem'[w].q, u)
    BY DEF Counted
  <2> QED BY <2>1 DEF FreqMatchesQueue
<1>3. HourEndsDay'
  BY DEF HourEndsDay, EndOf
<1>4. HourInDay'
  BY DEF HourInDay
<1>5. SinceInv'
  BY DEF SinceInv, There
<1> QED
  BY <1>1, <1>2, <1>3, <1>4, <1>5 DEF IInv

\* A visit or a pack that is pushed is in the queue and in the history.
LEMMA PushIInv ==
  ASSUME IInv, NEW uts \in Uts, Push(uts), UNCHANGED <<filling, merging, upd, mem, now>>
  PROVE  IInv'
<1>1. /\ q' = Append(q, uts) /\ events' = Append(events, uts)
      /\ filling' = filling /\ merging' = merging /\ upd' = upd /\ mem' = mem /\ now' = now
  BY DEF Push
<1>2. q \in Seq(Uts) /\ events \in Seq(Uts)
  BY IInvParts
<1>3. q' \in Seq(Uts) /\ events' \in Seq(Uts)
  BY <1>1, <1>2
<1>4. ASSUME NEW w \in Window, NEW u \in Url, NEW t \in 0 - Day .. MaxTime
      PROVE  /\ There(w, u, t)' <= CntSince(events', u, t)
             /\ now' - w <= t => There(w, u, t)' = CntSince(events', u, t)
  <2> DEFINE a == CntSince(q, u, t)
             b == CntSince(upd[w].q, u, t)
             c == CntSince(mem[w].q, u, t)
             d == CntSince(events, u, t)
             x == Weight(uts, u, t)
             young == now - w <= t
  <2>1. a \in Nat /\ b \in Nat /\ c \in Nat /\ d \in Nat /\ x \in Nat
    BY ThereFacts, WeightType
  <2>2. a + b + c <= d /\ (young => a + b + c = d)
    BY ThereFacts DEF There
  <2>3. CntSince(q', u, t) = a + x /\ CntSince(events', u, t) = d + x
    BY <1>1, <1>2, CntAppend
  <2>4. There(w, u, t)' = CntSince(q', u, t) + b + c
    BY <1>1 DEF There
  <2>5. (now' - w <= t) = young
    BY <1>1
  <2> HIDE DEF a, b, c, d, x, young
  <2>6. a + x + b + c <= d + x /\ (young => a + x + b + c = d + x)
    BY <2>1, <2>2
  <2> QED BY <2>3, <2>4, <2>5, <2>6
<1> QED
  BY <1>1, <1>3, <1>4, IInvParts, IInvFromParts

LEMMA TickIInv == IInv /\ Tick => IInv'
<1> SUFFICES ASSUME IInv, Tick PROVE IInv'
  OBVIOUS
<1>1. /\ now' = now + 1 /\ now < MaxTime
      /\ q' = q /\ events' = events
      /\ filling' = filling /\ merging' = merging /\ upd' = upd /\ mem' = mem
  BY DEF Tick
<1>2. now' \in FirstTime .. MaxTime
  BY <1>1, IInvParts, AgeFacts
<1>3. ASSUME NEW w \in Window, NEW u \in Url, NEW t \in 0 - Day .. MaxTime
      PROVE  /\ There(w, u, t)' <= CntSince(events', u, t)
             /\ now' - w <= t => There(w, u, t)' = CntSince(events', u, t)
  <2>1. There(w, u, t)' = There(w, u, t) /\ CntSince(events', u, t) = CntSince(events, u, t)
    BY <1>1 DEF There
  <2>2. now' - w <= t => now - w <= t
    BY <1>1, IInvParts, WindowFacts, ThereFacts
  <2> QED BY <2>1, <2>2, ThereFacts
<1> QED
  BY <1>1, <1>2, <1>3, IInvParts, IInvFromParts

LEMMA AccEventIInv == IInv /\ AccEvent => IInv'
<1> SUFFICES ASSUME IInv, AccEvent PROVE IInv'
  OBVIOUS
<1> DEFINE e == Head(q)
<1>1. /\ q # <<>> /\ q' = Tail(q)
      /\ \A w \in Window : upd'[w] = InsertVisitsPack(upd[w], e, now, w)
      /\ events' = events /\ filling' = filling /\ mem' = mem /\ now' = now
  BY DEF AccEvent, InsertIntoMaps
<1>2. q \in Seq(Uts) /\ events \in Seq(Uts) /\ now \in Nat
      /\ \A w \in Window : w \in Nat /\ IsMap(upd[w]) /\ Counted(upd[w])
  BY IInvParts, WindowFacts
<1>3. e \in Uts /\ q' \in Seq(Uts)
  BY <1>1, <1>2, HeadTailProperties
<1>4. \A u, t : CntSince(q, u, t) = Weight(e, u, t) + CntSince(q', u, t)
  BY <1>1, <1>2, CntTail
<1> HIDE DEF e
<1>5. \A w \in Window :
        /\ IsMap(upd'[w]) /\ Counted(upd'[w])
        /\ \A u : \A t \in Int :
             /\ CntSince(upd'[w].q, u, t) <= CntSince(upd[w].q, u, t) + Weight(e, u, t)
             /\ now - w <= t =>
                  CntSince(upd'[w].q, u, t) = CntSince(upd[w].q, u, t) + Weight(e, u, t)
  <2> SUFFICES ASSUME NEW w \in Window
               PROVE  /\ IsMap(upd'[w]) /\ Counted(upd'[w])
                      /\ \A u : \A t \in Int :
                           /\ CntSince(upd'[w].q, u, t) <= CntSince(upd[w].q, u, t) + Weight(e, u, t)
                           /\ now - w <= t =>
                                CntSince(upd'[w].q, u, t) =
                                  CntSince(upd[w].q, u, t) + Weight(e, u, t)
    OBVIOUS
  <2>1. upd'[w] = InsertVisitsPack(upd[w], e, now, w) /\ w \in Nat
        /\ IsMap(upd[w]) /\ Counted(upd[w])
    BY <1>1, <1>2
  <2> DEFINE r == InsertVisitsPack(upd[w], e, now, w)
  <2>2. IsMap(r) /\ Counted(r)
    BY <1>2, <1>3, <2>1, InsertFacts
  <2>3. \A u : \A t \in Int :
          /\ CntSince(r.q, u, t) <= CntSince(upd[w].q, u, t) + Weight(e, u, t)
          /\ now - w <= t =>
               CntSince(r.q, u, t) = CntSince(upd[w].q, u, t) + Weight(e, u, t)
    BY <1>2, <1>3, <2>1, InsertFacts
  <2> HIDE DEF r
  <2>4. upd'[w] = r
    BY <2>1 DEF r
  <2> QED BY <2>2, <2>3, <2>4
<1>6. EndOf(upd'[Hour].q, upd'[Day].q)
  <2>1. /\ Hour \in Window /\ Day \in Window /\ Hour \in Nat /\ Day \in Nat /\ Hour <= Day
        /\ EndOf(upd[Hour].q, upd[Day].q)
    BY WindowFacts, IInvParts
  <2> QED BY <1>1, <1>2, <1>3, <2>1, InsertKeepsEnd
<1>7. ASSUME NEW w \in Window, NEW u \in Url, NEW t \in 0 - Day .. MaxTime
      PROVE  /\ There(w, u, t)' <= CntSince(events', u, t)
             /\ now' - w <= t => There(w, u, t)' = CntSince(events', u, t)
  <2> DEFINE a == CntSince(q', u, t)
             b == CntSince(upd[w].q, u, t)
             b1 == CntSince(upd'[w].q, u, t)
             c == CntSince(mem[w].q, u, t)
             d == CntSince(events, u, t)
             x == Weight(e, u, t)
             young == now - w <= t
  <2>1. b \in Nat /\ c \in Nat /\ d \in Nat /\ x \in Nat /\ t \in Int
    BY <1>3, ThereFacts, WeightType
  <2>2. a \in Nat /\ b1 \in Nat
    BY <1>3, <1>5, CntType DEF IsMap
  <2>3. (x + a) + b + c <= d /\ (young => (x + a) + b + c = d)
    BY <1>4, ThereFacts DEF There
  <2>4. b1 <= b + x /\ (young => b1 = b + x)
    BY <1>5, <2>1
  <2>5. There(w, u, t)' = a + b1 + c /\ CntSince(events', u, t) = d
    BY <1>1 DEF There
  <2>6. (now' - w <= t) = young
    BY <1>1
  <2> HIDE DEF a, b, b1, c, d, x, young
  <2>7. a + b1 + c <= d /\ (young => a + b1 + c = d)
    BY <2>1, <2>2, <2>3, <2>4
  <2> QED BY <2>5, <2>6, <2>7
<1>8. merging' = TRUE
  BY DEF AccEvent
<1>9. \A w \in Window : /\ IsMap(upd'[w]) /\ IsMap(mem'[w])
                        /\ Counted(upd'[w]) /\ Counted(mem'[w])
  BY <1>1, <1>5, IInvParts
<1> QED
  BY <1>1, <1>3, <1>6, <1>7, <1>8, <1>9, IInvParts, IInvFromParts

LEMMA SwitchIInv == IInv /\ SwitchGlobalObj => IInv'
<1> SUFFICES ASSUME IInv, SwitchGlobalObj PROVE IInv'
  OBVIOUS
<1>1. /\ \A w \in Window : mem'[w] = MergeMap(mem[w], upd[w])
      /\ upd' = NewMaps
      /\ q' = q /\ events' = events /\ filling' = filling /\ now' = now
  BY DEF SwitchGlobalObj, MergeMaps
<1>2. \A w \in Window : upd'[w] = NewMap
  BY <1>1 DEF NewMaps
<1>3. \A w \in Window :
        /\ IsMap(mem'[w]) /\ Counted(mem'[w])
        /\ \A u \in Url : mem'[w].freq[u] = mem[w].freq[u] + upd[w].freq[u]
        /\ \A u, t : CntSince(mem'[w].q, u, t) =
                       CntSince(mem[w].q, u, t) + CntSince(upd[w].q, u, t)
  BY <1>1, IInvParts, MergeMapFacts
<1>4. \A w \in Window : IsMap(upd'[w]) /\ Counted(upd'[w])
  BY <1>2, NewMapFacts
<1>5. EndOf(upd'[Hour].q, upd'[Day].q)
  <2>1. upd'[Hour].q = <<>> /\ upd'[Day].q = <<>>
    BY <1>2, WindowFacts, NewMapFacts
  <2>2. <<>> \in Seq(Uts) /\ Len(<<>>) <= Len(<<>>)
    OBVIOUS
  <2>3. \A i \in 1 .. Len(<<>>) : <<>>[i] = <<>>[Len(<<>>) - Len(<<>>) + i]
    OBVIOUS
  <2> QED BY <2>1, <2>2, <2>3, EndOfByItems
<1>6. ASSUME NEW u \in Url
      PROVE  mem'[Hour].freq[u] <= mem'[Day].freq[u]
  <2> DEFINE h == mem[Hour].freq[u]
             d == mem[Day].freq[u]
             uh == upd[Hour].freq[u]
             ud == upd[Day].freq[u]
  <2>1. h \in Nat /\ d \in Nat /\ uh \in Nat /\ ud \in Nat /\ h <= d
    BY IInvParts, WindowFacts DEF IsMap
  <2>2. uh <= ud
    <3>1. uh = CntSince(upd[Hour].q, u, 0) /\ ud = CntSince(upd[Day].q, u, 0)
      BY IInvParts, WindowFacts DEF Counted, CntOf
    <3>2. upd[Day].q \in Seq(Uts) /\ EndOf(upd[Hour].q, upd[Day].q)
      BY IInvParts, WindowFacts DEF IsMap
    <3> HIDE DEF uh, ud
    <3> QED BY <3>1, <3>2, EndOfCounts
  <2>3. mem'[Hour].freq[u] = h + uh /\ mem'[Day].freq[u] = d + ud
    BY <1>3, WindowFacts
  <2> HIDE DEF h, d, uh, ud
  <2>4. h + uh <= d + ud
    BY <2>1, <2>2
  <2> QED BY <2>3, <2>4
<1>7. ASSUME NEW w \in Window, NEW u \in Url, NEW t \in 0 - Day .. MaxTime
      PROVE  /\ There(w, u, t)' <= CntSince(events', u, t)
             /\ now' - w <= t => There(w, u, t)' = CntSince(events', u, t)
  <2> DEFINE a == CntSince(q, u, t)
             b == CntSince(upd[w].q, u, t)
             c == CntSince(mem[w].q, u, t)
  <2>1. a \in Nat /\ b \in Nat /\ c \in Nat
    BY ThereFacts
  <2>2. CntSince(upd'[w].q, u, t) = 0
    BY <1>2, NewMapFacts, CntEmpty
  <2>3. There(w, u, t)' = a + 0 + (c + b)
    BY <1>1, <1>3, <2>2 DEF There
  <2>4. There(w, u, t) = a + b + c
    BY DEF There
  <2> HIDE DEF a, b, c
  <2>5. There(w, u, t)' = There(w, u, t)
    BY <2>1, <2>3, <2>4
  <2> QED BY <1>1, <2>5, ThereFacts
<1>8. merging' = FALSE
  BY DEF SwitchGlobalObj
<1>9. \A w \in Window : /\ IsMap(upd'[w]) /\ IsMap(mem'[w])
                        /\ Counted(upd'[w]) /\ Counted(mem'[w])
  BY <1>3, <1>4
<1> QED
  BY <1>1, <1>5, <1>6, <1>7, <1>8, <1>9, IInvParts, IInvFromParts

LEMMA StutterIInv ==
  ASSUME IInv, UNCHANGED <<q, merging, upd, mem, now, events>>, filling' \in BOOLEAN
  PROVE  IInv'
<1>1. /\ q' = q /\ events' = events /\ merging' = merging /\ upd' = upd /\ mem' = mem
      /\ now' = now
  OBVIOUS
<1>2. ASSUME NEW w \in Window, NEW u \in Url, NEW t \in 0 - Day .. MaxTime
      PROVE  /\ There(w, u, t)' <= CntSince(events', u, t)
             /\ now' - w <= t => There(w, u, t)' = CntSince(events', u, t)
  <2>1. There(w, u, t)' = There(w, u, t) /\ CntSince(events', u, t) = CntSince(events, u, t)
    BY <1>1 DEF There
  <2> QED BY <1>1, <2>1, ThereFacts
<1> QED
  BY <1>1, <1>2, IInvParts, IInvFromParts

\* A visit or a pack is from a time of the clock's.
LEMMA UtsFacts ==
  ASSUME IInv, NEW u \in Url, NEW age \in Age, NEW cnt \in Nat \ {0}
  PROVE  [url |-> u, tp |-> now - age, cnt |-> cnt] \in Uts
<1>1. now - age \in Nat
  BY IInvParts, AgeFacts
<1> QED
  BY <1>1 DEF Uts

LEMMA NextIInv == IInv /\ [Next]_vars => IInv'
<1> SUFFICES ASSUME IInv, [Next]_vars PROVE IInv'
  OBVIOUS
<1>1. ASSUME NEW u \in Url, NEW age \in Age, NEW cnt \in Pack, Fill(u, age, cnt)
      PROVE  IInv'
  <2>1. cnt \in Nat \ {0}
    BY FreqStatsAssumption
  <2> QED BY <1>1, <2>1, UtsFacts, PushIInv DEF Fill
<1>2. ASSUME StartLoading PROVE IInv'
  BY <1>2, StutterIInv DEF StartLoading
<1>3. ASSUME NEW u \in Url, NEW age \in Age, Load(u, age)
      PROVE  IInv'
  BY <1>3, UtsFacts, PushIInv DEF Load
<1>4. ASSUME UNCHANGED vars PROVE IInv'
  <2>1. filling' \in BOOLEAN
    BY <1>4, IInvParts DEF vars
  <2> QED BY <1>4, <2>1, StutterIInv DEF vars
<1> QED
  BY <1>1, <1>2, <1>3, <1>4, AccEventIInv, SwitchIInv, TickIInv DEF Next

-----------------------------------------------------------------------------
(***************************************************************************)
(* The variables keep their types; m_maps has the visits of its queues,    *)
(* never a negative number.  (UrlFreqMap.h:34-39)                          *)
(***************************************************************************)
LEMMA Invariance == Spec => []IInv
<1> QED
  BY InitIInv, NextIInv, PTL DEF Spec

THEOREM TypeCorrect == Spec => []TypeOK
<1>1. IInv => TypeOK
  BY DEF IInv
<1> QED
  BY <1>1, Invariance, PTL

(***************************************************************************)
(* The number a window has for a URL is that of the visits in its queue,   *)
(* in whatever order they came and were merged, so that popping them takes *)
(* away what was counted.  (UrlFreqMap.cpp:10-62, :85-101)                 *)
(***************************************************************************)
THEOREM FreqIsOfQueue == Spec => []FreqMatchesQueue
<1>1. IInv => FreqMatchesQueue
  BY DEF IInv
<1> QED
  BY <1>1, Invariance, PTL

(***************************************************************************)
(* No visit is lost on its way into a window, and none is counted twice.   *)
(* (UrlFreqStatsLF.cpp:16-23, UrlFreqStatsLF.h:40-49, UrlFreqMap.cpp:85-90)*)
(***************************************************************************)
LEMMA IInvVisitsCounted == IInv => VisitsCounted
<1> SUFFICES ASSUME IInv, NEW w \in Window, NEW u \in Url
             PROVE  LET counted == CntOf(q, u) + upd[w].freq[u] + mem[w].freq[u]
                    IN  /\ CntSince(events, u, now - w) <= counted
                        /\ counted <= CntOf(events, u)
  BY DEF VisitsCounted
<1> DEFINE a == CntOf(q, u)
           b == CntOf(upd[w].q, u)
           c == CntOf(mem[w].q, u)
           t == now - w
<1>1. upd[w].freq[u] = b /\ mem[w].freq[u] = c
  BY IInvParts DEF Counted
<1>2. q \in Seq(Uts) /\ upd[w].q \in Seq(Uts) /\ mem[w].q \in Seq(Uts)
  BY IInvParts DEF IsMap
<1>3. a + b + c <= CntOf(events, u)
  <2>1. 0 \in 0 - Day .. MaxTime
    BY WindowFacts, IInvParts
  <2> QED BY <2>1, ThereFacts DEF There, CntOf
<1>4. t \in 0 - Day .. MaxTime
  <2>1. w \in Nat /\ Day \in Nat /\ w <= Day
    BY WindowFacts
  <2>2. now \in Nat /\ MaxTime \in Nat /\ now <= MaxTime
    BY IInvParts, AgeFacts
  <2> QED BY <2>1, <2>2
<1>5. /\ a \in Nat /\ b \in Nat /\ c \in Nat
      /\ CntSince(q, u, t) <= a /\ CntSince(upd[w].q, u, t) <= b /\ CntSince(mem[w].q, u, t) <= c
  BY <1>2, CntType, CntMost DEF CntOf
<1>6. now - w <= t
  BY <1>4, WindowFacts, IInvParts
<1>7. CntSince(events, u, t) <= a + b + c
  <2> DEFINE x == CntSince(q, u, t)
             y == CntSince(upd[w].q, u, t)
             z == CntSince(mem[w].q, u, t)
  <2> HIDE DEF t
  <2>1. x \in Nat /\ y \in Nat /\ z \in Nat /\ CntSince(events, u, t) = x + y + z
    BY <1>4, <1>6, ThereFacts DEF There
  <2>2. x <= a /\ y <= b /\ z <= c
    BY <1>5
  <2> HIDE DEF a, b, c, x, y, z
  <2> QED BY <1>5, <2>1, <2>2
<1> QED
  BY <1>1, <1>3, <1>7

THEOREM NoVisitIsLost == Spec => []VisitsCounted
BY IInvVisitsCounted, Invariance, PTL

(***************************************************************************)
(* What EnqueueLoop reads agrees: nothing was visited more often in the    *)
(* last hour than in the last day.  (LastPerMaps.cpp:18-35)                *)
(***************************************************************************)
THEOREM HourIsInDay == Spec => []HourInDay
<1>1. IInv => HourInDay
  BY DEF IInv
<1> QED
  BY <1>1, Invariance, PTL

-----------------------------------------------------------------------------
(***************************************************************************)
(* The sorted URLs of a window.                                            *)
(***************************************************************************)
FirstUrls(s, k) == {s[i] : i \in 1 .. k}

LEMMA FirstUrlsFacts ==
  ASSUME NEW n \in Nat, NEW s, \A i, j \in 1 .. n : i # j => s[i] # s[j]
  PROVE  \A k \in 0 .. n : IsFiniteSet(FirstUrls(s, k)) /\ Cardinality(FirstUrls(s, k)) = k
<1> DEFINE S == {k \in 0 .. n : IsFiniteSet(FirstUrls(s, k)) /\ Cardinality(FirstUrls(s, k)) = k}
<1>1. 0 \in S
  <2>1. FirstUrls(s, 0) = {}
    BY DEF FirstUrls
  <2> QED BY <2>1, FS_EmptySet
<1>2. ASSUME NEW k \in 1 .. n, k - 1 \in S
      PROVE  k \in S
  <2> DEFINE T == FirstUrls(s, k - 1)
  <2>1. IsFiniteSet(T) /\ Cardinality(T) = k - 1 /\ k \in Nat
    BY <1>2
  <2>2. FirstUrls(s, k) = T \cup {s[k]}
    BY DEF FirstUrls
  <2>3. s[k] \notin T
    BY DEF FirstUrls
  <2> HIDE DEF T
  <2>4. IsFiniteSet(T \cup {s[k]}) /\ Cardinality(T \cup {s[k]}) = k - 1 + 1
    BY <2>1, <2>3, FS_AddElement
  <2>5. k \in 0 .. n /\ k - 1 + 1 = k
    BY <2>1
  <2> QED BY <2>2, <2>4, <2>5
<1> HIDE DEF S
<1>3. \A k \in 0 .. n : k \in S
  BY <1>1, <1>2, UpTo
<1> QED
  BY <1>3 DEF S

\* Only a URL that the queue has is visited.
LEMMA VisitedFinite ==
  ASSUME NEW m, IsMap(m), Counted(m)
  PROVE  IsFiniteSet(Visited(m))
<1> DEFINE n == Len(m.q)
           url == [i \in 1 .. n |-> m.q[i].url]
           T == {m.q[i].url : i \in 1 .. n}
<1>1. m.q \in Seq(Uts) /\ n \in Nat /\ m.freq \in [Url -> Nat]
  BY DEF IsMap
<1>2. url \in Surjection(1 .. n, T)
  BY DEF Surjection
<1>3. IsFiniteSet(T)
  <2> HIDE DEF T, url, n
  <2>1. IsFiniteSet(1 .. n)
    BY <1>1, FS_Interval
  <2> QED BY <1>2, <2>1, FS_Surjection
<1>4. ASSUME NEW u \in Visited(m), u \notin T
      PROVE  FALSE
  <2>1. u \in Url /\ m.freq[u] > 0 /\ m.freq[u] = CntSince(m.q, u, 0)
    BY DEF Visited, Counted, CntOf
  <2>2. \A i \in 1 .. n : Weights(m.q, u, 0)[i] = 0
    BY <1>1, <1>4, WeightsFacts DEF Weight
  <2>3. CntSince(m.q, u, 0) = 0
    BY <1>1, <2>2, WeightsFacts, SumToZero
  <2> QED BY <2>1, <2>3
<1>5. Visited(m) \in SUBSET T
  BY <1>4
<1> HIDE DEF T
<1> QED
  BY <1>3, <1>5, FS_Subset

LEMMA TopUrlsFacts ==
  ASSUME NEW m, IsMap(m), Counted(m), NEW s \in TopUrls(m)
  PROVE  /\ s \in Seq(Url) /\ Len(s) \in Nat
         /\ \A i, j \in 1 .. Len(s) : i # j => s[i] # s[j]
         /\ FirstUrls(s, Len(s)) = Visited(m)
         /\ \A i, j \in 1 .. Len(s) : i <= j => m.freq[s[j]] <= m.freq[s[i]]
<1> DEFINE n == Cardinality(Visited(m))
<1>1. IsFiniteSet(Visited(m)) /\ n \in Nat
  BY VisitedFinite, FS_CardinalityType
<1>2. /\ s \in [1 .. n -> Visited(m)] /\ \A i, j \in 1 .. n : i # j => s[i] # s[j]
      /\ \A i \in 1 .. Len(s) - 1 : m.freq[s[i]] >= m.freq[s[i + 1]]
  BY DEF TopUrls, SetToSeqs
<1> HIDE DEF n
<1>3. Visited(m) \subseteq Url
  BY DEF Visited
<1>4. s \in Seq(Url) /\ Len(s) = n
  BY <1>1, <1>2, <1>3
<1>5. FirstUrls(s, n) = Visited(m)
  <2>1. FirstUrls(s, n) \in SUBSET Visited(m)
    BY <1>2 DEF FirstUrls
  <2>2. Cardinality(FirstUrls(s, n)) = n
    BY <1>1, <1>2, FirstUrlsFacts
  <2> QED BY <1>1, <2>1, <2>2, FS_Subset DEF n
<1>6. ASSUME NEW i \in 1 .. n, NEW j \in 1 .. n, i <= j
      PROVE  m.freq[s[j]] <= m.freq[s[i]]
  <2> DEFINE f == [k \in 1 .. n |-> m.freq[s[k]]]
             S == {k \in 0 .. n - i : f[i + k] <= f[i]}
  <2>1. \A k \in 1 .. n : f[k] \in Nat
    BY <1>2, <1>3 DEF IsMap
  <2>2. \A k \in 1 .. n - 1 : f[k] >= f[k + 1]
    BY <1>1, <1>2, <1>4
  <2> HIDE DEF f
  <2>3. 0 \in S
    BY <1>1, <2>1
  <2>4. ASSUME NEW k \in 1 .. n - i, k - 1 \in S
        PROVE  k \in S
    <3>1. i + (k - 1) \in 1 .. n - 1 /\ i + k \in 1 .. n /\ i + (k - 1) + 1 = i + k /\ k \in 0 .. n - i
      BY <1>1
    <3>2. f[i + (k - 1)] <= f[i]
      BY <2>4
    <3>3. f[i + (k - 1)] >= f[i + k]
      BY <2>2, <3>1
    <3>4. f[i + (k - 1)] \in Nat /\ f[i + k] \in Nat /\ f[i] \in Nat
      <4>1. i + (k - 1) \in 1 .. n
        BY <1>1, <3>1
      <4> QED BY <2>1, <3>1, <4>1
    <3>5. f[i + k] <= f[i]
      BY <3>2, <3>3, <3>4
    <3> QED BY <3>1, <3>5
  <2> HIDE DEF S
  <2>5. n - i \in Nat /\ j - i \in 0 .. n - i /\ i + (j - i) = j
    BY <1>1, <1>6
  <2>6. \A k \in 0 .. n - i : k \in S
    BY <2>3, <2>4, <2>5, UpTo
  <2>7. f[i + (j - i)] <= f[i]
    BY <2>5, <2>6 DEF S
  <2>8. f[j] <= f[i]
    BY <2>5, <2>7
  <2> QED BY <2>8 DEF f
<1> QED
  BY <1>1, <1>2, <1>4, <1>5, <1>6

LEMMA MinOfTwo ==
  ASSUME NEW a \in Nat, NEW b \in Nat
  PROVE  Min({a, b}) \in {a, b} /\ Min({a, b}) <= a /\ Min({a, b}) <= b
<1>1. \E x \in {a, b} : \A y \in {a, b} : x =< y
  BY LeastNat
<1> QED
  BY <1>1 DEF Min

\* The first loop of getTopUrls takes the first URLs of the hour.
LEMMA FirstOfFacts ==
  ASSUME NEW s \in Seq(Url), NEW limit \in Nat
  PROVE  \E k \in 0 .. Len(s) : /\ k <= limit /\ (k < Len(s) => k = limit)
                                /\ ToSet(FirstOf(s, limit)) = FirstUrls(s, k)
<1> DEFINE k == Min({limit, Len(s)})
           f == SubSeq(s, 1, k)
<1>1. Len(s) \in Nat /\ \A i \in 1 .. Len(s) : s[i] \in Url
  OBVIOUS
<1>2. k \in {limit, Len(s)} /\ k <= limit /\ k <= Len(s)
  BY <1>1, MinOfTwo
<1> HIDE DEF k
<1>3. k \in 0 .. Len(s) /\ (k < Len(s) => k = limit)
  BY <1>1, <1>2
<1>4. f \in Seq(Url) /\ Len(f) = k /\ \A i \in 1 .. k : f[i] = s[i]
  <2>1. k \in Nat /\ \A i \in 1 .. k : s[i] \in Url
    BY <1>1, <1>3
  <2>2. f \in Seq(Url) /\ Len(f) = (IF 1 <= k THEN k - 1 + 1 ELSE 0)
        /\ \A i \in 1 .. k - 1 + 1 : f[i] = s[1 + i - 1]
    BY <2>1, SubSeqProperties
  <2> QED BY <2>1, <2>2
<1>5. DOMAIN f = 1 .. k
  <2> HIDE DEF f
  <2> QED BY <1>4
<1>6. ToSet(f) = FirstUrls(s, k)
  <2> HIDE DEF f
  <2> QED BY <1>4, <1>5 DEF ToSet, FirstUrls
<1>7. FirstOf(s, limit) = f
  BY DEF FirstOf, k
<1> HIDE DEF f
<1> QED
  BY <1>2, <1>3, <1>6, <1>7

-----------------------------------------------------------------------------
(***************************************************************************)
(* The second loop of getTopUrls, over the URLs of the day.                *)
(***************************************************************************)
IsAdded(map, r, day, freq, limit, n) ==
  map = [m \in 0 .. n |->
           IF m = 0 THEN r ELSE AddDay(map[m - 1], day[m], freq[day[m]], limit)]

LEMMA AddedExists ==
  ASSUME NEW r, NEW day, NEW freq, NEW limit, NEW n \in Nat
  PROVE  \E map : IsAdded(map, r, day, freq, limit, n)
<1> DEFINE S == {k \in Nat : \E map : IsAdded(map, r, day, freq, limit, k)}
<1>1. 0 \in S
  <2>1. IsAdded([m \in 0 .. 0 |-> r], r, day, freq, limit, 0)
    BY DEF IsAdded
  <2> QED BY <2>1
<1>2. ASSUME NEW k \in 1 .. n, k - 1 \in S
      PROVE  k \in S
  <2>1. PICK map : IsAdded(map, r, day, freq, limit, k - 1)
    BY <1>2
  <2> DEFINE next == [m \in 0 .. k |->
                        IF m = k THEN AddDay(map[k - 1], day[k], freq[day[k]], limit)
                        ELSE map[m]]
  <2>2. IsAdded(next, r, day, freq, limit, k)
    BY <2>1 DEF IsAdded
  <2> QED BY <2>2
<1> HIDE DEF S
<1>3. n \in S
  BY <1>1, <1>2, UpTo
<1> QED
  BY <1>3 DEF S

AddedMap(r, day, freq, limit) ==
  CHOOSE map : map =
    [m \in 0 .. Len(day) |->
       IF m = 0 THEN r ELSE AddDay(map[m - 1], day[m], freq[day[m]], limit)]

LEMMA AddDaysIs ==
  ASSUME NEW r, NEW day, Len(day) \in Nat, NEW freq, NEW limit
  PROVE  /\ IsAdded(AddedMap(r, day, freq, limit), r, day, freq, limit, Len(day))
         /\ AddDays(r, day, freq, limit) = AddedMap(r, day, freq, limit)[Len(day)]
<1> DEFINE n == Len(day)
<1>1. \E map : IsAdded(map, r, day, freq, limit, n)
  <2>1. n \in Nat
    OBVIOUS
  <2> HIDE DEF n
  <2> QED BY <2>1, AddedExists
<1> QED
  BY <1>1 DEF IsAdded, AddDays, AddedMap

\* The URLs H of the hour and the first m of the day, with their visits.
TopOf(H, hour, day, freq, m) ==
  [v \in H \union FirstUrls(day, m) |->
     (IF v \in H THEN hour[v] ELSE 0) + IF v \in FirstUrls(day, m) THEN freq[v] ELSE 0]

\* As long as there is room the loop adds the next URL of the day.
LEMMA AddDayFacts ==
  ASSUME NEW H \in SUBSET Url, NEW hour \in [Url -> Nat], NEW freq \in [Url -> Nat],
         NEW day \in Seq(Url), \A i, j \in 1 .. Len(day) : i # j => day[i] # day[j],
         NEW limit, NEW k \in 1 .. Len(day),
         ~(Cardinality(H \union FirstUrls(day, k - 1)) >= limit)
  PROVE  AddDay(TopOf(H, hour, day, freq, k - 1), day[k], freq[day[k]], limit) =
           TopOf(H, hour, day, freq, k)
<1> DEFINE u == day[k]
           D == FirstUrls(day, k - 1)
           E == FirstUrls(day, k)
           r == TopOf(H, hour, day, freq, k - 1)
<1>1. Len(day) \in Nat /\ \A i \in 1 .. Len(day) : day[i] \in Url
  OBVIOUS
<1>2. E = D \union {u} /\ u \notin D /\ E \subseteq Url
  <2>1. \A i \in 1 .. k : i \in 1 .. k - 1 \/ i = k
    BY <1>1
  <2>2. \A i \in 1 .. k - 1 : i \in 1 .. Len(day) /\ i # k /\ i \in 1 .. k
    BY <1>1
  <2>3. k \in 1 .. k
    OBVIOUS
  <2>4. E = D \union {u}
    BY <2>1, <2>2, <2>3 DEF FirstUrls
  <2>5. u \notin D
    BY <2>2 DEF FirstUrls
  <2>6. E \subseteq Url
    BY <1>1, <2>1, <2>2 DEF FirstUrls
  <2> QED BY <2>4, <2>5, <2>6
<1>3. DOMAIN r = H \union D
      /\ \A v \in H \union D :
           r[v] = (IF v \in H THEN hour[v] ELSE 0) + IF v \in D THEN freq[v] ELSE 0
  BY DEF TopOf
<1>4. AddDay(r, u, freq[u], limit) =
        [v \in H \union D \union {u} |->
           (IF v \in H \union D THEN r[v] ELSE 0) + IF v = u THEN freq[u] ELSE 0]
  BY <1>3 DEF AddDay
<1>5. TopOf(H, hour, day, freq, k) =
        [v \in H \union E |-> (IF v \in H THEN hour[v] ELSE 0) + IF v \in E THEN freq[v] ELSE 0]
  BY DEF TopOf
<1> HIDE DEF u, D, E, r
<1>6. H \union D \union {u} = H \union E
  BY <1>2
<1>7. ASSUME NEW v \in H \union E
      PROVE  (IF v \in H \union D THEN r[v] ELSE 0) + (IF v = u THEN freq[u] ELSE 0) =
               (IF v \in H THEN hour[v] ELSE 0) + IF v \in E THEN freq[v] ELSE 0
  <2>1. v \in Url /\ hour[v] \in Nat /\ freq[v] \in Nat
    BY <1>2
  <2>2. CASE v = u
    <3>1. v \notin D /\ v \in E
      BY <1>2, <2>2
    <3>2. (IF v \in H \union D THEN r[v] ELSE 0) = IF v \in H THEN hour[v] ELSE 0
      BY <1>3, <2>1, <3>1
    <3> QED BY <2>2, <3>1, <3>2
  <2>3. CASE v # u
    <3>1. v \in H \union D /\ (v \in D <=> v \in E)
      BY <1>2, <2>3
    <3>2. r[v] = (IF v \in H THEN hour[v] ELSE 0) + IF v \in E THEN freq[v] ELSE 0
      BY <1>3, <3>1
    <3>3. r[v] \in Nat
      BY <2>1, <3>2
    <3> QED BY <2>3, <3>1, <3>2, <3>3
  <2> QED BY <2>2, <2>3
<1> QED
  BY <1>4, <1>5, <1>6, <1>7 DEF r, u

LEMMA AddDaysFacts ==
  ASSUME NEW H \in SUBSET Url, NEW hour \in [Url -> Nat], NEW freq \in [Url -> Nat],
         NEW day \in Seq(Url), \A i, j \in 1 .. Len(day) : i # j => day[i] # day[j],
         NEW limit \in Nat, IsFiniteSet(H), Cardinality(H) <= limit
  PROVE  \E m \in 0 .. Len(day) :
           /\ AddDays([v \in H |-> hour[v]], day, freq, limit) = TopOf(H, hour, day, freq, m)
           /\ IsFiniteSet(H \union FirstUrls(day, m))
           /\ Cardinality(H \union FirstUrls(day, m)) <= limit
           /\ Cardinality(H \union FirstUrls(day, m)) < limit => m = Len(day)
<1> DEFINE n == Len(day)
           r == [v \in H |-> hour[v]]
           Dom(m) == H \union FirstUrls(day, m)
<1>1. n \in Nat
  OBVIOUS
<1> DEFINE map == AddedMap(r, day, freq, limit)
<1>2. /\ map[0] = r
      /\ \A k \in 1 .. n : map[k] = AddDay(map[k - 1], day[k], freq[day[k]], limit)
      /\ AddDays(r, day, freq, limit) = map[n]
  <2> HIDE DEF r
  <2>1. IsAdded(map, r, day, freq, limit, n) /\ AddDays(r, day, freq, limit) = map[n]
    BY <1>1, AddDaysIs
  <2> HIDE DEF map, n
  <2> QED BY <1>1, <2>1 DEF IsAdded
<1> HIDE DEF map
<1> DEFINE Good(k, m) == /\ map[k] = TopOf(H, hour, day, freq, m)
                         /\ IsFiniteSet(Dom(m)) /\ Cardinality(Dom(m)) <= limit
                         /\ Cardinality(Dom(m)) < limit => m = k
           S == {k \in 0 .. n : \E m \in 0 .. k : Good(k, m)}
<1>3. Dom(0) = H
  BY DEF FirstUrls
<1>4. TopOf(H, hour, day, freq, 0) = r
  <2>1. FirstUrls(day, 0) = {}
    BY DEF FirstUrls
  <2>2. \A v \in H : hour[v] + 0 = hour[v]
    OBVIOUS
  <2> QED BY <2>1, <2>2 DEF TopOf
<1> HIDE DEF r
<1>5. 0 \in S
  <2>1. Good(0, 0)
    BY <1>2, <1>3, <1>4
  <2> HIDE DEF Good
  <2> QED BY <1>1, <2>1
<1>6. ASSUME NEW k \in 1 .. n, k - 1 \in S
      PROVE  k \in S
  <2>1. PICK m \in 0 .. k - 1 : Good(k - 1, m)
    BY <1>6
  <2>2. map[k] = AddDay(TopOf(H, hour, day, freq, m), day[k], freq[day[k]], limit)
    BY <1>2, <2>1
  <2>3. Cardinality(Dom(m)) \in Nat
    BY <2>1, FS_CardinalityType
  <2>4. k \in 0 .. n /\ m \in 0 .. k /\ k \in 0 .. k
    BY <1>1
  <2>5. CASE Cardinality(Dom(m)) >= limit
    <3>1. DOMAIN TopOf(H, hour, day, freq, m) = Dom(m)
      BY DEF TopOf
    <3>2. map[k] = TopOf(H, hour, day, freq, m)
      BY <2>2, <2>5, <3>1 DEF AddDay
    <3>3. ~(Cardinality(Dom(m)) < limit)
      <4> HIDE DEF Dom
      <4> QED BY <2>3, <2>5
    <3>4. Good(k, m)
      BY <2>1, <3>2, <3>3
    <3> HIDE DEF Good
    <3> QED BY <2>4, <3>4
  <2>6. CASE ~(Cardinality(Dom(m)) >= limit)
    <3>1. Cardinality(Dom(m)) < limit
      <4> HIDE DEF Dom
      <4> QED BY <2>3, <2>6
    <3>2. m = k - 1
      BY <2>1, <3>1
    <3>3. map[k] = TopOf(H, hour, day, freq, k)
      <4>1. ~(Cardinality(H \union FirstUrls(day, k - 1)) >= limit)
        BY <2>6, <3>2
      <4>2. AddDay(TopOf(H, hour, day, freq, k - 1), day[k], freq[day[k]], limit) =
              TopOf(H, hour, day, freq, k)
        BY <4>1, AddDayFacts, SMTT(60)
      <4> QED BY <2>2, <3>2, <4>2
    <3>4. Dom(k) = Dom(m) \cup {day[k]}
      <4>1. /\ \A i \in 1 .. k : i \in 1 .. k - 1 \/ i = k
            /\ \A i \in 1 .. k - 1 : i \in 1 .. k
            /\ k \in 1 .. k
        BY <1>1
      <4>2. FirstUrls(day, k) = FirstUrls(day, k - 1) \cup {day[k]}
        BY <4>1 DEF FirstUrls
      <4> QED BY <3>2, <4>2
    <3>5. /\ IsFiniteSet(Dom(k))
          /\ Cardinality(Dom(k)) =
               IF day[k] \in Dom(m) THEN Cardinality(Dom(m)) ELSE Cardinality(Dom(m)) + 1
      <4>1. IsFiniteSet(Dom(m))
        BY <2>1
      <4> DEFINE T == Dom(m)
                 x == day[k]
      <4> HIDE DEF Dom, T, x
      <4>2. /\ IsFiniteSet(T \cup {x})
            /\ Cardinality(T \cup {x}) = IF x \in T THEN Cardinality(T) ELSE Cardinality(T) + 1
        <5>1. IsFiniteSet(T)
          BY <4>1 DEF T
        <5> QED BY <5>1, FS_AddElement
      <4>3. Dom(k) = T \cup {x}
        BY <3>4 DEF T, x
      <4> QED BY <4>2, <4>3 DEF T, x
    <3>6. Cardinality(Dom(k)) <= limit
      <4> HIDE DEF Dom
      <4> QED BY <2>3, <3>1, <3>5
    <3>7. Good(k, k)
      BY <3>3, <3>5, <3>6
    <3> HIDE DEF Good
    <3> QED BY <2>4, <3>7
  <2> QED BY <2>5, <2>6
<1> HIDE DEF S
<1>7. n \in S
  <2>1. \A k \in 0 .. n : k \in S
    <3> HIDE DEF n
    <3> QED BY <1>1, <1>5, <1>6, UpTo
  <2> QED BY <1>1, <2>1
<1>8. PICK m \in 0 .. n : Good(n, m)
  BY <1>7 DEF S
<1> QED
  BY <1>2, <1>8 DEF r

-----------------------------------------------------------------------------
(***************************************************************************)
(* The top that EnqueueLoop gets.                                          *)
(***************************************************************************)
LEMMA GetTopUrlsFacts ==
  ASSUME IInv, NEW limit \in Limit, NEW r \in GetTopUrls(mem, limit)
  PROVE  /\ Cardinality(DOMAIN r) <= limit
         /\ Cardinality(DOMAIN r) < limit =>
              r = [u \in Visited(mem[Day]) |-> HourVisits(u) + DayVisits(u)]
         /\ \A u \in Url \ DOMAIN r, v \in DOMAIN r :
              /\ HourVisits(u) <= HourVisits(v)
              /\ HourVisits(v) = 0 => DayVisits(u) <= DayVisits(v)
<1> DEFINE hf == mem[Hour].freq
           df == mem[Day].freq
<1>1. /\ IsMap(mem[Hour]) /\ Counted(mem[Hour]) /\ IsMap(mem[Day]) /\ Counted(mem[Day])
      /\ hf \in [Url -> Nat] /\ df \in [Url -> Nat]
      /\ \A u \in Url : hf[u] <= df[u]
  BY IInvParts, WindowFacts DEF IsMap
<1>2. limit \in Nat
  BY FreqStatsAssumption
<1>3. PICK hour \in TopUrls(mem[Hour]), day \in TopUrls(mem[Day]) :
        r = AddDays([u \in ToSet(FirstOf(hour, limit)) |-> hf[u]], day, df, limit)
  BY DEF GetTopUrls
<1>4. /\ hour \in Seq(Url) /\ Len(hour) \in Nat
      /\ \A i, j \in 1 .. Len(hour) : i # j => hour[i] # hour[j]
      /\ FirstUrls(hour, Len(hour)) = Visited(mem[Hour])
      /\ \A i, j \in 1 .. Len(hour) : i <= j => hf[hour[j]] <= hf[hour[i]]
  BY <1>1, TopUrlsFacts
<1>5. /\ day \in Seq(Url) /\ Len(day) \in Nat
      /\ \A i, j \in 1 .. Len(day) : i # j => day[i] # day[j]
      /\ FirstUrls(day, Len(day)) = Visited(mem[Day])
      /\ \A i, j \in 1 .. Len(day) : i <= j => df[day[j]] <= df[day[i]]
  BY <1>1, TopUrlsFacts
<1>6. /\ Visited(mem[Hour]) = {u \in Url : hf[u] > 0}
      /\ Visited(mem[Day]) = {u \in Url : df[u] > 0}
  BY DEF Visited
<1>7. PICK k \in 0 .. Len(hour) :
        /\ k <= limit /\ (k < Len(hour) => k = limit)
        /\ ToSet(FirstOf(hour, limit)) = FirstUrls(hour, k)
  BY <1>2, <1>4, FirstOfFacts
<1> DEFINE H == FirstUrls(hour, k)
<1>8. H \in SUBSET Url /\ IsFiniteSet(H) /\ Cardinality(H) = k /\ k \in Nat
  <2>1. H \in SUBSET Url
    BY <1>4 DEF FirstUrls
  <2>2. IsFiniteSet(H) /\ Cardinality(H) = k
    BY <1>4, FirstUrlsFacts
  <2> QED BY <1>4, <2>1, <2>2
<1>9. r = AddDays([u \in H |-> hf[u]], day, df, limit)
  BY <1>3, <1>7
<1> HIDE DEF hf, df, H
<1>10. \E m \in 0 .. Len(day) :
         /\ AddDays([v \in H |-> hf[v]], day, df, limit) = TopOf(H, hf, day, df, m)
         /\ IsFiniteSet(H \union FirstUrls(day, m))
         /\ Cardinality(H \union FirstUrls(day, m)) <= limit
         /\ Cardinality(H \union FirstUrls(day, m)) < limit => m = Len(day)
  <2>1. Cardinality(H) <= limit
    BY <1>7, <1>8
  <2> QED BY <1>1, <1>2, <1>5, <1>8, <2>1, AddDaysFacts
<1>11. PICK m \in 0 .. Len(day) :
         /\ r = TopOf(H, hf, day, df, m)
         /\ IsFiniteSet(H \union FirstUrls(day, m))
         /\ Cardinality(H \union FirstUrls(day, m)) <= limit
         /\ Cardinality(H \union FirstUrls(day, m)) < limit => m = Len(day)
  BY <1>9, <1>10
<1> DEFINE D == FirstUrls(day, m)
           Dom == H \union D
<1>12. DOMAIN r = Dom
  BY <1>11 DEF TopOf
<1>13. Cardinality(H) <= Cardinality(Dom) /\ (Cardinality(H) = Cardinality(Dom) => H = Dom)
       /\ Cardinality(Dom) \in Nat /\ Cardinality(Dom) <= limit
  <2>1. H \in SUBSET Dom /\ IsFiniteSet(Dom) /\ Cardinality(Dom) <= limit
    BY <1>11
  <2> HIDE DEF Dom
  <2> QED BY <2>1, FS_Subset, FS_CardinalityType
<1>14. /\ \A u \in H : \E i \in 1 .. k : u = hour[i]
       /\ \A u \in D : \E i \in 1 .. m : u = day[i]
  BY DEF H, FirstUrls
<1>15. /\ \A u \in Url \ H : hf[u] > 0 => \E i \in k + 1 .. Len(hour) : u = hour[i]
       /\ \A u \in Url \ D : df[u] > 0 => \E i \in m + 1 .. Len(day) : u = day[i]
  <2>1. ASSUME NEW u \in Url \ H, hf[u] > 0
        PROVE  \E i \in k + 1 .. Len(hour) : u = hour[i]
    <3>1. PICK i \in 1 .. Len(hour) : u = hour[i]
      BY <1>4, <1>6, <2>1 DEF FirstUrls
    <3>2. i \notin 1 .. k
      BY <2>1, <3>1 DEF H, FirstUrls
    <3>3. i \in k + 1 .. Len(hour)
      BY <1>4, <3>2
    <3> QED BY <3>1, <3>3
  <2>2. ASSUME NEW u \in Url \ D, df[u] > 0
        PROVE  \E i \in m + 1 .. Len(day) : u = day[i]
    <3>1. PICK i \in 1 .. Len(day) : u = day[i]
      BY <1>5, <1>6, <2>2 DEF FirstUrls
    <3>2. i \notin 1 .. m
      BY <2>2, <3>1 DEF FirstUrls
    <3>3. i \in m + 1 .. Len(day)
      BY <1>5, <3>2
    <3> QED BY <3>1, <3>3
  <2> QED BY <2>1, <2>2
<1>16. \A i \in 1 .. k : hour[i] \in H /\ hf[hour[i]] > 0
  <2>1. \A i \in 1 .. k : i \in 1 .. Len(hour)
    BY <1>4
  <2>2. \A i \in 1 .. Len(hour) : hf[hour[i]] > 0
    BY <1>4, <1>6 DEF FirstUrls
  <2> QED BY <2>1, <2>2 DEF H, FirstUrls
<1> HIDE DEF D
<1>17. ASSUME Cardinality(Dom) < limit
       PROVE  r = [u \in Visited(mem[Day]) |-> hf[u] + df[u]]
  <2>1. m = Len(day) /\ D = Visited(mem[Day])
    BY <1>5, <1>11, <1>17 DEF D
  <2>2. k = Len(hour)
    <3> HIDE DEF Dom
    <3> QED BY <1>2, <1>4, <1>7, <1>8, <1>13, <1>17
  <2>3. H = Visited(mem[Hour])
    BY <1>4, <2>2 DEF H
  <2>4. H \subseteq D
    BY <1>1, <1>6, <2>1, <2>3
  <2>5. Dom = Visited(mem[Day])
    BY <2>1, <2>4
  <2>6. r = [v \in Dom |-> (IF v \in H THEN hf[v] ELSE 0) + IF v \in D THEN df[v] ELSE 0]
    BY <1>11 DEF TopOf, D
  <2>7. ASSUME NEW v \in Dom
        PROVE  (IF v \in H THEN hf[v] ELSE 0) + (IF v \in D THEN df[v] ELSE 0) = hf[v] + df[v]
    <3>1. v \in Url /\ hf[v] \in Nat /\ df[v] \in Nat /\ v \in D
      BY <1>1, <1>6, <2>1, <2>5
    <3>2. v \notin H => hf[v] = 0
      BY <1>6, <2>3, <3>1
    <3> QED BY <3>1, <3>2
  <2> HIDE DEF Dom
  <2>8. r = [v \in Dom |-> hf[v] + df[v]]
    BY <2>6, <2>7
  <2> QED BY <2>5, <2>8
<1>18. ASSUME NEW u \in Url \ Dom, NEW v \in Dom
       PROVE  hf[u] <= hf[v] /\ (hf[v] = 0 => df[u] <= df[v])
  <2>1. u \in Url /\ u \notin H /\ u \notin D /\ hf[u] \in Nat /\ df[u] \in Nat
    BY <1>1
  <2>2. v \in Url /\ hf[v] \in Nat /\ df[v] \in Nat
    <3>1. D \subseteq Url
      BY <1>5 DEF D, FirstUrls
    <3> QED BY <1>1, <1>8, <3>1
  <2>3. hf[u] <= hf[v]
    <3>1. CASE hf[u] = 0
      BY <2>2, <3>1
    <3>2. CASE hf[u] > 0
      <4>1. PICK i \in k + 1 .. Len(hour) : u = hour[i]
        BY <1>15, <2>1, <3>2
      <4>2. k = limit
        BY <1>2, <1>4, <1>7, <1>8, <4>1
      <4>3. H = Dom
        <5> HIDE DEF Dom
        <5> QED BY <1>2, <1>8, <1>13, <4>2
      <4>4. PICK j \in 1 .. k : v = hour[j]
        BY <1>14, <4>3
      <4>5. i \in 1 .. Len(hour) /\ j \in 1 .. Len(hour) /\ j <= i
        BY <1>4, <1>8
      <4> QED BY <1>4, <4>1, <4>4, <4>5
    <3> QED BY <2>1, <3>1, <3>2
  <2>4. ASSUME hf[v] = 0
        PROVE  df[u] <= df[v]
    <3>1. CASE df[u] = 0
      BY <2>2, <3>1
    <3>2. CASE df[u] > 0
      <4>1. PICK i \in m + 1 .. Len(day) : u = day[i]
        BY <1>15, <2>1, <3>2
      <4>2. v \notin H
        BY <1>14, <1>16, <2>2, <2>4
      <4>3. PICK j \in 1 .. m : v = day[j]
        BY <1>14, <4>2
      <4>4. i \in 1 .. Len(day) /\ j \in 1 .. Len(day) /\ j <= i
        BY <1>5
      <4> QED BY <1>5, <4>1, <4>3, <4>4
    <3> QED BY <2>1, <3>1, <3>2
  <2> QED BY <2>3, <2>4
<1> HIDE DEF Dom
<1> QED
  BY <1>12, <1>13, <1>17, <1>18 DEF HourVisits, DayVisits, hf, df

(***************************************************************************)
(* The top that EnqueueLoop gets is a top: no more URLs than it asked for, *)
(* all of them when there are fewer, and none is left out for one with     *)
(* fewer visits.  (UrlFreqStatsLF.cpp:35-66)                               *)
(***************************************************************************)
THEOREM TopIsRight == Spec => []TopUrlsRight
<1>1. IInv => TopUrlsRight
  BY GetTopUrlsFacts DEF TopUrlsRight
<1> QED
  BY <1>1, Invariance, PTL
=============================================================================
