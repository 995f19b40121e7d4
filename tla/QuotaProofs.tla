---------------------------- MODULE QuotaProofs ----------------------------
(***************************************************************************)
(* The day's quota and the hour's pace of EnqueueLoop, for any target, any *)
(* length of a day, any statuses and any number of pushes and results.     *)
(* IInv, defined in Quota, is inductive.                                   *)
(***************************************************************************)
EXTENDS Quota, WellFoundedInduction, TLAPS

-----------------------------------------------------------------------------
(***************************************************************************)
(* Induction: a property of the naturals that fails fails first somewhere. *)
(***************************************************************************)
LEMMA LeastNat ==
  ASSUME NEW S, S \subseteq Nat, S # {}
  PROVE  \E k \in S : \A j \in S : k <= j
<1>1. \E k \in S : \A j \in S : ~(<<j, k>> \in OpToRel(<, Nat))
  BY NatLessThanWellFounded, WFMin
<1>2. ASSUME NEW j \in Nat, NEW k \in Nat, j < k
      PROVE  <<j, k>> \in OpToRel(<, Nat)
  BY <1>2 DEF OpToRel
<1>3. PICK k \in S : \A j \in S : ~(<<j, k>> \in OpToRel(<, Nat))
  BY <1>1
<1>4. ASSUME NEW j \in S PROVE k <= j
  <2>1. j \in Nat /\ k \in Nat /\ ~(j < k)
    BY <1>2, <1>3
  <2> QED BY <2>1
<1>5. QED
  BY <1>4

\* A set of naturals that has 0 and with k - 1 also k has all up to n.
LEMMA UpTo ==
  ASSUME NEW S, NEW n \in Nat, 0 \in S,
         \A k \in 1 .. n : k - 1 \in S => k \in S
  PROVE  \A k \in 0 .. n : k \in S
<1> SUFFICES ASSUME \E k \in 0 .. n : k \notin S
             PROVE  FALSE
  OBVIOUS
<1> DEFINE Bad == {k \in 0 .. n : k \notin S}
<1>1. PICK k \in Bad : \A j \in Bad : k <= j
  <2>1. Bad \subseteq Nat /\ Bad # {}
    OBVIOUS
  <2> HIDE DEF Bad
  <2> QED BY <2>1, LeastNat
<1>2. k \in 1 .. n /\ k - 1 \in 0 .. n /\ ~(k <= k - 1)
  BY <1>1
<1>3. k - 1 \in S
  BY <1>1, <1>2
<1> QED
  BY <1>1, <1>2, <1>3

-----------------------------------------------------------------------------
(***************************************************************************)
(* Sums of counts.                                                         *)
(***************************************************************************)
IsSum(sum, c, n) ==
  sum = [m \in 0 .. n |-> IF m = 0 THEN 0 ELSE sum[m - 1] + c[Finished[m]]]

LEMMA SumExists ==
  ASSUME NEW c, NEW n \in Nat
  PROVE  \E sum : IsSum(sum, c, n)
<1> DEFINE S == {k \in Nat : \E sum : IsSum(sum, c, k)}
<1>1. 0 \in S
  <2>1. IsSum([m \in 0 .. 0 |-> 0], c, 0)
    BY DEF IsSum
  <2> QED BY <2>1
<1>2. ASSUME NEW k \in 1 .. n, k - 1 \in S
      PROVE  k \in S
  <2>1. PICK sum : IsSum(sum, c, k - 1)
    BY <1>2
  <2> DEFINE next == [m \in 0 .. k |-> IF m = k THEN sum[k - 1] + c[Finished[k]] ELSE sum[m]]
  <2>2. IsSum(next, c, k)
    BY <2>1 DEF IsSum
  <2> QED BY <2>2
<1> HIDE DEF S
<1>3. n \in S
  BY <1>1, <1>2, UpTo
<1> QED
  BY <1>3 DEF S

LEMMA SumToIs ==
  ASSUME NEW c, NEW n \in Nat
  PROVE  \E sum : IsSum(sum, c, n) /\ SumTo(c, n) = sum[n]
<1> DEFINE sum == CHOOSE s : s = [m \in 0 .. n |-> IF m = 0 THEN 0 ELSE s[m - 1] + c[Finished[m]]]
<1>1. SumTo(c, n) = sum[n]
  BY DEF SumTo
<1>2. IsSum(sum, c, n)
  BY SumExists DEF IsSum
<1> QED
  BY <1>1, <1>2

\* A shorter sum is the beginning of a longer one.
LEMMA SumAgrees ==
  ASSUME NEW c, NEW n \in Nat, NEW m \in 0 .. n, NEW s, NEW t, IsSum(s, c, n), IsSum(t, c, m)
  PROVE  t[m] = s[m]
<1> DEFINE S == {k \in 0 .. m : t[k] = s[k]}
<1>1. 0 \in S
  BY DEF IsSum
<1>2. ASSUME NEW k \in 1 .. m, k - 1 \in S
      PROVE  k \in S
  BY <1>2 DEF IsSum
<1> HIDE DEF S
<1>3. m \in S
  BY <1>1, <1>2, UpTo
<1> QED
  BY <1>3 DEF S

LEMMA SumToFacts ==
  ASSUME NEW c
  PROVE  /\ SumTo(c, 0) = 0
         /\ \A n \in Nat \ {0} : SumTo(c, n) = SumTo(c, n - 1) + c[Finished[n]]
<1>1. SumTo(c, 0) = 0
  BY SumToIs DEF IsSum
<1>2. ASSUME NEW n \in Nat \ {0}
      PROVE  SumTo(c, n) = SumTo(c, n - 1) + c[Finished[n]]
  <2>1. PICK s : IsSum(s, c, n) /\ SumTo(c, n) = s[n]
    BY SumToIs
  <2>2. PICK t : IsSum(t, c, n - 1) /\ SumTo(c, n - 1) = t[n - 1]
    BY SumToIs
  <2>3. t[n - 1] = s[n - 1]
    BY <2>1, <2>2, SumAgrees
  <2>4. s[n] = s[n - 1] + c[Finished[n]]
    BY <2>1 DEF IsSum
  <2> QED BY <2>1, <2>2, <2>3, <2>4
<1> QED
  BY <1>1, <1>2

LEMMA FinishedFacts ==
  /\ Len(Finished) \in Nat
  /\ \A k \in 1 .. Len(Finished) : Finished[k] \in Statuses /\ Finished[k] # Enqueued
  /\ \A j, k \in 1 .. Len(Finished) : Finished[j] = Finished[k] => j = k
<1>1. Finished \in Seq(ToSet(Finished))
  BY QuotaAssumption
<1>2. \A k \in 1 .. Len(Finished) : Finished[k] \in ToSet(Finished)
  BY <1>1 DEF ToSet
<1>3. DOMAIN Finished = 1 .. Len(Finished) /\ Len(Finished) \in Nat
  BY <1>1
<1>4. \A j, k \in DOMAIN Finished : Finished[j] = Finished[k] => j = k
  BY QuotaAssumption DEF IsInjective
<1> QED
  BY <1>2, <1>3, <1>4, QuotaAssumption DEF Statuses

LEMMA SumToType ==
  ASSUME NEW c \in [Statuses -> Nat], NEW n \in 0 .. Len(Finished)
  PROVE  SumTo(c, n) \in Nat
<1> DEFINE S == {k \in 0 .. n : SumTo(c, k) \in Nat}
<1>1. Len(Finished) \in Nat
  BY FinishedFacts
<1>2. 0 \in S
  BY <1>1, SumToFacts
<1>3. ASSUME NEW k \in 1 .. n, k - 1 \in S
      PROVE  k \in S
  <2>1. SumTo(c, k) = SumTo(c, k - 1) + c[Finished[k]]
    BY <1>1, SumToFacts
  <2>2. c[Finished[k]] \in Nat
    BY <1>1, FinishedFacts
  <2> QED BY <1>3, <2>1, <2>2
<1> HIDE DEF S
<1>4. n \in S
  BY <1>1, <1>2, <1>3, UpTo
<1> QED
  BY <1>4 DEF S

LEMMA SumToSame ==
  ASSUME NEW c, NEW d, NEW n \in Nat, \A k \in 1 .. n : c[Finished[k]] = d[Finished[k]]
  PROVE  SumTo(c, n) = SumTo(d, n)
<1> DEFINE S == {k \in 0 .. n : SumTo(c, k) = SumTo(d, k)}
<1>1. 0 \in S
  BY SumToFacts
<1>2. ASSUME NEW k \in 1 .. n, k - 1 \in S
      PROVE  k \in S
  BY <1>2, SumToFacts
<1> HIDE DEF S
<1>3. n \in S
  BY <1>1, <1>2, UpTo
<1> QED
  BY <1>3 DEF S

LEMMA SumToZero ==
  ASSUME NEW c, \A k \in 1 .. Len(Finished) : c[Finished[k]] = 0
  PROVE  SumTo(c, Len(Finished)) = 0
<1> DEFINE n == Len(Finished)
           S == {k \in 0 .. n : SumTo(c, k) = 0}
<1>1. n \in Nat /\ 0 \in S
  BY SumToFacts, FinishedFacts
<1>2. \A k \in 1 .. n : k - 1 \in S => k \in S
  BY SumToFacts, FinishedFacts
<1> HIDE DEF S, n
<1>3. \A k \in 0 .. n : k \in S
  BY <1>1, <1>2, UpTo
<1> QED
  BY <1>1, <1>3 DEF S, n

LEMMA SumToMono ==
  ASSUME NEW c \in [Statuses -> Nat], NEW d \in [Statuses -> Nat],
         \A k \in 1 .. Len(Finished) : c[Finished[k]] <= d[Finished[k]]
  PROVE  SumTo(c, Len(Finished)) <= SumTo(d, Len(Finished))
<1> DEFINE n == Len(Finished)
           S == {k \in 0 .. n : SumTo(c, k) <= SumTo(d, k)}
<1>1. n \in Nat /\ 0 \in S
  BY SumToFacts, FinishedFacts
<1>2. ASSUME NEW k \in 1 .. n, k - 1 \in S
      PROVE  k \in S
  <2>1. /\ SumTo(c, k) = SumTo(c, k - 1) + c[Finished[k]]
        /\ SumTo(d, k) = SumTo(d, k - 1) + d[Finished[k]]
    BY <1>1, SumToFacts
  <2>2. /\ c[Finished[k]] \in Nat /\ SumTo(c, k - 1) \in Nat
        /\ d[Finished[k]] \in Nat /\ SumTo(d, k - 1) \in Nat
    BY <1>1, SumToType, FinishedFacts
  <2>3. SumTo(c, k) <= SumTo(d, k)
    BY <1>2, <2>1, <2>2
  <2> QED BY <2>3
<1> HIDE DEF S, n
<1>3. \A k \in 1 .. n : k - 1 \in S => k \in S
  BY <1>2
<1>4. \A k \in 0 .. n : k \in S
  BY <1>1, <1>3, UpTo
<1> QED
  BY <1>1, <1>4 DEF S, n

\* No status comes twice in Finished: one result more is one more in the sum.
LEMMA SumToOneMore ==
  ASSUME NEW c \in [Statuses -> Nat], NEW d \in [Statuses -> Nat],
         NEW i \in 1 .. Len(Finished),
         \A s \in Statuses : d[s] = c[s] + IF s = Finished[i] THEN 1 ELSE 0
  PROVE  SumTo(d, Len(Finished)) = SumTo(c, Len(Finished)) + 1
<1> DEFINE n == Len(Finished)
           S == {k \in 0 .. n : SumTo(d, k) = SumTo(c, k) + IF i <= k THEN 1 ELSE 0}
<1>1. n \in Nat
  BY FinishedFacts
<1>2. 0 \in S
  BY <1>1, SumToFacts
<1>3. ASSUME NEW k \in 1 .. n, k - 1 \in S
      PROVE  k \in S
  <2>1. /\ SumTo(c, k) = SumTo(c, k - 1) + c[Finished[k]]
        /\ SumTo(d, k) = SumTo(d, k - 1) + d[Finished[k]]
    BY <1>1, SumToFacts
  <2>2. d[Finished[k]] = c[Finished[k]] + IF k = i THEN 1 ELSE 0
    BY <1>1, FinishedFacts
  <2>3. c[Finished[k]] \in Nat /\ SumTo(c, k - 1) \in Nat
    BY <1>1, SumToType, FinishedFacts
  <2>4. SumTo(d, k - 1) = SumTo(c, k - 1) + IF i <= k - 1 THEN 1 ELSE 0
    BY <1>3
  <2>5. (IF i <= k - 1 THEN 1 ELSE 0) + (IF k = i THEN 1 ELSE 0) = IF i <= k THEN 1 ELSE 0
    BY <1>1
  <2>6. SumTo(d, k) = SumTo(c, k) + IF i <= k THEN 1 ELSE 0
    BY <2>1, <2>2, <2>3, <2>4, <2>5
  <2> QED BY <2>6
<1> HIDE DEF S, n
<1>4. \A k \in 1 .. n : k - 1 \in S => k \in S
  BY <1>3
<1>5. \A k \in 0 .. n : k \in S
  BY <1>1, <1>2, <1>4, UpTo
<1>6. n \in S
  BY <1>1, <1>5
<1>7. SumTo(d, n) = SumTo(c, n) + IF i <= n THEN 1 ELSE 0
  BY <1>6 DEF S
<1> QED
  BY <1>7 DEF n

-----------------------------------------------------------------------------
(***************************************************************************)
(* The clock and the division.                                             *)
(***************************************************************************)
LEMMA DivFacts ==
  ASSUME NEW t \in Nat, NEW n \in Nat \ {0}
  PROVE  /\ t \div n \in Nat
         /\ n * (t \div n) <= t
         /\ t < n * (t \div n) + n
OBVIOUS

LEMMA TimesMono ==
  ASSUME NEW a \in Int, NEW b \in Int, NEW n \in Nat \ {0}, a < b
  PROVE  n * a + n <= n * b
<1>1. a + 1 <= b
  OBVIOUS
<1>2. n * (a + 1) <= n * b
  BY <1>1
<1>3. n * (a + 1) = n * a + n
  OBVIOUS
<1> QED BY <1>2, <1>3

LEMMA DivMono ==
  ASSUME NEW s \in Nat, NEW t \in Nat, s <= t, NEW n \in Nat \ {0}
  PROVE  s \div n <= t \div n
<1> DEFINE a == s \div n
           b == t \div n
<1>1. a \in Nat /\ n * a <= s /\ b \in Nat /\ t < n * b + n
  BY DivFacts
<1> HIDE DEF a, b
<1>2. ~(b < a)
  <2> SUFFICES ASSUME b < a PROVE FALSE
    OBVIOUS
  <2>1. n * b + n <= n * a
    BY <1>1, TimesMono
  <2>2. n * a \in Int /\ n * b \in Int
    BY <1>1
  <2> QED BY <1>1, <2>1, <2>2
<1>3. a <= b
  BY <1>1, <1>2
<1> QED BY <1>3 DEF a, b

LEMMA DivLess ==
  ASSUME NEW t \in Nat, NEW n \in Nat \ {0}
  PROVE  t \div n <= t
<1> DEFINE a == t \div n
<1>1. a \in Nat /\ n * a <= t
  BY DivFacts
<1> HIDE DEF a
<1>2. a <= n * a
  BY <1>1
<1>3. a <= t
  BY <1>1, <1>2
<1> QED BY <1>3 DEF a

LEMMA TodayFacts ==
  ASSUME now \in 0 .. MaxTime
  PROVE  Today \in 1 .. LastDay /\ LastDay \in Nat
<1>1. now \div HoursInDay \in Nat /\ MaxTime \div HoursInDay \in Nat
  BY QuotaAssumption, DivFacts
<1>2. now \div HoursInDay <= MaxTime \div HoursInDay
  BY QuotaAssumption, DivMono
<1> QED BY <1>1, <1>2 DEF Today, LastDay

LEMMA HoursTillMidnightType ==
  ASSUME now \in 0 .. MaxTime
  PROVE  HoursTillMidnight \in Nat
<1>1. now % HoursInDay \in 0 .. HoursInDay - 1
  BY QuotaAssumption
<1> QED BY <1>1, QuotaAssumption DEF HoursTillMidnight

LEMMA QuotientFacts ==
  ASSUME NEW n \in Nat \ {0}
  PROVE  /\ \A x \in Int : Quotient(x, n) \in Int
         /\ \A x \in Int : Quotient(x, n) <= 0 \/ Quotient(x, n) <= x
         /\ \A x \in Int, y \in Int : x <= y => Quotient(x, n) <= Quotient(y, n)
<1>1. \A x \in Nat : x \div n \in Nat /\ x \div n <= x
  BY DivFacts, DivLess
<1>2. \A x \in Nat, y \in Nat : x <= y => x \div n <= y \div n
  BY DivMono
<1>3. ASSUME NEW x \in Int
      PROVE  /\ Quotient(x, n) \in Int
             /\ x < 0 => -x \in Nat /\ Quotient(x, n) = -((-x) \div n) /\ Quotient(x, n) <= 0
             /\ x >= 0 => Quotient(x, n) = x \div n /\ x \in Nat
  <2>1. CASE x < 0
    <3>1. -x \in Nat
      BY <2>1
    <3> DEFINE y == -x
    <3>2. y \div n \in Nat
      BY <1>1, <3>1
    <3>3. Quotient(x, n) = -(y \div n)
      BY <2>1 DEF Quotient
    <3> HIDE DEF y
    <3>4. -(y \div n) \in Int /\ -(y \div n) <= 0
      BY <3>2
    <3> QED BY <2>1, <3>1, <3>3, <3>4 DEF y
  <2>2. CASE x >= 0
    BY <1>1, <2>2 DEF Quotient
  <2> QED BY <2>1, <2>2
<1>4. ASSUME NEW x \in Int
      PROVE  Quotient(x, n) <= 0 \/ Quotient(x, n) <= x
  <2>1. CASE x >= 0
    BY <1>1, <1>3, <2>1
  <2>2. CASE x < 0
    BY <1>3, <2>2
  <2> QED BY <2>1, <2>2
<1>5. ASSUME NEW x \in Int, NEW y \in Int, x <= y
      PROVE  Quotient(x, n) <= Quotient(y, n)
  <2>1. CASE x < 0 /\ y < 0
    <3> DEFINE a == -x
               b == -y
    <3>1. a \in Nat /\ b \in Nat /\ b <= a
      BY <1>5, <2>1
    <3>2. Quotient(x, n) = -(a \div n) /\ Quotient(y, n) = -(b \div n)
      BY <1>3, <2>1
    <3> HIDE DEF a, b
    <3>3. b \div n <= a \div n /\ b \div n \in Nat /\ a \div n \in Nat
      BY <1>1, <1>2, <3>1
    <3> QED BY <3>2, <3>3
  <2>2. CASE x < 0 /\ y >= 0
    <3>1. Quotient(x, n) <= 0 /\ Quotient(y, n) \in Nat /\ Quotient(x, n) \in Int
      BY <1>1, <1>3, <2>2
    <3> QED BY <3>1
  <2>3. CASE x >= 0 /\ y >= 0
    BY <1>2, <1>3, <1>5, <2>3
  <2> QED BY <1>5, <2>1, <2>2, <2>3
<1> QED
  BY <1>3, <1>4, <1>5

LEMMA ShareFacts ==
  ASSUME now \in 0 .. MaxTime
  PROVE  /\ \A x \in Int : Share(x) \in Int
         /\ \A x \in Int : Share(x) <= 0 \/ Share(x) <= x
         /\ \A x \in Int, y \in Int : x <= y => Share(x) <= Share(y)
<1>1. CASE HoursTillMidnight = 0
  BY <1>1 DEF Share
<1>2. CASE HoursTillMidnight # 0
  <2>1. HoursTillMidnight \in Nat \ {0}
    BY <1>2, HoursTillMidnightType
  <2>2. \A x \in Int : Share(x) = Quotient(x, HoursTillMidnight)
    BY <1>2 DEF Share
  <2> QED BY <2>1, <2>2, QuotientFacts
<1> QED
  BY <1>1, <1>2

-----------------------------------------------------------------------------
(***************************************************************************)
(* What is left to read, and the least and the greatest.                   *)
(***************************************************************************)
LEMMA RestFacts ==
  /\ Rest(0) = Finished /\ Rest(Len(Finished)) = <<>>
  /\ \A i \in 0 .. Len(Finished) : Rest(i) \in Seq(Statuses) /\ Len(Rest(i)) = Len(Finished) - i
  /\ \A i \in 0 .. Len(Finished) - 1 :
       Rest(i) # <<>> /\ Head(Rest(i)) = Finished[i + 1] /\ Tail(Rest(i)) = Rest(i + 1)
<1>1. Finished \in Seq(Statuses) /\ Len(Finished) \in Nat
  <2>1. \A k \in 1 .. Len(Finished) : Finished[k] \in Statuses
    BY FinishedFacts
  <2> QED BY <2>1, QuotaAssumption, FinishedFacts
<1>2. ASSUME NEW i \in 0 .. Len(Finished)
      PROVE  Rest(i) \in Seq(Statuses) /\ Len(Rest(i)) = Len(Finished) - i
  BY <1>1 DEF Rest
<1>3. Rest(0) = Finished
  BY <1>1 DEF Rest
<1>4. Rest(Len(Finished)) = <<>>
  BY <1>1, <1>2
<1>5. ASSUME NEW i \in 0 .. Len(Finished) - 1
      PROVE  Rest(i) # <<>> /\ Head(Rest(i)) = Finished[i + 1] /\ Tail(Rest(i)) = Rest(i + 1)
  <2>1. Rest(i) # <<>> /\ Head(Rest(i)) = Finished[i + 1]
    <3>1. Len(Rest(i)) > 0 /\ Rest(i) \in Seq(Statuses)
      BY <1>1, <1>2
    <3>2. Rest(i)[1] = Finished[i + 1]
      BY <1>1 DEF Rest
    <3> QED BY <3>1, <3>2
  <2>2. Tail(Rest(i)) = Rest(i + 1)
    BY <1>1 DEF Rest
  <2> QED BY <2>1, <2>2
<1> QED
  BY <1>2, <1>3, <1>4, <1>5

LEMMA RestThenOne ==
  ASSUME NEW s
  PROVE  /\ Head(<<s>> \o Finished) = s /\ Tail(<<s>> \o Finished) = Finished
         /\ \A i \in 0 .. Len(Finished) - 1 :
              /\ Head(Rest(i) \o <<s>>) = Finished[i + 1]
              /\ Tail(Rest(i) \o <<s>>) = Rest(i + 1) \o <<s>>
         /\ Rest(Len(Finished)) \o <<s>> = <<s>>
<1>1. Finished \in Seq(ToSet(Finished)) /\ Len(Finished) \in Nat
  BY QuotaAssumption
<1>2. Head(<<s>> \o Finished) = s /\ Tail(<<s>> \o Finished) = Finished
  BY <1>1
<1>3. Rest(Len(Finished)) \o <<s>> = <<s>>
  BY RestFacts
<1>4. ASSUME NEW i \in 0 .. Len(Finished) - 1
      PROVE  /\ Head(Rest(i) \o <<s>>) = Finished[i + 1]
             /\ Tail(Rest(i) \o <<s>>) = Rest(i + 1) \o <<s>>
  <2> DEFINE r == Rest(i)
  <2>1. r \in Seq(Statuses) /\ Len(r) > 0 /\ Head(r) = Finished[i + 1] /\ Tail(r) = Rest(i + 1)
    BY <1>1, RestFacts
  <2> HIDE DEF r
  <2>2. Head(r \o <<s>>) = Head(r) /\ Tail(r \o <<s>>) = Tail(r) \o <<s>>
    BY <2>1
  <2> QED BY <2>1, <2>2 DEF r
<1> QED
  BY <1>2, <1>3, <1>4

LEMMA MinMax ==
  ASSUME NEW a \in Int, NEW b \in Int
  PROVE  /\ Min({a, b}) \in {a, b} /\ Min({a, b}) <= a /\ Min({a, b}) <= b
         /\ Max({a, b}) \in {a, b} /\ a <= Max({a, b}) /\ b <= Max({a, b})
<1>1. \E x \in {a, b} : \A y \in {a, b} : x =< y
  <2>1. CASE a <= b
    BY <2>1
  <2>2. CASE b <= a
    BY <2>2
  <2> QED BY <2>1, <2>2
<1>2. \E x \in {a, b} : \A y \in {a, b} : x >= y
  <2>1. CASE a <= b
    BY <2>1
  <2>2. CASE b <= a
    BY <2>2
  <2> QED BY <2>1, <2>2
<1> QED
  BY <1>1, <1>2 DEF Min, Max

LEMMA MaxOfDays ==
  ASSUME NEW S, S # {}, NEW n \in Nat, S \subseteq 1 .. n
  PROVE  Max(S) \in S /\ \A d \in S : d <= Max(S)
<1> DEFINE T == {m \in 0 .. n : n - m \in S}
<1>1. T \subseteq Nat /\ T # {}
  <2>1. PICK d \in S : TRUE
    OBVIOUS
  <2>2. n - d \in T
    BY <2>1
  <2>3. T \subseteq Nat
    OBVIOUS
  <2> HIDE DEF T
  <2> QED BY <2>2, <2>3
<1>2. PICK k \in T : \A j \in T : k <= j
  <2> HIDE DEF T
  <2> QED BY <1>1, LeastNat
<1>3. n - k \in S
  BY <1>2
<1>4. ASSUME NEW y \in S
      PROVE  y <= n - k
  <2>1. n - y \in T
    OBVIOUS
  <2> QED BY <1>2, <2>1
<1> QED
  BY <1>3, <1>4 DEF Max

-----------------------------------------------------------------------------
(***************************************************************************)
(* The invariant.                                                          *)
(***************************************************************************)
LEMMA CountsType ==
  ASSUME TypeOK
  PROVE  CountedToday \in [Statuses -> Nat] /\ Merged \in [Statuses -> Nat]
<1>1. ASSUME NEW s \in Statuses
      PROVE  CountedOn(s, Today) \in Nat /\ last[s].cnt \in Nat
  <2>1. last[s].cnt \in Nat
    BY DEF TypeOK
  <2>2. <<s, Today>> \in DOMAIN q => q[<<s, Today>>] \in Nat
    BY DEF TypeOK, IsCounts
  <2> QED BY <2>1, <2>2 DEF CountedOn
<1> QED
  BY <1>1 DEF CountedToday, Merged

LEMMA CountsKept ==
  ASSUME UNCHANGED <<q, last>>, Today' = Today
  PROVE  CountedToday' = CountedToday /\ Merged' = Merged
BY DEF CountedToday, CountedOn, Merged

LEMMA EnqueuedIsStatus == Enqueued \in Statuses
BY DEF Statuses

LEMMA InitIInv == Init => IInv
<1> SUFFICES ASSUME Init PROVE IInv
  OBVIOUS
<1>1. Today \in 1 .. LastDay /\ LastDay \in Nat
  BY QuotaAssumption, TodayFacts DEF Init
<1>2. last \in [Statuses -> [day : 0 .. LastDay, cnt : Nat]]
  BY <1>1 DEF Init, NoEntry
<1>3. TypeOK
  <2>1. IsCounts(q)
    BY DEF Init, IsCounts, NoCounts
  <2>2. {racing, stale, raced} \subseteq BOOLEAN
    BY DEF Init
  <2>3. finished \in Nat /\ {hourTarget, inProgress} \subseteq Int /\ reads \in Seq(Statuses)
    BY DEF Init
  <2>4. {pushing, flight, carried, pushed, counted, results, oldest, allowed} \subseteq Nat
    BY <1>1, QuotaAssumption DEF Init
  <2>5. now \in 0 .. MaxTime /\ pc \in {"sleep"}
    BY QuotaAssumption DEF Init
  <2> QED BY <1>2, <2>1, <2>2, <2>3, <2>4, <2>5 DEF TypeOK
<1>4. DaysInv
  BY <1>1 DEF DaysInv, Init, NoCounts, NoEntry
<1>5. CountedToday \in [Statuses -> Nat]
  BY <1>3, CountsType
<1>6. \A k \in 1 .. Len(Finished) : CountedToday[Finished[k]] = 0
  BY <1>1, FinishedFacts DEF Init, CountedToday, CountedOn, NoCounts, NoEntry
<1>7. SumTo(CountedToday, Len(Finished)) = 0
  BY <1>6, SumToZero
<1>8. CountInv
  BY <1>5, <1>7, QuotaAssumption, EnqueuedIsStatus DEF CountInv, Init
<1>9. RoundInv
  BY DEF RoundInv, Init
<1> QED
  BY <1>3, <1>4, <1>8, <1>9 DEF IInv

LEMMA StartRoundIInv == IInv /\ StartRound => IInv'
<1> SUFFICES ASSUME IInv, StartRound PROVE IInv'
  OBVIOUS
<1> USE DEF IInv, StartRound
<1>1. TypeOK'
  <2>1. Finished \in Seq(Statuses)
    BY RestFacts, FinishedFacts
  <2>2. racing' \in BOOLEAN
    BY DEF Unmerged
  <2> QED BY <2>1, <2>2 DEF TypeOK, countVars, historyVars
<1>2. Today' = Today /\ CountedToday' = CountedToday /\ Merged' = Merged
  <2>1. Today' = Today
    BY DEF Today
  <2> QED BY <2>1, CountsKept DEF countVars
<1>3. DaysInv'
  BY <1>2 DEF DaysInv, countVars
<1>4. CountInv'
  BY <1>2 DEF CountInv, countVars, historyVars
<1>5. TargetInv'
  <2>1. reads' = Rest(0) /\ finished' = 0 /\ inProgress' = 0
    BY RestFacts DEF RoundInv
  <2>2. SumTo(Merged', 0) = 0
    BY SumToFacts
  <2>3. 0 \in 0 .. Len(Finished)
    BY FinishedFacts
  <2> QED BY <2>1, <2>2, <2>3 DEF TargetInv
<1>6. RoundInv'
  BY <1>5 DEF RoundInv, Unmerged, countVars
<1> QED
  BY <1>1, <1>3, <1>4, <1>6

LEMMA GetTodayEventsIInv == IInv /\ GetTodayEvents => IInv'
<1> SUFFICES ASSUME IInv, GetTodayEvents PROVE IInv'
  OBVIOUS
<1> DEFINE s == Head(reads)
           cnt == last[s].cnt
<1>1. /\ reads # <<>> /\ reads' = Tail(reads) /\ pc' = pc
      /\ pc \in {"target", "progress"}
  BY DEF GetTodayEvents, IInv, RoundInv, TypeOK
<1>2. s \in Statuses /\ cnt \in Nat /\ last[s].day \in Nat
  <2>1. s \in Statuses
    BY <1>1 DEF IInv, TypeOK
  <2> QED BY <2>1 DEF IInv, TypeOK
<1>3. /\ finished' = IF pc = "target" THEN finished + cnt ELSE finished
      /\ inProgress' = IF pc = "target" THEN inProgress
                       ELSE IF s = Enqueued THEN inProgress + cnt ELSE inProgress - cnt
      /\ oldest' = IF pc = "target" /\ cnt > 0 THEN Min({oldest, last[s].day}) ELSE oldest
  BY DEF GetTodayEvents
<1>4. oldest \in Nat /\ finished \in Nat /\ inProgress \in Int
  BY DEF IInv, TypeOK
<1> HIDE DEF s, cnt
<1>5. oldest' \in Nat /\ oldest' <= oldest /\ (pc = "target" /\ cnt > 0 => oldest' <= last[s].day)
  <2> DEFINE d == last[s].day
  <2>1. d \in Int /\ oldest \in Int /\ d \in Nat
    BY <1>2, <1>4
  <2>2. oldest' = IF pc = "target" /\ cnt > 0 THEN Min({oldest, d}) ELSE oldest
    BY <1>3
  <2> HIDE DEF d
  <2>3. Min({oldest, d}) \in {oldest, d} /\ Min({oldest, d}) <= oldest /\ Min({oldest, d}) <= d
    BY <2>1, MinMax
  <2>4. oldest' \in Nat /\ oldest' <= oldest /\ (pc = "target" /\ cnt > 0 => oldest' <= d)
    BY <1>4, <2>1, <2>2, <2>3
  <2> QED BY <2>4 DEF d
<1>6. TypeOK'
  <2>1. reads' \in Seq(Statuses)
    BY <1>1 DEF IInv, TypeOK
  <2>2. finished' \in Nat /\ inProgress' \in Int
    BY <1>2, <1>3, <1>4
  <2> QED BY <1>1, <1>5, <2>1, <2>2 DEF IInv, TypeOK, GetTodayEvents, countVars, historyVars
<1>7. CountedToday' = CountedToday /\ Merged' = Merged /\ Today' = Today
  <2>1. Today' = Today
    BY DEF GetTodayEvents, Today
  <2> QED BY <2>1, CountsKept DEF GetTodayEvents, countVars
<1>8. DaysInv'
  BY <1>7 DEF IInv, DaysInv, GetTodayEvents, countVars
<1>9. CountInv'
  BY <1>1, <1>7 DEF IInv, CountInv, GetTodayEvents, countVars, historyVars
<1>10. Len(Finished) \in Nat /\ Merged \in [Statuses -> Nat]
  BY FinishedFacts, CountsType DEF IInv
<1>11. ASSUME NEW i \in 0 .. Len(Finished) - 1, s = Finished[i + 1]
       PROVE  /\ i + 1 \in 0 .. Len(Finished) /\ s # Enqueued
              /\ SumTo(Merged, i) \in Nat
              /\ SumTo(Merged, i + 1) = SumTo(Merged, i) + cnt
  <2>1. Merged[s] = cnt
    BY <1>2 DEF Merged, cnt
  <2>2. SumTo(Merged, i + 1) = SumTo(Merged, (i + 1) - 1) + Merged[s]
    BY <1>10, <1>11, SumToFacts
  <2>3. (i + 1) - 1 = i
    OBVIOUS
  <2> QED BY <1>10, <1>11, <2>1, <2>2, <2>3, SumToType, FinishedFacts
<1>12. ASSUME pc = "target" PROVE RoundInv'
  <2>1. PICK i \in 0 .. Len(Finished) :
          /\ reads = Rest(i)
          /\ ~racing => /\ finished = SumTo(Merged, i)
                        /\ \A j \in 1 .. i :
                             last[Finished[j]].cnt > 0 => oldest <= last[Finished[j]].day
          /\ inProgress = 0
    BY <1>12 DEF IInv, RoundInv, TargetInv
  <2>2. i \in 0 .. Len(Finished) - 1 /\ s = Finished[i + 1] /\ reads' = Rest(i + 1)
    <3>1. i # Len(Finished)
      BY <1>1, <2>1, RestFacts
    <3>2. i \in 0 .. Len(Finished) - 1
      BY <1>10, <2>1, <3>1
    <3> QED BY <1>1, <2>1, <3>2, RestFacts DEF s
  <2>3. i + 1 \in 0 .. Len(Finished) /\ SumTo(Merged, i + 1) = SumTo(Merged, i) + cnt
    BY <1>11, <2>2
  <2>4. racing' = racing /\ last' = last /\ inProgress' = 0
    BY <1>3, <1>12, <2>1 DEF GetTodayEvents, countVars
  <2>5. ~racing => finished' = SumTo(Merged, i + 1)
    BY <1>3, <1>12, <2>1, <2>3
  <2>6. ASSUME ~racing, NEW j \in 1 .. i + 1, last[Finished[j]].cnt > 0
        PROVE  oldest' <= last[Finished[j]].day
    <3>1. CASE j = i + 1
      BY <1>5, <1>12, <2>2, <2>6, <3>1 DEF cnt
    <3>2. CASE j # i + 1
      <4>1. j \in 1 .. i
        BY <3>2
      <4>2. oldest <= last[Finished[j]].day
        BY <2>1, <2>6, <4>1
      <4>3. Finished[j] \in Statuses
        BY <1>10, <2>2, <4>1, FinishedFacts
      <4>4. last[Finished[j]].day \in Nat
        BY <4>3 DEF IInv, TypeOK
      <4> QED BY <1>4, <1>5, <4>2, <4>4
    <3> QED BY <3>1, <3>2
  <2>7. TargetInv'
    BY <1>7, <2>2, <2>3, <2>4, <2>5, <2>6 DEF TargetInv
  <2> QED BY <1>1, <1>12, <2>4, <2>7 DEF IInv, RoundInv, Unmerged, GetTodayEvents, countVars
<1>13. ASSUME pc = "progress" PROVE RoundInv'
  <2>1. /\ racing' = racing /\ last' = last /\ finished' = finished
        /\ UNCHANGED <<hourTarget, flight, allowed, stale>>
    BY <1>3, <1>13 DEF GetTodayEvents, countVars
  <2>2. inProgress' = IF s = Enqueued THEN inProgress + cnt ELSE inProgress - cnt
    BY <1>3, <1>13
  <2>3. ProgressInv
    BY <1>13 DEF IInv, RoundInv
  <2>4. ASSUME reads = <<Enqueued>> \o Finished, inProgress = 0
        PROVE  ProgressInv'
    <3>1. s = Enqueued /\ reads' = Rest(0)
      BY <1>1, <2>4, RestThenOne, RestFacts DEF s
    <3>2. inProgress' = last'[Enqueued].cnt - SumTo(Merged', 0)
      BY <1>2, <1>7, <2>1, <2>2, <2>4, <3>1, SumToFacts DEF cnt
    <3>3. 0 \in 0 .. Len(Finished)
      BY <1>10
    <3> QED BY <1>7, <2>1, <2>3, <3>1, <3>2, <3>3 DEF ProgressInv
  <2>5. ASSUME NEW i \in 0 .. Len(Finished), reads = Rest(i),
               ~racing => inProgress = last[Enqueued].cnt - SumTo(Merged, i)
        PROVE  ProgressInv'
    <3>1. i \in 0 .. Len(Finished) - 1 /\ s = Finished[i + 1] /\ reads' = Rest(i + 1)
      <4>1. i # Len(Finished)
        BY <1>1, <2>5, RestFacts
      <4>2. i \in 0 .. Len(Finished) - 1
        BY <1>10, <4>1
      <4> QED BY <1>1, <2>5, <4>2, RestFacts DEF s
    <3>2. /\ i + 1 \in 0 .. Len(Finished) /\ s # Enqueued /\ SumTo(Merged, i) \in Nat
          /\ SumTo(Merged, i + 1) = SumTo(Merged, i) + cnt
      BY <1>11, <3>1
    <3>3. last[Enqueued].cnt \in Nat
      BY EnqueuedIsStatus DEF IInv, TypeOK
    <3>4. ~racing' => inProgress' = last'[Enqueued].cnt - SumTo(Merged', i + 1)
      BY <1>2, <1>4, <1>7, <2>1, <2>2, <2>5, <3>2, <3>3
    <3> QED BY <1>7, <2>1, <2>3, <3>1, <3>2, <3>4 DEF ProgressInv
  <2>6. ASSUME NEW i \in 0 .. Len(Finished), reads = Rest(i) \o <<Enqueued>>,
               ~racing => inProgress = 0 - SumTo(Merged, i)
        PROVE  ProgressInv'
    <3>1. CASE i = Len(Finished)
      <4>1. s = Enqueued /\ reads' = Rest(i)
        <5>1. reads = <<Enqueued>>
          BY <2>6, <3>1, RestThenOne
        <5>2. Head(<<Enqueued>>) = Enqueued /\ Tail(<<Enqueued>>) = <<>>
          OBVIOUS
        <5> QED BY <1>1, <3>1, <5>1, <5>2, RestFacts DEF s
      <4>2. SumTo(Merged, i) \in Nat
        BY <1>10, SumToType
      <4>3. ~racing' => inProgress' = last'[Enqueued].cnt - SumTo(Merged', i)
        BY <1>2, <1>4, <1>7, <2>1, <2>2, <2>6, <4>1, <4>2 DEF cnt
      <4> QED BY <1>7, <2>1, <2>3, <4>1, <4>3 DEF ProgressInv
    <3>2. CASE i # Len(Finished)
      <4>1. i \in 0 .. Len(Finished) - 1
        BY <1>10, <3>2
      <4>2. s = Finished[i + 1] /\ reads' = Rest(i + 1) \o <<Enqueued>>
        BY <1>1, <2>6, <4>1, RestThenOne DEF s
      <4>3. /\ i + 1 \in 0 .. Len(Finished) /\ s # Enqueued /\ SumTo(Merged, i) \in Nat
            /\ SumTo(Merged, i + 1) = SumTo(Merged, i) + cnt
        BY <1>11, <4>1, <4>2
      <4>4. ~racing' => inProgress' = 0 - SumTo(Merged', i + 1)
        BY <1>2, <1>4, <1>7, <2>1, <2>2, <2>6, <4>3
      <4> QED BY <1>7, <2>1, <2>3, <4>2, <4>3, <4>4 DEF ProgressInv
    <3> QED BY <3>1, <3>2
  <2>7. ProgressInv'
    BY <2>3, <2>4, <2>5, <2>6 DEF ProgressInv
  <2> QED BY <1>1, <1>13, <2>1, <2>7 DEF IInv, RoundInv, Unmerged, GetTodayEvents, countVars
<1> QED
  BY <1>1, <1>6, <1>8, <1>9, <1>12, <1>13 DEF IInv

\* When nothing is left to read, all was read.
LEMMA RestEmpty ==
  ASSUME NEW i \in 0 .. Len(Finished)
  PROVE  /\ Rest(i) = <<>> => i = Len(Finished)
         /\ \A s : Rest(i) \o <<s>> # <<>>
         /\ \A s : <<s>> \o Finished # <<>>
<1>1. Len(Finished) \in Nat /\ Finished \in Seq(ToSet(Finished))
  BY QuotaAssumption
<1>2. Rest(i) \in Seq(Statuses) /\ Len(Rest(i)) = Len(Finished) - i
  BY RestFacts
<1>3. Rest(i) = <<>> => i = Len(Finished)
  BY <1>1, <1>2
<1>4. ASSUME NEW s
      PROVE  Rest(i) \o <<s>> # <<>> /\ <<s>> \o Finished # <<>>
  <2> DEFINE r == Rest(i)
  <2>1. r \in Seq(Statuses)
    BY <1>2
  <2> HIDE DEF r
  <2>2. Len(r \o <<s>>) = Len(r) + 1 /\ Len(r) \in Nat
    BY <2>1
  <2>3. r \o <<s>> # <<>>
    BY <2>2
  <2>4. Len(<<s>> \o Finished) = 1 + Len(Finished)
    BY <1>1
  <2>5. <<s>> \o Finished # <<>>
    BY <1>1, <2>4
  <2> QED BY <2>3, <2>5 DEF r
<1> QED
  BY <1>3, <1>4

\* With no push unmerged, all the pushes of today are among those the loop reads.
LEMMA PushesRead ==
  ASSUME IInv, ~Unmerged(Enqueued), pc # "save"
  PROVE  pushed <= last[Enqueued].cnt /\ last[Enqueued].cnt \in Nat
<1>1. last[Enqueued].cnt \in Nat
  BY EnqueuedIsStatus DEF IInv, TypeOK
<1>2. <<Enqueued, Today>> \notin DOMAIN q
  BY DEF Unmerged
<1>3. CountedToday[Enqueued] = 0 + IF last[Enqueued].day = Today THEN last[Enqueued].cnt ELSE 0
  BY <1>2, EnqueuedIsStatus DEF CountedToday, CountedOn
<1>4. pushed <= CountedToday[Enqueued] + pushing /\ pushing = 0 /\ pushed \in Nat
  BY DEF IInv, CountInv, TypeOK
<1> QED
  BY <1>1, <1>3, <1>4

LEMMA CalcHourTargetIInv == IInv /\ CalcHourTarget => IInv'
<1> SUFFICES ASSUME IInv, CalcHourTarget PROVE IInv'
  OBVIOUS
<1>1. /\ pc = "target" /\ reads = <<>> /\ pc' = "progress"
      /\ hourTarget' = Share(TargetDayCrawl - finished)
      /\ reads' \in {<<Enqueued>> \o Finished, Finished \o <<Enqueued>>}
      /\ stale' = (oldest < Today) /\ allowed' = carried + Share(TargetDayCrawl)
      /\ oldest' = LastDay
      /\ UNCHANGED <<now, q, last, finished, inProgress, pushing, flight, racing, carried,
                     pushed, counted, raced, results>>
  BY DEF CalcHourTarget, countVars, historyVars
<1>2. /\ now \in 0 .. MaxTime /\ {finished, carried, flight, pushed, oldest} \subseteq Nat
      /\ TargetDayCrawl \in Nat
  BY QuotaAssumption DEF IInv, TypeOK
<1>3. /\ hourTarget' \in Int /\ Share(TargetDayCrawl) \in Nat
      /\ hourTarget' <= 0 \/ hourTarget' + finished <= TargetDayCrawl
      /\ hourTarget' <= Share(TargetDayCrawl)
  <2> DEFINE x == TargetDayCrawl - finished
             y == TargetDayCrawl
  <2>1. x \in Int /\ y \in Int /\ x <= y /\ 0 \in Int /\ 0 <= y
    BY <1>2
  <2>2. Share(0) = 0
    <3>1. HoursTillMidnight # 0 => 0 \div HoursTillMidnight = 0
      BY <1>2, HoursTillMidnightType
    <3> QED BY <3>1 DEF Share, Quotient
  <2>3. /\ Share(x) \in Int /\ Share(y) \in Int /\ Share(0) <= Share(y)
        /\ Share(x) <= 0 \/ Share(x) <= x
        /\ Share(x) <= Share(y)
    BY <1>2, <2>1, ShareFacts
  <2>4. hourTarget' = Share(x)
    BY <1>1
  <2>5. Share(x) <= x => Share(x) + finished <= y
    BY <1>2, <2>3
  <2> HIDE DEF x
  <2> QED BY <1>2, <2>2, <2>3, <2>4, <2>5
<1>4. TypeOK'
  <2>1. Finished \in Seq(Statuses)
    BY RestFacts, FinishedFacts
  <2>2. reads' \in Seq(Statuses)
    <3>1. <<Enqueued>> \in Seq(Statuses)
      BY EnqueuedIsStatus
    <3>2. <<Enqueued>> \o Finished \in Seq(Statuses) /\ Finished \o <<Enqueued>> \in Seq(Statuses)
      BY <2>1, <3>1
    <3> QED BY <1>1, <3>2
  <2>3. allowed' \in Nat /\ oldest' \in Nat
    BY <1>1, <1>2, <1>3, TodayFacts
  <2>4. stale' \in BOOLEAN
    BY <1>1
  <2> QED BY <1>1, <1>3, <2>2, <2>3, <2>4 DEF IInv, TypeOK
<1>5. Today' = Today /\ CountedToday' = CountedToday /\ Merged' = Merged
  <2>1. Today' = Today
    BY <1>1 DEF Today
  <2> QED BY <1>1, <2>1, CountsKept
<1>6. DaysInv'
  BY <1>1, <1>5 DEF IInv, DaysInv
<1>7. CountInv'
  BY <1>1, <1>5 DEF IInv, CountInv
<1>8. /\ inProgress = 0
      /\ ~racing => /\ finished = SumTo(Merged, Len(Finished))
                    /\ \A j \in 1 .. Len(Finished) :
                         last[Finished[j]].cnt > 0 => oldest <= last[Finished[j]].day
  <2>1. PICK i \in 0 .. Len(Finished) :
          /\ reads = Rest(i)
          /\ ~racing => /\ finished = SumTo(Merged, i)
                        /\ \A j \in 1 .. i :
                             last[Finished[j]].cnt > 0 => oldest <= last[Finished[j]].day
          /\ inProgress = 0
    BY <1>1 DEF IInv, RoundInv, TargetInv
  <2>2. i = Len(Finished)
    BY <1>1, <2>1, RestEmpty
  <2> QED BY <2>1, <2>2
<1>9. ASSUME ~racing, ~stale'
      PROVE  flight + hourTarget' + finished <= allowed' + last[Enqueued].cnt
  <2>1. Today \in Nat /\ ~(oldest < Today)
    <3>1. Today \in Nat
      BY <1>2, TodayFacts
    <3>2. ~(oldest < Today)
      BY <1>1, <1>9
    <3> QED BY <3>1, <3>2
  <2>2. ASSUME NEW k \in 1 .. Len(Finished)
        PROVE  Merged[Finished[k]] <= CountedToday[Finished[k]]
    <3> DEFINE s == Finished[k]
               e == last[s]
    <3>1. s \in Statuses
      BY FinishedFacts
    <3>2. e.cnt \in Nat /\ e.day \in Nat /\ e.day <= Today
      BY <3>1 DEF IInv, TypeOK, DaysInv
    <3>3. Merged[s] = e.cnt
      BY <3>1 DEF Merged
    <3>4. CountedToday[s] = (IF <<s, Today>> \in DOMAIN q THEN q[<<s, Today>>] ELSE 0)
                            + IF e.day = Today THEN e.cnt ELSE 0
      BY <3>1 DEF CountedToday, CountedOn
    <3>5. (IF <<s, Today>> \in DOMAIN q THEN q[<<s, Today>>] ELSE 0) \in Nat
      BY DEF IInv, TypeOK, IsCounts
    <3>6. e.cnt > 0 => oldest <= e.day
      BY <1>8, <1>9
    <3> HIDE DEF s, e
    <3>7. e.cnt > 0 => e.day = Today
      BY <1>2, <2>1, <3>2, <3>6
    <3>8. Merged[s] <= CountedToday[s]
      BY <3>2, <3>3, <3>4, <3>5, <3>7
    <3> QED BY <3>8 DEF s
  <2>3. finished <= SumTo(CountedToday, Len(Finished))
    BY <1>8, <1>9, <2>2, SumToMono, CountsType DEF IInv
  <2>4. SumTo(CountedToday, Len(Finished)) \in Nat
    BY SumToType, CountsType, FinishedFacts DEF IInv
  <2>5. flight + SumTo(CountedToday, Len(Finished)) = carried + pushed
    BY DEF IInv, CountInv
  <2>6. ~Unmerged(Enqueued)
    BY <1>1, <1>9 DEF IInv, RoundInv
  <2>7. pushed <= last[Enqueued].cnt /\ last[Enqueued].cnt \in Nat
    BY <1>1, <2>6, PushesRead
  <2> DEFINE e == last[Enqueued].cnt
             sum == SumTo(CountedToday, Len(Finished))
             share == Share(TargetDayCrawl)
             target == hourTarget'
  <2>8. /\ finished <= sum /\ sum \in Nat /\ flight + sum = carried + pushed
        /\ pushed <= e /\ e \in Nat /\ target <= share /\ target \in Int /\ share \in Nat
    BY <1>3, <2>3, <2>4, <2>5, <2>7
  <2> HIDE DEF e, sum, share, target
  <2>9. flight + target + finished <= (carried + share) + e
    BY <1>2, <2>8
  <2> QED BY <1>1, <2>9 DEF e, share, target
<1>10. \/ reads' = <<Enqueued>> \o Finished /\ inProgress' = 0
       \/ reads' = Rest(0) \o <<Enqueued>> /\ inProgress' = 0 - SumTo(Merged', 0)
  <2>1. Rest(0) = Finished /\ SumTo(Merged', 0) = 0
    BY RestFacts, SumToFacts
  <2> QED BY <1>1, <1>8, <2>1
<1>11. 0 \in 0 .. Len(Finished)
  BY FinishedFacts
<1>12. ProgressInv'
  BY <1>1, <1>3, <1>5, <1>8, <1>9, <1>10, <1>11 DEF ProgressInv
<1>13. RoundInv'
  BY <1>1, <1>12 DEF IInv, RoundInv, Unmerged
<1> QED
  BY <1>4, <1>6, <1>7, <1>13 DEF IInv

\* What a push puts into the global fetch queue.
PushSize == Min({ToEnqueueNow, MaxPush - pushed})

LEMMA PushFacts ==
  ASSUME IInv, pc = "progress", reads = <<>>
  PROVE  /\ PushSize \in Nat /\ pushed + PushSize <= MaxPush
         /\ PushSize > 0 => PushSize <= hourTarget - inProgress
         /\ ~racing => inProgress = last[Enqueued].cnt - finished
         /\ hourTarget <= 0 \/ hourTarget + finished <= TargetDayCrawl
         /\ ~racing /\ ~stale => flight + hourTarget + finished <= allowed + last[Enqueued].cnt
<1>1. /\ hourTarget \in Int /\ inProgress \in Int /\ pushed \in Nat /\ MaxPush \in Nat
      /\ pushed <= MaxPush
  BY QuotaAssumption DEF IInv, TypeOK, CountInv
<1>2. ToEnqueueNow \in Nat /\ (ToEnqueueNow > 0 => ToEnqueueNow = hourTarget - inProgress)
  BY <1>1 DEF ToEnqueueNow
<1>3. /\ PushSize \in Nat /\ pushed + PushSize <= MaxPush
      /\ PushSize > 0 => PushSize <= hourTarget - inProgress
  <2> DEFINE a == ToEnqueueNow
             b == MaxPush - pushed
  <2>1. a \in Nat /\ b \in Nat /\ (a > 0 => a = hourTarget - inProgress) /\ pushed + b = MaxPush
    BY <1>1, <1>2
  <2>2. PushSize = Min({a, b})
    BY DEF PushSize
  <2> HIDE DEF a, b
  <2>3. a \in Int /\ b \in Int
    BY <2>1
  <2>4. PushSize \in {a, b} /\ PushSize <= a /\ PushSize <= b
    BY <2>2, <2>3, MinMax
  <2> QED BY <1>1, <2>1, <2>4
<1>4. ProgressInv
  BY DEF IInv, RoundInv
<1>5. ~racing => inProgress = last[Enqueued].cnt - SumTo(Merged, Len(Finished))
  <2>1. reads # <<Enqueued>> \o Finished
    BY FinishedFacts, RestEmpty
  <2>2. \A i \in 0 .. Len(Finished) : reads # Rest(i) \o <<Enqueued>>
    BY RestEmpty
  <2>3. PICK i \in 0 .. Len(Finished) :
          /\ reads = Rest(i)
          /\ ~racing => inProgress = last[Enqueued].cnt - SumTo(Merged, i)
    BY <1>4, <2>1, <2>2 DEF ProgressInv
  <2>4. i = Len(Finished)
    BY <2>3, RestEmpty
  <2> QED BY <2>3, <2>4
<1>6. ~racing => finished = SumTo(Merged, Len(Finished))
  BY <1>4 DEF ProgressInv
<1> QED
  BY <1>3, <1>4, <1>5, <1>6 DEF ProgressInv

LEMMA PushStep ==
  ASSUME PushToKafka
  PROVE  /\ pc = "progress" /\ reads = <<>> /\ pc' = "save" /\ reads' = <<>>
         /\ pushing' = PushSize /\ flight' = flight + PushSize /\ pushed' = pushed + PushSize
         /\ counted' = Max({counted, finished}) /\ raced' = (raced \/ racing)
         /\ finished' = 0 /\ hourTarget' = 0 /\ inProgress' = 0
         /\ racing' = FALSE /\ oldest' = LastDay /\ stale' = FALSE /\ allowed' = 0
         /\ UNCHANGED <<now, q, last, carried, results>>
BY DEF PushToKafka, PushSize, countVars

LEMMA PushCounted ==
  ASSUME PushToKafka, counted \in Nat, finished \in Nat
  PROVE  counted' \in {counted, finished} /\ counted <= counted' /\ finished <= counted'
<1>1. counted \in Int /\ finished \in Int
  OBVIOUS
<1>2. counted' = Max({counted, finished})
  BY PushStep
<1>3. /\ Max({counted, finished}) \in {counted, finished}
      /\ counted <= Max({counted, finished}) /\ finished <= Max({counted, finished})
  BY <1>1, MinMax
<1> QED
  BY <1>2, <1>3

LEMMA PushToKafkaIInv == IInv /\ PushToKafka => IInv'
<1> SUFFICES ASSUME IInv, PushToKafka PROVE IInv'
  OBVIOUS
<1>1. PushSize \in Nat /\ pushed + PushSize <= MaxPush
  BY PushStep, PushFacts
<1>2. /\ flight \in Nat /\ pushed \in Nat /\ counted \in Nat /\ finished \in Nat
      /\ carried \in Nat /\ now \in 0 .. MaxTime
  BY DEF IInv, TypeOK
<1>3. counted' \in Nat /\ counted <= counted'
  BY <1>2, PushCounted
<1>4. TypeOK'
  <2>1. {raced', racing', stale'} \subseteq BOOLEAN
    BY PushStep DEF IInv, TypeOK
  <2>2. {pushing', flight', pushed', counted', oldest', allowed'} \subseteq Nat
    BY <1>1, <1>2, <1>3, PushStep, TodayFacts
  <2>3. reads' \in Seq(Statuses) /\ finished' \in Nat /\ {hourTarget', inProgress'} \subseteq Int
    BY PushStep
  <2> QED BY <2>1, <2>2, <2>3, PushStep DEF IInv, TypeOK, IsCounts
<1>5. Today' = Today /\ CountedToday' = CountedToday
  <2>1. Today' = Today
    BY PushStep DEF Today
  <2> QED BY <2>1, PushStep, CountsKept
<1>6. DaysInv'
  BY <1>5, PushStep DEF IInv, DaysInv
<1>7. CountInv'
  <2> DEFINE e == CountedToday[Enqueued]
             sum == SumTo(CountedToday, Len(Finished))
  <2>1. e \in Nat /\ sum \in Nat
    BY SumToType, CountsType, FinishedFacts, EnqueuedIsStatus DEF IInv
  <2>2. /\ pushed <= e + pushing /\ pushing = 0 /\ flight + sum = carried + pushed
        /\ counted >= TargetDayCrawl /\ TargetDayCrawl \in Nat
    BY PushStep, QuotaAssumption DEF IInv, CountInv
  <2>3. CountedToday'[Enqueued] = e /\ SumTo(CountedToday', Len(Finished)) = sum
    BY <1>5
  <2> HIDE DEF e, sum
  <2>4. /\ pushed' <= e + pushing' /\ flight' + sum = carried' + pushed'
        /\ counted' >= TargetDayCrawl /\ pushed' <= MaxPush
    BY <1>1, <1>2, <1>3, <2>1, <2>2, PushStep, QuotaAssumption
  <2> QED BY <2>3, <2>4, PushStep DEF CountInv
<1>8. RoundInv'
  BY PushStep DEF RoundInv
<1> QED
  BY <1>4, <1>6, <1>7, <1>8 DEF IInv

LEMMA AddCountFacts ==
  ASSUME IInv, NEW s \in Statuses, NEW n \in Nat,
         q' = AddCount(q, <<s, Today>>, n), UNCHANGED <<now, last>>
  PROVE  /\ IsCounts(q)' /\ DaysInv' /\ Today' = Today
         /\ \A t \in Statuses : CountedToday'[t] = CountedToday[t] + IF t = s THEN n ELSE 0
         /\ CountedToday' \in [Statuses -> Nat]
         /\ \A t : t # s /\ ~Unmerged(t) => ~Unmerged(t)'
<1>1. Today' = Today /\ Today \in 1 .. LastDay
  BY TodayFacts DEF Today, IInv, TypeOK
<1>2. /\ DOMAIN q' = DOMAIN q \cup {<<s, Today>>}
      /\ \A k \in DOMAIN q' : q'[k] = (IF k \in DOMAIN q THEN q[k] ELSE 0)
                                      + IF k = <<s, Today>> THEN n ELSE 0
  BY DEF AddCount
<1>3. \A k \in DOMAIN q : k \in Statuses \X (1 .. LastDay) /\ q[k] \in Nat
  BY DEF IInv, TypeOK, IsCounts
<1>4. IsCounts(q)'
  <2>1. ASSUME NEW k \in DOMAIN q'
        PROVE  k \in Statuses \X (1 .. LastDay) /\ q'[k] \in Nat
    <3>1. k \in Statuses \X (1 .. LastDay)
      BY <1>1, <1>2, <1>3
    <3>2. q'[k] \in Nat
      BY <1>2, <1>3
    <3> QED BY <3>1, <3>2
  <2> QED BY <2>1 DEF IsCounts
<1>5. DaysInv'
  BY <1>1, <1>2 DEF IInv, DaysInv
<1>6. ASSUME NEW t \in Statuses
      PROVE  CountedToday'[t] = CountedToday[t] + IF t = s THEN n ELSE 0
  <2> DEFINE old == IF <<t, Today>> \in DOMAIN q THEN q[<<t, Today>>] ELSE 0
             new == IF <<t, Today>> \in DOMAIN q' THEN q'[<<t, Today>>] ELSE 0
             merged == IF last[t].day = Today THEN last[t].cnt ELSE 0
             more == IF t = s THEN n ELSE 0
  <2>1. CountedToday[t] = old + merged /\ CountedToday'[t] = new + merged
    BY <1>1 DEF CountedToday, CountedOn
  <2>2. old \in Nat /\ merged \in Nat /\ more \in Nat
    <3>1. old \in Nat /\ more \in Nat
      BY <1>3
    <3>2. merged \in Nat
      BY DEF IInv, TypeOK
    <3> QED BY <3>1, <3>2
  <2>3. new = old + more
    <3>1. CASE t = s
      BY <1>2, <3>1
    <3>2. CASE t # s
      <4>1. <<t, Today>> # <<s, Today>>
        BY <3>2
      <4>2. <<t, Today>> \in DOMAIN q' <=> <<t, Today>> \in DOMAIN q
        BY <1>2, <4>1
      <4> QED BY <1>2, <1>3, <3>2, <4>1, <4>2
    <3> QED BY <3>1, <3>2
  <2> HIDE DEF old, new, merged, more
  <2>4. new + merged = (old + merged) + more
    BY <2>2, <2>3
  <2> QED BY <2>1, <2>4 DEF more
<1>7. CountedToday' \in [Statuses -> Nat]
  <2>1. CountedToday \in [Statuses -> Nat]
    BY CountsType DEF IInv
  <2>2. \A t \in Statuses : CountedToday'[t] \in Nat
    BY <1>6, <2>1
  <2> QED BY <2>2 DEF CountedToday
<1>8. ASSUME NEW t, t # s, ~Unmerged(t)
      PROVE  ~Unmerged(t)'
  BY <1>2, <1>8 DEF Unmerged
<1> QED
  BY <1>1, <1>4, <1>5, <1>6, <1>7, <1>8

LEMMA SaveEnqueuedIInv == IInv /\ SaveEnqueued => IInv'
<1> SUFFICES ASSUME IInv, SaveEnqueued PROVE IInv'
  OBVIOUS
<1>1. /\ pc = "save" /\ q' = AddCount(q, <<Enqueued, Today>>, pushing)
      /\ pc' = "sleep" /\ pushing' = 0
      /\ UNCHANGED <<now, last, reads, finished, hourTarget, inProgress, flight, racing, oldest,
                     stale, allowed, carried, pushed, counted, raced, results>>
  BY DEF SaveEnqueued, roundVars, historyVars
<1>2. pushing \in Nat /\ Enqueued \in Statuses
  BY EnqueuedIsStatus DEF IInv, TypeOK
<1>3. /\ IsCounts(q)' /\ DaysInv'
      /\ \A t \in Statuses : CountedToday'[t] = CountedToday[t] + IF t = Enqueued THEN pushing ELSE 0
      /\ CountedToday' \in [Statuses -> Nat]
  BY <1>1, <1>2, AddCountFacts
<1>4. TypeOK'
  BY <1>1, <1>3 DEF IInv, TypeOK
<1>5. CountInv'
  <2>1. CountedToday \in [Statuses -> Nat]
    BY CountsType DEF IInv
  <2>2. \A k \in 1 .. Len(Finished) : CountedToday'[Finished[k]] = CountedToday[Finished[k]]
    <3>1. ASSUME NEW k \in 1 .. Len(Finished)
          PROVE  CountedToday'[Finished[k]] = CountedToday[Finished[k]]
      <4>1. Finished[k] \in Statuses /\ Finished[k] # Enqueued
        BY FinishedFacts
      <4>2. CountedToday[Finished[k]] \in Nat
        BY <2>1, <4>1
      <4> QED BY <1>3, <4>1, <4>2
    <3> QED BY <3>1
  <2>3. SumTo(CountedToday', Len(Finished)) = SumTo(CountedToday, Len(Finished))
    BY <2>2, SumToSame, FinishedFacts
  <2>4. CountedToday'[Enqueued] = CountedToday[Enqueued] + pushing /\ CountedToday[Enqueued] \in Nat
    BY <1>2, <1>3, <2>1
  <2>5. pushed' <= CountedToday'[Enqueued] + pushing'
    <3>1. pushed <= CountedToday[Enqueued] + pushing
      BY DEF IInv, CountInv
    <3>2. CountedToday'[Enqueued] + 0 = CountedToday[Enqueued] + pushing
      BY <1>2, <2>4
    <3> QED BY <1>1, <3>1, <3>2
  <2> QED BY <1>1, <2>3, <2>5 DEF IInv, CountInv
<1>6. RoundInv'
  BY <1>1 DEF IInv, RoundInv
<1> QED
  BY <1>3, <1>4, <1>5, <1>6 DEF IInv

LEMMA OnFetchedIInv ==
  ASSUME IInv, NEW i \in DOMAIN Finished, OnFetched(Finished[i])
  PROVE  IInv'
<1> DEFINE s == Finished[i]
<1>1. i \in 1 .. Len(Finished) /\ s \in Statuses /\ s # Enqueued
  BY FinishedFacts, QuotaAssumption
<1>2. /\ flight > 0 /\ flight' = flight - 1 /\ results' = results + 1
      /\ q' = AddCount(q, <<s, Today>>, 1)
      /\ UNCHANGED <<now, last, pc, reads, finished, hourTarget, inProgress, pushing, racing, oldest,
                     stale, allowed, carried, pushed, counted, raced>>
  BY DEF OnFetched, loopVars, roundVars, historyVars
<1> HIDE DEF s
<1>3. /\ IsCounts(q)' /\ DaysInv' /\ Today' = Today
      /\ \A t \in Statuses : CountedToday'[t] = CountedToday[t] + IF t = s THEN 1 ELSE 0
      /\ CountedToday' \in [Statuses -> Nat]
      /\ \A t : t # s /\ ~Unmerged(t) => ~Unmerged(t)'
  BY <1>1, <1>2, AddCountFacts
<1>4. flight \in Nat /\ flight' \in Nat /\ flight' < flight /\ results' \in Nat
  <2>1. flight \in Nat /\ results \in Nat
    BY DEF IInv, TypeOK
  <2> QED BY <1>2, <2>1
<1>5. TypeOK'
  BY <1>2, <1>3, <1>4 DEF IInv, TypeOK
<1>6. CountedToday \in [Statuses -> Nat]
  BY CountsType DEF IInv
<1>7. CountInv'
  <2>1. SumTo(CountedToday', Len(Finished)) = SumTo(CountedToday, Len(Finished)) + 1
    BY <1>1, <1>3, <1>6, SumToOneMore DEF s
  <2>2. CountedToday'[Enqueued] = CountedToday[Enqueued]
    <3>1. CountedToday[Enqueued] \in Nat
      BY <1>6, EnqueuedIsStatus
    <3> QED BY <1>1, <1>3, <3>1, EnqueuedIsStatus
  <2>3. flight' + SumTo(CountedToday', Len(Finished)) = carried' + pushed'
    <3> DEFINE sum == SumTo(CountedToday, Len(Finished))
    <3>1. sum \in Nat
      BY <1>6, SumToType, FinishedFacts
    <3>2. flight + sum = carried + pushed
      BY DEF IInv, CountInv
    <3> HIDE DEF sum
    <3>3. (flight - 1) + (sum + 1) = carried + pushed
      BY <1>4, <3>1, <3>2
    <3> QED BY <1>2, <2>1, <3>3 DEF sum
  <2> QED BY <1>2, <2>2, <2>3 DEF IInv, CountInv
<1>8. Merged' = Merged
  BY <1>2 DEF Merged
<1>9. pc = "target" => TargetInv'
  BY <1>2, <1>8 DEF IInv, RoundInv, TargetInv
<1>10. pc = "progress" => ProgressInv'
  <2> SUFFICES ASSUME pc = "progress" PROVE ProgressInv'
    OBVIOUS
  <2>1. ProgressInv
    BY DEF IInv, RoundInv
  <2> DEFINE e == last[Enqueued].cnt
  <2>2. e \in Nat /\ hourTarget \in Int /\ finished \in Nat /\ allowed \in Nat
    BY EnqueuedIsStatus DEF IInv, TypeOK
  <2>3. ~racing /\ ~stale => flight' + hourTarget + finished <= allowed + e
    <3>1. ~racing /\ ~stale => flight + hourTarget + finished <= allowed + e
      BY <2>1 DEF ProgressInv
    <3> HIDE DEF e
    <3> DEFINE less == flight'
    <3>2. less \in Nat /\ less < flight
      BY <1>4
    <3> HIDE DEF less
    <3>3. ~racing /\ ~stale => less + hourTarget + finished <= allowed + e
      <4> SUFFICES ASSUME flight + hourTarget + finished <= allowed + e
                   PROVE  less + hourTarget + finished <= allowed + e
        BY <3>1
      <4> QED BY <1>4, <2>2, <3>2
    <3> QED BY <3>3 DEF less
  <2> QED BY <1>2, <1>8, <2>1, <2>3 DEF ProgressInv
<1>11. RoundInv'
  BY <1>1, <1>2, <1>3, <1>9, <1>10 DEF IInv, RoundInv
<1> QED
  BY <1>3, <1>5, <1>7, <1>11 DEF IInv

\* A merge moves counts of today from the queue into the last day, and loses none.
LEMMA MergeKeeps ==
  ASSUME IInv, NEW taken \in SUBSET DOMAIN q, Merge(taken), NEW s \in Statuses
  PROVE  /\ last'[s] \in [day : 0 .. LastDay, cnt : Nat] /\ last'[s].day <= Today
         /\ CountedToday'[s] = CountedToday[s]
<1> DEFINE days == {d \in 1 .. LastDay : <<s, d>> \in taken /\ d >= last[s].day}
           day == Max(days)
           e == last[s]
<1>1. Today' = Today /\ Today \in 1 .. LastDay /\ LastDay \in Nat
  BY TodayFacts DEF Merge, Today, IInv, TypeOK
<1>2. \A k \in DOMAIN q : k \in Statuses \X (1 .. LastDay) /\ q[k] \in Nat /\ k[2] <= Today
  BY DEF IInv, TypeOK, IsCounts, DaysInv
<1>3. e \in [day : 0 .. LastDay, cnt : Nat] /\ e.day <= Today
  BY DEF IInv, TypeOK, DaysInv
<1>4. last'[s] = IF days = {} THEN e
                 ELSE [day |-> day, cnt |-> q[s, day] + IF day = e.day THEN e.cnt ELSE 0]
  BY DEF Merge, MergedEntry
<1>5. DOMAIN q' = DOMAIN q \ taken /\ \A k \in DOMAIN q' : q'[k] = q[k]
  BY DEF Merge, Restrict
<1>6. /\ CountedToday[s] = (IF <<s, Today>> \in DOMAIN q THEN q[<<s, Today>>] ELSE 0)
                           + (IF e.day = Today THEN e.cnt ELSE 0)
      /\ CountedToday'[s] = (IF <<s, Today>> \in DOMAIN q' THEN q'[<<s, Today>>] ELSE 0)
                            + (IF last'[s].day = Today THEN last'[s].cnt ELSE 0)
  BY <1>1 DEF CountedToday, CountedOn
<1>7. CASE days = {}
  <2>1. last'[s] = e
    BY <1>4, <1>7
  <2>2. <<s, Today>> \notin taken
    BY <1>1, <1>3, <1>7
  <2> QED BY <1>3, <1>5, <1>6, <2>1, <2>2
<1>8. CASE days # {}
  <2>1. day \in days /\ \A d \in days : d <= day
    <3>1. days \subseteq 1 .. LastDay
      OBVIOUS
    <3> HIDE DEF days
    <3> QED BY <1>1, <1>8, <3>1, MaxOfDays
  <2>2. /\ day \in 1 .. LastDay /\ <<s, day>> \in taken /\ <<s, day>> \in DOMAIN q
        /\ day <= Today /\ e.day <= day /\ q[<<s, day>>] \in Nat
    <3>1. day \in 1 .. LastDay /\ <<s, day>> \in taken /\ <<s, day>> \in DOMAIN q /\ e.day <= day
      BY <1>3, <2>1
    <3>2. <<s, day>>[2] = day
      OBVIOUS
    <3> QED BY <1>2, <3>1, <3>2
  <2>3. last'[s] = [day |-> day, cnt |-> q[<<s, day>>] + IF day = e.day THEN e.cnt ELSE 0]
    BY <1>4, <1>8
  <2>4. last'[s].day = day /\ last'[s].cnt = q[<<s, day>>] + IF day = e.day THEN e.cnt ELSE 0
    BY <2>3
  <2>5. <<s, Today>> \in taken => Today \in days
    BY <1>1, <1>3
  <2>6. <<s, Today>> \in taken => day = Today
    <3>1. <<s, Today>> \in taken => Today <= day
      BY <2>1, <2>5
    <3> HIDE DEF day
    <3> QED BY <1>1, <2>2, <3>1
  <2> HIDE DEF day, days
  <2>7. last'[s] \in [day : 0 .. LastDay, cnt : Nat]
    <3>1. (q[<<s, day>>] + IF day = e.day THEN e.cnt ELSE 0) \in Nat
      BY <1>3, <2>2
    <3> QED BY <2>2, <2>3, <3>1
  <2>8. CASE day = Today
    <3>1. <<s, Today>> \notin DOMAIN q' /\ <<s, Today>> \in DOMAIN q
      BY <1>5, <2>2, <2>8
    <3> HIDE DEF e
    <3>2. /\ CountedToday[s] = q[<<s, Today>>] + (IF e.day = Today THEN e.cnt ELSE 0)
          /\ CountedToday'[s] = 0 + last'[s].cnt
      BY <1>6, <2>4, <2>8, <3>1
    <3>3. last'[s].cnt \in Nat
      BY <2>7
    <3> QED BY <2>2, <2>4, <2>7, <2>8, <3>2, <3>3
  <2>9. CASE day # Today
    <3>1. <<s, Today>> \notin taken /\ e.day # Today
      <4>1. <<s, Today>> \notin taken
        BY <2>6, <2>9
      <4>2. e.day # Today
        BY <1>1, <1>3, <2>2, <2>9
      <4> QED BY <4>1, <4>2
    <3>2. <<s, Today>> \in DOMAIN q' <=> <<s, Today>> \in DOMAIN q
      BY <1>5, <3>1
    <3> HIDE DEF e
    <3>3. CountedToday'[s] = CountedToday[s]
      BY <1>5, <1>6, <2>4, <2>9, <3>1, <3>2
    <3> QED BY <2>2, <2>4, <2>7, <3>3
  <2> QED BY <2>8, <2>9
<1> QED
  BY <1>7, <1>8

LEMMA MergeIInv ==
  ASSUME IInv, NEW taken \in SUBSET DOMAIN q, Merge(taken)
  PROVE  IInv'
<1>1. /\ last' = [s \in Statuses |-> MergedEntry(s, taken)]
      /\ q' = Restrict(q, DOMAIN q \ taken)
      /\ racing' = (racing \/ pc \in {"target", "progress"})
      /\ UNCHANGED <<now, pc, reads, finished, hourTarget, inProgress, pushing, flight, oldest,
                     stale, allowed, carried, pushed, counted, raced, results>>
  BY DEF Merge, loopVars, historyVars
<1>2. DOMAIN q' \subseteq DOMAIN q /\ \A k \in DOMAIN q' : q'[k] = q[k]
  BY <1>1 DEF Restrict
<1>3. Today' = Today
  BY <1>1 DEF Today
<1>4. TypeOK'
  <2>1. last' \in [Statuses -> [day : 0 .. LastDay, cnt : Nat]]
    <3>1. \A s \in Statuses : last'[s] \in [day : 0 .. LastDay, cnt : Nat]
      BY MergeKeeps
    <3>2. last' = [s \in Statuses |-> last'[s]]
      BY <1>1
    <3> QED BY <3>1, <3>2
  <2>2. IsCounts(q)'
    BY <1>2 DEF IInv, TypeOK, IsCounts
  <2>3. racing' \in BOOLEAN
    BY <1>1 DEF IInv, TypeOK
  <2> QED BY <1>1, <2>1, <2>2, <2>3 DEF IInv, TypeOK
<1>5. DaysInv'
  <2>1. \A s \in Statuses : last'[s].day <= Today
    BY MergeKeeps
  <2> QED BY <1>2, <1>3, <2>1 DEF IInv, DaysInv
<1>6. CountInv'
  <2>1. CountedToday' = CountedToday
    <3>1. \A s \in Statuses : CountedToday'[s] = CountedToday[s]
      BY MergeKeeps
    <3> QED BY <3>1 DEF CountedToday
  <2> QED BY <1>1, <2>1 DEF IInv, CountInv
<1>7. pc \in {"target", "progress"} => racing'
  BY <1>1
<1>8. pc = "target" => TargetInv'
  BY <1>1, <1>7 DEF IInv, RoundInv, TargetInv
<1>9. pc = "progress" => ProgressInv'
  BY <1>1, <1>7 DEF IInv, RoundInv, ProgressInv
<1>10. RoundInv'
  BY <1>1, <1>7, <1>8, <1>9 DEF IInv, RoundInv
<1> QED
  BY <1>4, <1>5, <1>6, <1>10 DEF IInv

\* The part of the invariant that does not look at the clock.
LEMMA RoundKept ==
  ASSUME RoundInv, UNCHANGED <<q, last, pc, reads, finished, hourTarget, inProgress, flight, racing,
                               oldest, stale, allowed>>
  PROVE  RoundInv'
<1>1. Merged' = Merged /\ (Unmerged(Enqueued)' <=> Unmerged(Enqueued))
  BY DEF Merged, Unmerged
<1>2. TargetInv => TargetInv'
  BY <1>1 DEF TargetInv
<1>3. ProgressInv => ProgressInv'
  BY <1>1 DEF ProgressInv
<1> QED
  BY <1>1, <1>2, <1>3 DEF RoundInv

LEMMA TickIInv == IInv /\ Tick => IInv'
<1> SUFFICES ASSUME IInv, Tick PROVE IInv'
  OBVIOUS
<1>1. /\ now < MaxTime /\ now' = now + 1
      /\ UNCHANGED <<q, last, pc, reads, finished, hourTarget, inProgress, pushing, flight, racing,
                     oldest, stale, allowed, results>>
  BY DEF Tick, countVars, loopVars, roundVars
<1>2. now \in 0 .. MaxTime /\ now' \in 0 .. MaxTime /\ MaxTime \in Nat /\ now \in Nat /\ now' \in Nat
  BY <1>1, QuotaAssumption DEF IInv, TypeOK
<1>3. Today \in Nat /\ Today' \in Nat /\ Today <= Today'
  <2>1. now \div HoursInDay <= (now + 1) \div HoursInDay
    BY <1>1, <1>2, DivMono, QuotaAssumption
  <2>2. now \div HoursInDay \in Nat /\ (now + 1) \div HoursInDay \in Nat
    BY <1>1, <1>2, DivFacts, QuotaAssumption
  <2> QED BY <1>1, <2>1, <2>2 DEF Today
<1>4. flight \in Nat /\ TargetDayCrawl \in Nat /\ MaxPush \in Nat
  BY QuotaAssumption DEF IInv, TypeOK
<1>5. TypeOK'
  <2>1. {carried', pushed', counted'} \subseteq Nat /\ raced' \in BOOLEAN
    <3>1. CASE UNCHANGED historyVars
      BY <3>1 DEF IInv, TypeOK, historyVars
    <3>2. CASE carried' = flight /\ pushed' = 0 /\ counted' = TargetDayCrawl /\ raced' = FALSE
      <4>1. carried' \in Nat /\ pushed' \in Nat /\ counted' \in Nat
        BY <1>4, <3>2
      <4>2. raced' \in BOOLEAN
        BY <3>2
      <4> QED BY <4>1, <4>2
    <3>3. CASE Today' = Today
      BY <3>1, <3>3 DEF Tick
    <3>4. CASE Today' # Today
      BY <3>2, <3>4 DEF Tick
    <3> QED BY <3>3, <3>4
  <2>2. IsCounts(q)'
    BY <1>1 DEF IInv, TypeOK, IsCounts
  <2> QED BY <1>1, <1>2, <2>1, <2>2 DEF IInv, TypeOK
<1>6. DaysInv'
  <2>1. ASSUME NEW k \in DOMAIN q
        PROVE  k[2] <= Today'
    <3>1. k[2] \in Nat /\ k[2] <= Today
      BY DEF IInv, TypeOK, IsCounts, DaysInv
    <3> QED BY <1>3, <3>1
  <2>2. ASSUME NEW s \in Statuses
        PROVE  last[s].day <= Today'
    <3>1. last[s].day \in Nat /\ last[s].day <= Today
      BY DEF IInv, TypeOK, DaysInv
    <3> QED BY <1>3, <3>1
  <2> QED BY <1>1, <2>1, <2>2 DEF DaysInv
<1>7. CountInv'
  <2>1. CASE Today' = Today
    <3>1. UNCHANGED historyVars
      BY <2>1 DEF Tick
    <3> QED BY <1>1, <2>1, <3>1, CountsKept DEF IInv, CountInv, historyVars
  <2>2. CASE Today' # Today
    <3>1. carried' = flight /\ pushed' = 0 /\ counted' = TargetDayCrawl
      BY <2>2 DEF Tick
    <3>2. ASSUME NEW s \in Statuses
          PROVE  CountedToday'[s] = 0
      <4>1. <<s, Today'>> \notin DOMAIN q'
        <5>1. <<s, Today'>>[2] = Today'
          OBVIOUS
        <5> QED BY <1>1, <1>3, <2>2, <5>1 DEF IInv, DaysInv
      <4>2. last'[s].day # Today'
        BY <1>1, <1>3, <2>2 DEF IInv, DaysInv
      <4> QED BY <4>1, <4>2 DEF CountedToday, CountedOn
    <3>3. SumTo(CountedToday', Len(Finished)) = 0
      BY <3>2, FinishedFacts, SumToZero
    <3>4. CountedToday'[Enqueued] = 0
      BY <3>2, EnqueuedIsStatus
    <3>5. pushing \in Nat /\ (pc # "save" => pushing = 0)
      BY DEF IInv, TypeOK, CountInv
    <3> QED BY <1>1, <1>4, <3>1, <3>3, <3>4, <3>5 DEF CountInv
  <2> QED BY <2>1, <2>2
<1>8. RoundInv'
  BY <1>1, RoundKept DEF IInv
<1> QED
  BY <1>5, <1>6, <1>7, <1>8 DEF IInv

LEMMA StutterIInv == IInv /\ UNCHANGED vars => IInv'
<1> SUFFICES ASSUME IInv, UNCHANGED vars PROVE IInv'
  OBVIOUS
<1> USE DEF vars, countVars, loopVars, roundVars, historyVars
<1>1. TypeOK' /\ DaysInv'
  BY DEF IInv, TypeOK, IsCounts, DaysInv, Today
<1>2. CountInv'
  <2>1. CountedToday' = CountedToday
    BY CountsKept DEF Today
  <2> QED BY <2>1 DEF IInv, CountInv
<1>3. RoundInv'
  BY RoundKept DEF IInv
<1> QED
  BY <1>1, <1>2, <1>3 DEF IInv

LEMMA NextIInv == IInv /\ [Next]_vars => IInv'
BY StartRoundIInv, GetTodayEventsIInv, CalcHourTargetIInv, PushToKafkaIInv, SaveEnqueuedIInv,
   MergeIInv, OnFetchedIInv, TickIInv, StutterIInv DEF Next, LoopStep

(* The counters and the history have the types of the model. (CrawledDb.h) *)
THEOREM TypeCorrect == Spec => []TypeOK
<1>1. IInv => TypeOK
  BY DEF IInv
<1> QED
  BY <1>1, InitIInv, NextIInv, PTL DEF Spec

-----------------------------------------------------------------------------
(***************************************************************************)
(* The day's quota.                                                        *)
(***************************************************************************)
LEMMA PushDayQuota == IInv /\ DayQuota /\ PushToKafka => DayQuota'
<1> SUFFICES ASSUME IInv, DayQuota, PushToKafka, ~raced' PROVE pushed' <= counted'
  BY DEF DayQuota
<1>1. ~raced /\ ~racing /\ pushed <= counted
  BY PushStep DEF DayQuota
<1>2. /\ counted \in Nat /\ finished \in Nat /\ pushed \in Nat
      /\ hourTarget \in Int /\ inProgress \in Int /\ TargetDayCrawl \in Nat
  BY QuotaAssumption DEF IInv, TypeOK
<1>3. counted' \in Nat /\ counted <= counted' /\ finished <= counted' /\ TargetDayCrawl <= counted'
  <2>1. counted' \in {counted, finished} /\ counted <= counted' /\ finished <= counted'
    BY <1>2, PushCounted
  <2>2. TargetDayCrawl <= counted
    BY DEF IInv, CountInv
  <2> QED BY <1>2, <2>1, <2>2
<1>4. /\ PushSize \in Nat /\ pushed' = pushed + PushSize
      /\ PushSize > 0 => PushSize <= hourTarget - inProgress
      /\ inProgress = last[Enqueued].cnt - finished
      /\ hourTarget <= 0 \/ hourTarget + finished <= TargetDayCrawl
  BY <1>1, PushStep, PushFacts
<1>5. pushed <= last[Enqueued].cnt /\ last[Enqueued].cnt \in Nat
  <2>1. ~Unmerged(Enqueued) /\ pc # "save"
    BY <1>1, PushStep DEF IInv, RoundInv
  <2> QED BY <2>1, PushesRead
<1> DEFINE e == last[Enqueued].cnt
<1>6. e \in Nat /\ pushed <= e /\ inProgress = e - finished
  BY <1>4, <1>5
<1> HIDE DEF e
<1>7. CASE PushSize = 0
  BY <1>1, <1>2, <1>3, <1>4, <1>7
<1>8. CASE PushSize > 0
  <2>1. CASE hourTarget <= 0
    BY <1>2, <1>3, <1>4, <1>6, <1>8, <2>1
  <2>2. CASE hourTarget + finished <= TargetDayCrawl
    BY <1>2, <1>3, <1>4, <1>6, <1>8, <2>2
  <2> QED BY <1>4, <2>1, <2>2
<1> QED
  BY <1>4, <1>7, <1>8

(* A day's pushes stay within the target, or within the results that were  *)
(* counted for that day when there are more, over all rounds and hours,    *)
(* unless a round raced with the merge thread.                             *)
(* (EnqueueLoop.cpp:43-84, CrawledDb.cpp:41-64, EnqueueLoop.h:17-24)       *)
THEOREM DayQuotaKept == Spec => []DayQuota
<1>1. Init => DayQuota
  BY QuotaAssumption DEF Init, DayQuota
<1>2. IInv /\ DayQuota /\ [Next]_vars => DayQuota'
  <2> SUFFICES ASSUME IInv, DayQuota, [Next]_vars PROVE DayQuota'
    OBVIOUS
  <2>1. CASE UNCHANGED historyVars
    BY <2>1 DEF DayQuota, historyVars
  <2>2. CASE PushToKafka
    BY <2>2, PushDayQuota
  <2>3. CASE Tick
    <3>1. CASE Today' = Today
      BY <2>1, <2>3, <3>1 DEF Tick
    <3>2. CASE Today' # Today
      BY <2>3, <3>2, QuotaAssumption DEF Tick, DayQuota
    <3> QED BY <3>1, <3>2
  <2>4. PushToKafka \/ Tick \/ UNCHANGED historyVars
    BY DEF Next, LoopStep, StartRound, GetTodayEvents, CalcHourTarget, SaveEnqueued, Merge,
           OnFetched, vars
  <2> QED BY <2>1, <2>2, <2>3, <2>4
<1> QED
  BY <1>1, <1>2, InitIInv, NextIInv, PTL DEF Spec

(* A push leaves no more in flight than an hour's share of the target, on  *)
(* top of what midnight found in flight: unless the round raced with a     *)
(* merge or counted results of an earlier day as today's.                  *)
(* (EnqueueLoop.cpp:60-84, CrawledDb.cpp:49-64)                            *)
THEOREM HourPacedKept == Spec => HourPaced
<1>1. IInv /\ [Next]_vars => [Pushes /\ ~racing /\ ~stale => flight' <= allowed]_vars
  <2> SUFFICES ASSUME IInv, Next, Pushes, ~racing, ~stale PROVE flight' <= allowed
    BY DEF vars, Pushes, loopVars
  <2>1. PushToKafka
    BY DEF Next, LoopStep, StartRound, GetTodayEvents, CalcHourTarget, SaveEnqueued, Merge,
           OnFetched, Tick, loopVars, Pushes
  <2> DEFINE e == last[Enqueued].cnt
  <2>2. /\ PushSize \in Nat /\ PushSize > 0 /\ flight' = flight + PushSize
        /\ PushSize <= hourTarget - inProgress /\ inProgress = e - finished
        /\ flight + hourTarget + finished <= allowed + e
    BY <2>1, PushStep, PushFacts DEF Pushes
  <2>3. /\ flight \in Nat /\ hourTarget \in Int /\ finished \in Nat /\ allowed \in Nat
        /\ e \in Nat
    BY EnqueuedIsStatus DEF IInv, TypeOK
  <2> HIDE DEF e
  <2> QED BY <2>2, <2>3
<1> QED
  BY <1>1, InitIInv, NextIInv, PTL DEF Spec, HourPaced
=============================================================================
