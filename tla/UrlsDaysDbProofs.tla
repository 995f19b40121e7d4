-------------------------- MODULE UrlsDaysDbProofs --------------------------
(***************************************************************************)
(* The safety properties of UrlsDaysDb for any URLs, any number of days    *)
(* kept, any length of a day and any number of restarts.  IInv and with it *)
(* ConservedInv, defined in UrlsDaysDb, are inductive.                     *)
(***************************************************************************)
EXTENDS UrlsDaysDb, FiniteSetTheorems, TLAPS

-----------------------------------------------------------------------------
(***************************************************************************)
(* Days.                                                                   *)
(***************************************************************************)
LEMMA DivFacts ==
  ASSUME NEW t \in Nat, NEW n \in Nat \ {0}
  PROVE  /\ t \div n \in Nat
         /\ n * (t \div n) <= t
         /\ t < n * (t \div n) + n
OBVIOUS

LEMMA TimesMono ==
  ASSUME NEW a \in Int, NEW b \in Int, NEW n \in Nat \ {0}, a < b
  PROVE  n * a + n <= n * b
<1>1. a + 1 <= b
  OBVIOUS
<1>2. n * (a + 1) <= n * b
  BY <1>1
<1>3. n * (a + 1) = n * a + n
  OBVIOUS
<1> QED BY <1>2, <1>3

\* Only one multiple of n is the last one up to t.
LEMMA DivUnique ==
  ASSUME NEW t \in Nat, NEW n \in Nat \ {0}, NEW k \in Int, n * k <= t, t < n * k + n
  PROVE  t \div n = k
<1> DEFINE d == t \div n
<1>1. d \in Nat /\ n * d <= t /\ t < n * d + n
  BY DivFacts
<1> HIDE DEF d
<1>2. n * d \in Int /\ n * k \in Int
  BY <1>1
<1>3. ~(d < k)
  <2> SUFFICES ASSUME d < k PROVE FALSE
    OBVIOUS
  <2>1. n * d + n <= n * k
    BY <1>1, TimesMono
  <2> QED BY <1>1, <1>2, <2>1
<1>4. ~(k < d)
  <2> SUFFICES ASSUME k < d PROVE FALSE
    OBVIOUS
  <2>1. n * k + n <= n * d
    BY <1>1, TimesMono
  <2> QED BY <1>1, <1>2, <2>1
<1>5. d = k
  BY <1>1, <1>3, <1>4
<1> QED BY <1>5 DEF d

LEMMA DayOfFacts ==
  /\ Retention \in Nat
  /\ \A t \in Nat : DayOf(t) \in Nat
  /\ \A s \in Nat, t \in Nat : s <= t => DayOf(s) <= DayOf(t)
  /\ \A t \in Nat : t >= Retention =>
       LastStoreDay(t) \in Nat /\ LastStoreDay(t) = DayOf(t) - Days + 1
<1> USE UrlsDaysAssumption
<1>1. Retention \in Nat
  BY DEF Retention
<1>2. ASSUME NEW t \in Nat PROVE DayOf(t) \in Nat
  BY DivFacts DEF DayOf
<1>3. ASSUME NEW s \in Nat, NEW t \in Nat, s <= t PROVE DayOf(s) <= DayOf(t)
  <2> DEFINE a == DayOf(s)
             b == DayOf(t)
  <2>1. a \in Nat /\ DayLen * a <= s /\ b \in Nat /\ t < DayLen * b + DayLen
    BY DivFacts DEF DayOf
  <2> HIDE DEF a, b
  <2> SUFFICES ASSUME b < a PROVE FALSE
    BY <2>1 DEF a, b
  <2>2. DayLen * b + DayLen <= DayLen * a
    BY <2>1, TimesMono
  <2>3. DayLen * a \in Int /\ DayLen * b \in Int
    BY <2>1
  <2> QED BY <1>3, <2>1, <2>2, <2>3
<1>4. ASSUME NEW t \in Nat, t >= Retention
      PROVE  LastStoreDay(t) \in Nat /\ LastStoreDay(t) = DayOf(t) - Days + 1
  <2> DEFINE d == DayOf(t)
             k == d - Days + 1
             s == t - Retention
  <2>1. s \in Nat
    BY <1>1, <1>4
  <2>2. d \in Nat /\ DayLen * d <= t /\ t < DayLen * d + DayLen
    BY DivFacts DEF DayOf
  <2> HIDE DEF d
  <2>3. k \in Int /\ DayLen * k = DayLen * d - Retention
    BY <2>2 DEF Retention
  <2> HIDE DEF k
  <2>4. DayLen * d \in Int /\ DayLen * k \in Int
    BY <2>2, <2>3
  <2>5. DayLen * k <= s /\ s < DayLen * k + DayLen
    BY <1>1, <2>2, <2>3, <2>4
  <2> HIDE DEF s
  <2>6. s \div DayLen = k
    BY <2>1, <2>3, <2>5, DivUnique
  <2>7. LastStoreDay(t) = s \div DayLen
    BY DEF LastStoreDay, DayOf, s
  <2>8. s \div DayLen \in Nat
    BY <2>1, DivFacts
  <2> QED BY <2>6, <2>7, <2>8 DEF k, d
<1> QED BY <1>1, <1>2, <1>3, <1>4

-----------------------------------------------------------------------------
(***************************************************************************)
(* The bags of days and the maps.                                          *)
(***************************************************************************)
IsDays(days) == \A d \in DOMAIN days : d \in Nat /\ days[d] \in Nat \ {0}

IsMap(m) == DOMAIN m \subseteq Url /\ \A u \in DOMAIN m : IsUrlDays(m[u])

\* What AddPack, MergeDays and CheckClean do is the same whichever days are left
\* out of the window.
InWindows(m, over, t) == \A u \in DOMAIN m : InWindow(m[u].days, over[u], t)

LEMMA NoDays ==
  /\ IsDays(EmptyBag) /\ DOMAIN EmptyBag = {}
  /\ \A t \in Nat : \A over : InWindow(EmptyBag, over, t)
<1>1. DOMAIN EmptyBag = {}
  BY DEF EmptyBag, SetToBag
<1>2. ASSUME NEW t \in Nat, NEW over PROVE InWindow(EmptyBag, over, t)
  <2>1. 0 \in 0 .. DayOf(t)
    BY DayOfFacts
  <2> QED BY <1>1, <2>1 DEF InWindow
<1> QED BY <1>1, <1>2 DEF IsDays

LEMMA OnNat == ASSUME NEW days, IsDays(days), NEW d PROVE On(days, d) \in Nat
BY DEF IsDays, On

LEMMA PlusDays ==
  ASSUME NEW a, NEW b, IsDays(a), IsDays(b)
  PROVE  /\ IsDays(a (+) b)
         /\ DOMAIN (a (+) b) = DOMAIN a \cup DOMAIN b
         /\ \A d : On(a (+) b, d) = On(a, d) + On(b, d)
BY DEF IsDays, On, (+)

LEMMA CleanDays ==
  ASSUME NEW days, IsDays(days), NEW t
  PROVE  /\ IsDays(CheckClean(days, t))
         /\ DOMAIN CheckClean(days, t) = {d \in DOMAIN days : d >= LastStoreDay(t)}
         /\ \A d : d >= LastStoreDay(t) => On(CheckClean(days, t), d) = On(days, d)
BY DEF IsDays, On, CheckClean

\* What was just cleaned is in the window that ends today.
LEMMA CleanInWindow ==
  ASSUME NEW days, IsDays(days), NEW over, NEW t \in Nat, t >= Retention,
         \A d \in DOMAIN days \ over : d <= DayOf(t)
  PROVE  InWindow(CheckClean(days, t), over, t)
<1> DEFINE first == LastStoreDay(t)
           clean == CheckClean(days, t)
<1>1. first \in Nat /\ first = DayOf(t) - Days + 1 /\ DayOf(t) \in Nat
  BY DayOfFacts
<1>2. first \in 0 .. DayOf(t)
  BY <1>1, UrlsDaysAssumption
<1>3. ASSUME NEW d \in DOMAIN clean \ over
      PROVE  d \in Nat /\ d >= first /\ d <= DayOf(t)
  BY CleanDays DEF IsDays
<1>4. \A d \in DOMAIN clean \ over : d \in first .. first + Days - 1
  BY <1>1, <1>3, UrlsDaysAssumption
<1> HIDE DEF first, clean
<1>5. DOMAIN clean \ over \subseteq first .. first + Days - 1
  BY <1>4
<1> QED BY <1>2, <1>3, <1>5 DEF InWindow, clean

LEMMA WindowLater ==
  ASSUME NEW days, IsDays(days), NEW s \in Nat, NEW t \in Nat, s <= t,
         NEW over, NEW more, over \subseteq more, InWindow(days, over, s)
  PROVE  InWindow(days, more, t)
<1>1. DayOf(s) \in Nat /\ DayOf(t) \in Nat /\ DayOf(s) <= DayOf(t)
  BY DayOfFacts
<1>2. PICK first \in 0 .. DayOf(s) : DOMAIN days \ over \subseteq first .. first + Days - 1
  BY DEF InWindow
<1>3. first \in 0 .. DayOf(t) /\ DOMAIN days \ more \subseteq DOMAIN days \ over
  BY <1>1
<1>4. \A d \in DOMAIN days \ more : d <= DayOf(t)
  BY <1>1, <1>3 DEF InWindow, IsDays
<1> QED BY <1>2, <1>3, <1>4 DEF InWindow

LEMMA UrlDaysFacts ==
  ASSUME NEW url \in Url \cup {NoUrl}, NEW days
  PROVE  LET e == [url |-> url, days |-> days]
         IN  e.days = days /\ e.url = url /\ (IsUrlDays(e) <=> IsDays(days))
BY DEF IsUrlDays, IsDays

LEMMA EntryFacts ==
  ASSUME NEW m, IsMap(m), NEW u \in Url, NEW new \in Url \cup {NoUrl},
         NEW t \in Nat, NEW over, InWindows(m, over, t)
  PROVE  LET e == EntryOf(m, u, new)
         IN  /\ IsUrlDays(e) /\ IsDays(e.days) /\ InWindow(e.days, over[u], t)
             /\ \A d : Visits(m, u, d) = On(e.days, d)
<1>1. CASE u \in DOMAIN m
  BY <1>1 DEF EntryOf, IsMap, IsUrlDays, IsDays, InWindows, Visits
<1>2. CASE u \notin DOMAIN m
  <2>1. \A x \in Url \cup {NoUrl} : EntryOf(m, u, x) = [url |-> x, days |-> EmptyBag]
    BY <1>2 DEF EntryOf, NoVisits
  <2>2. IsUrlDays([url |-> new, days |-> EmptyBag])
    BY UrlDaysFacts, NoDays
  <2> QED BY <2>1, <2>2, NoDays DEF Visits
<1> QED BY <1>1, <1>2

LEMMA ChangeDays ==
  ASSUME NEW e, IsUrlDays(e), NEW days, IsDays(days)
  PROVE  /\ IsUrlDays([e EXCEPT !.days = days])
         /\ [e EXCEPT !.days = days].days = days
<1>1. e = [url |-> e.url, days |-> e.days] /\ e.url \in Url \cup {NoUrl}
  BY DEF IsUrlDays
<1>2. [e EXCEPT !.days = days] = [url |-> e.url, days |-> days]
  BY <1>1
<1> QED BY <1>1, <1>2, UrlDaysFacts

LEMMA AddPackFacts ==
  ASSUME NEW m, IsMap(m), NEW rec \in Record, NEW t \in Nat, t >= Retention,
         NEW over, DayOf(rec.tp) <= DayOf(t) \/ DayOf(rec.tp) \in over[rec.url],
         InWindows(m, over, t)
  PROVE  IsMap(AddPack(m, rec, t)) /\ InWindows(AddPack(m, rec, t), over, t)
<1> DEFINE u == rec.url
           e == EntryOf(m, u, u)
           pack == [d \in {DayOf(rec.tp)} |-> rec.cnt]
           days == e.days (+) pack
           clean == CheckClean(days, t)
           f == [e EXCEPT !.days = clean]
<1>1. u \in Url /\ rec.tp \in Nat /\ rec.cnt \in Nat \ {0}
  BY UrlsDaysAssumption DEF Record
<1>2. IsUrlDays(e) /\ IsDays(e.days) /\ InWindow(e.days, over[u], t)
  BY <1>1, EntryFacts
<1>3. DayOf(rec.tp) \in Nat /\ DayOf(t) \in Nat
  BY <1>1, DayOfFacts
<1>4. IsDays(pack) /\ DOMAIN pack = {DayOf(rec.tp)}
  BY <1>1, <1>3 DEF IsDays
<1> HIDE DEF pack
<1>5. IsDays(days) /\ DOMAIN days = DOMAIN e.days \cup {DayOf(rec.tp)}
  BY <1>2, <1>4, PlusDays
<1>6. \A d \in DOMAIN days \ over[u] : d <= DayOf(t)
  BY <1>2, <1>3, <1>5 DEF InWindow
<1> HIDE DEF days
<1>7. IsDays(clean) /\ InWindow(clean, over[u], t)
  BY <1>5, <1>6, CleanDays, CleanInWindow
<1> HIDE DEF clean, e
<1>8. IsUrlDays(f) /\ f.days = clean
  BY <1>2, <1>7, ChangeDays
<1>9. AddPack(m, rec, t) = m \/ AddPack(m, rec, t) = PutAt(m, u, f)
  BY DEF AddPack, e, clean, days, pack
<1> HIDE DEF f
<1>10. CASE AddPack(m, rec, t) = PutAt(m, u, f)
  <2> DEFINE p == AddPack(m, rec, t)
  <2>1. /\ DOMAIN p = DOMAIN m \cup {u} /\ p[u] = f
        /\ \A v \in DOMAIN m : v # u => p[v] = m[v]
    BY <1>10 DEF PutAt
  <2> HIDE DEF p
  <2>2. DOMAIN p \subseteq Url
    BY <1>1, <2>1 DEF IsMap
  <2>3. ASSUME NEW v \in DOMAIN p PROVE IsUrlDays(p[v]) /\ InWindow(p[v].days, over[v], t)
    BY <1>7, <1>8, <2>1 DEF IsMap, InWindows
  <2> QED BY <2>2, <2>3 DEF IsMap, InWindows, p
<1> QED BY <1>9, <1>10

LEMMA MergeDaysFacts ==
  ASSUME NEW a, NEW b, IsUrlDays(a), IsUrlDays(b), NEW t \in Nat, t >= Retention,
         NEW over, InWindow(a.days, over, t), InWindow(b.days, over, t)
  PROVE  LET c == MergeDays(a, b, t)
         IN  /\ IsUrlDays(c) /\ InWindow(c.days, over, t)
             /\ \A d : d >= LastStoreDay(t) => On(c.days, d) = On(a.days, d) + On(b.days, d)
<1>1. IsDays(a.days) /\ IsDays(b.days)
  BY DEF IsUrlDays, IsDays
<1>2. CASE a.days = EmptyBag
  <2>1. MergeDays(a, b, t) = [a EXCEPT !.days = b.days]
    BY <1>2 DEF MergeDays
  <2>2. IsUrlDays(MergeDays(a, b, t)) /\ MergeDays(a, b, t).days = b.days
    BY <1>1, <2>1, ChangeDays
  <2>3. \A d : On(a.days, d) = 0
    BY <1>2, NoDays DEF On
  <2>4. \A d : On(b.days, d) \in Nat
    BY <1>1, OnNat
  <2> QED BY <2>2, <2>3, <2>4
<1>3. CASE a.days # EmptyBag
  <2> DEFINE days == a.days (+) b.days
             clean == CheckClean(days, t)
  <2>1. IsDays(days) /\ \A d \in DOMAIN days \ over : d <= DayOf(t)
    BY <1>1, PlusDays DEF InWindow
  <2>2. \A d : On(days, d) = On(a.days, d) + On(b.days, d)
    BY <1>1, PlusDays
  <2> HIDE DEF days
  <2>3. /\ IsDays(clean) /\ InWindow(clean, over, t)
        /\ \A d : d >= LastStoreDay(t) => On(clean, d) = On(days, d)
    BY <2>1, CleanDays, CleanInWindow
  <2>4. MergeDays(a, b, t) = [a EXCEPT !.days = clean]
    BY <1>3 DEF MergeDays, days
  <2> HIDE DEF clean
  <2>5. IsUrlDays(MergeDays(a, b, t)) /\ MergeDays(a, b, t).days = clean
    BY <2>3, <2>4, ChangeDays
  <2>6. ASSUME NEW d, d >= LastStoreDay(t) PROVE On(clean, d) = On(a.days, d) + On(b.days, d)
    BY <2>2, <2>3, <2>6
  <2> QED BY <2>3, <2>5, <2>6
<1> QED BY <1>2, <1>3

LEMMA VisitsNat ==
  ASSUME NEW m, IsMap(m), NEW u \in Url, NEW d
  PROVE  Visits(m, u, d) \in Nat
<1>1. CASE u \in DOMAIN m
  BY <1>1, OnNat DEF Visits, EntryOf, IsMap, IsUrlDays, IsDays
<1>2. CASE u \notin DOMAIN m
  BY <1>2, NoDays DEF Visits, EntryOf, NoVisits, On
<1> QED BY <1>1, <1>2

LEMMA MergeFacts ==
  ASSUME NEW m, NEW u, IsMap(m), IsMap(u), NEW t \in Nat, t >= Retention,
         NEW over, InWindows(m, over, t), InWindows(u, over, t)
  PROVE  /\ IsMap(Merge(m, u, t)) /\ InWindows(Merge(m, u, t), over, t)
         /\ \A x \in Url : \A d : d >= LastStoreDay(t) =>
              Visits(Merge(m, u, t), x, d) = Visits(m, x, d) + Visits(u, x, d)
<1> DEFINE p == Merge(m, u, t)
           e(x) == EntryOf(m, x, NoUrl)
           c(x) == MergeDays(e(x), u[x], t)
<1>1. /\ DOMAIN p = DOMAIN m \cup DOMAIN u
      /\ \A x \in DOMAIN u : p[x] = c(x)
      /\ \A x \in DOMAIN m : x \notin DOMAIN u => p[x] = m[x]
  BY DEF Merge
<1> HIDE DEF p
<1>2. ASSUME NEW x \in DOMAIN u
      PROVE  /\ IsUrlDays(p[x]) /\ InWindow(p[x].days, over[x], t)
             /\ \A d : d >= LastStoreDay(t) =>
                  On(p[x].days, d) = Visits(m, x, d) + On(u[x].days, d)
  <2>1. x \in Url /\ IsUrlDays(u[x]) /\ InWindow(u[x].days, over[x], t)
    BY DEF IsMap, InWindows
  <2>2. /\ IsUrlDays(e(x)) /\ InWindow(e(x).days, over[x], t)
        /\ \A d : Visits(m, x, d) = On(e(x).days, d)
    BY <2>1, EntryFacts
  <2> HIDE DEF e
  <2>3. /\ IsUrlDays(c(x)) /\ InWindow(c(x).days, over[x], t)
        /\ \A d : d >= LastStoreDay(t) => On(c(x).days, d) = On(e(x).days, d) + On(u[x].days, d)
    BY <2>1, <2>2, MergeDaysFacts
  <2> QED BY <1>1, <2>2, <2>3
<1>3. ASSUME NEW x \in DOMAIN m, x \notin DOMAIN u
      PROVE  /\ x \in Url /\ IsUrlDays(p[x]) /\ InWindow(p[x].days, over[x], t)
             /\ \A d : On(p[x].days, d) = Visits(m, x, d)
  BY <1>1, <1>3 DEF IsMap, InWindows, Visits, EntryOf
<1>4. IsMap(p) /\ InWindows(p, over, t)
  <2>1. DOMAIN p \subseteq Url
    BY <1>1 DEF IsMap
  <2> QED BY <1>1, <1>2, <1>3, <2>1 DEF IsMap, InWindows
<1>5. ASSUME NEW x \in Url, NEW d, d >= LastStoreDay(t)
      PROVE  Visits(p, x, d) = Visits(m, x, d) + Visits(u, x, d)
  <2>1. Visits(m, x, d) \in Nat /\ Visits(u, x, d) \in Nat
    BY VisitsNat
  <2>2. CASE x \in DOMAIN u
    BY <1>1, <1>2, <1>5, <2>2 DEF Visits, EntryOf
  <2>3. CASE x \notin DOMAIN u
    <3>1. Visits(u, x, d) = 0
      BY <2>3, NoDays DEF Visits, EntryOf, NoVisits, On
    <3>2. EntryOf(p, x, x) = EntryOf(m, x, x)
      BY <1>1, <2>3 DEF EntryOf
    <3> QED BY <2>1, <3>1, <3>2 DEF Visits
  <2> QED BY <2>2, <2>3
<1> QED BY <1>4, <1>5 DEF p

-----------------------------------------------------------------------------
(***************************************************************************)
(* The invariant.                                                          *)
(***************************************************************************)
Maps == {upd, mem, snap, disk, written}

\* The parts of the invariant as the lemmas have them.
LEMMA Unfold ==
  ASSUME IInv
  PROVE  /\ now \in Nat /\ now >= Retention /\ now - Retention \in Nat
         /\ \A m \in Maps : IsMap(m) /\ InWindows(m, ahead, now)
         /\ DayOf(now) \in Nat /\ LastStoreDay(now) \in Nat
         /\ LastStoreDay(now) = DayOf(now) - Days + 1
<1>1. now \in Nat /\ now >= Retention
  BY DEF IInv, TypeOK
<1>2. \A m \in Maps : IsMap(m) /\ InWindows(m, ahead, now)
  BY DEF IInv, TypeOK, DaysInv, IsMap, InWindows, Maps
<1>3. Retention \in Nat
  BY DayOfFacts
<1> QED BY <1>1, <1>2, <1>3, DayOfFacts

LEMMA NoUrlsFacts ==
  /\ DOMAIN NoUrls = {} /\ IsMap(NoUrls)
  /\ \A t \in Nat : \A over : InWindows(NoUrls, over, t)
  /\ \A u \in Url : \A d : Visits(NoUrls, u, d) = 0
<1>1. DOMAIN NoUrls = {}
  BY DEF NoUrls
<1>2. ASSUME NEW u, NEW d PROVE Visits(NoUrls, u, d) = 0
  BY <1>1, NoDays DEF Visits, EntryOf, NoVisits, On
<1> QED BY <1>1, <1>2 DEF IsMap, InWindows

LEMMA EntryDays ==
  ASSUME NEW m, IsMap(m), NEW u \in Url
  PROVE  IsDays(EntryOf(m, u, u).days)
<1>1. CASE u \in DOMAIN m
  BY <1>1 DEF EntryOf, IsMap, IsUrlDays, IsDays
<1>2. CASE u \notin DOMAIN m
  BY <1>2, NoDays DEF EntryOf, NoVisits
<1> QED BY <1>1, <1>2

\* Covers says it of every day: b has no visits on those that are not its own.
LEMMA CoversDays ==
  ASSUME NEW a, NEW b, IsMap(a), IsMap(b), NEW t
  PROVE  Covers(a, b, t) <=>
           \A u \in Url : \A d \in Nat :
             d >= LastStoreDay(t) => Visits(a, u, d) >= Visits(b, u, d)
<1>1. ASSUME NEW u \in Url, NEW d
      PROVE  /\ Visits(a, u, d) \in Nat
             /\ d \in DOMAIN EntryOf(b, u, u).days => d \in Nat
             /\ d \notin DOMAIN EntryOf(b, u, u).days => Visits(b, u, d) = 0
  BY VisitsNat, EntryDays DEF Visits, On, IsDays
<1>2. ASSUME NEW u \in Url, NEW d, d \notin DOMAIN EntryOf(b, u, u).days
      PROVE  Visits(a, u, d) >= Visits(b, u, d)
  BY <1>1, <1>2
<1> QED BY <1>1, <1>2 DEF Covers

LEMMA CoversSelf ==
  ASSUME NEW m, IsMap(m)
  PROVE  Covers(m, m, now) /\ Covers(m, NoUrls, now)
<1>1. \A u \in Url : \A d : Visits(m, u, d) \in Nat /\ Visits(NoUrls, u, d) = 0
  BY VisitsNat, NoUrlsFacts
<1>2. \A u \in Url : \A d : Visits(m, u, d) >= Visits(m, u, d) /\ Visits(m, u, d) >= Visits(NoUrls, u, d)
  BY <1>1
<1> QED BY <1>2, NoUrlsFacts, CoversDays

LEMMA CoversTrans ==
  ASSUME NEW a, NEW b, NEW c, IsMap(a), IsMap(b), IsMap(c), Covers(a, b, now), Covers(b, c, now)
  PROVE  Covers(a, c, now)
<1>1. ASSUME NEW u \in Url, NEW d \in Nat, d >= LastStoreDay(now)
      PROVE  Visits(a, u, d) >= Visits(c, u, d)
  <2>1. Visits(a, u, d) \in Nat /\ Visits(b, u, d) \in Nat /\ Visits(c, u, d) \in Nat
    BY VisitsNat
  <2>2. Visits(a, u, d) >= Visits(b, u, d) /\ Visits(b, u, d) >= Visits(c, u, d)
    BY <1>1, CoversDays
  <2> QED BY <2>1, <2>2
<1> QED BY <1>1, CoversDays

LEMMA InitIInv == Init => IInv
<1> SUFFICES ASSUME Init PROVE IInv
  OBVIOUS
<1> USE DEF Init
<1>1. Retention \in Nat
  BY DayOfFacts
<1>2. DOMAIN q = {}
  BY NoDays
<1>3. \A u \in Url : IsUrlDays([url |-> u, days |-> saved[u]])
  BY NoDays, UrlDaysFacts
<1>4. TypeOK
  BY <1>1, <1>2, <1>3, NoUrlsFacts DEF TypeOK, IsMap
<1>5. DaysInv
  BY <1>1, <1>2, NoUrlsFacts DEF DaysInv, InWindows
<1>6. CoverInv
  BY NoUrlsFacts, CoversSelf DEF CoverInv
<1> QED BY <1>4, <1>5, <1>6 DEF IInv

\* What is left alone stays covered, as long as the day does not turn.
LEMMA CoverSame ==
  ASSUME CoverInv, UNCHANGED <<mem, snapVars, disk, now, written>>
  PROVE  CoverInv'
BY DEF CoverInv, Covers, snapVars

LEMMA SaveStep ==
  ASSUME IInv, NEW u \in Url, NEW age \in Age, NEW cnt \in Pack, SaveVisitsPack(u, age, cnt)
  PROVE  IInv'
<1> USE DEF SaveVisitsPack, snapVars
<1> DEFINE rec == [url |-> u, tp |-> now - age, cnt |-> cnt]
           pack == [d \in {DayOf(now - age)} |-> cnt]
<1>1. /\ now \in Nat /\ now - age \in Nat /\ cnt \in Nat \ {0}
      /\ DayOf(now - age) \in Nat /\ DayOf(now) \in Nat
  <2>1. now \in Nat /\ age \in Int /\ age <= now /\ cnt \in Nat \ {0}
    BY Unfold, UrlsDaysAssumption
  <2>2. now - age \in Nat
    BY <2>1
  <2> QED BY <2>1, <2>2, DayOfFacts
<1>2. rec \in Record /\ rec.tp = now - age /\ rec.url = u
  BY <1>1 DEF Record
<1>3. q' = q (+) SetToBag({rec})
  OBVIOUS
<1> HIDE DEF rec
<1>4. DOMAIN q' = DOMAIN q \cup {rec}
  BY <1>3 DEF (+), SetToBag
<1>5. \A r \in DOMAIN q' : r \in Record /\ q'[r] \in Nat \ {0}
  BY <1>2, <1>3, <1>4 DEF (+), SetToBag, IInv, TypeOK
<1>6. \A x \in Url : IsDays(saved[x])
  BY UrlDaysFacts DEF IInv, TypeOK
<1>7. IsDays(pack)
  BY <1>1, DayOfFacts DEF IsDays
<1>8. \A x \in Url : IsDays(saved'[x])
  <2>1. IsDays(saved[u] (+) pack)
    BY <1>6, <1>7, PlusDays
  <2>2. saved' = [saved EXCEPT ![u] = @ (+) pack]
    OBVIOUS
  <2> HIDE DEF pack
  <2> QED BY <1>6, <2>1, <2>2
<1>9. \A x \in Url : IsUrlDays([url |-> x, days |-> saved'[x]])
  BY <1>8, UrlDaysFacts
<1>10. TypeOK'
  <2>1. DOMAIN saved' = Url /\ ahead' \in [Url -> SUBSET Nat]
    BY <1>1 DEF IInv, TypeOK
  <2>2. /\ UNCHANGED <<mergePc, upd, mem, snap, toPut, disk, now, written, restarts>>
        /\ saves' = saves + 1
    OBVIOUS
  <2> HIDE DEF SaveVisitsPack
  <2> QED BY <1>5, <1>9, <2>1, <2>2 DEF IInv, TypeOK
<1>11. DaysInv'
  <2>1. ASSUME NEW x \in Url PROVE ahead[x] \subseteq ahead'[x]
    BY DEF IInv, TypeOK
  <2>2. DayOf(rec.tp) <= DayOf(now) \/ DayOf(rec.tp) \in ahead'[rec.url]
    BY <1>1, <1>2 DEF IInv, TypeOK
  <2>3. \A r \in DOMAIN q' :
          DayOf(r.tp) <= DayOf(now) \/ DayOf(r.tp) \in ahead'[r.url]
    BY <1>4, <2>1, <2>2 DEF IInv, DaysInv, TypeOK, Record
  <2>4. ASSUME NEW m \in Maps, NEW x \in DOMAIN m
        PROVE  InWindow(m[x].days, ahead'[x], now)
    <3>1. IsMap(m) /\ InWindow(m[x].days, ahead[x], now)
      BY Unfold DEF InWindows
    <3>2. x \in Url /\ IsDays(m[x].days)
      BY <3>1 DEF IsMap, IsUrlDays, IsDays
    <3> QED BY <1>1, <2>1, <3>1, <3>2, WindowLater
  <2>5. UNCHANGED <<upd, mem, snap, disk, now, written>>
    OBVIOUS
  <2> HIDE DEF SaveVisitsPack
  <2> QED BY <2>3, <2>4, <2>5 DEF DaysInv, Maps
<1>12. CoverInv'
  BY CoverSame DEF IInv
<1> QED BY <1>10, <1>11, <1>12 DEF IInv

LEMMA DequeueStep ==
  ASSUME IInv, NEW rec \in BagToSet(q), Dequeue(rec)
  PROVE  IInv'
<1> USE DEF Dequeue, snapVars, BagToSet
<1>1. /\ rec \in Record /\ IsMap(upd)
      /\ DayOf(rec.tp) <= DayOf(now) \/ DayOf(rec.tp) \in ahead[rec.url]
      /\ InWindows(upd, ahead, now)
      /\ now \in Nat /\ now >= Retention
  BY Unfold DEF IInv, TypeOK, DaysInv, Maps
<1>2. IsMap(upd') /\ InWindows(upd', ahead, now)
  BY <1>1, AddPackFacts
<1>3. \A r \in DOMAIN q' : r \in DOMAIN q /\ q'[r] \in Nat \ {0}
  BY DEF (-), SetToBag, IInv, TypeOK
<1>4. TypeOK'
  BY <1>2, <1>3 DEF IInv, TypeOK, IsMap
<1>5. DaysInv'
  BY <1>2, <1>3 DEF IInv, DaysInv, InWindows
<1>6. CoverInv'
  BY CoverSame DEF IInv
<1> QED BY <1>4, <1>5, <1>6 DEF IInv

LEMMA SwitchStep ==
  ASSUME IInv, SwitchGlobal
  PROVE  IInv'
<1> USE DEF SwitchGlobal, snapVars
<1>1. /\ IsMap(upd) /\ InWindows(upd, ahead, now) /\ IsMap(mem) /\ InWindows(mem, ahead, now)
      /\ IsMap(snap) /\ IsMap(written)
      /\ now \in Nat /\ now >= Retention /\ LastStoreDay(now) \in Nat /\ DayOf(now) \in Nat
  BY Unfold DEF Maps
<1>2. /\ IsMap(mem') /\ InWindows(mem', ahead, now)
      /\ \A x \in Url : \A d : d >= LastStoreDay(now) => Visits(mem', x, d) >= Visits(mem, x, d)
  <2>1. mem' = Merge(mem, upd, now)
    OBVIOUS
  <2> HIDE DEF SwitchGlobal
  <2>2. /\ IsMap(mem') /\ InWindows(mem', ahead, now)
        /\ \A x \in Url : \A d : d >= LastStoreDay(now) =>
             Visits(mem', x, d) = Visits(mem, x, d) + Visits(upd, x, d)
    BY <1>1, <2>1, MergeFacts
  <2>3. \A x \in Url : \A d : Visits(mem, x, d) \in Nat /\ Visits(upd, x, d) \in Nat
    BY <1>1, VisitsNat
  <2> QED BY <2>2, <2>3
<1>3. IsMap(upd') /\ InWindows(upd', ahead, now)
  BY <1>1, NoUrlsFacts
<1>4. TypeOK'
  BY <1>2, <1>3 DEF IInv, TypeOK, IsMap
<1>5. DaysInv'
  BY <1>2, <1>3 DEF IInv, DaysInv, InWindows
<1>6. Covers(mem', mem, now)
  BY <1>1, <1>2, CoversDays
<1>7. Covers(mem', written, now) /\ (toPut # {} => Covers(mem', snap, now))
  BY <1>1, <1>2, <1>6, CoversTrans DEF IInv, CoverInv
<1>8. CoverInv'
  BY <1>7 DEF IInv, CoverInv, Covers
<1> QED BY <1>4, <1>5, <1>8 DEF IInv

LEMMA StartSnapshotStep ==
  ASSUME IInv, StartSnapshot
  PROVE  IInv'
<1> USE DEF StartSnapshot, mergeVars
<1>1. IsMap(mem) /\ Covers(mem, mem, now)
  BY Unfold, CoversSelf DEF Maps
<1>2. TypeOK'
  BY DEF IInv, TypeOK
<1>3. DaysInv'
  BY DEF IInv, DaysInv
<1>4. CoverInv'
  BY <1>1 DEF IInv, CoverInv, Covers
<1> QED BY <1>2, <1>3, <1>4 DEF IInv

LEMMA PutStep ==
  ASSUME IInv, NEW u \in toPut, Put(u)
  PROVE  IInv'
<1> USE DEF mergeVars
<1>1. /\ IsMap(disk) /\ InWindows(disk, ahead, now) /\ IsMap(snap) /\ InWindows(snap, ahead, now)
      /\ IsMap(written) /\ u \in DOMAIN snap /\ u \in Url /\ now \in Nat
      /\ toPut \subseteq DOMAIN snap
  BY Unfold DEF Maps, IInv, TypeOK, IsMap
<1>2. /\ Covers(disk, written, now) /\ Covers(snap, written, now) /\ Covers(mem, snap, now)
      /\ Covers(mem, written, now)
      /\ \A x \in DOMAIN snap \ toPut : x \in DOMAIN disk /\ disk[x] = snap[x]
  BY DEF IInv, CoverInv
<1>3. /\ UNCHANGED <<q, mergePc, upd, mem, now, saved, ahead, saves, restarts>>
      /\ snap' = IF toPut' = {} THEN NoUrls ELSE snap
  BY DEF Put
<1>4. CASE toPut' = {} /\ UNCHANGED <<disk, written>>
  <2>1. snap' = NoUrls /\ IsMap(snap') /\ InWindows(snap', ahead, now)
    BY <1>1, <1>3, <1>4, NoUrlsFacts
  <2>2. TypeOK'
    BY <1>3, <1>4, <2>1 DEF IInv, TypeOK, IsMap
  <2>3. DaysInv'
    BY <1>3, <1>4, <2>1 DEF IInv, DaysInv, InWindows
  <2>4. CoverInv'
    BY <1>2, <1>3, <1>4 DEF CoverInv
  <2> QED BY <2>2, <2>3, <2>4 DEF IInv
<1>5. CASE /\ disk' = PutAt(disk, u, snap[u])
           /\ toPut' = toPut \ {u}
           /\ written' = IF toPut' = {} THEN snap ELSE written
  <2>1. /\ DOMAIN disk' = DOMAIN disk \cup {u} /\ disk'[u] = snap[u]
        /\ \A v \in DOMAIN disk : v # u => disk'[v] = disk[v]
    BY <1>5 DEF PutAt
  <2>2. IsMap(disk') /\ InWindows(disk', ahead, now)
    BY <1>1, <2>1 DEF IsMap, InWindows
  <2>3. IsMap(snap') /\ InWindows(snap', ahead, now) /\ toPut' \subseteq DOMAIN snap'
    BY <1>1, <1>3, <1>5, NoUrlsFacts
  <2>4. IsMap(written') /\ InWindows(written', ahead, now)
    BY <1>1, <1>5, Unfold DEF Maps
  <2>5. TypeOK'
    BY <1>3, <2>2, <2>3, <2>4 DEF IInv, TypeOK, IsMap
  <2>6. DaysInv'
    BY <1>3, <2>2, <2>3, <2>4 DEF IInv, DaysInv, InWindows
  <2>7. \A d : Visits(disk', u, d) = Visits(snap, u, d)
    BY <1>1, <2>1 DEF Visits, EntryOf
  <2>8. ASSUME NEW x \in Url, x # u PROVE \A d : Visits(disk', x, d) = Visits(disk, x, d)
    BY <2>1, <2>8 DEF Visits, EntryOf
  <2>9. Covers(disk', written, now)
    <3>1. \A x \in Url : \A d \in Nat : d >= LastStoreDay(now) =>
            /\ Visits(disk, x, d) >= Visits(written, x, d)
            /\ Visits(snap, x, d) >= Visits(written, x, d)
      BY <1>1, <1>2, CoversDays
    <3> QED BY <1>1, <2>2, <2>7, <2>8, <3>1, CoversDays
  <2>10. CASE toPut' = {}
    <3>1. written' = snap
      BY <1>5, <2>10
    <3>2. ASSUME NEW x \in Url, NEW d PROVE Visits(disk', x, d) >= Visits(snap, x, d)
      <4>1. Visits(disk', x, d) \in Nat /\ Visits(snap, x, d) \in Nat
        BY <1>1, <2>2, VisitsNat
      <4>2. CASE x = u
        BY <2>7, <4>1, <4>2
      <4>3. CASE x # u /\ x \in DOMAIN snap
        <5>1. x \in DOMAIN disk /\ disk[x] = snap[x]
          BY <1>2, <1>5, <2>10, <4>3
        <5>2. Visits(disk, x, d) = Visits(snap, x, d)
          BY <4>3, <5>1 DEF Visits, EntryOf
        <5> QED BY <2>8, <4>1, <4>3, <5>2
      <4>4. CASE x \notin DOMAIN snap
        <5>1. Visits(snap, x, d) = 0
          BY <4>4, NoDays DEF Visits, EntryOf, NoVisits, On
        <5> QED BY <4>1, <5>1
      <4> QED BY <4>2, <4>3, <4>4
    <3>3. Covers(disk', snap, now)
      BY <1>1, <2>2, <3>2, CoversDays
    <3> QED BY <1>2, <1>3, <2>5, <2>6, <2>10, <3>1, <3>3 DEF IInv, CoverInv
  <2>11. CASE toPut' # {}
    <3>1. written' = written /\ snap' = snap
      BY <1>3, <1>5, <2>11
    <3>2. ASSUME NEW x \in DOMAIN snap \ toPut' PROVE x \in DOMAIN disk' /\ disk'[x] = snap[x]
      BY <1>2, <1>5, <2>1
    <3> QED BY <1>2, <1>3, <2>5, <2>6, <2>9, <3>1, <3>2 DEF IInv, CoverInv
  <2> QED BY <2>10, <2>11
<1> QED BY <1>4, <1>5 DEF Put

LEMMA RestartStep ==
  ASSUME IInv, Restart
  PROVE  IInv'
<1> USE DEF Restart
<1>1. /\ IsMap(disk) /\ InWindows(disk, ahead, now) /\ IsMap(written) /\ InWindows(written, ahead, now)
      /\ now \in Nat
  BY Unfold DEF Maps
<1>2. /\ IsMap(NoUrls) /\ InWindows(NoUrls, ahead, now) /\ DOMAIN NoUrls = {}
      /\ Covers(disk, NoUrls, now) /\ Covers(NoUrls, NoUrls, now)
  BY <1>1, NoUrlsFacts, CoversSelf
<1>3. /\ IsMap(mem') /\ InWindows(mem', ahead, now) /\ IsMap(written') /\ InWindows(written', ahead, now)
      /\ Covers(disk, written', now) /\ Covers(mem', written', now)
  BY <1>1, <1>2 DEF IInv, CoverInv
<1>4. /\ upd' = NoUrls /\ snap' = NoUrls /\ toPut' = {} /\ mergePc' = "sleep"
      /\ disk' = disk /\ now' = now /\ ahead' = ahead /\ saves' = saves /\ restarts' = restarts + 1
      /\ DOMAIN q' = {}
  BY NoDays
<1>5. DOMAIN saved' = Url /\ \A u \in Url : saved'[u] = EntryOf(mem', u, u).days
  OBVIOUS
<1>6. \A u \in Url : IsDays(saved'[u])
  BY <1>1, <1>3, <1>5, EntryFacts
<1>7. \A u \in Url : IsUrlDays([url |-> u, days |-> saved'[u]])
  BY <1>6, UrlDaysFacts
<1> HIDE DEF Restart
<1>8. TypeOK'
  BY <1>1, <1>2, <1>3, <1>4, <1>5, <1>7 DEF IInv, TypeOK, IsMap
<1>9. DaysInv'
  BY <1>1, <1>2, <1>3, <1>4 DEF DaysInv, InWindows
<1>10. CoverInv'
  BY <1>3, <1>4 DEF CoverInv
<1> QED BY <1>8, <1>9, <1>10 DEF IInv

LEMMA WindowsLater ==
  ASSUME NEW m, IsMap(m), NEW over, NEW s \in Nat, NEW t \in Nat, s <= t,
         InWindows(m, over, s)
  PROVE  InWindows(m, over, t)
<1>1. ASSUME NEW u \in DOMAIN m PROVE InWindow(m[u].days, over[u], t)
  <2>1. IsDays(m[u].days) /\ InWindow(m[u].days, over[u], s)
    BY DEF IsMap, IsUrlDays, IsDays, InWindows
  <2> QED BY <2>1, WindowLater
<1> QED BY <1>1 DEF InWindows

\* The days that are kept only become fewer.
LEMMA LastStoreDayLater ==
  ASSUME NEW s \in Nat, NEW t \in Nat, s >= Retention, s <= t
  PROVE  LastStoreDay(s) \in Nat /\ LastStoreDay(t) \in Nat /\ LastStoreDay(s) <= LastStoreDay(t)
<1>1. t >= Retention /\ Retention \in Nat
  BY DayOfFacts
<1>2. /\ DayOf(s) \in Nat /\ DayOf(t) \in Nat /\ DayOf(s) <= DayOf(t)
      /\ LastStoreDay(s) = DayOf(s) - Days + 1 /\ LastStoreDay(t) = DayOf(t) - Days + 1
      /\ LastStoreDay(s) \in Nat /\ LastStoreDay(t) \in Nat
  BY <1>1, DayOfFacts
<1> QED BY <1>2, UrlsDaysAssumption

LEMMA CoversLater ==
  ASSUME NEW a, NEW b, IsMap(a), IsMap(b), NEW s \in Nat, NEW t \in Nat,
         s >= Retention, s <= t, Covers(a, b, s)
  PROVE  Covers(a, b, t)
<1>1. LastStoreDay(s) \in Nat /\ LastStoreDay(t) \in Nat /\ LastStoreDay(s) <= LastStoreDay(t)
  BY LastStoreDayLater
<1>2. \A d \in Nat : d >= LastStoreDay(t) => d >= LastStoreDay(s)
  BY <1>1
<1> QED BY <1>2, CoversDays

LEMMA TickStep ==
  ASSUME IInv, Tick
  PROVE  IInv'
<1> USE DEF Tick, mergeVars, snapVars
<1> DEFINE t == now + 1
<1>1. /\ now \in Nat /\ now >= Retention /\ t \in Nat /\ now <= t /\ t >= Retention
      /\ \A m \in Maps : IsMap(m) /\ InWindows(m, ahead, now)
      /\ Retention \in Nat
  BY Unfold, DayOfFacts
<1>2. \A m \in Maps : InWindows(m, ahead, t)
  BY <1>1, WindowsLater
<1>3. now' = t /\ UNCHANGED <<q, mergePc, upd, mem, snap, toPut, disk, saved, ahead, written, saves, restarts>>
  OBVIOUS
<1> HIDE DEF t, Tick
<1>4. TypeOK'
  BY <1>1, <1>3 DEF IInv, TypeOK
<1>5. \A rec \in DOMAIN q : DayOf(rec.tp) <= DayOf(t) \/ DayOf(rec.tp) \in ahead[rec.url]
  <2>1. DayOf(now) \in Nat /\ DayOf(t) \in Nat /\ DayOf(now) <= DayOf(t)
    BY <1>1, DayOfFacts
  <2>2. ASSUME NEW rec \in DOMAIN q
        PROVE  /\ DayOf(rec.tp) \in Nat
               /\ DayOf(rec.tp) <= DayOf(now) \/ DayOf(rec.tp) \in ahead[rec.url]
    BY DayOfFacts DEF IInv, TypeOK, DaysInv, Record
  <2> QED BY <2>1, <2>2
<1>6. DaysInv'
  BY <1>2, <1>3, <1>5 DEF DaysInv, InWindows, Maps
<1>7. Covers(disk, written, t) /\ Covers(mem, written, t)
  BY <1>1, CoversLater DEF IInv, CoverInv, Maps
<1>8. toPut # {} => Covers(snap, written, t) /\ Covers(mem, snap, t)
  BY <1>1, CoversLater DEF IInv, CoverInv, Maps
<1>9. CoverInv'
  BY <1>3, <1>7, <1>8 DEF IInv, CoverInv
<1> QED BY <1>4, <1>6, <1>9 DEF IInv

LEMMA IdleStep ==
  ASSUME IInv, StartMerge \/ EndDrain \/ UNCHANGED vars
  PROVE  IInv'
<1>1. UNCHANGED <<q, upd, mem, snap, toPut, disk, now, saved, ahead, written, saves, restarts>>
  BY DEF StartMerge, EndDrain, vars, mergeVars, snapVars
<1>2. mergePc' \in {"sleep", "drain", "merge"} /\ (mergePc' = "sleep" => upd = NoUrls)
  BY DEF StartMerge, EndDrain, vars, mergeVars, IInv, TypeOK
<1>3. TypeOK'
  BY <1>1, <1>2 DEF IInv, TypeOK
<1>4. DaysInv'
  BY <1>1 DEF IInv, DaysInv
<1>5. CoverInv'
  BY <1>1 DEF IInv, CoverInv, Covers
<1> QED BY <1>3, <1>4, <1>5 DEF IInv

LEMMA NextIInv == IInv /\ [Next]_vars => IInv'
<1> SUFFICES ASSUME IInv, [Next]_vars PROVE IInv'
  OBVIOUS
<1>1. ASSUME NEW u \in Url, NEW age \in Age, NEW cnt \in Pack, SaveVisitsPack(u, age, cnt)
      PROVE  IInv'
  BY <1>1, SaveStep
<1>2. ASSUME NEW rec \in BagToSet(q), Dequeue(rec) PROVE IInv'
  BY <1>2, DequeueStep
<1>3. ASSUME NEW u \in toPut, Put(u) PROVE IInv'
  BY <1>3, PutStep
<1>4. CASE StartMerge \/ EndDrain \/ UNCHANGED vars
  BY <1>4, IdleStep
<1>5. CASE SwitchGlobal
  BY <1>5, SwitchStep
<1>6. CASE StartSnapshot
  BY <1>6, StartSnapshotStep
<1>7. CASE Restart
  BY <1>7, RestartStep
<1>8. CASE Tick
  BY <1>8, TickStep
<1> QED BY <1>1, <1>2, <1>3, <1>4, <1>5, <1>6, <1>7, <1>8 DEF Next

LEMMA Inductive == Spec => []IInv
BY InitIInv, NextIInv, PTL DEF Spec

-----------------------------------------------------------------------------
(* The queue, the maps and the leveldb keep their types, whatever is read, *)
(* merged, written and loaded: above all no day is ever left with no       *)
(* visits.  (UrlsDays.h:45-127)                                            *)
THEOREM TypeCorrect == Spec => []TypeOK
<1>1. IInv => TypeOK
  BY DEF IInv
<1> QED BY <1>1, Inductive, PTL

(* No URL ever has visits of more than DAYS days and those visited ahead   *)
(* of time, for any timestamps, any number of days and however long a      *)
(* merge or a restart is put off.  (UrlsDays.h:80-127)                     *)
THEOREM DaysAreBounded == Spec => []DaysBounded
<1>1. IInv => DaysBounded
  <2> SUFFICES ASSUME IInv, NEW u \in DOMAIN mem
               PROVE  Cardinality(DOMAIN mem[u].days \ ahead[u]) <= Days
    BY DEF DaysBounded
  <2>1. PICK first \in 0 .. DayOf(now) :
          DOMAIN mem[u].days \ ahead[u] \subseteq first .. first + Days - 1
    BY DEF IInv, DaysInv, InWindow
  <2> DEFINE last == first + Days - 1
             window == first .. last
  <2>2. first \in Int /\ last \in Int /\ first <= last /\ last - first + 1 = Days
    BY UrlsDaysAssumption
  <2>3. IsFiniteSet(window) /\ Cardinality(window) = Days
    <3> HIDE DEF last
    <3>1. /\ IsFiniteSet(window)
          /\ Cardinality(window) = IF first > last THEN 0 ELSE last - first + 1
      BY <2>2, FS_Interval
    <3>2. ~(first > last)
      BY <2>2
    <3> QED BY <2>2, <3>1, <3>2
  <2> QED BY <2>1, <2>3, FS_Subset, FS_CardinalityType, UrlsDaysAssumption
<1> QED BY <1>1, Inductive, PTL

(* A snapshot written to its end is not undone by what comes after it,     *)
(* but for days that are over: not by one that fails half-way, nor by a    *)
(* restart.  (UrlsDaysDbSnap.cpp:15-53)                                    *)
THEOREM SnapshotsCover == Spec => []SnapshotCovers
<1>1. IInv => SnapshotCovers
  BY DEF IInv, CoverInv, SnapshotCovers
<1> QED BY <1>1, Inductive, PTL

-----------------------------------------------------------------------------
(***************************************************************************)
(* Visits on their way.                                                    *)
(***************************************************************************)
\* The queue b is the queue a and one record more.
OneMore(a, b, rec) ==
  /\ DOMAIN b = DOMAIN a \cup {rec}
  /\ b[rec] = (IF rec \in DOMAIN a THEN a[rec] ELSE 0) + 1
  /\ \A r \in DOMAIN a : r # rec => b[r] = a[r]

IsQueue(a) == \A rec \in DOMAIN a : rec \in Record /\ a[rec] \in Nat \ {0}

LEMMA TimesOneMore ==
  ASSUME NEW n \in Nat, NEW c \in Nat
  PROVE  n * c \in Nat /\ (n + 1) * c = n * c + c
OBVIOUS

LEMMA VisitsInIs ==
  ASSUME NEW a, NEW v
  PROVE  v \in VisitsIn(a) <=>
           \E rec \in DOMAIN a : \E i \in 1 .. a[rec] * rec.cnt : v = <<rec, i>>
BY DEF VisitsIn, BagToSet

\* The visits of one record more.
LEMMA OneMoreVisits ==
  ASSUME NEW a, NEW b, NEW rec \in Record, IsQueue(a), OneMore(a, b, rec)
  PROVE  \E n \in Nat :
           /\ VisitsIn(b) = VisitsIn(a) \cup ({rec} \X (n + 1 .. n + rec.cnt))
           /\ VisitsIn(a) \cap ({rec} \X (n + 1 .. n + rec.cnt)) = {}
<1> DEFINE k == IF rec \in DOMAIN a THEN a[rec] ELSE 0
           c == rec.cnt
           n == k * c
           more == {rec} \X (n + 1 .. n + c)
<1>1. k \in Nat /\ c \in Nat
  BY UrlsDaysAssumption DEF IsQueue, Record
<1>2. /\ DOMAIN b = DOMAIN a \cup {rec} /\ b[rec] = k + 1
      /\ \A r \in DOMAIN a : r # rec => b[r] = a[r]
  BY DEF OneMore
<1>3. rec \in DOMAIN a => a[rec] * c = n
  OBVIOUS
<1>4. rec \notin DOMAIN a => k = 0
  OBVIOUS
<1> HIDE DEF k
<1>5. n \in Nat /\ b[rec] * c = n + c
  BY <1>1, <1>2, TimesOneMore
<1>6. rec \notin DOMAIN a => n = 0
  BY <1>1, <1>4
<1> HIDE DEF n
<1>7. ASSUME NEW v \in VisitsIn(b)
      PROVE  v \in VisitsIn(a) \cup more
  <2>0. PICK r \in DOMAIN b : \E i \in 1 .. b[r] * r.cnt : v = <<r, i>>
    BY VisitsInIs
  <2>1. PICK i \in 1 .. b[r] * r.cnt : v = <<r, i>>
    BY <2>0
  <2>2. CASE r # rec
    BY <1>2, <2>1, <2>2, VisitsInIs
  <2>3. CASE r = rec
    <3>1. i \in 1 .. n + c
      BY <1>5, <2>1, <2>3
    <3>2. CASE i <= n
      <4>1. rec \in DOMAIN a /\ i \in 1 .. n
        BY <1>1, <1>5, <1>6, <3>1, <3>2
      <4>2. i \in 1 .. a[rec] * rec.cnt
        BY <1>3, <4>1
      <4> QED BY <2>1, <2>3, <4>1, <4>2, VisitsInIs
    <3>3. CASE i > n
      <4>1. i \in n + 1 .. n + c
        BY <1>1, <1>5, <3>1, <3>3
      <4> HIDE DEF c
      <4> QED BY <2>1, <2>3, <4>1
    <3> QED BY <1>5, <3>1, <3>2, <3>3
  <2> QED BY <2>2, <2>3
<1>8. ASSUME NEW v \in VisitsIn(a)
      PROVE  v \in VisitsIn(b) /\ v \notin more
  <2>0. PICK r \in DOMAIN a : \E i \in 1 .. a[r] * r.cnt : v = <<r, i>>
    BY VisitsInIs
  <2>1. PICK i \in 1 .. a[r] * r.cnt : v = <<r, i>>
    BY <2>0
  <2>2. CASE r # rec
    <3>1. r \in DOMAIN b /\ i \in 1 .. b[r] * r.cnt
      BY <1>2, <2>1, <2>2
    <3> QED BY <2>1, <2>2, <3>1, VisitsInIs
  <2>3. CASE r = rec
    <3>1. i \in 1 .. n
      BY <1>3, <2>1, <2>3
    <3>2. i \in 1 .. n + c /\ i \notin n + 1 .. n + c
      BY <1>1, <1>5, <3>1
    <3>3. rec \in DOMAIN b /\ i \in 1 .. b[rec] * rec.cnt
      BY <1>2, <1>5, <3>2
    <3> HIDE DEF c
    <3> QED BY <2>1, <2>3, <3>2, <3>3, VisitsInIs
  <2> QED BY <2>2, <2>3
<1>9. ASSUME NEW v \in more
      PROVE  v \in VisitsIn(b)
  <2>1. PICK i \in n + 1 .. n + c : v = <<rec, i>>
    OBVIOUS
  <2>2. i \in 1 .. n + c
    BY <1>1, <1>5
  <2>3. rec \in DOMAIN b /\ i \in 1 .. b[rec] * rec.cnt
    BY <1>2, <1>5, <2>2
  <2> QED BY <2>1, <2>3, VisitsInIs
<1> HIDE DEF more
<1>10. VisitsIn(b) = VisitsIn(a) \cup more /\ VisitsIn(a) \cap more = {}
  BY <1>7, <1>8, <1>9
<1> QED BY <1>5, <1>10 DEF more, c

LEMMA OneMoreQueued ==
  ASSUME NEW a, NEW b, NEW rec \in Record, IsQueue(a), OneMore(a, b, rec),
         IsFiniteSet(VisitsIn(a)) \/ IsFiniteSet(VisitsIn(b)), NEW u, NEW d
  PROVE  /\ IsFiniteSet(VisitsIn(a)) /\ IsFiniteSet(VisitsIn(b))
         /\ Cardinality(VisitsOf(a, u, d)) \in Nat
         /\ Cardinality(VisitsOf(b, u, d)) =
              Cardinality(VisitsOf(a, u, d))
              + IF rec.url = u /\ DayOf(rec.tp) = d THEN rec.cnt ELSE 0
<1> DEFINE c == rec.cnt
<1>1. PICK n \in Nat : /\ VisitsIn(b) = VisitsIn(a) \cup ({rec} \X (n + 1 .. n + c))
                       /\ VisitsIn(a) \cap ({rec} \X (n + 1 .. n + c)) = {}
  BY OneMoreVisits
<1> DEFINE more == {rec} \X (n + 1 .. n + c)
<1>2. c \in Nat
  BY UrlsDaysAssumption DEF Record
<1>3. IsFiniteSet(more) /\ Cardinality(more) = c
  <2> DEFINE ids == n + 1 .. n + c
  <2>1. IsFiniteSet(ids) /\ Cardinality(ids) = c
    <3>1. n + 1 \in Int /\ n + c \in Int
      BY <1>2
    <3>2. IsFiniteSet(ids) /\ Cardinality(ids) = IF n + 1 > n + c THEN 0 ELSE (n + c) - (n + 1) + 1
      BY <3>1, FS_Interval
    <3> HIDE DEF ids
    <3> QED BY <1>2, <3>2
  <2>2. IsFiniteSet({rec}) /\ Cardinality({rec}) = 1
    BY FS_Singleton
  <2> HIDE DEF ids
  <2>3. IsFiniteSet({rec} \X ids) /\ Cardinality({rec} \X ids) = 1 * Cardinality(ids)
    BY <2>1, <2>2, FS_Product
  <2> QED BY <1>2, <2>1, <2>3 DEF ids
<1>4. VisitsIn(b) = VisitsIn(a) \cup more /\ VisitsIn(a) \cap more = {}
  BY <1>1
<1>5. \A v \in more : v[1] = rec
  OBVIOUS
<1> HIDE DEF more, c
<1>6. IsFiniteSet(VisitsIn(a)) /\ IsFiniteSet(VisitsIn(b))
  <2>1. CASE IsFiniteSet(VisitsIn(a))
    BY <1>3, <1>4, <2>1, FS_Union
  <2>2. CASE IsFiniteSet(VisitsIn(b))
    BY <1>4, <2>2, FS_Subset
  <2> QED BY <2>1, <2>2
<1> DEFINE A == VisitsOf(a, u, d)
           B == VisitsOf(b, u, d)
<1>7. A \subseteq VisitsIn(a)
  BY DEF VisitsOf
<1>8. /\ rec.url = u /\ DayOf(rec.tp) = d => B = A \cup more /\ A \cap more = {}
      /\ ~(rec.url = u /\ DayOf(rec.tp) = d) => B = A
  BY <1>4, <1>5 DEF VisitsOf
<1> HIDE DEF A, B
<1>9. IsFiniteSet(A) /\ Cardinality(A) \in Nat
  BY <1>6, <1>7, FS_Subset, FS_CardinalityType
<1>10. CASE rec.url = u /\ DayOf(rec.tp) = d
  <2>1. Cardinality(B) = Cardinality(A) + Cardinality(more) - Cardinality(A \cap more)
    BY <1>3, <1>8, <1>9, <1>10, FS_Union
  <2>2. Cardinality(A \cap more) = 0
    BY <1>8, <1>10, FS_EmptySet
  <2>3. Cardinality(B) = Cardinality(A) + c
    BY <1>2, <1>3, <1>9, <2>1, <2>2
  <2> QED BY <1>6, <1>9, <1>10, <2>3 DEF A, B, c
<1>11. CASE ~(rec.url = u /\ DayOf(rec.tp) = d)
  BY <1>6, <1>8, <1>9, <1>11 DEF A, B
<1> QED BY <1>10, <1>11

\* The merge thread takes a record of a day that is kept whole, and adds it to its day.
LEMMA AddPackVisits ==
  ASSUME NEW m, IsMap(m), NEW rec \in Record, NEW t \in Nat, t >= Retention,
         NEW over, InWindows(m, over, t), NEW u \in Url, NEW d \in Nat, d > LastStoreDay(t)
  PROVE  Visits(AddPack(m, rec, t), u, d) =
           Visits(m, u, d) + IF rec.url = u /\ DayOf(rec.tp) = d THEN rec.cnt ELSE 0
<1>1. rec.url \in Url /\ rec.tp \in Nat /\ rec.cnt \in Nat \ {0}
  BY UrlsDaysAssumption DEF Record
<1>2. Visits(m, u, d) \in Nat
  BY VisitsNat
<1>3. LastStoreDay(t) \in Nat /\ Retention \in Nat
  BY DayOfFacts
<1>4. CASE t - rec.tp > Retention
  <2> DEFINE s == t - Retention
  <2>1. s \in Nat /\ rec.tp <= s /\ LastStoreDay(t) = DayOf(s)
    BY <1>1, <1>3, <1>4 DEF LastStoreDay
  <2> HIDE DEF s
  <2>2. DayOf(rec.tp) <= LastStoreDay(t) /\ DayOf(rec.tp) \in Nat
    BY <1>1, <2>1, DayOfFacts
  <2>3. DayOf(rec.tp) # d
    BY <1>3, <2>2
  <2>4. AddPack(m, rec, t) = m
    BY <1>4 DEF AddPack
  <2> QED BY <1>2, <2>3, <2>4
<1>5. CASE ~(t - rec.tp > Retention)
  <2> DEFINE x == rec.url
             e == EntryOf(m, x, x)
             pack == [day \in {DayOf(rec.tp)} |-> rec.cnt]
             days == e.days (+) pack
             clean == CheckClean(days, t)
             f == [e EXCEPT !.days = clean]
             p == AddPack(m, rec, t)
  <2>1. IsUrlDays(e) /\ IsDays(e.days) /\ On(e.days, d) = Visits(m, x, d)
    BY <1>1, EntryFacts
  <2>2. IsDays(pack) /\ On(pack, d) = IF DayOf(rec.tp) = d THEN rec.cnt ELSE 0
    <3>1. DayOf(rec.tp) \in Nat
      BY <1>1, DayOfFacts
    <3> QED BY <1>1, <3>1 DEF IsDays, On
  <2>3. p = PutAt(m, x, f)
    BY <1>5 DEF AddPack
  <2> HIDE DEF pack, p
  <2>4. IsDays(days) /\ On(days, d) = On(e.days, d) + On(pack, d)
    BY <2>1, <2>2, PlusDays
  <2> HIDE DEF days
  <2>5. IsDays(clean) /\ On(clean, d) = On(days, d)
    <3>1. d >= LastStoreDay(t)
      BY <1>3
    <3> QED BY <2>4, <3>1, CleanDays
  <2> HIDE DEF clean, e
  <2>6. f.days = clean
    BY <2>1, <2>5, ChangeDays
  <2> HIDE DEF f
  <2>7. /\ DOMAIN p = DOMAIN m \cup {x} /\ p[x] = f
        /\ \A v \in DOMAIN m : v # x => p[v] = m[v]
    BY <2>3 DEF PutAt
  <2>8. CASE x = u
    <3>1. Visits(p, u, d) = On(clean, d)
      BY <2>6, <2>7, <2>8 DEF Visits, EntryOf
    <3> QED BY <2>1, <2>2, <2>4, <2>5, <2>8, <3>1 DEF p
  <2>9. CASE x # u
    <3>1. Visits(p, u, d) = Visits(m, u, d)
      BY <2>7, <2>9 DEF Visits, EntryOf
    <3> QED BY <1>2, <2>9, <3>1 DEF p
  <2> QED BY <2>8, <2>9
<1> QED BY <1>4, <1>5

LEMMA QueueType == IInv => IsQueue(q)
BY DEF IInv, TypeOK, IsQueue

LEMMA InitConserved == Init => ConservedInv
<1> SUFFICES ASSUME Init PROVE ConservedInv
  OBVIOUS
<1>1. DOMAIN q = {}
  BY NoDays DEF Init
<1>2. VisitsIn(q) = {}
  BY <1>1, VisitsInIs
<1>3. IsFiniteSet(VisitsIn(q))
  BY <1>2, FS_EmptySet
<1>4. ASSUME NEW u \in Url, NEW d
      PROVE  Queued(u, d) + Visits(upd, u, d) + Visits(mem, u, d) = On(saved[u], d)
  <2>1. Queued(u, d) = 0
    <3>1. VisitsOf(q, u, d) = {}
      BY <1>2 DEF VisitsOf
    <3> QED BY <3>1, FS_EmptySet DEF Queued
  <2>2. Visits(upd, u, d) = 0 /\ Visits(mem, u, d) = 0
    BY NoUrlsFacts DEF Init
  <2>3. On(saved[u], d) = 0
    BY NoDays DEF Init, On
  <2> QED BY <2>1, <2>2, <2>3
<1> QED BY <1>3, <1>4 DEF ConservedInv, Conserved

LEMMA SaveConserved ==
  ASSUME IInv, ConservedInv, NEW u \in Url, NEW age \in Age, NEW cnt \in Pack,
         SaveVisitsPack(u, age, cnt)
  PROVE  ConservedInv'
<1> DEFINE tp == now - age
           rec == [url |-> u, tp |-> tp, cnt |-> cnt]
           pack == [d \in {DayOf(tp)} |-> cnt]
<1>1. /\ q' = q (+) SetToBag({rec}) /\ saved' = [saved EXCEPT ![u] = @ (+) pack]
      /\ UNCHANGED <<upd, mem, now>> /\ age <= now
  BY DEF SaveVisitsPack
<1>2. now \in Nat /\ tp \in Nat /\ cnt \in Nat \ {0}
  BY <1>1, Unfold, UrlsDaysAssumption
<1>3. DayOf(tp) \in Nat
  BY <1>2, DayOfFacts
<1>4. rec \in Record /\ rec.url = u /\ rec.tp = tp /\ rec.cnt = cnt
  BY <1>2 DEF Record
<1>5. IsDays(pack) /\ DOMAIN pack = {DayOf(tp)}
      /\ \A d : On(pack, d) = IF DayOf(tp) = d THEN cnt ELSE 0
  BY <1>2, <1>3 DEF IsDays, On
<1> HIDE DEF tp, rec, pack
<1>6. OneMore(q, q', rec)
  BY <1>1, QueueType DEF OneMore, (+), SetToBag, IsQueue
<1>7. IsFiniteSet(VisitsIn(q))
  BY DEF ConservedInv
<1>8. /\ IsFiniteSet(VisitsIn(q'))
      /\ \A x, d : /\ Cardinality(VisitsOf(q, x, d)) \in Nat
                   /\ Cardinality(VisitsOf(q', x, d)) =
                        Cardinality(VisitsOf(q, x, d))
                        + IF rec.url = x /\ DayOf(rec.tp) = d THEN rec.cnt ELSE 0
  BY <1>4, <1>6, <1>7, QueueType, OneMoreQueued
<1>9. \A x \in Url : IsDays(saved[x]) /\ DOMAIN saved = Url
  BY UrlDaysFacts DEF IInv, TypeOK
<1>10. ASSUME NEW x \in Url
       PROVE  \A d : On(saved'[x], d) = On(saved[x], d) + IF x = u THEN On(pack, d) ELSE 0
  <2>2. CASE x = u
    <3>1. saved'[x] = saved[x] (+) pack
      BY <1>1, <1>9, <2>2
    <3>2. \A d : On(saved[x] (+) pack, d) = On(saved[x], d) + On(pack, d)
      BY <1>5, <1>9, PlusDays
    <3> QED BY <2>2, <3>1, <3>2
  <2>3. CASE x # u
    <3>1. saved'[x] = saved[x]
      BY <1>1, <1>9, <2>3
    <3>2. \A d : On(saved[x], d) \in Nat
      BY <1>9, OnNat
    <3> QED BY <2>3, <3>1, <3>2
  <2> QED BY <2>2, <2>3
<1>11. ASSUME NEW x \in Url, NEW d \in Nat, d > LastStoreDay(now)
       PROVE  Queued(x, d)' + Visits(upd, x, d) + Visits(mem, x, d) = On(saved'[x], d)
  <2>1. Queued(x, d) + Visits(upd, x, d) + Visits(mem, x, d) = On(saved[x], d)
    BY <1>11 DEF ConservedInv, Conserved
  <2>2. Queued(x, d)' = Queued(x, d) + IF u = x /\ DayOf(tp) = d THEN cnt ELSE 0
    BY <1>4, <1>8 DEF Queued
  <2>3. Queued(x, d) \in Nat /\ Visits(upd, x, d) \in Nat /\ Visits(mem, x, d) \in Nat
    BY <1>8, Unfold, VisitsNat DEF Queued, Maps
  <2>4. On(saved'[x], d) = On(saved[x], d) + IF u = x /\ DayOf(tp) = d THEN cnt ELSE 0
    BY <1>5, <1>10
  <2>5. cnt \in Nat
    BY <1>2
  <2> QED BY <2>1, <2>2, <2>3, <2>4, <2>5
<1> QED
  BY <1>1, <1>8, <1>10, <1>11 DEF ConservedInv, Conserved, Visits

LEMMA DequeueConserved ==
  ASSUME IInv, ConservedInv, NEW rec \in BagToSet(q), Dequeue(rec)
  PROVE  ConservedInv'
<1>1. /\ q' = q (-) SetToBag({rec}) /\ upd' = AddPack(upd, rec, now)
      /\ UNCHANGED <<mem, now, saved>>
  BY DEF Dequeue
<1>2. /\ rec \in DOMAIN q /\ rec \in Record /\ rec.cnt \in Nat
      /\ IsMap(upd) /\ InWindows(upd, ahead, now) /\ IsMap(mem) /\ now \in Nat /\ now >= Retention
  BY Unfold, UrlsDaysAssumption DEF IInv, TypeOK, DaysInv, Maps, BagToSet, Record
<1>3. /\ \A r \in DOMAIN q' : r \in DOMAIN q /\ q'[r] = q[r] - (IF r = rec THEN 1 ELSE 0)
      /\ \A r \in DOMAIN q : r # rec => r \in DOMAIN q'
      /\ q[rec] # 1 => rec \in DOMAIN q'
      /\ rec \in DOMAIN q' => q'[rec] > 0
  BY <1>1, <1>2, QueueType DEF (-), SetToBag, IsQueue
<1>4. IsQueue(q') /\ OneMore(q', q, rec)
  <2>1. IsQueue(q')
    BY <1>3, QueueType DEF IsQueue
  <2>2. DOMAIN q = DOMAIN q' \cup {rec}
    BY <1>2, <1>3
  <2>3. q[rec] \in Nat \ {0}
    BY <1>2, QueueType DEF IsQueue
  <2>4. q[rec] = (IF rec \in DOMAIN q' THEN q'[rec] ELSE 0) + 1
    BY <1>3, <2>3
  <2>5. \A r \in DOMAIN q' : r # rec => q[r] = q'[r]
    BY <1>3, QueueType DEF IsQueue
  <2> QED BY <2>1, <2>2, <2>4, <2>5 DEF OneMore
<1>5. IsFiniteSet(VisitsIn(q))
  BY DEF ConservedInv
<1>6. /\ IsFiniteSet(VisitsIn(q'))
      /\ \A x, d : /\ Cardinality(VisitsOf(q', x, d)) \in Nat
                   /\ Cardinality(VisitsOf(q, x, d)) =
                        Cardinality(VisitsOf(q', x, d))
                        + IF rec.url = x /\ DayOf(rec.tp) = d THEN rec.cnt ELSE 0
  BY <1>2, <1>4, <1>5, OneMoreQueued
<1>7. ASSUME NEW x \in Url, NEW d \in Nat, d > LastStoreDay(now)
      PROVE  Queued(x, d)' + Visits(upd', x, d) + Visits(mem, x, d) = On(saved[x], d)
  <2>1. Queued(x, d) + Visits(upd, x, d) + Visits(mem, x, d) = On(saved[x], d)
    BY <1>7 DEF ConservedInv, Conserved
  <2>3. Visits(upd', x, d) =
          Visits(upd, x, d) + IF rec.url = x /\ DayOf(rec.tp) = d THEN rec.cnt ELSE 0
    BY <1>1, <1>2, <1>7, AddPackVisits
  <2>4. /\ Queued(x, d) =
             Queued(x, d)' + IF rec.url = x /\ DayOf(rec.tp) = d THEN rec.cnt ELSE 0
        /\ Queued(x, d)' \in Nat
    BY <1>6 DEF Queued
  <2>5. Visits(upd, x, d) \in Nat /\ Visits(mem, x, d) \in Nat
    BY <1>2, VisitsNat
  <2> QED BY <1>2, <2>1, <2>3, <2>4, <2>5
<1> QED
  BY <1>1, <1>6, <1>7 DEF ConservedInv, Conserved, Visits

LEMMA SwitchConserved ==
  ASSUME IInv, ConservedInv, SwitchGlobal
  PROVE  ConservedInv'
<1>1. mem' = Merge(mem, upd, now) /\ upd' = NoUrls /\ UNCHANGED <<q, now, saved>>
  BY DEF SwitchGlobal
<1>2. /\ IsMap(upd) /\ InWindows(upd, ahead, now) /\ IsMap(mem) /\ InWindows(mem, ahead, now)
      /\ now \in Nat /\ now >= Retention
  BY Unfold DEF Maps
<1>3. ASSUME NEW x \in Url, NEW d \in Nat, d > LastStoreDay(now)
      PROVE  Queued(x, d) + Visits(upd', x, d) + Visits(mem', x, d) = On(saved[x], d)
  <2>1. Queued(x, d) + Visits(upd, x, d) + Visits(mem, x, d) = On(saved[x], d)
    BY <1>3 DEF ConservedInv, Conserved
  <2>2. d >= LastStoreDay(now)
    BY <1>3, Unfold
  <2>3. Visits(mem', x, d) = Visits(mem, x, d) + Visits(upd, x, d)
    BY <1>1, <1>2, <2>2, MergeFacts
  <2>4. Visits(upd', x, d) = 0
    BY <1>1, NoUrlsFacts
  <2>5. Visits(upd, x, d) \in Nat /\ Visits(mem, x, d) \in Nat
    BY <1>2, VisitsNat
  <2>6. Queued(x, d) \in Nat
    <3>1. IsFiniteSet(VisitsOf(q, x, d))
      <4>1. VisitsOf(q, x, d) \subseteq VisitsIn(q)
        BY DEF VisitsOf
      <4> QED BY <4>1, FS_Subset DEF ConservedInv
    <3> QED BY <3>1, FS_CardinalityType DEF Queued
  <2> QED BY <2>1, <2>3, <2>4, <2>5, <2>6
<1>4. \A x \in Url : \A d : (Queued(x, d))' = Queued(x, d)
  BY <1>1 DEF Queued, VisitsOf, VisitsIn
<1>5. VisitsIn(q') = VisitsIn(q)
  BY <1>1
<1> QED
  BY <1>1, <1>3, <1>4, <1>5 DEF ConservedInv, Conserved, Visits

LEMMA RestartConserved ==
  ASSUME IInv, ConservedInv, Restart
  PROVE  ConservedInv'
<1>1. /\ mem' = disk \/ mem' = NoUrls
      /\ q' = EmptyBag /\ upd' = NoUrls /\ now' = now
      /\ saved' = [u \in Url |-> EntryOf(mem', u, u).days]
  BY DEF Restart
<1>2. IsMap(mem') /\ InWindows(mem', ahead, now) /\ now \in Nat
  BY <1>1, Unfold, NoUrlsFacts DEF Maps
<1>3. VisitsIn(q') = {} /\ IsFiniteSet(VisitsIn(q'))
  <2>1. VisitsIn(q') = {}
    BY <1>1, NoDays, VisitsInIs
  <2> QED BY <2>1, FS_EmptySet
<1>4. ASSUME NEW x \in Url, NEW d
      PROVE  (Queued(x, d))' + Visits(upd', x, d) + Visits(mem', x, d) = On(saved'[x], d)
  <2>1. (Queued(x, d))' = 0
    <3>1. VisitsOf(q', x, d) = {}
      BY <1>3 DEF VisitsOf
    <3> QED BY <3>1, FS_EmptySet DEF Queued
  <2>2. Visits(upd', x, d) = 0
    BY <1>1, NoUrlsFacts
  <2>3. Visits(mem', x, d) \in Nat
    BY <1>2, VisitsNat
  <2>4. Visits(mem', x, d) = On(saved'[x], d)
    BY <1>1 DEF Visits
  <2> QED BY <2>1, <2>2, <2>3, <2>4
<1> QED
  BY <1>1, <1>3, <1>4 DEF ConservedInv, Conserved, Visits

LEMMA TickConserved ==
  ASSUME IInv, ConservedInv, Tick
  PROVE  ConservedInv'
<1> DEFINE t == now + 1
<1>1. now' = t /\ UNCHANGED <<q, upd, mem, saved>>
  BY DEF Tick, mergeVars
<1>2. now \in Nat /\ now >= Retention /\ t \in Nat /\ now <= t
  BY Unfold
<1> HIDE DEF t
<1>3. LastStoreDay(now) \in Nat /\ LastStoreDay(t) \in Nat /\ LastStoreDay(now) <= LastStoreDay(t)
  BY <1>2, LastStoreDayLater
<1>4. ASSUME NEW x \in Url, NEW d \in Nat, d > LastStoreDay(t)
      PROVE  Queued(x, d) + Visits(upd, x, d) + Visits(mem, x, d) = On(saved[x], d)
  <2>1. d > LastStoreDay(now)
    BY <1>3, <1>4
  <2> QED BY <2>1 DEF ConservedInv, Conserved
<1>5. VisitsIn(q') = VisitsIn(q) /\ \A x \in Url : \A d : (Queued(x, d))' = Queued(x, d)
  BY <1>1 DEF Queued, VisitsOf, VisitsIn
<1> QED
  BY <1>1, <1>4, <1>5 DEF ConservedInv, Conserved, Visits

(* No visit is lost or counted twice between the queue and the map, for    *)
(* any number of them, whatever the threads do, whenever the day turns and *)
(* however often the process restarts.                                     *)
(* (UrlsDays.h:67-127, UrlsDaysDb.cpp:73-104)                              *)
THEOREM VisitsAreConserved == Spec => []VisitsConserved
<1>1. IInv /\ ConservedInv /\ [Next]_vars => ConservedInv'
  <2> SUFFICES ASSUME IInv, ConservedInv, [Next]_vars PROVE ConservedInv'
    OBVIOUS
  <2>1. CASE UNCHANGED <<q, upd, mem, now, saved>>
    <3>1. VisitsIn(q') = VisitsIn(q) /\ \A x \in Url : \A d : (Queued(x, d))' = Queued(x, d)
      BY <2>1 DEF Queued, VisitsOf, VisitsIn
    <3> QED BY <2>1, <3>1 DEF ConservedInv, Conserved, Visits
  <2>2. ASSUME NEW u \in Url, NEW age \in Age, NEW cnt \in Pack, SaveVisitsPack(u, age, cnt)
        PROVE  ConservedInv'
    BY <2>2, SaveConserved
  <2>3. ASSUME NEW rec \in BagToSet(q), Dequeue(rec) PROVE ConservedInv'
    BY <2>3, DequeueConserved
  <2>4. CASE SwitchGlobal
    BY <2>4, SwitchConserved
  <2>5. CASE Restart
    BY <2>5, RestartConserved
  <2>6. CASE Tick
    BY <2>6, TickConserved
  <2>7. CASE StartMerge \/ EndDrain \/ StartSnapshot \/ (\E u \in toPut : Put(u)) \/ UNCHANGED vars
    BY <2>1, <2>7 DEF StartMerge, EndDrain, StartSnapshot, Put, mergeVars, vars
  <2> QED BY <2>2, <2>3, <2>4, <2>5, <2>6, <2>7 DEF Next
<1>2. IInv /\ ConservedInv => VisitsConserved
  <2> SUFFICES ASSUME IInv, ConservedInv, NEW u \in Url,
                      NEW d \in DOMAIN saved[u] \cup DOMAIN EntryOf(mem, u, u).days,
                      d > LastStoreDay(now)
               PROVE  Conserved(u, d)
    BY DEF VisitsConserved
  <2>1. IsDays(saved[u]) /\ IsDays(EntryOf(mem, u, u).days)
    BY UrlDaysFacts, Unfold, EntryDays DEF IInv, TypeOK, Maps
  <2>2. d \in Nat
    BY <2>1 DEF IsDays
  <2> QED BY <2>2 DEF ConservedInv
<1> QED
  BY <1>1, <1>2, InitConserved, Inductive, PTL DEF Spec
=============================================================================
