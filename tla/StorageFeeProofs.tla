-------------------------- MODULE StorageFeeProofs --------------------------
(***************************************************************************)
(* Proofs about the arithmetic of storage fees, for every day length,      *)
(* every table of bands and every stay.                                    *)
(***************************************************************************)
EXTENDS StorageFee, TLAPS, FiniteSetTheorems

-----------------------------------------------------------------------------
(* Induction.  A property to be proved of every number is a set of numbers. *)

\* Every nonempty set of naturals has a least element.
LEMMA LeastNatural ==
    ASSUME NEW S \in SUBSET Nat, S # {}
    PROVE  \E m \in S : \A n \in S : m <= n
<1> DEFINE R == OpToRel(<, Nat)
<1>1. R = {ss \in Nat \X Nat : ss[1] < ss[2]}
  BY DEF OpToRel
<1>2. IsWellFoundedOn(R, Nat)
  BY NatLessThanWellFounded
<1> HIDE DEF R
<1>3. PICK m \in S : \A n \in S : <<n, m>> \notin R
  BY <1>2, WFMin
<1>4. ASSUME NEW n \in S
      PROVE  m <= n
  <2>1. <<n, m>> \in Nat \X Nat /\ <<n, m>>[1] = n /\ <<n, m>>[2] = m
    OBVIOUS
  <2> QED BY <1>1, <1>3, <2>1
<1> QED BY <1>4

\* A set with 0 and with the successor of each of its members has every number.
LEMMA Induction ==
    ASSUME NEW S, 0 \in S, \A n \in Nat : n \in S => n + 1 \in S
    PROVE  \A n \in Nat : n \in S
<1> SUFFICES ASSUME Nat \ S # {} PROVE FALSE
  OBVIOUS
<1>1. PICK m \in Nat \ S : \A n \in Nat \ S : m <= n
  BY LeastNatural
<1>2. m # 0 /\ m - 1 \in Nat /\ m - 1 \notin Nat \ S
  BY <1>1
<1> QED BY <1>1, <1>2

\* Every nonempty set of naturals with a bound has a greatest element.
LEMMA GreatestNatural ==
    ASSUME NEW S \in SUBSET Nat, S # {}, NEW bound \in Nat, \A n \in S : n <= bound
    PROVE  \E m \in S : \A n \in S : n <= m
<1> DEFINE Bounds == {b \in Nat : \A n \in S : n <= b}
<1>1. PICK b \in Bounds : \A c \in Bounds : b <= c
  BY LeastNatural
<1>2. b \in S
  <2> SUFFICES ASSUME b \notin S PROVE FALSE
    OBVIOUS
  <2>1. \A n \in S : n <= b - 1
    BY <1>1
  <2>2. b # 0
    <3>1. PICK n \in S : TRUE
      OBVIOUS
    <3> QED BY <2>1, <3>1
  <2>3. b - 1 \in Bounds
    BY <1>1, <2>1, <2>2
  <2> QED BY <1>1, <2>3
<1> QED BY <1>1, <1>2

\* Multiplication, where the solvers need it spelled out.
LEMMA OneMoreTimes == \A m, n \in Int : (m + 1) * n = m * n + n
OBVIOUS

\* Multiplication by a natural keeps the order.
LEMMA TimesMonotone == \A m, n \in Int, k \in Nat : m <= n => m * k <= n * k
OBVIOUS

\* A quotient rounds down: the remainder is less than the divisor.
LEMMA DivisionFloors ==
    \A m \in Nat, n \in Nat \ {0} :
        m \div n \in Nat /\ (m \div n) * n <= m /\ m < (m \div n + 1) * n
OBVIOUS

\* The days a stay has started are the first so many days, and as many as are charged.
LEMMA StartedDaysAreCharged ==
    ASSUME NEW stay \in Nat
    PROVE  ChargeableDays(stay) \in Nat /\ StartedDays(stay) = 0 .. ChargeableDays(stay) - 1
<1>1. CASE stay = 0
  BY <1>1, FeeAssumption DEF ChargeableDays, StartedDays
<1>2. CASE stay > 0
  <2> DEFINE q == (stay + DAY - 1) \div DAY
  <2>1. ChargeableDays(stay) = q /\ stay + DAY - 1 \in Nat
    BY <1>2, FeeAssumption DEF ChargeableDays
  <2>2. q \in Nat /\ q * DAY <= stay + DAY - 1 /\ stay + DAY - 1 < (q + 1) * DAY
    BY <2>1, DivisionFloors, FeeAssumption
  <2> HIDE DEF q
  <2>3. ASSUME NEW d \in Nat
        PROVE  d * DAY < stay <=> d <= q - 1
    <3>1. CASE d <= q - 1
      <4>1. (d + 1) * DAY <= q * DAY
        BY <2>2, <3>1, TimesMonotone, FeeAssumption
      <4> QED BY <2>2, <3>1, <4>1, OneMoreTimes, FeeAssumption
    <3>2. CASE q <= d
      <4>1. q * DAY <= d * DAY
        BY <2>2, <3>2, TimesMonotone, FeeAssumption
      <4> QED BY <2>2, <3>2, <4>1, OneMoreTimes, FeeAssumption
    <3> QED BY <2>2, <3>1, <3>2
  <2>4. \A d \in Nat : d <= d * DAY
    <3> TAKE d \in Nat
    <3>1. 1 * d <= DAY * d
      BY TimesMonotone, FeeAssumption
    <3> QED BY <3>1, FeeAssumption
  <2>5. ASSUME NEW d PROVE d \in StartedDays(stay) <=> d \in 0 .. q - 1
    BY <2>2, <2>3, <2>4, FeeAssumption DEF StartedDays
  <2> QED BY <2>1, <2>2, <2>5
<1> QED BY <1>1, <1>2
-----------------------------------------------------------------------------
(* Sums.  The folds of the calculator and of its meaning are recursive       *)
(* functions on the subsets of a finite set, which remove an element of      *)
(* their choice in every step.                                               *)

\* total is the sum of f over the subsets of D, whatever the order.
IsSum(total, f, D) ==
    /\ f \in [D -> Nat]
    /\ total \in [SUBSET D -> Nat]
    /\ total[{}] = 0
    /\ \A s \in SUBSET D : \A x \in s : total[s] = f[x] + total[s \ {x}]

\* The recursion of a fold that adds up f, taking pick[s] from s.
IsFold(total, f, pick, D) ==
    total = [s \in SUBSET D |->
                IF s = {} THEN 0 ELSE f[pick[s]] + total[s \ {pick[s]}]]

\* A choice of an element of every nonempty subset.
IsPick(pick, D) == \A s \in SUBSET D : s # {} => pick[s] \in s

\* There is such a function: it is built up by the size of the subset.
LEMMA FoldExists ==
    ASSUME NEW D, IsFiniteSet(D), NEW f \in [D -> Nat], NEW pick, IsPick(pick, D)
    PROVE  \E total \in [SUBSET D -> Nat] : IsFold(total, f, pick, D)
<1> DEFINE Small(n) == {s \in SUBSET D : Cardinality(s) <= n}
           Step(g, s) == IF s = {} THEN 0 ELSE f[pick[s]] + g[s \ {pick[s]}]
           Has(n) == \E g \in [Small(n) -> Nat] : \A s \in Small(n) : g[s] = Step(g, s)
           Good == {n \in Nat : Has(n)}
<1>1. \A s \in SUBSET D : IsFiniteSet(s) /\ Cardinality(s) \in Nat /\ Cardinality(s) <= Cardinality(D)
  BY FS_Subset, FS_CardinalityType
<1>2. \A s \in SUBSET D : s # {} =>
        pick[s] \in s /\ f[pick[s]] \in Nat /\ Cardinality(s \ {pick[s]}) = Cardinality(s) - 1
  BY <1>1, FS_RemoveElement DEF IsPick
<1>3. 0 \in Good
  <2>1. Small(0) = {{}}
    BY <1>1, FS_EmptySet
  <2>2. [s \in Small(0) |-> 0] \in [Small(0) -> Nat]
    OBVIOUS
  <2> QED BY <2>1, <2>2
<1>4. ASSUME NEW n \in Nat, n \in Good
      PROVE  n + 1 \in Good
  <2>1. PICK g \in [Small(n) -> Nat] : \A s \in Small(n) : g[s] = Step(g, s)
    BY <1>4
  <2> DEFINE h == [s \in Small(n + 1) |-> Step(g, s)]
  <2>2. \A s \in Small(n + 1) : s # {} => s \ {pick[s]} \in Small(n)
    BY <1>1, <1>2
  <2>3. Small(n) \subseteq Small(n + 1)
    BY <1>1
  <2>4. \A s \in Small(n) : h[s] = g[s]
    BY <2>1, <2>3
  <2>5. h \in [Small(n + 1) -> Nat]
    BY <1>2, <2>1, <2>2
  <2>6. \A s \in Small(n + 1) : h[s] = Step(h, s)
    BY <2>2, <2>4
  <2> HIDE DEF h
  <2>7. Has(n + 1)
    BY <2>5, <2>6
  <2> HIDE DEF Has
  <2> QED BY <2>7
<1>5. Cardinality(D) \in Good
  <2> HIDE DEF Good
  <2> QED BY <1>3, <1>4, <1>1, Induction
<1>6. Small(Cardinality(D)) = SUBSET D
  BY <1>1
<1>7. PICK g \in [SUBSET D -> Nat] : \A s \in SUBSET D : g[s] = Step(g, s)
  BY <1>5, <1>6
<1> QED BY <1>7 DEF IsFold

\* The order of the additions is of no consequence.
LEMMA FoldIsSum ==
    ASSUME NEW D, IsFiniteSet(D), NEW f \in [D -> Nat], NEW pick, IsPick(pick, D),
           NEW total, IsFold(total, f, pick, D)
    PROVE  IsSum(total, f, D)
<1> DEFINE Free(s) == \A x \in s : total[s] \in Nat /\ total[s] = f[x] + total[s \ {x}]
           Good == {n \in Nat : \A s \in SUBSET D : Cardinality(s) <= n => total[s] \in Nat /\ Free(s)}
<1>1. \A s \in SUBSET D : IsFiniteSet(s) /\ Cardinality(s) \in Nat
  BY FS_Subset, FS_CardinalityType
<1>2. \A s \in SUBSET D : \A x \in s : Cardinality(s \ {x}) = Cardinality(s) - 1
  BY <1>1, FS_RemoveElement
<1>3. total[{}] = 0
  BY DEF IsFold
<1>4. 0 \in Good
  BY <1>1, <1>3, FS_EmptySet
<1>5. ASSUME NEW n \in Nat, n \in Good
      PROVE  n + 1 \in Good
  <2> SUFFICES ASSUME NEW s \in SUBSET D, Cardinality(s) <= n + 1
               PROVE  total[s] \in Nat /\ Free(s)
    OBVIOUS
  <2> HIDE DEF Free
  <2>0. CASE s = {}
    BY <1>3, <2>0 DEF Free
  <2> SUFFICES ASSUME s # {} PROVE total[s] \in Nat /\ Free(s)
    BY <2>0
  <2> DEFINE c == pick[s]
  <2>1. c \in s /\ total[s] = f[c] + total[s \ {c}]
    BY DEF IsFold, IsPick
  <2> HIDE DEF c
  <2>2. ASSUME NEW x \in s
        PROVE  total[s \ {x}] \in Nat /\ Free(s \ {x})
    <3>1. s \ {x} \in SUBSET D /\ Cardinality(s \ {x}) <= n
      BY <1>1, <1>2
    <3> QED BY <1>5, <3>1
  <2>3. ASSUME NEW x \in s, x # c
        PROVE  total[s] = f[x] + total[s \ {x}]
    <3>1. total[s \ {c}] = f[x] + total[(s \ {c}) \ {x}]
      BY <2>1, <2>2, <2>3 DEF Free
    <3>2. total[s \ {x}] = f[c] + total[(s \ {x}) \ {c}]
      BY <2>1, <2>2, <2>3 DEF Free
    <3>3. (s \ {c}) \ {x} = (s \ {x}) \ {c}
      OBVIOUS
    <3>4. total[(s \ {c}) \ {x}] \in Nat
      <4>1. Cardinality((s \ {c}) \ {x}) <= n
        BY <1>1, <1>2, <2>1, <2>3
      <4> QED BY <1>5, <4>1
    <3>5. f[x] \in Nat /\ f[c] \in Nat
      BY <2>1
    <3> DEFINE R == total[(s \ {c}) \ {x}]
    <3>6. total[s] = f[c] + (f[x] + R) /\ total[s \ {x}] = f[c] + R /\ R \in Nat
      BY <2>1, <3>1, <3>2, <3>3, <3>4
    <3> HIDE DEF R
    <3> QED BY <3>5, <3>6
  <2>4. total[s] \in Nat
    BY <2>1, <2>2
  <2> QED BY <2>1, <2>3, <2>4 DEF Free
<1>6. \A n \in Nat : n \in Good
  <2> HIDE DEF Good
  <2> QED BY <1>4, <1>5, Induction
<1>7. \A s \in SUBSET D : total[s] \in Nat /\ Free(s)
  BY <1>1, <1>6
<1>8. total = [s \in SUBSET D |-> total[s]]
  BY DEF IsFold
<1> QED BY <1>3, <1>7, <1>8 DEF IsSum

\* The rate of a day, as the meaning of a fee takes it.
DayRate(bands, d) == bands[CHOOSE i \in Pricing(bands, d) : TRUE].rate

\* The fee that is meant is the sum of the rates of the days.
LEMMA DayByDayIsSum ==
    ASSUME NEW bands, NEW stay, NEW D, D = StartedDays(stay), IsFiniteSet(D),
           \A d \in D : DayRate(bands, d) \in Nat
    PROVE  \E total : IsSum(total, [d \in D |-> DayRate(bands, d)], D) /\ DayByDay(bands, stay) = total[D]
<1> DEFINE f == [d \in D |-> DayRate(bands, d)]
           pick == [s \in SUBSET D |-> CHOOSE x \in s : TRUE]
           Is(g) == g = [s \in SUBSET D |->
                          IF s = {} THEN 0
                          ELSE LET x == CHOOSE x \in s : TRUE IN DayRate(bands, x) + g[s \ {x}]]
           iter == CHOOSE g : Is(g)
<1>1. f \in [D -> Nat] /\ IsPick(pick, D)
  BY DEF IsPick
<1>2. \A g : Is(g) <=> IsFold(g, f, pick, D)
  <2> TAKE g
  <2>1. ASSUME NEW s \in SUBSET D, s # {}
        PROVE  /\ pick[s] = (CHOOSE x \in s : TRUE) /\ pick[s] \in D
               /\ f[pick[s]] = DayRate(bands, CHOOSE x \in s : TRUE)
    BY <2>1
  <2>2. [s \in SUBSET D |-> IF s = {} THEN 0 ELSE f[pick[s]] + g[s \ {pick[s]}]] =
        [s \in SUBSET D |->
                          IF s = {} THEN 0
                          ELSE LET x == CHOOSE x \in s : TRUE IN DayRate(bands, x) + g[s \ {x}]]
    <3> HIDE DEF f, pick
    <3> QED BY <2>1
  <2> HIDE DEF f, pick
  <2> QED BY <2>2 DEF IsFold
<1> HIDE DEF f, pick
<1>3. \E g : Is(g)
  <2> HIDE DEF Is
  <2> QED BY <1>1, <1>2, FoldExists
<1>4. Is(iter)
  <2> HIDE DEF Is
  <2> QED BY <1>3
<1>5. DayByDay(bands, stay) = iter[D]
  BY DEF DayByDay, MapThenSumSet, MapThenFoldSet, DayRate
<1> HIDE DEF iter, Is
<1>6. IsSum(iter, f, D)
  BY <1>1, <1>2, <1>4, FoldIsSum
<1> QED BY <1>5, <1>6 DEF f

\* A bounded set has a maximum.
LEMMA MaxIsMember ==
    ASSUME NEW N \in Nat, NEW s \in SUBSET (1 .. N), s # {}
    PROVE  Max(s) \in s
<1>1. s \in SUBSET Nat /\ \A n \in s : n <= N
  OBVIOUS
<1>2. \E m \in s : \A n \in s : n <= m
  BY <1>1, GreatestNatural
<1> QED BY <1>1, <1>2 DEF Max

\* The fold over a sequence of N terms, from the left.
IsFoldLeft(total, f, N) ==
    total = [s \in SUBSET (1 .. N) |->
                IF s = {} THEN 0 ELSE total[s \ {Max(s)}] + f[Max(s)]]

\* Some function is that fold, and it adds up the terms.
LEMMA FoldLeftIsSum ==
    ASSUME NEW N \in Nat, NEW f \in [1 .. N -> Nat]
    PROVE  /\ \E total : IsFoldLeft(total, f, N)
           /\ \A total : IsFoldLeft(total, f, N) => IsSum(total, f, 1 .. N)
<1> DEFINE D == 1 .. N
           pick == [s \in SUBSET D |-> Max(s)]
<1>1. IsFiniteSet(D)
  BY FS_Interval
<1>2. \A s \in SUBSET D : s # {} => Max(s) \in s
  BY MaxIsMember
<1>3. IsPick(pick, D)
  BY <1>2 DEF IsPick
<1>4. ASSUME NEW total \in [SUBSET D -> Nat]
      PROVE  IsFoldLeft(total, f, N) <=> IsFold(total, f, pick, D)
  <2>1. ASSUME NEW s \in SUBSET D, s # {}
        PROVE  total[s \ {Max(s)}] + f[Max(s)] = f[pick[s]] + total[s \ {pick[s]}]
    <3>1. Max(s) \in D /\ pick[s] = Max(s) /\ f[Max(s)] \in Nat /\ total[s \ {Max(s)}] \in Nat
      BY <1>2, <2>1
    <3> QED BY <3>1
  <2> HIDE DEF pick
  <2> QED BY <2>1 DEF IsFold, IsFoldLeft
<1>5. ASSUME NEW total, IsFoldLeft(total, f, N)
      PROVE  total \in [SUBSET D -> Nat]
  <2> DEFINE Good == {n \in Nat : \A s \in SUBSET D : Cardinality(s) <= n => total[s] \in Nat}
  <2>1. \A s \in SUBSET D : IsFiniteSet(s) /\ Cardinality(s) \in Nat
    BY <1>1, FS_Subset, FS_CardinalityType
  <2>2. 0 \in Good
    BY <1>5, <2>1, FS_EmptySet DEF IsFoldLeft
  <2>3. ASSUME NEW n \in Nat, n \in Good
        PROVE  n + 1 \in Good
    <3> SUFFICES ASSUME NEW s \in SUBSET D, Cardinality(s) <= n + 1
                 PROVE  total[s] \in Nat
      OBVIOUS
    <3>0. CASE s = {}
      BY <1>5, <3>0 DEF IsFoldLeft
    <3> SUFFICES ASSUME s # {} PROVE total[s] \in Nat
      BY <3>0
    <3>1. Max(s) \in s /\ s \ {Max(s)} \in SUBSET D
      BY <1>2
    <3>2. Cardinality(s \ {Max(s)}) <= n
      BY <2>1, <3>1, FS_RemoveElement
    <3>3. total[s] = total[s \ {Max(s)}] + f[Max(s)] /\ f[Max(s)] \in Nat
      BY <1>5, <3>1 DEF IsFoldLeft
    <3> QED BY <2>3, <3>1, <3>2, <3>3
  <2>4. \A n \in Nat : n \in Good
    <3> HIDE DEF Good
    <3> QED BY <2>2, <2>3, Induction
  <2>5. \A s \in SUBSET D : total[s] \in Nat
    BY <2>1, <2>4
  <2>6. total = [s \in SUBSET D |-> total[s]]
    BY <1>5 DEF IsFoldLeft
  <2> QED BY <2>5, <2>6
<1> HIDE DEF D, pick
<1>6. \E total : IsFoldLeft(total, f, N)
  BY <1>1, <1>3, <1>4, FoldExists DEF D
<1>7. ASSUME NEW total, IsFoldLeft(total, f, N)
      PROVE  IsSum(total, f, 1 .. N)
  BY <1>1, <1>3, <1>4, <1>5, <1>7, FoldIsSum DEF D
<1> QED BY <1>6, <1>7

\* The days that the calculator finds covered, and the fee it adds up.
DaysCovered(bands, days) == FoldLeft(LAMBDA n, b : n + DaysInBand(b, days), 0, bands)
FeeCharged(bands, days) == FoldLeft(LAMBDA n, b : n + DaysInBand(b, days) * b.rate, 0, bands)

\* The days found covered are the sum over the bands of their days.
LEMMA CoveredIsSum ==
    ASSUME NEW bands, NEW N \in Nat, DOMAIN bands = 1 .. N, NEW days,
           NEW f \in [1 .. N -> Nat], \A i \in 1 .. N : f[i] = DaysInBand(bands[i], days)
    PROVE  \E total :
              /\ IsSum(total, f, 1 .. N)
              /\ total[1 .. N] = DaysCovered(bands, days)
<1> DEFINE Is(g) == g = [s \in SUBSET (1 .. N) |->
                           IF s = {} THEN 0 ELSE g[s \ {Max(s)}] + DaysInBand(bands[Max(s)], days)]
           iter == CHOOSE g : Is(g)
<1>1. ASSUME NEW g PROVE Is(g) <=> IsFoldLeft(g, f, N)
  <2>1. ASSUME NEW s \in SUBSET (1 .. N), s # {}
        PROVE  f[Max(s)] = DaysInBand(bands[Max(s)], days)
    BY <2>1, MaxIsMember
  <2> QED BY <2>1 DEF IsFoldLeft
<1>2. DaysCovered(bands, days) = iter[1 .. N]
  BY DEF DaysCovered, FoldLeft, MapThenFoldSet
<1> HIDE DEF Is
<1>3. Is(iter)
  BY <1>1, FoldLeftIsSum
<1> QED BY <1>1, <1>2, <1>3, FoldLeftIsSum

\* The fee charged is the sum over the bands of their days at their rate.
LEMMA TotalIsSum ==
    ASSUME NEW bands, NEW N \in Nat, DOMAIN bands = 1 .. N, NEW days,
           NEW f \in [1 .. N -> Nat], \A i \in 1 .. N : f[i] = DaysInBand(bands[i], days) * bands[i].rate
    PROVE  \E total :
              /\ IsSum(total, f, 1 .. N)
              /\ total[1 .. N] = FeeCharged(bands, days)
<1> DEFINE Is(g) == g = [s \in SUBSET (1 .. N) |->
                           IF s = {} THEN 0
                           ELSE g[s \ {Max(s)}]
                                + DaysInBand(bands[Max(s)], days) * bands[Max(s)].rate]
           iter == CHOOSE g : Is(g)
<1>1. ASSUME NEW g PROVE Is(g) <=> IsFoldLeft(g, f, N)
  <2>1. ASSUME NEW s \in SUBSET (1 .. N), s # {}
        PROVE  f[Max(s)] = DaysInBand(bands[Max(s)], days) * bands[Max(s)].rate
    BY <2>1, MaxIsMember
  <2> QED BY <2>1 DEF IsFoldLeft
<1>2. FeeCharged(bands, days) = iter[1 .. N]
  BY DEF FeeCharged, FoldLeft, MapThenFoldSet
<1> HIDE DEF Is
<1>3. Is(iter)
  BY <1>1, FoldLeftIsSum
<1> QED BY <1>1, <1>2, <1>3, FoldLeftIsSum

-----------------------------------------------------------------------------
(* Tables that tile. *)

\* A table as StorageRateBand.of and ORDER BY leave it.
IsTable(bands, N) ==
    /\ N \in Nat
    /\ Len(bands) = N
    /\ DOMAIN bands = 1 .. N
    /\ \A i \in 1 .. N : IsBand(bands[i])

\* The bands of a tiling table lie one after the other.
LEMMA TilesAscend ==
    ASSUME NEW bands, NEW N, IsTable(bands, N), Tiles(bands),
           NEW i \in 1 .. N, NEW j \in 1 .. N, i < j
    PROVE  bands[i].toDay \in Nat /\ bands[i].toDay <= bands[j].fromDay
<1> DEFINE Good == {n \in Nat : i + 1 + n <= N => bands[i].toDay <= bands[i + 1 + n].fromDay}
<1>1. \A k \in 1 .. N - 1 :
        /\ bands[k].toDay = bands[k + 1].fromDay
        /\ bands[k].toDay \in Nat
        /\ bands[k].fromDay < bands[k].toDay
        /\ bands[k].fromDay \in Nat
  BY FeeAssumption DEF IsTable, IsBand, Tiles
<1>2. i \in 1 .. N - 1 /\ j - i - 1 \in Nat /\ N \in Nat
  BY DEF IsTable
<1>3. 0 \in Good
  BY <1>1, <1>2
<1>4. ASSUME NEW n \in Nat, n \in Good
      PROVE  n + 1 \in Good
  <2> SUFFICES ASSUME i + 1 + (n + 1) <= N
               PROVE  bands[i].toDay <= bands[i + 1 + (n + 1)].fromDay
    OBVIOUS
  <2> DEFINE k == i + 1 + n
  <2>1. k \in 1 .. N - 1 /\ k + 1 = i + 1 + (n + 1) /\ bands[i].toDay <= bands[k].fromDay
    BY <1>2, <1>4
  <2> HIDE DEF k
  <2> QED BY <1>1, <1>2, <2>1
<1>5. j - i - 1 \in Good
  <2> HIDE DEF Good
  <2> QED BY <1>2, <1>3, <1>4, Induction
<1>6. i + 1 + (j - i - 1) = j
  BY <1>2
<1> QED BY <1>1, <1>2, <1>5, <1>6

\* A tiling table prices every day once.
LEMMA TilesPriceOnce ==
    ASSUME NEW bands, NEW N, IsTable(bands, N), Tiles(bands), NEW d \in Nat
    PROVE  \E i \in 1 .. N : Pricing(bands, d) = {i}
<1> DEFINE Begun == {i \in 1 .. N : bands[i].fromDay <= d}
<1>1. 1 \in Begun /\ N \in Nat
  BY DEF Tiles, IsTable
<1>2. PICK i \in Begun : \A j \in Begun : j <= i
  <2>1. Begun \in SUBSET Nat /\ \A j \in Begun : j <= N
    BY <1>1
  <2> HIDE DEF Begun
  <2> QED BY <1>1, <2>1, GreatestNatural
<1>3. Covers(bands[i], d)
  <2>1. CASE i = N
    BY <2>1 DEF Covers, Tiles, IsTable
  <2>2. CASE i # N
    <3>1. i + 1 \in 1 .. N /\ i + 1 \notin Begun /\ i \in 1 .. N - 1
      BY <1>1, <1>2, <2>2
    <3>2. bands[i].toDay = bands[i + 1].fromDay /\ bands[i + 1].fromDay \in Nat
      BY <3>1 DEF Tiles, IsTable, IsBand
    <3> QED BY <1>2, <3>1, <3>2 DEF Covers
  <2> QED BY <2>1, <2>2
<1>4. ASSUME NEW j \in 1 .. N, Covers(bands[j], d)
      PROVE  j = i
  <2>1. \A k \in 1 .. N : bands[k].fromDay \in Nat
    BY DEF IsTable, IsBand
  <2>2. j <= i
    BY <1>2, <1>4 DEF Covers
  <2>3. CASE j < i
    <3>1. bands[j].toDay \in Nat /\ bands[j].toDay <= bands[i].fromDay
      BY <1>2, <2>3, TilesAscend
    <3> QED BY <1>2, <1>4, <2>1, <3>1, FeeAssumption DEF Covers
  <2> QED BY <1>1, <2>2, <2>3
<1> QED BY <1>2, <1>3, <1>4 DEF Pricing, IsTable

\* The band of a day is the one that begins by it and ends after it.
LEMMA BandOfDay ==
    ASSUME NEW bands, NEW N, IsTable(bands, N), Tiles(bands),
           NEW d \in Nat, NEW i \in 1 .. N, Covers(bands[i], d)
    PROVE  DayRate(bands, d) = bands[i].rate
<1>1. PICK k \in 1 .. N : Pricing(bands, d) = {k}
  BY TilesPriceOnce
<1>2. i \in Pricing(bands, d)
  BY DEF Pricing, IsTable
<1> QED BY <1>1, <1>2 DEF DayRate

\* X lists the partial sums of N terms.
IsPartial(X, f, N) ==
    /\ X \in [0 .. N -> Nat]
    /\ X[0] = 0
    /\ \A k \in 1 .. N : X[k] = X[k - 1] + f[k]

\* A sum over a sequence is the last of its partial sums.
LEMMA PartialSums ==
    ASSUME NEW N \in Nat, NEW f, NEW total, IsSum(total, f, 1 .. N), NEW X, IsPartial(X, f, N)
    PROVE  total[1 .. N] = X[N]
<1> DEFINE Good == {k \in Nat : k <= N => total[1 .. k] = X[k]}
<1>1. 0 \in Good
  <2>1. 1 .. 0 = {}
    OBVIOUS
  <2> QED BY <2>1 DEF IsSum, IsPartial
<1>2. ASSUME NEW k \in Nat, k \in Good
      PROVE  k + 1 \in Good
  <2> SUFFICES ASSUME k + 1 <= N PROVE total[1 .. k + 1] = X[k + 1]
    OBVIOUS
  <2> DEFINE s == 1 .. k + 1
             rest == 1 .. k
             D == 1 .. N
  <2>1. k + 1 \in 1 .. N /\ (k + 1) - 1 = k /\ k \in 0 .. N
    OBVIOUS
  <2>2. total[rest] = X[k] /\ X[k] \in Nat /\ X[k + 1] = X[k] + f[k + 1]
    BY <1>2, <2>1 DEF IsPartial
  <2>3. s \in SUBSET D /\ k + 1 \in s
    OBVIOUS
  <2>4. rest = s \ {k + 1}
    OBVIOUS
  <2>5. IsSum(total, f, D)
    OBVIOUS
  <2> HIDE DEF s, rest, D
  <2>6. total[s] = f[k + 1] + total[rest] /\ f[k + 1] \in Nat
    <3>1. total[s] = f[k + 1] + total[s \ {k + 1}] /\ f[k + 1] \in Nat
      BY <2>3, <2>5 DEF IsSum
    <3> QED BY <2>4, <3>1, Zenon
  <2>7. total[s] = X[k + 1]
    BY <2>2, <2>6
  <2> QED BY <2>7 DEF s
<1>3. N \in Good
  <2> HIDE DEF Good
  <2> QED BY <1>1, <1>2, Induction
<1> QED BY <1>3

\* The first k days, and m days from day a on at one rate.
FirstDays(k) == 0 .. k - 1
OneRate(f, r, a, m) == \A d \in a .. a + m - 1 : f[d] = r

\* Days of one rate add up to a product.
LEMMA RunOfDays ==
    ASSUME NEW n \in Nat, NEW f, NEW total, IsSum(total, f, FirstDays(n)),
           NEW a \in Nat, NEW m \in Nat, a + m <= n, NEW r \in Nat, OneRate(f, r, a, m)
    PROVE  total[FirstDays(a + m)] = total[FirstDays(a)] + m * r
<1> USE DEF FirstDays, OneRate
<1> DEFINE Good == {k \in Nat : k <= m => total[FirstDays(a + k)] = total[FirstDays(a)] + k * r}
<1>0. total[FirstDays(a)] \in Nat
  <2>1. FirstDays(a) \in SUBSET (FirstDays(n))
    OBVIOUS
  <2> QED BY <2>1 DEF IsSum
<1>1. 0 \in Good
  <2>1. a + 0 = a /\ 0 * r = 0
    OBVIOUS
  <2> QED BY <1>0, <2>1
<1>2. ASSUME NEW k \in Nat, k \in Good
      PROVE  k + 1 \in Good
  <2> SUFFICES ASSUME k + 1 <= m
               PROVE  total[FirstDays(a + (k + 1))] = total[FirstDays(a)] + (k + 1) * r
    OBVIOUS
  <2> DEFINE s == FirstDays(a + (k + 1))
             rest == FirstDays(a + k)
             D == FirstDays(n)
  <2>1. total[rest] = total[FirstDays(a)] + k * r
    BY <1>2
  <2>2. s \in SUBSET D /\ a + k \in s /\ f[a + k] = r
    OBVIOUS
  <2>3. rest = s \ {a + k}
    OBVIOUS
  <2>4. (k + 1) * r = k * r + r /\ k * r \in Nat
    BY OneMoreTimes
  <2>5. IsSum(total, f, D)
    OBVIOUS
  <2> HIDE DEF s, rest, D, FirstDays
  <2>6. total[s] = r + total[rest]
    <3>1. total[s] = r + total[s \ {a + k}]
      BY <2>2, <2>5 DEF IsSum
    <3> QED BY <2>3, <3>1, Zenon
  <2>7. total[s] = total[FirstDays(a)] + (k + 1) * r
    BY <1>0, <2>1, <2>4, <2>6
  <2> QED BY <2>7 DEF s
<1> HIDE DEF FirstDays, OneRate
<1>3. m \in Good
  <2> HIDE DEF Good
  <2> QED BY <1>1, <1>2, Induction
<1> QED BY <1>3

\* How many of the days a stay is charged for lie in the first k bands.
Reach(bands, days, k) ==
    IF k = 0 THEN 0
    ELSE IF bands[k].toDay = None \/ bands[k].toDay > days THEN days ELSE bands[k].toDay

\* A band adds what lies between the ends of its predecessor and of itself.
LEMMA BandReach ==
    ASSUME NEW bands, NEW N, IsTable(bands, N), Tiles(bands), NEW days \in Nat, NEW k \in 1 .. N
    PROVE  /\ Reach(bands, days, k) \in 0 .. days
           /\ Reach(bands, days, k - 1) \in 0 .. days
           /\ DaysInBand(bands[k], days) \in Nat
           /\ DaysInBand(bands[k], days) = Reach(bands, days, k) - Reach(bands, days, k - 1)
           /\ \A d \in Reach(bands, days, k - 1) .. Reach(bands, days, k) - 1 : Covers(bands[k], d)
<1>1. IsBand(bands[k]) /\ N \in Nat
  BY DEF IsTable
<1>2. CASE k = 1
  <2>1. bands[1].fromDay = 0
    BY DEF Tiles
  <2> QED BY <1>1, <1>2, <2>1, FeeAssumption DEF Reach, DaysInBand, Covers, IsBand
<1>3. CASE k # 1
  <2>1. k - 1 \in 1 .. N - 1 /\ k - 1 # 0 /\ (k - 1) + 1 = k /\ k - 1 \in 1 .. N
    BY <1>1, <1>3
  <2>2. bands[k - 1].toDay = bands[k].fromDay
    BY <2>1 DEF Tiles, IsTable
  <2>3. bands[k].fromDay \in Nat /\ bands[k].fromDay # None
    BY <1>1, FeeAssumption DEF IsBand
  <2>4. Reach(bands, days, k - 1) = IF bands[k].fromDay > days THEN days ELSE bands[k].fromDay
    BY <2>1, <2>2, <2>3 DEF Reach
  <2> QED BY <1>1, <2>3, <2>4, FeeAssumption DEF Reach, DaysInBand, Covers, IsBand
<1> QED BY <1>2, <1>3

\* calculateStorageFeeMinor on a table that tiles: for every stay its sums over the
\* bands are the day-by-day fee, and its guard against gaps does not throw.
THEOREM FeeOfTable ==
    ASSUME NEW bands, NEW N, IsTable(bands, N), Tiles(bands), NEW stay \in Nat
    PROVE  /\ CalculateStorageFeeMinor(bands, stay) = DayByDay(bands, stay)
           /\ CalculateStorageFeeMinor(bands, stay) \in Nat
<1> DEFINE days == ChargeableDays(stay)
           D == FirstDays(days)
           f == [d \in D |-> DayRate(bands, d)]
           R(k) == Reach(bands, days, k)
           g == [i \in 1 .. N |-> DaysInBand(bands[i], days)]
           h == [i \in 1 .. N |-> DaysInBand(bands[i], days) * bands[i].rate]
<1>1. days \in Nat /\ StartedDays(stay) = D
  BY StartedDaysAreCharged DEF FirstDays
<1> HIDE DEF days
<1>2. N \in Nat /\ N # 0 /\ DOMAIN bands = 1 .. N /\ \A i \in 1 .. N : bands[i].rate \in Nat
  BY DEF IsTable, IsBand, Tiles
<1>3. \A d \in Nat : DayRate(bands, d) \in Nat
  <2> TAKE d \in Nat
  <2>1. PICK i \in 1 .. N : Pricing(bands, d) = {i}
    BY TilesPriceOnce
  <2> QED BY <1>2, <2>1 DEF DayRate
<1>4. IsFiniteSet(D)
  <2>1. 0 \in Int /\ days - 1 \in Int
    BY <1>1
  <2> QED BY <2>1, FS_Interval DEF FirstDays
<1>5. PICK t : IsSum(t, f, D) /\ DayByDay(bands, stay) = t[D]
  <2>1. \A d \in D : DayRate(bands, d) \in Nat
    BY <1>1, <1>3 DEF FirstDays
  <2> HIDE DEF D
  <2> QED BY <1>1, <1>4, <2>1, DayByDayIsSum
<1>6. t[{}] = 0 /\ \A m \in 0 .. days : t[FirstDays(m)] \in Nat
  <2>1. \A m \in 0 .. days : FirstDays(m) \in SUBSET D
    BY <1>1 DEF FirstDays
  <2> QED BY <1>5, <2>1 DEF IsSum
<1>7. ASSUME NEW k \in 1 .. N
      PROVE  /\ R(k) \in 0 .. days /\ R(k - 1) \in 0 .. days
             /\ DaysInBand(bands[k], days) \in Nat
             /\ R(k) = R(k - 1) + DaysInBand(bands[k], days)
             /\ \A d \in R(k - 1) .. R(k) - 1 : Covers(bands[k], d)
  <2>1. days \in Nat
    BY <1>1
  <2>2. R(k) \in 0 .. days /\ R(k - 1) \in 0 .. days
    BY <2>1, BandReach
  <2>3. DaysInBand(bands[k], days) \in Nat
    BY <2>1, BandReach
  <2>4. DaysInBand(bands[k], days) = R(k) - R(k - 1)
    BY <2>1, BandReach
  <2>5. \A d \in R(k - 1) .. R(k) - 1 : Covers(bands[k], d)
    BY <2>1, BandReach
  <2> HIDE DEF R
  <2> QED BY <2>1, <2>2, <2>3, <2>4, <2>5
<1>8. R(0) = 0 /\ R(N) = days
  BY <1>2 DEF Reach, Tiles, IsTable
<1> HIDE DEF R
<1>9. DaysCovered(bands, days) = days
  <2>1. g \in [1 .. N -> Nat] /\ \A i \in 1 .. N : g[i] = DaysInBand(bands[i], days)
    BY <1>7
  <2>2. PICK s : IsSum(s, g, 1 .. N) /\ s[1 .. N] = DaysCovered(bands, days)
    <3> HIDE DEF g
    <3> QED BY <1>2, <2>1, CoveredIsSum
  <2> DEFINE X == [k \in 0 .. N |-> R(k)]
  <2>3. X \in [0 .. N -> Nat] /\ X[0] = 0 /\ X[N] = days
    BY <1>1, <1>2, <1>7, <1>8
  <2>4. \A k \in 1 .. N : X[k] = X[k - 1] + g[k]
    BY <1>2, <1>7, <2>1
  <2> HIDE DEF g, X
  <2>5. IsPartial(X, g, N)
    BY <2>3, <2>4 DEF IsPartial
  <2>6. s[1 .. N] = X[N]
    BY <1>2, <2>2, <2>5, PartialSums
  <2> QED BY <2>2, <2>3, <2>6
<1>10. FeeCharged(bands, days) = t[D]
  <2>1. h \in [1 .. N -> Nat] /\ \A i \in 1 .. N : h[i] = DaysInBand(bands[i], days) * bands[i].rate
    BY <1>2, <1>7
  <2>2. PICK s : IsSum(s, h, 1 .. N) /\ s[1 .. N] = FeeCharged(bands, days)
    <3> HIDE DEF h
    <3> QED BY <1>2, <2>1, TotalIsSum
  <2> DEFINE X == [k \in 0 .. N |-> t[FirstDays(R(k))]]
  <2>3. \A k \in 0 .. N : R(k) \in 0 .. days
    BY <1>1, <1>2, <1>7, <1>8
  <2>4. X \in [0 .. N -> Nat] /\ X[0] = 0 /\ X[N] = t[D]
    <3>1. FirstDays(0) = {}
      BY DEF FirstDays
    <3>2. t[FirstDays(0)] = 0
      BY <1>6, <3>1, Zenon
    <3>3. X[0] = t[FirstDays(R(0))] /\ X[N] = t[FirstDays(R(N))]
      BY <1>2
    <3>4. X \in [0 .. N -> Nat]
      BY <1>6, <2>3
    <3> QED BY <1>8, <3>2, <3>3, <3>4
  <2>5. ASSUME NEW k \in 1 .. N
        PROVE  X[k] = X[k - 1] + h[k]
    <3> DEFINE a == R(k - 1)
               m == DaysInBand(bands[k], days)
               r == bands[k].rate
    <3>1. a \in Nat /\ m \in Nat /\ a + m <= days /\ r \in Nat /\ R(k) = a + m
      BY <1>1, <1>2, <1>7
    <3>2. ASSUME NEW d \in a .. a + m - 1
          PROVE  f[d] = r
      <4>1. d \in Nat /\ d \in D /\ Covers(bands[k], d)
        <5>1. d \in Nat /\ d < days /\ d \in R(k - 1) .. R(k) - 1
          BY <1>1, <3>1
        <5>2. Covers(bands[k], d)
          BY <1>7, <5>1
        <5> QED BY <1>1, <5>1, <5>2 DEF FirstDays
      <4> QED BY <4>1, BandOfDay
    <3>3. k - 1 \in 0 .. N /\ k \in 0 .. N
      BY <1>2
    <3>4. X[k] = t[FirstDays(a + m)] /\ X[k - 1] = t[FirstDays(a)] /\ h[k] = m * r
      BY <2>1, <3>1, <3>3
    <3> HIDE DEF a, m, r, f, X, h
    <3>5. t[FirstDays(a + m)] = t[FirstDays(a)] + m * r
      <4>1. days \in Nat /\ IsSum(t, f, FirstDays(days))
        BY <1>1, <1>5
      <4>2. OneRate(f, r, a, m)
        BY <3>2 DEF OneRate
      <4> QED BY <3>1, <4>1, <4>2, RunOfDays
    <3> QED BY <3>4, <3>5
  <2> HIDE DEF h, X
  <2>6. IsPartial(X, h, N)
    BY <2>4, <2>5 DEF IsPartial
  <2>7. s[1 .. N] = X[N]
    BY <1>2, <2>2, <2>6, PartialSums
  <2> QED BY <2>2, <2>4, <2>7
<1>11. CalculateStorageFeeMinor(bands, stay) = t[D]
  <2>1. days = 0 => D = {}
    BY <1>1 DEF FirstDays
  <2>2. CalculateStorageFeeMinor(bands, stay) =
          IF days = 0 THEN 0 ELSE IF DaysCovered(bands, days) = days THEN FeeCharged(bands, days) ELSE Throws
    BY DEF CalculateStorageFeeMinor, DaysCovered, FeeCharged, days
  <2> QED BY <1>6, <1>9, <1>10, <2>1, <2>2
<1>12. t[D] \in Nat
  BY <1>5 DEF IsSum
<1> QED BY <1>5, <1>11, <1>12

\* In fromDay order, without ties.
Ascends(bands, N) == \A i, j \in 1 .. N : i < j => bands[i].fromDay < bands[j].fromDay

\* A table in fromDay order that prices every day once, up to a day after its
\* last edge, tiles.
LEMMA PricedOnceTiles ==
    ASSUME NEW bands, NEW N, IsTable(bands, N), N # 0, Ascends(bands, N), NEW H \in Nat,
           \A i \in 1 .. N : bands[i].fromDay <= H /\ (bands[i].toDay # None => bands[i].toDay <= H),
           \A d \in 0 .. H + 1 : \E i \in 1 .. N : Pricing(bands, d) = {i}
    PROVE  Tiles(bands)
<1>1. /\ N \in Nat /\ Len(bands) = N
      /\ \A i \in 1 .. N : bands[i].fromDay \in 0 .. H
      /\ \A i \in 1 .. N : bands[i].toDay # None =>
            bands[i].toDay \in 0 .. H /\ bands[i].fromDay < bands[i].toDay
  BY DEF IsTable, IsBand
<1>2. ASSUME NEW d \in 0 .. H + 1, NEW i \in 1 .. N, NEW j \in 1 .. N,
             Covers(bands[i], d), Covers(bands[j], d)
      PROVE  i = j
  <2>1. i \in Pricing(bands, d) /\ j \in Pricing(bands, d)
    BY <1>1, <1>2 DEF Pricing
  <2> QED BY <2>1
<1>3. ASSUME NEW d \in 0 .. H + 1
      PROVE  \E i \in 1 .. N : Covers(bands[i], d)
  <2>1. PICK i \in 1 .. N : Pricing(bands, d) = {i}
    OBVIOUS
  <2> QED BY <2>1 DEF Pricing
<1>4. \A i \in 1 .. N : Covers(bands[i], bands[i].fromDay)
  BY <1>1 DEF Covers
<1>5. bands[1].fromDay = 0
  <2>1. PICK i \in 1 .. N : Covers(bands[i], 0)
    BY <1>3
  <2>2. bands[i].fromDay = 0
    BY <1>1, <2>1 DEF Covers
  <2>3. CASE i = 1
    BY <2>2, <2>3
  <2>4. CASE i # 1
    <3>1. 1 \in 1 .. N /\ 1 < i
      BY <1>1, <2>4
    <3>2. bands[1].fromDay < bands[i].fromDay
      BY <3>1 DEF Ascends
    <3> QED BY <1>1, <2>2, <3>1, <3>2
  <2> QED BY <2>3, <2>4
<1>6. bands[N].toDay = None
  <2>1. PICK i \in 1 .. N : Covers(bands[i], H + 1)
    BY <1>3
  <2>2. bands[i].toDay = None
    BY <1>1, <2>1 DEF Covers
  <2>3. CASE i # N
    <3>1. bands[i].fromDay < bands[N].fromDay /\ N \in 1 .. N
      BY <1>1, <2>3 DEF Ascends
    <3>2. Covers(bands[i], bands[N].fromDay)
      BY <1>1, <2>2, <3>1 DEF Covers
    <3> QED BY <1>1, <1>2, <1>4, <2>3, <3>1, <3>2
  <2> QED BY <2>2, <2>3
<1>7. ASSUME NEW i \in 1 .. N - 1
      PROVE  bands[i].toDay = bands[i + 1].fromDay
  <2> DEFINE e == bands[i + 1].fromDay
             f == bands[i].fromDay
             t == bands[i].toDay
  <2>1. i \in 1 .. N /\ i + 1 \in 1 .. N /\ i # i + 1 /\ f < e /\ e \in 0 .. H /\ f \in 0 .. H
    BY <1>1 DEF Ascends
  <2>2. ~Covers(bands[i], e)
    BY <1>2, <1>4, <2>1
  <2>3. t # None /\ t \in 0 .. H /\ t <= e /\ f < t
    BY <1>1, <2>1, <2>2 DEF Covers
  <2>4. ASSUME t < e PROVE FALSE
    <3>1. PICK j \in 1 .. N : Covers(bands[j], t)
      BY <1>3, <2>3
    <3>2. bands[j].fromDay <= t /\ bands[j].fromDay \in 0 .. H
      BY <1>1, <3>1 DEF Covers
    <3>3. j # i
      BY <2>3, <3>1 DEF Covers
    <3>4. ~(i + 1 < j) /\ j # i + 1
      BY <2>1, <2>3, <2>4, <3>2 DEF Ascends
    <3>5. j < i
      BY <1>1, <2>1, <3>3, <3>4
    <3>6. bands[j].fromDay < f
      BY <2>1, <3>5 DEF Ascends
    <3>7. Covers(bands[j], f)
      BY <1>1, <2>1, <2>3, <3>1, <3>2, <3>6 DEF Covers
    <3> QED BY <1>2, <1>4, <2>1, <3>3, <3>7
  <2> QED BY <2>1, <2>3, <2>4
<1> QED BY <1>1, <1>5, <1>6, <1>7 DEF Tiles

\* The order InOrder asks of a permutation p of the places of keys.
Ahead(keys, a, b) == keys[a] < keys[b] \/ (keys[a] = keys[b] /\ a < b)
Sorts(p, keys, N) ==
    /\ p \in [1 .. N -> 1 .. N]
    /\ \A i, j \in 1 .. N : i < j => Ahead(keys, p[i], p[j])

\* It can always be had: the last place is inserted into the order of the others.
LEMMA SortExists ==
    ASSUME NEW N \in Nat, NEW keys \in [1 .. N -> Nat]
    PROVE  \E p : Sorts(p, keys, N)
<1> DEFINE Good == {n \in Nat : n <= N => \E p : Sorts(p, keys, n)}
<1>1. 0 \in Good
  <2>1. [i \in 1 .. 0 |-> 0] \in [1 .. 0 -> 1 .. 0] /\ 1 .. 0 = {}
    OBVIOUS
  <2>2. Sorts([i \in 1 .. 0 |-> 0], keys, 0)
    BY <2>1 DEF Sorts
  <2> QED BY <2>2
<1>2. ASSUME NEW n \in Nat, n \in Good
      PROVE  n + 1 \in Good
  <2> SUFFICES ASSUME n + 1 <= N PROVE \E p : Sorts(p, keys, n + 1)
    OBVIOUS
  <2>1. PICK p : Sorts(p, keys, n)
    BY <1>2
  <2> DEFINE x == keys[n + 1]
             Below == {i \in 0 .. n : i = 0 \/ keys[p[i]] <= x}
  <2>2. /\ x \in Nat /\ n + 1 \in 1 .. N
        /\ \A i \in 1 .. n : p[i] \in 1 .. n /\ keys[p[i]] \in Nat
        /\ \A i, j \in 1 .. n : i < j => Ahead(keys, p[i], p[j])
    BY <2>1 DEF Sorts
  <2>3. PICK k \in Below : \A i \in Below : i <= k
    <3>1. 0 \in Below /\ Below \in SUBSET Nat /\ \A i \in Below : i <= n
      OBVIOUS
    <3> HIDE DEF Below
    <3> QED BY <3>1, GreatestNatural
  <2>4. k \in 0 .. n /\ (k # 0 => keys[p[k]] <= x)
    BY <2>3
  <2>5. \A i \in 1 .. n : k < i => x < keys[p[i]]
    BY <2>2, <2>3
  <2> HIDE DEF Below
  <2>6. ASSUME NEW i \in 1 .. n, i <= k
        PROVE  Ahead(keys, p[i], n + 1)
    <3>1. k \in 1 .. n /\ keys[p[k]] <= x /\ keys[p[k]] \in Nat /\ keys[p[i]] \in Nat /\ p[i] < n + 1
      BY <2>2, <2>4, <2>6
    <3>2. CASE i < k
      <4>1. Ahead(keys, p[i], p[k])
        BY <2>2, <3>1, <3>2
      <4> QED BY <2>2, <3>1, <4>1 DEF Ahead
    <3>3. CASE i = k
      BY <2>2, <3>1, <3>3 DEF Ahead
    <3> QED BY <2>6, <3>1, <3>2, <3>3
  <2>7. ASSUME NEW i \in 1 .. n, k < i
        PROVE  Ahead(keys, n + 1, p[i])
    BY <2>2, <2>5, <2>7 DEF Ahead
  <2> HIDE DEF x
  <2> DEFINE q == [i \in 1 .. n + 1 |-> IF i <= k THEN p[i] ELSE IF i = k + 1 THEN n + 1 ELSE p[i - 1]]
  <2>8. /\ \A i \in 1 .. n + 1 : i <= k => i \in 1 .. n /\ q[i] = p[i]
        /\ \A i \in 1 .. n + 1 : i = k + 1 => q[i] = n + 1
        /\ \A i \in 1 .. n + 1 : i > k + 1 => i - 1 \in 1 .. n /\ k < i - 1 /\ q[i] = p[i - 1]
    BY <2>4
  <2>9. q \in [1 .. n + 1 -> 1 .. n + 1]
    BY <2>2, <2>4
  <2> HIDE DEF q
  <2>10. ASSUME NEW i \in 1 .. n + 1, NEW j \in 1 .. n + 1, i < j
         PROVE  Ahead(keys, q[i], q[j])
    <3>1. CASE j <= k
      <4>1. i \in 1 .. n /\ j \in 1 .. n /\ q[i] = p[i] /\ q[j] = p[j]
        BY <2>4, <2>8, <2>10, <3>1
      <4> QED BY <2>2, <2>10, <4>1
    <3>2. CASE j = k + 1
      <4>1. i \in 1 .. n /\ i <= k /\ q[i] = p[i] /\ q[j] = n + 1
        BY <2>4, <2>8, <2>10, <3>2
      <4> QED BY <2>6, <4>1
    <3>3. CASE i <= k /\ j > k + 1
      <4>1. i \in 1 .. n /\ j - 1 \in 1 .. n /\ i < j - 1 /\ q[i] = p[i] /\ q[j] = p[j - 1]
        BY <2>4, <2>8, <2>10, <3>3
      <4> QED BY <2>2, <4>1
    <3>4. CASE i = k + 1
      <4>1. j - 1 \in 1 .. n /\ k < j - 1 /\ q[i] = n + 1 /\ q[j] = p[j - 1]
        BY <2>4, <2>8, <2>10, <3>4
      <4> QED BY <2>7, <4>1
    <3>5. CASE i > k + 1
      <4>1. i - 1 \in 1 .. n /\ j - 1 \in 1 .. n /\ i - 1 < j - 1 /\ q[i] = p[i - 1] /\ q[j] = p[j - 1]
        BY <2>4, <2>8, <2>10, <3>5
      <4> QED BY <2>2, <4>1
    <3> QED BY <2>4, <2>10, <3>1, <3>2, <3>3, <3>4, <3>5
  <2>11. Sorts(q, keys, n + 1)
    BY <2>9, <2>10 DEF Sorts
  <2> QED BY <2>11
<1>3. N \in Good
  <2> HIDE DEF Good
  <2> QED BY <1>1, <1>2, Induction
<1> QED BY <1>3

\* What InOrder returns: the bands at the places of a permutation, in order.
LEMMA InOrderSorts ==
    ASSUME NEW bands, NEW N, IsTable(bands, N)
    PROVE  \E p \in [1 .. N -> 1 .. N] :
              /\ InOrder(bands) = [i \in 1 .. N |-> bands[p[i]]]
              /\ IsTable(InOrder(bands), N)
              /\ \A i, j \in 1 .. N : i < j =>
                    /\ p[i] # p[j]
                    /\ bands[p[i]].fromDay <= bands[p[j]].fromDay
<1> DEFINE D == 1 .. N
           keys == [i \in D |-> bands[i].fromDay]
           Ok(p) == \A i, j \in D : i < j => \/ bands[p[i]].fromDay < bands[p[j]].fromDay
                                             \/ bands[p[i]].fromDay = bands[p[j]].fromDay /\ p[i] < p[j]
           place == CHOOSE p \in [D -> D] : Ok(p)
<1>1. N \in Nat /\ DOMAIN bands = D /\ keys \in [D -> Nat]
  BY DEF IsTable, IsBand
<1>2. \E p \in [D -> D] : Ok(p)
  <2>1. PICK p : Sorts(p, keys, N)
    <3> HIDE DEF keys
    <3> QED BY <1>1, SortExists
  <2>2. p \in [D -> D] /\ \A i, j \in D : i < j => Ahead(keys, p[i], p[j])
    BY <2>1 DEF Sorts
  <2>3. ASSUME NEW i \in D, NEW j \in D, i < j
        PROVE  \/ bands[p[i]].fromDay < bands[p[j]].fromDay
               \/ bands[p[i]].fromDay = bands[p[j]].fromDay /\ p[i] < p[j]
    <3>1. Ahead(keys, p[i], p[j]) /\ p[i] \in D /\ p[j] \in D
      BY <2>2, <2>3
    <3> QED BY <3>1 DEF Ahead
  <2> QED BY <2>2, <2>3
<1>3. place \in [D -> D] /\ Ok(place)
  <2> HIDE DEF Ok, D
  <2> QED BY <1>2
<1>4. InOrder(bands) = [i \in D |-> bands[place[i]]]
  BY <1>1 DEF InOrder
<1> HIDE DEF place, keys
<1>5. IsTable(InOrder(bands), N)
  BY <1>1, <1>3, <1>4 DEF IsTable
<1>6. ASSUME NEW i \in D, NEW j \in D, i < j
      PROVE  place[i] # place[j] /\ bands[place[i]].fromDay <= bands[place[j]].fromDay
  <2>1. place[i] \in D /\ place[j] \in D /\ bands[place[i]].fromDay \in Nat /\ bands[place[j]].fromDay \in Nat
    BY <1>1, <1>3 DEF IsTable, IsBand
  <2> DEFINE a == place[i]
             b == place[j]
  <2>2. bands[a].fromDay < bands[b].fromDay \/ (bands[a].fromDay = bands[b].fromDay /\ a < b)
    BY <1>3, <1>6
  <2>3. a \in Nat /\ b \in Nat
    BY <1>1, <2>1
  <2> HIDE DEF a, b
  <2>4. a # b /\ bands[a].fromDay <= bands[b].fromDay
    BY <2>1, <2>2, <2>3 DEF a, b
  <2> QED BY <2>4 DEF a, b
<1> QED BY <1>3, <1>4, <1>5, <1>6

\* Some enumeration of a finite set without repetition.
LEMMA SetToSeqEnumerates ==
    ASSUME NEW S, IsFiniteSet(S)
    PROVE  /\ Cardinality(S) \in Nat
           /\ SetToSeq(S) \in [1 .. Cardinality(S) -> S]
           /\ \A i, j \in 1 .. Cardinality(S) : SetToSeq(S)[i] = SetToSeq(S)[j] => i = j
<1> DEFINE D == 1 .. Cardinality(S)
<1>1. Cardinality(S) \in Nat /\ ExistsBijection(D, S)
  BY FS_CardinalityType
<1> HIDE DEF D
<1>2. \E f \in [D -> S] : IsInjective(f)
  BY <1>1 DEF ExistsBijection, Bijection, Injection
<1>3. SetToSeq(S) \in [D -> S] /\ IsInjective(SetToSeq(S))
  <2> HIDE DEF IsInjective
  <2> QED BY <1>2 DEF SetToSeq, D
<1> QED BY <1>1, <1>3 DEF D, IsInjective

\* The rows of a published version, read back in whatever order and sorted,
\* tile again.
LEMMA RowsTile ==
    ASSUME NEW bands, NEW N, IsTable(bands, N), Tiles(bands),
           NEW rows, rows = {bands[i] : i \in 1 .. N}
    PROVE  \E M : /\ IsTable(InOrder(SetToSeq(rows)), M)
                  /\ Tiles(InOrder(SetToSeq(rows)))
<1> DEFINE M == Cardinality(rows)
           s == SetToSeq(rows)
           v == InOrder(s)
<1>1. N \in Nat /\ N # 0 /\ Len(bands) = N
  BY DEF IsTable, Tiles
<1>2. IsFiniteSet(rows)
  <2> DEFINE f == [i \in 1 .. N |-> bands[i]]
  <2>1. f \in Surjection(1 .. N, rows)
    BY DEF Surjection
  <2>2. IsFiniteSet(1 .. N)
    BY <1>1, FS_Interval
  <2> HIDE DEF f
  <2> QED BY <2>1, <2>2, FS_Surjection
<1>3. \A r \in rows : IsBand(r)
  BY DEF IsTable
<1>4. ASSUME NEW a \in rows, NEW b \in rows, a.fromDay = b.fromDay
      PROVE  a = b
  <2>1. PICK i \in 1 .. N, j \in 1 .. N : a = bands[i] /\ b = bands[j]
    OBVIOUS
  <2>2. CASE i < j
    <3>1. bands[i].toDay \in Nat /\ bands[i].toDay <= bands[j].fromDay
      BY <2>2, TilesAscend
    <3> QED BY <1>3, <1>4, <2>1, <3>1, FeeAssumption DEF IsBand
  <2>3. CASE j < i
    <3>1. bands[j].toDay \in Nat /\ bands[j].toDay <= bands[i].fromDay
      BY <2>3, TilesAscend
    <3> QED BY <1>3, <1>4, <2>1, <3>1, FeeAssumption DEF IsBand
  <2> QED BY <1>1, <2>1, <2>2, <2>3
<1>5. M \in Nat /\ s \in [1 .. M -> rows] /\ \A i, j \in 1 .. M : s[i] = s[j] => i = j
  BY <1>2, SetToSeqEnumerates
<1> HIDE DEF M, s
<1>6. IsTable(s, M)
  BY <1>3, <1>5 DEF IsTable
<1>7. PICK p \in [1 .. M -> 1 .. M] :
        /\ v = [i \in 1 .. M |-> s[p[i]]]
        /\ IsTable(v, M)
        /\ \A i, j \in 1 .. M : i < j => p[i] # p[j] /\ s[p[i]].fromDay <= s[p[j]].fromDay
  BY <1>6, InOrderSorts
<1> HIDE DEF v
<1>8. v \in [1 .. M -> rows]
  BY <1>5, <1>7
<1>9. ASSUME NEW i \in 1 .. M, NEW j \in 1 .. M, i < j
      PROVE  v[i].fromDay < v[j].fromDay /\ v[i] # v[j]
  <2>1. v[i] = s[p[i]] /\ v[j] = s[p[j]] /\ p[i] \in 1 .. M /\ p[j] \in 1 .. M
    BY <1>7
  <2>2. p[i] # p[j] /\ v[i].fromDay <= v[j].fromDay
    BY <1>7, <1>9, <2>1
  <2>3. v[i] \in rows /\ v[j] \in rows /\ v[i] # v[j]
    BY <1>5, <2>1, <2>2
  <2>4. v[i].fromDay # v[j].fromDay /\ v[i].fromDay \in Nat /\ v[j].fromDay \in Nat
    BY <1>3, <1>4, <2>3 DEF IsBand
  <2> QED BY <2>2, <2>3, <2>4
<1>10. \A r \in rows : \E i \in 1 .. M : v[i] = r
  <2>1. \A i, j \in 1 .. M : v[i] = v[j] => i = j
    BY <1>5, <1>9
  <2>2. v \in Injection(1 .. M, rows)
    BY <1>8, <2>1 DEF Injection, IsInjective
  <2>3. Cardinality(1 .. M) = Cardinality(rows)
    BY <1>5, FS_Interval DEF M
  <2>4. v \in Surjection(1 .. M, rows)
    BY <1>2, <2>2, <2>3, FS_Injection
  <2> QED BY <2>4 DEF Surjection
<1>11. M # 0
  <2>1. bands[1] \in rows
    BY <1>1
  <2>2. PICK i \in 1 .. M : v[i] = bands[1]
    BY <1>10, <2>1
  <2> QED BY <1>5, <2>2
<1>12. v[1].fromDay = 0
  <2>1. bands[1] \in rows /\ bands[1].fromDay = 0
    BY <1>1 DEF Tiles
  <2>2. PICK i \in 1 .. M : v[i] = bands[1]
    BY <1>10, <2>1
  <2>3. 1 \in 1 .. M /\ v[1].fromDay \in Nat
    BY <1>5, <1>7, <1>11 DEF IsTable, IsBand
  <2>4. CASE i # 1
    <3>1. v[1].fromDay < v[i].fromDay
      BY <1>9, <2>3, <2>4
    <3> QED BY <2>1, <2>2, <2>3, <3>1
  <2> QED BY <2>1, <2>2, <2>4
<1>13. v[M].toDay = None
  <2>1. bands[N] \in rows /\ bands[N].toDay = None
    BY <1>1 DEF Tiles
  <2>2. PICK i \in 1 .. M : v[i] = bands[N]
    BY <1>10, <2>1
  <2>3. M \in 1 .. M
    BY <1>5, <1>11
  <2>4. PICK j \in 1 .. N : v[M] = bands[j]
    BY <1>8, <2>3
  <2>5. CASE j # N
    <3>1. bands[j].toDay \in Nat /\ bands[j].toDay <= bands[N].fromDay
      BY <1>1, <2>5, TilesAscend
    <3>2. bands[j].fromDay < bands[N].fromDay
      BY <1>1, <1>3, <2>1, <3>1, FeeAssumption DEF IsBand
    <3>3. i # M => v[i].fromDay < v[M].fromDay
      BY <1>5, <1>9, <2>3
    <3>4. bands[j].fromDay \in Nat /\ bands[N].fromDay \in Nat
      BY <1>1 DEF IsTable, IsBand
    <3> QED BY <2>2, <2>4, <3>2, <3>3, <3>4
  <2> QED BY <2>1, <2>4, <2>5
<1>14. ASSUME NEW i \in 1 .. M - 1
       PROVE  v[i].toDay = v[i + 1].fromDay
  <2>1. i \in 1 .. M /\ i + 1 \in 1 .. M /\ v[i].fromDay < v[i + 1].fromDay
    BY <1>5, <1>9
  <2>2. PICK j \in 1 .. N, k \in 1 .. N : v[i] = bands[j] /\ v[i + 1] = bands[k]
    BY <1>8, <2>1
  <2>3. \A a \in 1 .. N : bands[a].fromDay \in Nat
    BY DEF IsTable, IsBand
  <2>4. \A a, b \in 1 .. N : a < b =>
           /\ bands[a].toDay \in Nat /\ bands[a].toDay <= bands[b].fromDay
           /\ bands[a].fromDay < bands[b].fromDay
    <3> TAKE a, b \in 1 .. N
    <3> HAVE a < b
    <3>1. bands[a].toDay \in Nat /\ bands[a].toDay <= bands[b].fromDay
      BY TilesAscend
    <3>2. bands[a].fromDay < bands[a].toDay
      BY <3>1, FeeAssumption DEF IsTable, IsBand
    <3> QED BY <2>3, <3>1, <3>2
  <2>5. j < k
    <3>1. ~(k < j) /\ k # j
      BY <2>1, <2>2, <2>3, <2>4
    <3> QED BY <1>1, <3>1
  <2>6. j \in 1 .. N - 1 /\ j + 1 \in 1 .. N /\ bands[j].toDay = bands[j + 1].fromDay
    BY <1>1, <2>5 DEF Tiles
  <2>7. PICK m \in 1 .. M : v[m] = bands[j + 1]
    <3>1. bands[j + 1] \in rows
      BY <2>6
    <3> QED BY <1>10, <3>1
  <2>8. v[i].fromDay < v[m].fromDay
    BY <2>2, <2>4, <2>6, <2>7
  <2>9. ~(m < i) /\ m # i
    <3>1. m < i => v[m].fromDay < v[i].fromDay
      BY <1>9, <2>1
    <3>2. v[m].fromDay \in Nat /\ v[i].fromDay \in Nat
      BY <2>2, <2>3, <2>6, <2>7
    <3> QED BY <2>8, <3>1, <3>2
  <2>10. CASE m = i + 1
    BY <2>2, <2>6, <2>7, <2>10
  <2>11. CASE m # i + 1
    <3>1. i + 1 < m
      BY <1>5, <2>9, <2>11
    <3>2. v[i + 1].fromDay < v[m].fromDay
      BY <1>9, <2>1, <3>1
    <3>3. k # j + 1 => bands[j + 1].fromDay < bands[k].fromDay
      BY <1>1, <2>4, <2>5, <2>6
    <3> QED BY <2>2, <2>3, <2>6, <2>7, <3>2, <3>3
  <2> QED BY <2>10, <2>11
<1>15. Tiles(v)
  <2>1. Len(v) = M
    BY <1>7 DEF IsTable
  <2> QED BY <1>5, <1>11, <1>12, <1>13, <1>14, <2>1 DEF Tiles
<1> QED BY <1>7, <1>15 DEF v, s
=============================================================================
