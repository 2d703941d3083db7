------------------------- MODULE Notifications_proofs -------------------------
(***************************************************************************)
(* Proofs about what a user is told, for any prices, devices, hours and     *)
(* requests.                                                                *)
(***************************************************************************)
EXTENDS MCNotifications, FiniteSetTheorems, WellFoundedInduction, TLAPS

USE PartsAssumption

-----------------------------------------------------------------------------
(* Counting and ordering.                                                   *)

(* A set of natural numbers has a least one.                                *)
LEMMA Least ==
    ASSUME NEW S \in SUBSET Nat, S # {}
    PROVE  \E n \in S : \A m \in S : n <= m
<1> DEFINE R == {ss \in Nat \X Nat : ss[1] < ss[2]}
<1>1. IsWellFoundedOn(R, Nat)  BY NatLessThanWellFounded DEF OpToRel
<1>2. PICK n \in S : \A m \in S : <<m, n>> \notin R
  <2> HIDE DEF R
  <2> QED  BY <1>1, WFMin
<1>3. \A m \in S : n <= m
  <2> TAKE m \in S
  <2>1. m \in Nat /\ n \in Nat  OBVIOUS
  <2>2. ~(m < n)  BY <1>2, <2>1
  <2> QED  BY <2>1, <2>2
<1> QED  BY <1>3

(* A subset of a finite set is finite and no larger; a strict one is smaller.*)
LEMMA Counting ==
    ASSUME NEW S, IsFiniteSet(S), NEW T, T \subseteq S
    PROVE  /\ IsFiniteSet(T) /\ Cardinality(T) \in Nat /\ Cardinality(S) \in Nat
           /\ Cardinality(T) <= Cardinality(S)
           /\ T # S => Cardinality(T) < Cardinality(S)
<1>1. /\ IsFiniteSet(T) /\ Cardinality(T) <= Cardinality(S)
      /\ T # S => Cardinality(T) # Cardinality(S)
  BY FS_Subset
<1>2. Cardinality(T) \in Nat /\ Cardinality(S) \in Nat  BY <1>1, FS_CardinalityType
<1> QED  BY <1>1, <1>2

(* A finite set has a member whose value is the greatest of all.            *)
LEMMA Greatest ==
    ASSUME NEW S, IsFiniteSet(S), S # {}, NEW f, \A i \in S : f[i] \in Int
    PROVE  \E i \in S : \A j \in S : f[j] <= f[i]
<1> DEFINE Above(i) == {j \in S : f[i] < f[j]}
           Rest(i) == Cardinality(Above(i))
<1>1. \A i \in S : IsFiniteSet(Above(i)) /\ Rest(i) \in Nat  BY Counting
<1>2. PICK i \in S : \A j \in S : Rest(i) <= Rest(j)
  <2> DEFINE T == {Rest(j) : j \in S}
  <2>1. T \in SUBSET Nat /\ T # {}  BY <1>1
  <2>2. PICK n \in T : \A m \in T : n <= m
    <3> HIDE DEF T
    <3> QED  BY <2>1, Least
  <2>3. PICK i \in S : n = Rest(i)  OBVIOUS
  <2>4. \A j \in S : Rest(i) <= Rest(j)
    <3> TAKE j \in S
    <3>1. Rest(j) \in T  OBVIOUS
    <3> HIDE DEF Rest, T
    <3> QED  BY <2>2, <2>3, <3>1
  <2> HIDE DEF Rest
  <2> QED  BY <2>4
<1>3. SUFFICES ASSUME NEW j \in S, ~(f[j] <= f[i]) PROVE FALSE  OBVIOUS
<1>4. f[i] < f[j] /\ f[i] \in Int /\ f[j] \in Int  BY <1>3
<1>5. Above(j) \subseteq Above(i) /\ Above(j) # Above(i)
  <2>1. j \in Above(i) /\ j \notin Above(j)  BY <1>4
  <2> QED  BY <1>4, <2>1
<1>6. Rest(j) < Rest(i)  BY <1>1, <1>5, Counting
<1>7. Rest(i) <= Rest(j) /\ Rest(i) \in Nat /\ Rest(j) \in Nat  BY <1>1, <1>2
<1> HIDE DEF Rest
<1> QED  BY <1>6, <1>7

(* ... and one whose value is the smallest.                                 *)
LEMMA Smallest ==
    ASSUME NEW S, IsFiniteSet(S), S # {}, NEW f, \A i \in S : f[i] \in Int
    PROVE  \E i \in S : \A j \in S : f[i] <= f[j]
<1> DEFINE g == [i \in S |-> 0 - f[i]]
<1>1. \A i \in S : g[i] \in Int  OBVIOUS
<1>2. PICK i \in S : \A j \in S : g[j] <= g[i]
  <2> HIDE DEF g
  <2> QED  BY <1>1, Greatest
<1>3. \A j \in S : f[i] <= f[j]
  <2> TAKE j \in S
  <2>1. g[j] <= g[i] /\ g[i] = 0 - f[i] /\ g[j] = 0 - f[j]  BY <1>2
  <2> QED  BY <2>1
<1> QED  BY <1>3

-----------------------------------------------------------------------------
(* Percentiles.                                                             *)

(* v is a price that f has, with at most r prices below it, and more than r *)
(* that are not above it.                                                   *)
Ranked(f, r, v) ==
    /\ v \in {f[i] : i \in DOMAIN f}
    /\ Cardinality({i \in DOMAIN f : f[i] < v}) <= r
    /\ r < Cardinality({i \in DOMAIN f : f[i] <= v})
Prices(f) == IsFiniteSet(DOMAIN f) /\ DOMAIN f # {} /\ \A i \in DOMAIN f : f[i] \in Int

LEMMA RankedExists ==
    ASSUME NEW f, Prices(f), NEW r \in 0..(Cardinality(DOMAIN f) - 1)
    PROVE  \E v : Ranked(f, r, v)
<1> DEFINE S == DOMAIN f
           UpTo(i) == {j \in S : f[j] <= f[i]}
           Good == {i \in S : r < Cardinality(UpTo(i))}
<1>1. IsFiniteSet(S) /\ S # {} /\ (\A i \in S : f[i] \in Int)  BY DEF Prices
<1>2. Cardinality(S) \in Nat /\ r \in Nat /\ r < Cardinality(S)  BY <1>1, FS_CardinalityType
<1>3. PICK top \in S : \A j \in S : f[j] <= f[top]  BY <1>1, Greatest
<1>4. UpTo(top) = S  BY <1>3
<1>5. top \in Good  BY <1>2, <1>4
<1>6. IsFiniteSet(Good) /\ Good # {} /\ \A i \in Good : f[i] \in Int  BY <1>1, <1>5, Counting
<1>7. PICK i \in Good : \A j \in Good : f[i] <= f[j]
  <2> HIDE DEF Good
  <2> QED  BY <1>6, Smallest
<1> DEFINE Less == {j \in S : f[j] < f[i]}
<1>8. Cardinality(Less) <= r
  <2>1. IsFiniteSet(Less) /\ Cardinality(Less) \in Nat  BY <1>1, Counting
  <2>2. ASSUME Less = {} PROVE Cardinality(Less) <= r  BY <1>2, <2>2, FS_EmptySet
  <2>3. ASSUME Less # {} PROVE Cardinality(Less) <= r
    <3>1. \A j \in Less : f[j] \in Int  BY <1>1
    <3>2. PICK k \in Less : \A j \in Less : f[j] <= f[k]
      <4> HIDE DEF Less
      <4> QED  BY <2>1, <2>3, <3>1, Greatest
    <3>3. k \in S /\ f[k] < f[i] /\ f[k] \in Int /\ f[i] \in Int  BY <1>1
    <3>4. UpTo(k) = Less  BY <1>1, <3>2, <3>3
    <3>5. k \notin Good  BY <1>7, <3>3
    <3>6. ~(r < Cardinality(UpTo(k)))  BY <3>3, <3>5
    <3> HIDE DEF Less, UpTo
    <3> QED  BY <1>2, <2>1, <3>4, <3>6
  <2> QED  BY <2>2, <2>3
<1>9. Ranked(f, r, f[i])  BY <1>8 DEF Ranked
<1> QED  BY <1>9

(* A higher rank is a higher price.                                         *)
LEMMA RankedGrows ==
    ASSUME NEW f, Prices(f), NEW r \in Nat, NEW s \in Nat, r <= s,
           NEW v, Ranked(f, r, v), NEW w, Ranked(f, s, w)
    PROVE  v <= w
<1> DEFINE Low == {i \in DOMAIN f : f[i] < v}
           High == {i \in DOMAIN f : f[i] <= w}
<1>1. v \in Int /\ w \in Int  BY DEF Ranked, Prices
<1>2. Cardinality(Low) <= r /\ s < Cardinality(High)  BY DEF Ranked
<1>3. SUFFICES ASSUME w < v PROVE FALSE  BY <1>1
<1>4. High \subseteq Low  BY <1>1, <1>3 DEF Prices
<1>5. IsFiniteSet(Low)  BY Counting DEF Prices
<1>6. Cardinality(High) \in Nat /\ Cardinality(Low) \in Nat /\ Cardinality(High) <= Cardinality(Low)
  BY <1>4, <1>5, Counting
<1> HIDE DEF Low, High
<1> QED  BY <1>2, <1>6

(* The percentiles that are asked for are prices of these ranks.            *)
Asked == {5, 10, 20, 50, 90, 95}
RankOf(f, p) == ((Cardinality(DOMAIN f) - 1) * p) \div 100
LEMMA PercentileRanked ==
    ASSUME NEW f, Prices(f), NEW p \in Asked
    PROVE  Ranked(f, RankOf(f, p), Lows!Percentile(f, p)) /\ RankOf(f, p) \in Nat
<1>1. Cardinality(DOMAIN f) \in Nat /\ Cardinality(DOMAIN f) # 0
  BY FS_CardinalityType, FS_EmptySet DEF Prices
<1>2. RankOf(f, p) \in 0..(Cardinality(DOMAIN f) - 1)
  <2>1. \A n \in Nat \ {0} : \A q \in Asked : ((n - 1) * q) \div 100 \in 0..(n - 1)  BY DEF Asked
  <2> QED  BY <1>1, <2>1 DEF RankOf
<1>3. \E v : Ranked(f, RankOf(f, p), v)  BY <1>2, RankedExists
<1>4. \E v \in {f[i] : i \in DOMAIN f} :
        /\ Cardinality({i \in DOMAIN f : f[i] < v}) <= RankOf(f, p)
        /\ RankOf(f, p) < Cardinality({i \in DOMAIN f : f[i] <= v})
  BY <1>3 DEF Ranked
<1>5. Ranked(f, RankOf(f, p), Lows!Percentile(f, p))
  <2> DEFINE v == CHOOSE v \in {f[i] : i \in DOMAIN f} :
        /\ Cardinality({i \in DOMAIN f : f[i] < v}) <= ((Cardinality(DOMAIN f) - 1) * p) \div 100
        /\ ((Cardinality(DOMAIN f) - 1) * p) \div 100 < Cardinality({i \in DOMAIN f : f[i] <= v})
  <2>1. Lows!Percentile(f, p) = v
    <3>1. \A S : Lows!Cardinality(S) = Cardinality(S)  BY DEF Lows!Cardinality, Cardinality
    <3> QED  BY <3>1 DEF Lows!Percentile
  <2>2. Ranked(f, RankOf(f, p), v)  BY <1>4, Zenon DEF Ranked, RankOf
  <2> QED  BY <2>1, <2>2
<1> QED  BY <1>2, <1>5

LEMMA PercentileGrows ==
    ASSUME NEW f, Prices(f), NEW p \in Asked, NEW q \in Asked, p <= q
    PROVE  Lows!Percentile(f, p) <= Lows!Percentile(f, q)
<1>1. Cardinality(DOMAIN f) \in Nat /\ Cardinality(DOMAIN f) # 0
  BY FS_CardinalityType, FS_EmptySet DEF Prices
<1>2. \A n \in Nat \ {0} : ((n - 1) * p) \div 100 <= ((n - 1) * q) \div 100  BY DEF Asked
<1>3. RankOf(f, p) <= RankOf(f, q)  BY <1>1, <1>2 DEF RankOf
<1> QED  BY <1>3, PercentileRanked, RankedGrows

-----------------------------------------------------------------------------
(* What prices are compared with.                                           *)

(* The history and the price judged, of either part.                        *)
Judged ==
    /\ IsFiniteSet(DOMAIN hist) /\ DOMAIN hist # {}
    /\ \A d \in DOMAIN hist : \A w \in -1..1 : hist[d][w] \in Int
    /\ cost \in Int

Lowest(d) == Lows!Extreme(d, TRUE)
Highest(d) == Lows!Extreme(d, FALSE)
Lowests == [d \in DOMAIN hist |-> Lowest(d)]
Highests == [d \in DOMAIN hist |-> Highest(d)]
DipMiddle == Lows!Percentile(Lowests, 50)
SpikeMiddle == Lows!Percentile(Highests, 50)
DipReference == Lows!Reference(TRUE)
SpikeReference == Lows!Reference(FALSE)

LEMMA AroundFinite == IsFiniteSet(-1..1) /\ 0 \in -1..1
<1>1. 0 \in -1..1 /\ (-1) \in Int /\ 1 \in Int  OBVIOUS
<1>2. \A a, b \in Int : IsFiniteSet(a..b)  BY FS_Interval
<1> QED  BY <1>1, <1>2

LEMMA CostIs ==
    ASSUME Judged
    PROVE  cost \in Int /\ IsFiniteSet(DOMAIN hist) /\ DOMAIN hist # {}
           /\ Cardinality(DOMAIN hist) \in Nat
<1> QED  BY FS_CardinalityType DEF Judged

LEMMA ExtremeIs ==
    ASSUME Judged, NEW d \in DOMAIN hist
    PROVE  /\ Lowest(d) \in Int /\ Highest(d) \in Int
           /\ \A w \in -1..1 : Lowest(d) <= hist[d][w] /\ hist[d][w] <= Highest(d)
<1>1. IsFiniteSet(-1..1) /\ -1..1 # {}  BY AroundFinite
<1>2. \A w \in -1..1 : hist[d][w] \in Int  BY DEF Judged
<1> DEFINE day == hist[d]
<1>3. PICK lo \in -1..1 : \A w \in -1..1 : day[lo] <= day[w]  BY <1>1, <1>2, Smallest
<1>4. PICK hi \in -1..1 : \A w \in -1..1 : day[w] <= day[hi]  BY <1>1, <1>2, Greatest
<1>5. Lowest(d) \in {day[w] : w \in -1..1} /\ \A w \in -1..1 : Lowest(d) <= day[w]
  <2>1. \E c \in {day[w] : w \in -1..1} : \A w \in -1..1 : c <= day[w]  BY <1>3
  <2>2. Lowest(d) = CHOOSE c \in {day[w] : w \in -1..1} : \A w \in -1..1 : c <= day[w]
    BY DEF Lowest, Lows!Extreme, Lows!Window
  <2> HIDE DEF day
  <2> QED  BY <2>1, <2>2, Zenon
<1>6. Highest(d) \in {day[w] : w \in -1..1} /\ \A w \in -1..1 : Highest(d) >= day[w]
  <2>1. \E c \in {day[w] : w \in -1..1} : \A w \in -1..1 : c >= day[w]  BY <1>2, <1>4
  <2>2. Highest(d) = CHOOSE c \in {day[w] : w \in -1..1} : \A w \in -1..1 : c >= day[w]
    BY DEF Highest, Lows!Extreme, Lows!Window
  <2> HIDE DEF day
  <2> QED  BY <2>1, <2>2, Zenon
<1> QED  BY <1>2, <1>5, <1>6

LEMMA MiddleIs ==
    ASSUME Judged
    PROVE  /\ Prices(Highests) /\ SpikeMiddle \in Int /\ DipMiddle \in Int
           /\ Ranked(Highests, ((Cardinality(DOMAIN hist) - 1) * 50) \div 100, SpikeMiddle)
<1>1. Prices(Highests) /\ Prices(Lowests)
  BY ExtremeIs DEF Judged, Prices, Highests, Lowests
<1>2. Ranked(Highests, RankOf(Highests, 50), SpikeMiddle) /\ Ranked(Lowests, RankOf(Lowests, 50), DipMiddle)
  BY <1>1, PercentileRanked DEF Asked, SpikeMiddle, DipMiddle
<1>3. SpikeMiddle \in Int /\ DipMiddle \in Int  BY <1>1, <1>2 DEF Ranked, Prices
<1>4. DOMAIN Highests = DOMAIN hist  BY DEF Highests
<1> QED  BY <1>1, <1>2, <1>3, <1>4 DEF RankOf

LEMMA ReferenceIs ==
    ASSUME Judged
    PROVE  /\ DipReference \in Int /\ SpikeReference = SpikeMiddle
           /\ 1 \in DOMAIN hist => DipReference <= Lowest(1)
<1>1. SpikeReference = SpikeMiddle
  BY DEF Lows!Reference, SpikeReference, SpikeMiddle, Highests, Highest
<1>2. DipReference = IF 1 \in DOMAIN hist /\ Lowest(1) < DipMiddle THEN Lowest(1) ELSE DipMiddle
  BY DEF Lows!Reference, DipReference, DipMiddle, Lowests, Lowest
<1>3. DipMiddle \in Int  BY MiddleIs
<1>4. 1 \in DOMAIN hist => Lowest(1) \in Int  BY ExtremeIs
<1> QED  BY <1>1, <1>2, <1>3, <1>4

LEMMA RawCostsAre ==
    ASSUME Judged
    PROVE  Prices(Lows!RawCosts)
<1>1. DOMAIN Lows!RawCosts = (DOMAIN hist) \X (-1..1)  BY DEF Lows!RawCosts, Lows!Window
<1>2. IsFiniteSet((DOMAIN hist) \X (-1..1))  BY CostIs, AroundFinite, FS_Product
<1>3. (DOMAIN hist) \X (-1..1) # {}
  <2>1. PICK d \in DOMAIN hist : TRUE  BY DEF Judged
  <2>2. <<d, 0>> \in (DOMAIN hist) \X (-1..1)  OBVIOUS
  <2> QED  BY <2>2
<1>4. \A i \in (DOMAIN hist) \X (-1..1) : Lows!RawCosts[i] \in Int
  BY DEF Lows!RawCosts, Lows!Window, Judged
<1> QED  BY <1>1, <1>2, <1>3, <1>4 DEF Prices

(* The rules in between: a price no lower than yesterday's is no dip, ...    *)
LEMMA NoNews ==
    ASSUME Judged
    PROVE  Lows!RepeatedDipIsNoNews
<1>1. SUFFICES ASSUME 1 \in DOMAIN hist, Lowest(1) <= cost,
                      NEW s \in Lows!Sensitivities, Lows!IsDip(cost, s)
               PROVE  FALSE
  BY DEF Lows!RepeatedDipIsNoNews, Lowest
<1>2. DipReference - cost >= IF cost < 0 THEN Lows!Delta[s] \div 2 ELSE Lows!Delta[s]
  BY <1>1 DEF Lows!IsDip, DipReference
<1>3. Lows!Delta[s] \in {100, 50, 30}  BY <1>1 DEF Lows!Delta, Lows!Sensitivities
<1>4. DipReference <= Lowest(1)  BY <1>1, ReferenceIs
<1>5. DipReference \in Int /\ Lowest(1) \in Int /\ cost \in Int
  BY <1>1, ReferenceIs, ExtremeIs, CostIs
<1>6. DipReference - cost >= 15
  <2>1. 100 \div 2 = 50 /\ 50 \div 2 = 25 /\ 30 \div 2 = 15  OBVIOUS
  <2> QED  BY <1>2, <1>3, <1>5, <2>1
<1>7. Lowest(1) <= cost  BY <1>1
<1> QED  BY <1>4, <1>5, <1>6, <1>7

(* ... a spike is judged by what some other day reached, ...                *)
LEMMA NotMasked ==
    ASSUME Judged
    PROVE  Lows!OneSpikeMasksNothing
<1> DEFINE N == Cardinality(DOMAIN hist)
           others == DOMAIN hist \ {1}
           under == {d \in DOMAIN Highests : Highests[d] < SpikeMiddle}
<1>1. SUFFICES ASSUME N > 1, \A d \in others : ~(SpikeMiddle <= Highest(d))
               PROVE  FALSE
  <2>1. SpikeReference = SpikeMiddle  BY ReferenceIs
  <2>2. Lows!Cardinality(DOMAIN hist) = N  BY DEF Lows!Cardinality, Cardinality
  <2> QED  BY <2>1, <2>2 DEF Lows!OneSpikeMasksNothing, SpikeReference, Highest
<1>2. \A d \in others : Highest(d) \in Int /\ Highest(d) < SpikeMiddle
  <2>1. SpikeMiddle \in Int  BY MiddleIs
  <2>2. \A d \in others : Highest(d) \in Int  BY ExtremeIs
  <2> QED  BY <1>1, <2>1, <2>2
<1>3. others \subseteq under  BY <1>2 DEF Highests
<1>4. IsFiniteSet(under)  BY MiddleIs, Counting DEF Prices
<1>5. Cardinality(under) \in Nat /\ Cardinality(others) \in Nat /\ Cardinality(others) <= Cardinality(under)
  BY <1>3, <1>4, Counting
<1>6. N \in Nat /\ Cardinality(others) >= N - 1
  <2>1. N \in Nat /\ IsFiniteSet(DOMAIN hist)  BY CostIs
  <2>2. Cardinality(others) = IF 1 \in DOMAIN hist THEN N - 1 ELSE N  BY <2>1, FS_RemoveElement
  <2> QED  BY <2>1, <2>2
<1>7. Cardinality(under) <= ((N - 1) * 50) \div 100  BY MiddleIs DEF Ranked
<1>8. \A n, u \in Nat : n > 1 /\ u >= n - 1 => ~(u <= ((n - 1) * 50) \div 100)  OBVIOUS
<1> HIDE DEF N, others, under
<1> QED  BY <1>1, <1>5, <1>6, <1>7, <1>8

(* ... a peak of every day is none, ...                                     *)
LEMMA NoSpikeEveryDay ==
    ASSUME Judged
    PROVE  Lows!DailyPeakIsNoSpike
<1>1. SUFFICES ASSUME \A d \in DOMAIN hist : \E w \in -1..1 : hist[d][w] >= cost,
                      NEW s \in Lows!Sensitivities, Lows!IsSpike(cost, s)
               PROVE  FALSE
  BY DEF Lows!DailyPeakIsNoSpike, Lows!Window
<1>2. \A d \in DOMAIN hist : Highest(d) >= cost
  <2> TAKE d \in DOMAIN hist
  <2>1. PICK w \in -1..1 : hist[d][w] >= cost  BY <1>1
  <2>2. hist[d][w] \in Int /\ cost \in Int  BY CostIs DEF Judged
  <2>3. hist[d][w] <= Highest(d) /\ Highest(d) \in Int  BY ExtremeIs
  <2> QED  BY <2>1, <2>2, <2>3
<1>3. SpikeMiddle \in {Highests[d] : d \in DOMAIN Highests}  BY MiddleIs DEF Ranked
<1>4. SpikeMiddle >= cost  BY <1>2, <1>3 DEF Highests
<1>5. cost - SpikeMiddle >= Lows!Delta[s]  BY <1>1, ReferenceIs DEF Lows!IsSpike, SpikeReference
<1>6. Lows!Delta[s] >= 30 /\ Lows!Delta[s] \in Int  BY <1>1 DEF Lows!Delta, Lows!Sensitivities
<1>7. SpikeMiddle \in Int /\ cost \in Int  BY MiddleIs, CostIs
<1> QED  BY <1>4, <1>5, <1>6, <1>7

(* ... and who asks to hear more does.                                      *)
LEMMA HearMore ==
    ASSUME Judged
    PROVE  Lows!SensitiveUsersHearMore
<1> DEFINE P(p) == Lows!Percentile(Lows!RawCosts, p)
<1>1. \A p \in Asked : P(p) \in Int  BY RawCostsAre, PercentileRanked DEF Ranked, Prices
<1>2. P(90) <= P(95) /\ P(5) <= P(10)  BY RawCostsAre, PercentileGrows DEF Asked
<1>3. P(5) \in Int /\ P(10) \in Int /\ P(90) \in Int /\ P(95) \in Int /\ P(20) \in Int
  BY <1>1 DEF Asked
<1>4. SpikeReference \in Int /\ DipReference \in Int /\ cost \in Int
  BY ReferenceIs, MiddleIs, CostIs
<1>5. /\ Lows!Rank["low"] = 95 /\ Lows!Rank["medium"] = 90 /\ Lows!Rank["high"] = 90
      /\ Lows!Delta["low"] = 100 /\ Lows!Delta["medium"] = 50 /\ Lows!Delta["high"] = 30
  BY DEF Lows!Rank, Lows!Delta, Lows!Sensitivities
<1>6. 100 - 95 = 5 /\ 100 - 90 = 10 /\ 100 \div 2 = 50 /\ 50 \div 2 = 25 /\ 30 \div 2 = 15  OBVIOUS
<1>7. (Lows!IsSpike(cost, "low") => Lows!IsSpike(cost, "medium"))
      /\ (Lows!IsSpike(cost, "medium") => Lows!IsSpike(cost, "high"))
  <2> DEFINE ref == SpikeReference
  <2>1. Lows!IsSpike(cost, "low") <=> cost >= Lows!Floor /\ cost >= P(95) /\ cost - ref >= 100
    BY <1>5 DEF Lows!IsSpike, SpikeReference
  <2>2. Lows!IsSpike(cost, "medium") <=> cost >= Lows!Floor /\ cost >= P(90) /\ cost - ref >= 50
    BY <1>5 DEF Lows!IsSpike, SpikeReference
  <2>3. Lows!IsSpike(cost, "high") <=> cost >= Lows!Floor /\ cost >= P(90) /\ cost - ref >= 30
    BY <1>5 DEF Lows!IsSpike, SpikeReference
  <2>4. ref \in Int  BY <1>4
  <2> HIDE DEF P, ref
  <2> QED  BY <1>2, <1>3, <1>4, <2>1, <2>2, <2>3, <2>4
<1>8. (Lows!IsDip(cost, "low") => Lows!IsDip(cost, "medium"))
      /\ (Lows!IsDip(cost, "medium") => Lows!IsDip(cost, "high"))
  <2> DEFINE ref == DipReference
  <2>4. ref \in Int  BY <1>4
  <2>5. CASE cost < 0
    <3>1. \A s : Lows!IsDip(cost, s) <=>
            cost <= Lows!Ceiling /\ cost <= P(20) /\ ref - cost >= Lows!Delta[s] \div 2
      BY <2>5, Zenon DEF Lows!IsDip, DipReference
    <3> HIDE DEF P, ref
    <3>2. ref - cost >= 50 => ref - cost >= 25  BY <1>4, <2>4
    <3>3. ref - cost >= 25 => ref - cost >= 15  BY <1>4, <2>4
    <3>4. /\ Lows!Delta["low"] \div 2 = 50 /\ Lows!Delta["medium"] \div 2 = 25
          /\ Lows!Delta["high"] \div 2 = 15
      BY <1>5, <1>6
    <3> QED  BY <3>1, <3>2, <3>3, <3>4
  <2>6. CASE ~(cost < 0)
    <3>1. \A s : Lows!IsDip(cost, s) <=>
            cost <= Lows!Ceiling /\ cost <= P(100 - Lows!Rank[s]) /\ ref - cost >= Lows!Delta[s]
      BY <2>6, Zenon DEF Lows!IsDip, DipReference
    <3> HIDE DEF P, ref
    <3>2. ref - cost >= 100 => ref - cost >= 50  BY <1>4, <2>4
    <3>3. ref - cost >= 50 => ref - cost >= 30  BY <1>4, <2>4
    <3>4. cost <= P(5) => cost <= P(10)  BY <1>2, <1>3, <1>4
    <3>5. /\ P(100 - Lows!Rank["low"]) = P(5) /\ P(100 - Lows!Rank["medium"]) = P(10)
          /\ P(100 - Lows!Rank["high"]) = P(10)
      BY <1>5, <1>6
    <3> QED  BY <1>5, <3>1, <3>2, <3>3, <3>4, <3>5
  <2> QED  BY <2>5, <2>6
<1> QED  BY <1>7, <1>8 DEF Lows!SensitiveUsersHearMore

-----------------------------------------------------------------------------
(* The two parts judge alike, and judge what they were given.               *)

JudgedInv == part \in {"lows", "highs"} => Judged

LEMMA Alike ==
    /\ Highs!OneSpikeMasksNothing <=> Lows!OneSpikeMasksNothing
    /\ Highs!DailyPeakIsNoSpike <=> Lows!DailyPeakIsNoSpike
    /\ Highs!SensitiveUsersHearMore <=> Lows!SensitiveUsersHearMore
<1>0. \A S : Highs!Cardinality(S) = Lows!Cardinality(S)  BY DEF Highs!Cardinality, Lows!Cardinality
<1>1. \A f, p : Highs!Percentile(f, p) = Lows!Percentile(f, p)
  BY <1>0 DEF Highs!Percentile, Lows!Percentile
<1>2. \A d, dip : Highs!Extreme(d, dip) = Lows!Extreme(d, dip)
  BY DEF Highs!Extreme, Lows!Extreme, Highs!Window, Lows!Window
<1>3. Highs!RawCosts = Lows!RawCosts
  BY DEF Highs!RawCosts, Lows!RawCosts, Highs!Window, Lows!Window
<1>4. \A dip : Highs!Reference(dip) = Lows!Reference(dip)
  BY <1>1, <1>2 DEF Highs!Reference, Lows!Reference
<1>5. Highs!Rank = Lows!Rank /\ Highs!Delta = Lows!Delta
      /\ Highs!Floor = Lows!Floor /\ Highs!Ceiling = Lows!Ceiling
  BY DEF Highs!Rank, Lows!Rank, Highs!Delta, Lows!Delta, Highs!Sensitivities, Lows!Sensitivities,
         Highs!Floor, Lows!Floor, Highs!Ceiling, Lows!Ceiling
<1>6. \A c, s : (Highs!IsSpike(c, s) <=> Lows!IsSpike(c, s)) /\ (Highs!IsDip(c, s) <=> Lows!IsDip(c, s))
  BY <1>1, <1>3, <1>4, <1>5 DEF Highs!IsSpike, Lows!IsSpike, Highs!IsDip, Lows!IsDip
<1>7. Highs!OneSpikeMasksNothing <=> Lows!OneSpikeMasksNothing
  BY <1>0, <1>2, <1>4 DEF Highs!OneSpikeMasksNothing, Lows!OneSpikeMasksNothing
<1>8. Highs!DailyPeakIsNoSpike <=> Lows!DailyPeakIsNoSpike
  BY <1>6 DEF Highs!DailyPeakIsNoSpike, Lows!DailyPeakIsNoSpike, Highs!Window, Lows!Window,
              Highs!Sensitivities, Lows!Sensitivities
<1>9. Highs!SensitiveUsersHearMore <=> Lows!SensitiveUsersHearMore
  BY <1>6 DEF Highs!SensitiveUsersHearMore, Lows!SensitiveUsersHearMore
<1> QED  BY <1>7, <1>8, <1>9

LEMMA GivenIsJudged ==
    ASSUME NEW Levels, NEW Costs, Levels \cup Costs \subseteq Int, NEW n \in Nat,
           hist \in UNION {[days -> [-1..1 -> Levels]] : days \in (SUBSET (1..n)) \ {{}}}, cost \in Costs
    PROVE  Judged
<1>1. PICK days \in (SUBSET (1..n)) \ {{}} : hist \in [days -> [-1..1 -> Levels]]  OBVIOUS
<1>2. IsFiniteSet(1..n)  BY FS_Interval
<1>3. IsFiniteSet(days)  BY <1>2, Counting
<1>4. DOMAIN hist = days  BY <1>1
<1>6. days # {}  OBVIOUS
<1>5. \A d \in days : \A w \in -1..1 : hist[d][w] \in Int  BY <1>1
<1> QED  BY <1>3, <1>4, <1>5, <1>6 DEF Judged

LEMMA JudgedAtFirst == PartsInit => JudgedInv
<1>1. ASSUME PartsInit, part = "lows" PROVE Judged
  <2>1. Lows!Init  BY <1>1 DEF PartsInit
  <2>2. Lows!Assumptions  BY PartsAssumption
  <2> QED  BY <2>1, <2>2, GivenIsJudged DEF Lows!Init, Lows!Assumptions, Lows!Window
<1>2. ASSUME PartsInit, part = "highs" PROVE Judged
  <2>1. Highs!Init  BY <1>2 DEF PartsInit
  <2>2. Highs!Assumptions  BY PartsAssumption
  <2> QED  BY <2>1, <2>2, GivenIsJudged DEF Highs!Init, Highs!Assumptions, Highs!Window
<1> QED  BY <1>1, <1>2 DEF JudgedInv

LEMMA JudgedStays == JudgedInv /\ [PartsNext]_vars => JudgedInv'
<1> SUFFICES ASSUME JudgedInv, [PartsNext]_vars PROVE JudgedInv'  OBVIOUS
<1>1. part' = part
  BY DEF PartsNext, ForDevices, ForPrices, ForBaseline, vars
<1>2. part \in {"lows", "highs"} => hist' = hist /\ cost' = cost
  BY DEF PartsNext, vars, baseline, ForBaseline, Lows!Next, Highs!Next
<1> QED  BY <1>1, <1>2 DEF JudgedInv, Judged

LEMMA JudgedMeans == JudgedInv => BaselineInv
<1> SUFFICES ASSUME JudgedInv PROVE BaselineInv  OBVIOUS
<1>1. part = "lows" => Lows!RepeatedDipIsNoNews /\ Lows!SensitiveUsersHearMore
  BY NoNews, HearMore DEF JudgedInv
<1>2. part = "highs" => /\ Highs!OneSpikeMasksNothing /\ Highs!DailyPeakIsNoSpike
                        /\ Highs!SensitiveUsersHearMore
  BY NotMasked, NoSpikeEveryDay, HearMore, Alike DEF JudgedInv
<1> QED  BY <1>1, <1>2 DEF BaselineInv, RepeatedDipIsNoNews, OneSpikeMasksNothing, DailyPeakIsNoSpike,
            SensitiveUsersHearMore

(* The baseline that prices are compared with does what the notifications    *)
(* promise, for any history of any number of days and any prices: a dip or a *)
(* peak that comes every day is none, one spike hides no other, and who asks *)
(* to hear more does (computePercentile, computeTimeOfDayWindowRefPrice and  *)
(* qualifiesAsPriceAnomaly).                                                 *)
THEOREM BaselineHolds == PartsSpec => []BaselineInv
<1> QED  BY JudgedAtFirst, JudgedStays, JudgedMeans, PTL DEF PartsSpec

-----------------------------------------------------------------------------
(* Alerts of prices. What the parts have in common: the types, for levels L, *)
(* hours H and at most m faults, and what an update does.                    *)
Warnings == {"spike", "dip"}
Alert(L) == [age : 0..37, extreme : L \cup {0}, told : BOOLEAN, between : {"none", "anomalous", "recovered"}]
Beyond(x, k) == IF k = "spike" THEN x > TypicalPrice ELSE x < TypicalPrice

Alerting(L, H, m) ==
    /\ prices \in [H -> L] /\ quiet \in BOOLEAN /\ refused \in 0..m
    /\ updated \in [Warnings -> {"no", "sent", "held", "none"}] /\ sends \in [Warnings -> 0..2]
    /\ last \in [Warnings -> Alert(L)]
    /\ \A k \in Warnings : last[k].told => Beyond(last[k].extreme, k) /\ last[k].age < 37

(* An alert of this hour has been told, ...                                  *)
Locked == \A k \in Warnings : sends[k] <= 1 /\ (sends[k] = 1 => last[k].told /\ last[k].age = 0)
(* ... a spike that was looked at, of height x, is known, ...                *)
Known(did, alert, x) ==
    did \in {"sent", "held"} =>
        /\ alert.told /\ alert.age < 24
        /\ 10 * x < 12 * alert.extreme \/ x < HighPrice \/ alert.age < 1
(* ... and one held back for long has not let up.                            *)
Same(did, alert) == did = "held" /\ alert.age >= 6 => alert.between = "anomalous"

New(x) == [age |-> 0, extreme |-> x, told |-> TRUE, between |-> "none"]
NotYet == [age |-> 37, extreme |-> 0, told |-> FALSE, between |-> "none"]
Tells(k, x) ==
    /\ last' = [last EXCEPT ![k] = New(x)]
    /\ sends' = [sends EXCEPT ![k] = IF @ < 2 THEN @ + 1 ELSE 2]
    /\ updated' = [updated EXCEPT ![k] = "sent"]
Notes(k, as) == updated' = [updated EXCEPT ![k] = as] /\ UNCHANGED <<last, sends, refused>>
Passes ==
    /\ \E b \in [Warnings -> {"none", "anomalous", "recovered"}] :
        last' = [k \in Warnings |->
            IF ~last[k].told \/ last[k].age + 1 = 37 THEN NotYet
            ELSE [last[k] EXCEPT !.age = @ + 1, !.between = b[k]]]
    /\ sends' = [k \in Warnings |-> 0] /\ updated' = [k \in Warnings |-> "no"]

LEMMA TellsKeeps ==
    ASSUME NEW L, NEW H, NEW m, Alerting(L, H, m), NEW k \in Warnings, NEW x \in L, Beyond(x, k),
           Tells(k, x), UNCHANGED <<prices, quiet>>, refused' \in 0..m
    PROVE  Alerting(L, H, m)'
<1> DEFINE r == New(x)
<1>1. r \in Alert(L) /\ r.told /\ r.extreme = x /\ r.age = 0  BY DEF New, Alert
<1>2. last' = [last EXCEPT ![k] = r]  BY DEF Tells
<1> HIDE DEF r
<1>3. last' \in [Warnings -> Alert(L)]  BY <1>1, <1>2 DEF Alerting
<1>4. \A j \in Warnings : last'[j] = IF j = k THEN r ELSE last[j]  BY <1>2 DEF Alerting
<1>5. \A j \in Warnings : last'[j].told => Beyond(last'[j].extreme, j) /\ last'[j].age < 37
  <2> TAKE j \in Warnings
  <2>1. CASE j = k  BY <1>1, <1>4, <2>1
  <2>2. CASE j # k  BY <1>4, <2>2 DEF Alerting
  <2> QED  BY <2>1, <2>2
<1>6. sends' \in [Warnings -> 0..2]
  <2>1. sends[k] \in 0..2  BY DEF Alerting
  <2>2. (IF sends[k] < 2 THEN sends[k] + 1 ELSE 2) \in 0..2  BY <2>1
  <2> QED  BY <2>2 DEF Tells, Alerting
<1>7. updated' \in [Warnings -> {"no", "sent", "held", "none"}]  BY DEF Tells, Alerting
<1> QED  BY <1>3, <1>5, <1>6, <1>7 DEF Alerting, Beyond

LEMMA NotesKeeps ==
    ASSUME NEW L, NEW H, NEW m, Alerting(L, H, m), NEW k \in Warnings, NEW as \in {"held", "none"},
           Notes(k, as), UNCHANGED <<prices, quiet>>
    PROVE  Alerting(L, H, m)'
<1> QED  BY DEF Alerting, Notes, Beyond

LEMMA PassesKeeps ==
    ASSUME NEW L, NEW H, NEW m, Alerting(L, H, m), Passes, prices' \in [H -> L], quiet' \in BOOLEAN,
           UNCHANGED refused
    PROVE  Alerting(L, H, m)' /\ Locked' /\ updated'["spike"] = "no" /\ updated'["dip"] = "no"
<1>1. PICK b \in [Warnings -> {"none", "anomalous", "recovered"}] :
        last' = [k \in Warnings |->
            IF ~last[k].told \/ last[k].age + 1 = 37 THEN NotYet
            ELSE [last[k] EXCEPT !.age = @ + 1, !.between = b[k]]]
  BY DEF Passes
<1>2. \A k \in Warnings : last'[k] \in Alert(L) /\ (last'[k].told => Beyond(last'[k].extreme, k) /\ last'[k].age < 37)
  <2> TAKE k \in Warnings
  <2>1. last[k] \in Alert(L) /\ (last[k].told => Beyond(last[k].extreme, k) /\ last[k].age < 37)  BY DEF Alerting
  <2>2. ASSUME ~last[k].told \/ last[k].age + 1 = 37 PROVE last'[k] = NotYet  BY <1>1, <2>2
  <2>3. NotYet \in Alert(L) /\ ~NotYet.told  BY DEF NotYet, Alert
  <2>4. ASSUME last[k].told, last[k].age + 1 # 37
        PROVE  last'[k] = [last[k] EXCEPT !.age = @ + 1, !.between = b[k]]
    BY <1>1, <2>4
  <2>5. ASSUME last[k].told, last[k].age + 1 # 37
        PROVE  last'[k] \in Alert(L) /\ last'[k].extreme = last[k].extreme /\ last'[k].age < 37
    <3>1. last[k].age \in 0..36 /\ last[k].extreme \in L \cup {0} /\ last[k].told \in BOOLEAN
      BY <2>1, <2>5 DEF Alert
    <3>2. last[k].age + 1 \in 0..36  BY <2>5, <3>1
    <3>3. b[k] \in {"none", "anomalous", "recovered"}  OBVIOUS
    <3> DEFINE q == [last[k] EXCEPT !.age = @ + 1, !.between = b[k]]
    <3>4. q.age = last[k].age + 1 /\ q.extreme = last[k].extreme  BY <2>1 DEF Alert
    <3>5. last'[k] = q  BY <2>4, <2>5
    <3>6. q \in Alert(L)
      <4> DEFINE A == [age : 0..37, extreme : L \cup {0}, told : BOOLEAN,
                       between : {"none", "anomalous", "recovered"}]
      <4>1. \A a \in A : \A n \in 0..37 : \A c \in {"none", "anomalous", "recovered"} :
                [a EXCEPT !.age = n, !.between = c] \in A
        OBVIOUS
      <4>2. last[k] \in A /\ last[k].age + 1 \in 0..37  BY <2>1, <3>2 DEF Alert
      <4> HIDE DEF A
      <4>3. q \in A  BY <3>3, <4>1, <4>2
      <4> QED  BY <4>3 DEF A, Alert
    <3> HIDE DEF q
    <3>7. q.age < 37  BY <3>2, <3>4
    <3> QED  BY <3>4, <3>5, <3>6, <3>7
  <2> QED  BY <2>1, <2>2, <2>3, <2>5
<1>3. last' \in [Warnings -> Alert(L)]  BY <1>1, <1>2
<1>4. sends' \in [Warnings -> 0..2] /\ updated' \in [Warnings -> {"no", "sent", "held", "none"}]
  <2>1. sends' = [k \in Warnings |-> 0] /\ updated' = [k \in Warnings |-> "no"]  BY DEF Passes
  <2> QED  BY <2>1
<1>5. Alerting(L, H, m)'
  <2>1. refused' \in 0..m  BY DEF Alerting
  <2> QED  BY <1>2, <1>3, <1>4, <2>1, Zenon DEF Alerting, Beyond
<1>6. Locked' /\ updated'["spike"] = "no" /\ updated'["dip"] = "no"
  <2>1. sends' = [k \in Warnings |-> 0] /\ updated' = [k \in Warnings |-> "no"]  BY DEF Passes
  <2> QED  BY <2>1 DEF Locked, Warnings
<1> QED  BY <1>5, <1>6

(* The price told is one of the event's.                                    *)
ExtremeOf(E, k) ==
    CHOOSE c \in {prices[h] : h \in E} : \A h \in E : IF k = "spike" THEN c >= prices[h] ELSE c <= prices[h]
LEMMA ExtremeOfIs ==
    ASSUME NEW E, IsFiniteSet(E), E # {}, \A h \in E : prices[h] \in Int, NEW k
    PROVE  ExtremeOf(E, k) \in {prices[h] : h \in E}
<1>1. PICK lo \in E : \A h \in E : prices[lo] <= prices[h]  BY Smallest
<1>2. PICK hi \in E : \A h \in E : prices[h] <= prices[hi]  BY Greatest
<1>3. CASE k = "spike"
  <2>1. \A h \in E : prices[hi] >= prices[h]  BY <1>2
  <2> QED  BY <1>3, <2>1, Zenon DEF ExtremeOf
<1>4. CASE k # "spike"  BY <1>1, <1>4, Zenon DEF ExtremeOf
<1> QED  BY <1>3, <1>4

(* An alert that is told is known, and locks the hour.                       *)
LEMMA TellsKnown ==
    ASSUME NEW L, NEW H, NEW m, Alerting(L, H, m), NEW k \in Warnings, NEW x, Tells(k, x), NEW y,
           Known(updated["spike"], last["spike"], y), Same(updated["spike"], last["spike"])
    PROVE  Known(updated'["spike"], last'["spike"], y) /\ Same(updated'["spike"], last'["spike"])
<1>1. last' = [last EXCEPT ![k] = New(x)] /\ updated' = [updated EXCEPT ![k] = "sent"]  BY DEF Tells
<1>2. last \in [Warnings -> Alert(L)] /\ updated \in [Warnings -> {"no", "sent", "held", "none"}]
  BY DEF Alerting
<1>3. CASE k = "spike"
  <2>1. last'["spike"] = New(x) /\ updated'["spike"] = "sent"  BY <1>1, <1>2, <1>3
  <2>2. New(x).told /\ New(x).age = 0  BY DEF New
  <2> QED  BY <2>1, <2>2 DEF Known, Same
<1>4. CASE k # "spike"
  <2>1. last'["spike"] = last["spike"] /\ updated'["spike"] = updated["spike"]  BY <1>1, <1>2, <1>4
  <2> QED  BY <2>1
<1> QED  BY <1>3, <1>4

LEMMA TellsLocks ==
    ASSUME NEW L, NEW H, NEW m, Alerting(L, H, m), NEW k \in Warnings, NEW x, Tells(k, x),
           Locked, ~(last[k].told /\ last[k].age < 1)
    PROVE  Locked'
<1>1. /\ last' = [last EXCEPT ![k] = New(x)]
      /\ sends' = [sends EXCEPT ![k] = IF @ < 2 THEN @ + 1 ELSE 2]
  BY DEF Tells
<1>2. last \in [Warnings -> Alert(L)] /\ sends \in [Warnings -> 0..2]  BY DEF Alerting
<1>3. sends[k] = 0  BY <1>2 DEF Locked
<1>4. New(x).told /\ New(x).age = 0  BY DEF New
<1>5. \A j \in Warnings : sends'[j] <= 1 /\ (sends'[j] = 1 => last'[j].told /\ last'[j].age = 0)
  <2> TAKE j \in Warnings
  <2>1. CASE j = k
    <3>1. last'[j] = New(x) /\ sends'[j] = 1  BY <1>1, <1>2, <1>3, <2>1
    <3> QED  BY <1>4, <3>1
  <2>2. CASE j # k
    <3>1. last'[j] = last[j] /\ sends'[j] = sends[j]  BY <1>1, <1>2, <2>2
    <3> QED  BY <3>1 DEF Locked
  <2> QED  BY <2>1, <2>2
<1> QED  BY <1>5 DEF Locked

(* An alert that is held back, or no event, is noted.                        *)
LEMMA NotesSays ==
    ASSUME NEW L, NEW H, NEW m, Alerting(L, H, m), NEW k \in Warnings, NEW as, Notes(k, as)
    PROVE  last' = last /\ updated'["spike"] = IF k = "spike" THEN as ELSE updated["spike"]
<1>1. updated \in [Warnings -> {"no", "sent", "held", "none"}]  BY DEF Alerting
<1>2. updated' = [updated EXCEPT ![k] = as] /\ last' = last  BY DEF Notes
<1> QED  BY <1>1, <1>2 DEF Warnings

(* Only telling sends.                                                      *)
LEMMA NotesSendsNothing ==
    ASSUME NEW L, NEW H, NEW m, Alerting(L, H, m), NEW k \in Warnings, NEW as, as # "sent", Notes(k, as),
           NEW j \in Warnings, updated[j] # "sent"
    PROVE  updated'[j] # "sent"
<1> QED  BY DEF Notes, Alerting

LEMMA TellsSends ==
    ASSUME NEW L, NEW H, NEW m, Alerting(L, H, m), NEW k \in Warnings, NEW x, Tells(k, x),
           NEW j \in Warnings, updated[j] # "sent", updated'[j] = "sent"
    PROVE  k = j /\ last'[j].extreme = x
<1>1. updated' = [updated EXCEPT ![k] = "sent"] /\ last' = [last EXCEPT ![k] = New(x)]  BY DEF Tells
<1>2. last \in [Warnings -> Alert(L)] /\ updated \in [Warnings -> {"no", "sent", "held", "none"}]
  BY DEF Alerting
<1>3. k = j  BY <1>1, <1>2
<1>4. last'[j] = New(x)  BY <1>1, <1>2, <1>3
<1> QED  BY <1>3, <1>4 DEF New

-----------------------------------------------------------------------------
(* The part of spikes, whose log can always be read.                        *)
SpikesInv ==
    Alerting(SpikeLevels, Spikes!Hours, MaxRefused) /\ Known(updated["spike"], last["spike"], Spikes!Extreme("spike"))
    /\ Same(updated["spike"], last["spike"])

LEMMA SpikesConstants ==
    /\ SpikeLevels \subseteq Int /\ {TypicalPrice, UserDelta, HighPrice, LowPrice} \subseteq Int
    /\ UserDelta > 1 /\ MaxRefused \in Nat
    /\ IsFiniteSet(Spikes!Hours) /\ Spikes!Hours \subseteq Nat
<1>1. Spikes!Assumptions  BY PartsAssumption
<1>2. IsFiniteSet(Spikes!Hours) /\ Spikes!Hours \subseteq Nat
  <2>1. LongForecast + 1 \in Int  BY <1>1 DEF Spikes!Assumptions
  <2>2. \A a, b \in Int : IsFiniteSet(a..b)  BY FS_Interval
  <2> QED  BY <2>1, <2>2 DEF Spikes!Hours
<1> QED  BY <1>1, <1>2 DEF Spikes!Assumptions

LEMMA SpikesExtreme ==
    ASSUME Alerting(SpikeLevels, Spikes!Hours, MaxRefused), NEW k \in Warnings, Spikes!Event(k) # {}
    PROVE  Spikes!Extreme(k) \in SpikeLevels /\ Beyond(Spikes!Extreme(k), k)
<1>1. Spikes!Event(k) \subseteq Spikes!Hours  BY DEF Spikes!Event
<1>2. IsFiniteSet(Spikes!Event(k)) /\ \A h \in Spikes!Event(k) : prices[h] \in SpikeLevels /\ prices[h] \in Int /\ h \in Nat
  BY <1>1, SpikesConstants, Counting DEF Alerting
<1>3. Spikes!Extreme(k) = ExtremeOf(Spikes!Event(k), k)  BY DEF Spikes!Extreme, ExtremeOf
<1>4. PICK h \in Spikes!Event(k) : Spikes!Extreme(k) = prices[h]  BY <1>2, <1>3, ExtremeOfIs
<1>5. Spikes!Start(k) \in 1..2 /\ Spikes!Start(k) <= h  BY DEF Spikes!Event, Spikes!Start
<1>6. h \in Spikes!Start(k)..h  BY <1>2, <1>5
<1>7. Spikes!Qualifies(prices[h], k)  BY <1>6 DEF Spikes!Event
<1>8. Beyond(prices[h], k)
  BY <1>2, <1>7, SpikesConstants DEF Spikes!Qualifies, Spikes!Required, Beyond
<1> QED  BY <1>2, <1>4, <1>8

LEMMA SpikesLooks ==
    ASSUME NEW k \in Warnings, Spikes!Update(k)
    PROVE  /\ UNCHANGED <<prices, quiet>>
           /\ \/ Notes(k, "none")
              \/ Spikes!Event(k) # {} /\ Notes(k, "held") /\ \E stored \in BOOLEAN : Spikes!Held(k, stored)
              \/ /\ Spikes!Event(k) # {} /\ Tells(k, Spikes!Extreme(k)) /\ refused' = refused
                 /\ \E stored \in BOOLEAN : ~Spikes!Held(k, stored)
              \/ UNCHANGED <<last, sends, updated>> /\ refused < MaxRefused /\ refused' = refused + 1
<1>1. CASE Spikes!Event(k) = {} \/ Spikes!OverWithinTheHour(k)
  <2>1. Spikes!Hold(k, "none") /\ UNCHANGED <<prices, quiet>>  BY <1>1 DEF Spikes!Update
  <2> QED  BY <2>1 DEF Spikes!Hold, Notes
<1>2. CASE ~(Spikes!Event(k) = {} \/ Spikes!OverWithinTheHour(k))
  <2>1. UNCHANGED <<prices, quiet>>  BY DEF Spikes!Update
  <2>2. \/ Spikes!Fault("logs") /\ Spikes!Deliver(k)
        \/ \E stored \in BOOLEAN :
             IF Spikes!Held(k, stored) THEN Spikes!Hold(k, "held")
             ELSE \/ Spikes!Deliver(k) /\ UNCHANGED refused
                  \/ Spikes!Fault("refused") /\ UNCHANGED <<last, sends, updated>>
    BY <1>2 DEF Spikes!Update
  <2>3. Spikes!Deliver(k) => Tells(k, Spikes!Extreme(k))  BY DEF Spikes!Deliver, Tells, New
  <2>4. Spikes!Hold(k, "held") => Notes(k, "held")  BY DEF Spikes!Hold, Notes
  <2>5. ~Spikes!Fault("logs")  BY DEF Spikes!Fault
  <2>6. Spikes!Fault("refused") => refused < MaxRefused /\ refused' = refused + 1  BY DEF Spikes!Fault
  <2>7. Spikes!Fault("logs") => refused < MaxRefused /\ refused' = refused + 1  BY DEF Spikes!Fault
  <2> QED  BY <1>2, <2>1, <2>2, <2>3, <2>4, <2>5, <2>6, <2>7, Zenon
<1> QED  BY <1>1, <1>2

LEMMA SpikesHourPasses ==
    ASSUME Spikes!Hour
    PROVE  Passes /\ prices' \in [Spikes!Hours -> SpikeLevels] /\ quiet' \in BOOLEAN /\ UNCHANGED refused
<1>1. PICK b \in [Warnings -> {"none", "anomalous", "recovered"}] :
        last' = [k \in Warnings |->
            IF ~last[k].told \/ last[k].age + 1 = 37 THEN NotYet
            ELSE [last[k] EXCEPT !.age = @ + 1, !.between = b[k]]]
  BY Zenon DEF Spikes!Hour, Spikes!Kinds, Spikes!Cap, Spikes!Never, Warnings, NotYet
<1>2. /\ sends' = [k \in Warnings |-> 0] /\ updated' = [k \in Warnings |-> "no"]
      /\ prices' \in [Spikes!Hours -> SpikeLevels] /\ quiet' \in BOOLEAN /\ UNCHANGED refused
  BY DEF Spikes!Hour, Spikes!Kinds, Spikes!Forecasts, Warnings
<1> QED  BY <1>1, <1>2, Zenon DEF Passes

LEMMA SpikesExtremeStays == prices' = prices => \A k \in Warnings : Spikes!Extreme(k)' = Spikes!Extreme(k)
<1> QED  BY DEF Spikes!Extreme, Spikes!Event, Spikes!Start, Spikes!Qualifies, Spikes!Required

LEMMA SpikesHeldIsKnown ==
    ASSUME Alerting(SpikeLevels, Spikes!Hours, MaxRefused), Spikes!Event("spike") # {}, NEW stored \in BOOLEAN, Spikes!Held("spike", stored)
    PROVE  Known("held", last["spike"], Spikes!Extreme("spike")) /\ Same("held", last["spike"])
<1> DEFINE x == Spikes!Extreme("spike")
           alert == last["spike"]
<1>1. x \in Int /\ HighPrice \in Int  BY SpikesExtreme, SpikesConstants DEF Warnings
<1>2. alert.age \in 0..37 /\ alert.extreme \in Int
  <2>1. last["spike"] \in Alert(SpikeLevels)  BY DEF Alerting, Warnings
  <2>2. alert.age \in 0..37 /\ alert.extreme \in SpikeLevels \cup {0}  BY <2>1 DEF Alert
  <2>3. \A n \in SpikeLevels \cup {0} : n \in Int  BY SpikesConstants
  <2> HIDE DEF alert
  <2> QED  BY <2>2, <2>3
<1>3. /\ alert.told
      /\ \/ alert.age < 1
         \/ /\ ~(10 * x >= 12 * alert.extreme /\ x >= HighPrice)
            /\ alert.age < 6 \/ (alert.age < 24 /\ ~Spikes!Recovered("spike", stored))
  BY DEF Spikes!Held, Spikes!Escalates
<1>4. ~Spikes!Recovered("spike", stored) => alert.between = "anomalous"  BY DEF Spikes!Recovered
<1> HIDE DEF x, alert
<1>5. Known("held", alert, x) /\ Same("held", alert)  BY <1>1, <1>2, <1>3, <1>4 DEF Known, Same
<1> QED  BY <1>5 DEF x, alert

LEMMA SpikesKept ==
    ASSUME SpikesInv, Spikes!Next
    PROVE  SpikesInv'
<1>0. /\ Alerting(SpikeLevels, Spikes!Hours, MaxRefused)
      /\ Known(updated["spike"], last["spike"], Spikes!Extreme("spike")) /\ Same(updated["spike"], last["spike"])
  BY DEF SpikesInv
<1>1. CASE Spikes!Hour
  <2>1. Alerting(SpikeLevels, Spikes!Hours, MaxRefused)' /\ updated'["spike"] = "no"
    BY <1>0, <1>1, SpikesHourPasses, PassesKeeps
  <2> QED  BY <2>1 DEF SpikesInv, Known, Same
<1>2. CASE Spikes!Revise
  <2>1. /\ prices' \in [Spikes!Hours -> SpikeLevels] /\ updated' = [k \in Warnings |-> "no"]
        /\ UNCHANGED <<last, quiet, sends, refused>>
    BY <1>2 DEF Spikes!Revise, Spikes!Forecasts, Spikes!Kinds, Warnings
  <2>2. Alerting(SpikeLevels, Spikes!Hours, MaxRefused)'  BY <1>0, <2>1 DEF Alerting, Beyond
  <2>3. updated'["spike"] = "no"  BY <2>1 DEF Warnings
  <2> QED  BY <2>2, <2>3 DEF SpikesInv, Known, Same
<1>3. ASSUME NEW k \in Warnings, Spikes!Update(k) PROVE SpikesInv'
  <2>1. UNCHANGED <<prices, quiet>> /\ Spikes!Extreme("spike")' = Spikes!Extreme("spike")
    BY <1>3, SpikesLooks, SpikesExtremeStays DEF Warnings
  <2>2. ASSUME Notes(k, "none") PROVE SpikesInv'
    <3>1. Alerting(SpikeLevels, Spikes!Hours, MaxRefused)'  BY <1>0, <2>1, <2>2, NotesKeeps
    <3>2. last' = last /\ updated'["spike"] = IF k = "spike" THEN "none" ELSE updated["spike"]
      BY <1>0, <2>2, NotesSays
    <3> QED  BY <1>0, <2>1, <3>1, <3>2 DEF SpikesInv, Known, Same
  <2>3. ASSUME Spikes!Event(k) # {}, Notes(k, "held"), NEW stored \in BOOLEAN, Spikes!Held(k, stored)
        PROVE  SpikesInv'
    <3>1. Alerting(SpikeLevels, Spikes!Hours, MaxRefused)'  BY <1>0, <2>1, <2>3, NotesKeeps
    <3>2. last' = last /\ updated'["spike"] = IF k = "spike" THEN "held" ELSE updated["spike"]
      BY <1>0, <2>3, NotesSays
    <3>3. k = "spike" => Known("held", last["spike"], Spikes!Extreme("spike")) /\ Same("held", last["spike"])
      BY <1>0, <2>3, SpikesHeldIsKnown
    <3> QED  BY <1>0, <2>1, <3>1, <3>2, <3>3 DEF SpikesInv, Known, Same
  <2>4. ASSUME Spikes!Event(k) # {}, Tells(k, Spikes!Extreme(k)), refused' \in 0..MaxRefused
        PROVE  SpikesInv'
    <3>1. Spikes!Extreme(k) \in SpikeLevels /\ Beyond(Spikes!Extreme(k), k)  BY <1>0, <2>4, SpikesExtreme
    <3>2. Alerting(SpikeLevels, Spikes!Hours, MaxRefused)'  BY <1>0, <2>1, <2>4, <3>1, TellsKeeps
    <3>3. /\ Known(updated'["spike"], last'["spike"], Spikes!Extreme("spike"))
          /\ Same(updated'["spike"], last'["spike"])
      BY <1>0, <2>4, TellsKnown
    <3> QED  BY <2>1, <3>2, <3>3 DEF SpikesInv, Known, Same
  <2>5. refused' = refused \/ (refused < MaxRefused /\ refused' = refused + 1) => refused' \in 0..MaxRefused
    BY <1>0, SpikesConstants DEF Alerting
  <2>6. ASSUME UNCHANGED <<last, sends, updated>>, refused' \in 0..MaxRefused PROVE SpikesInv'
    <3>1. Alerting(SpikeLevels, Spikes!Hours, MaxRefused)'  BY <1>0, <2>1, <2>6 DEF Alerting, Beyond
    <3> QED  BY <1>0, <2>1, <2>6, <3>1 DEF SpikesInv, Known, Same
  <2> QED  BY <1>3, SpikesLooks, <2>2, <2>3, <2>4, <2>5, <2>6, Zenon
<1> QED  BY <1>1, <1>2, <1>3 DEF Spikes!Next, Spikes!Kinds, Warnings

(* What is told anew is not held back.                                      *)
LEMMA SpikesToldAnew ==
    ASSUME Alerting(SpikeLevels, Spikes!Hours, MaxRefused), Spikes!Next, Spikes!Alerted("spike")
    PROVE  /\ Spikes!Event("spike") # {} /\ last'["spike"].extreme = Spikes!Extreme("spike")
           /\ \E stored \in BOOLEAN : ~Spikes!Held("spike", stored)
<1>1. "spike" \in Warnings /\ updated["spike"] # "sent" /\ updated'["spike"] = "sent"
  BY DEF Spikes!Alerted, Warnings
<1>2. ~Spikes!Hour /\ ~Spikes!Revise
  <2>1. Spikes!Hour \/ Spikes!Revise => updated' = [k \in Warnings |-> "no"]
    BY DEF Spikes!Hour, Spikes!Revise, Spikes!Kinds, Warnings
  <2> QED  BY <1>1, <2>1
<1>3. PICK k \in Warnings : Spikes!Update(k)  BY <1>2 DEF Spikes!Next, Spikes!Kinds, Warnings
<1>4. ~Notes(k, "none") /\ ~Notes(k, "held")  BY <1>1, NotesSendsNothing
<1>5. /\ Spikes!Event(k) # {} /\ Tells(k, Spikes!Extreme(k))
      /\ \E stored \in BOOLEAN : ~Spikes!Held(k, stored)
  BY <1>1, <1>3, <1>4, SpikesLooks
<1>6. k = "spike" /\ last'["spike"].extreme = Spikes!Extreme(k)  BY <1>1, <1>5, TellsSends
<1> QED  BY <1>5, <1>6

LEMMA SpikesNews ==
    ASSUME SpikesInv, Spikes!Next
    PROVE  Spikes!SpikeIsNews
<1>1. SUFFICES ASSUME Spikes!Alerted("spike"), last["spike"].told, last["spike"].age < 24,
                      last["spike"].between = "anomalous", Spikes!Qualifies(prices[1], "spike")
               PROVE  /\ 10 * last'["spike"].extreme >= 12 * last["spike"].extreme
                      /\ last'["spike"].extreme >= HighPrice
  BY DEF Spikes!SpikeIsNews
<1>2. Alerting(SpikeLevels, Spikes!Hours, MaxRefused)  BY DEF SpikesInv
<1>3. PICK stored \in BOOLEAN : ~Spikes!Held("spike", stored)  BY <1>1, <1>2, SpikesToldAnew
<1>4. last'["spike"].extreme = Spikes!Extreme("spike")  BY <1>1, <1>2, SpikesToldAnew
<1>5. ~Spikes!Recovered("spike", stored)  BY <1>1 DEF Spikes!Recovered, Spikes!Start
<1>6. Spikes!Escalates("spike")  BY <1>1, <1>3, <1>5 DEF Spikes!Held
<1> QED  BY <1>4, <1>6 DEF Spikes!Escalates

(* With its log at hand, an update tells once an hour.                      *)
LEMMA SpikesLocked ==
    ASSUME SpikesInv, Locked, Spikes!Next
    PROVE  Locked'
<1>1. Alerting(SpikeLevels, Spikes!Hours, MaxRefused)  BY DEF SpikesInv
<1>2. CASE Spikes!Hour  BY <1>1, <1>2, SpikesHourPasses, PassesKeeps
<1>3. CASE Spikes!Revise  BY <1>3 DEF Spikes!Revise, Locked
<1>4. ASSUME NEW k \in Warnings, Spikes!Update(k) PROVE Locked'
  <2>1. ASSUME Tells(k, Spikes!Extreme(k)), NEW stored \in BOOLEAN, ~Spikes!Held(k, stored)
        PROVE  Locked'
    <3>1. ~(last[k].told /\ last[k].age < 1)  BY <2>1 DEF Spikes!Held
    <3> QED  BY <1>1, <2>1, <3>1, TellsLocks
  <2>2. UNCHANGED <<last, sends>> => Locked'  BY DEF Locked
  <2>3. \A as : Notes(k, as) => UNCHANGED <<last, sends>>  BY DEF Notes
  <2> QED  BY <1>4, SpikesLooks, <2>1, <2>2, <2>3, Zenon
<1> QED  BY <1>2, <1>3, <1>4 DEF Spikes!Next, Spikes!Kinds, Warnings

-----------------------------------------------------------------------------
(* The part whose log cannot always be read.                                *)
BlindInv ==
    Alerting(SpikeLevels, Blind!Hours, MaxRefused) /\ Known(updated["spike"], last["spike"], Blind!Extreme("spike"))
    /\ Same(updated["spike"], last["spike"])

LEMMA BlindConstants ==
    /\ SpikeLevels \subseteq Int /\ {TypicalPrice, UserDelta, HighPrice, LowPrice} \subseteq Int
    /\ UserDelta > 1 /\ MaxRefused \in Nat
    /\ IsFiniteSet(Blind!Hours) /\ Blind!Hours \subseteq Nat
<1>1. Blind!Assumptions  BY PartsAssumption
<1>2. IsFiniteSet(Blind!Hours) /\ Blind!Hours \subseteq Nat
  <2>1. ShortForecast + 1 \in Int  BY <1>1 DEF Blind!Assumptions
  <2>2. \A a, b \in Int : IsFiniteSet(a..b)  BY FS_Interval
  <2> QED  BY <2>1, <2>2 DEF Blind!Hours
<1> QED  BY <1>1, <1>2 DEF Blind!Assumptions

LEMMA BlindExtreme ==
    ASSUME Alerting(SpikeLevels, Blind!Hours, MaxRefused), NEW k \in Warnings, Blind!Event(k) # {}
    PROVE  Blind!Extreme(k) \in SpikeLevels /\ Beyond(Blind!Extreme(k), k)
<1>1. Blind!Event(k) \subseteq Blind!Hours  BY DEF Blind!Event
<1>2. IsFiniteSet(Blind!Event(k)) /\ \A h \in Blind!Event(k) : prices[h] \in SpikeLevels /\ prices[h] \in Int /\ h \in Nat
  BY <1>1, BlindConstants, Counting DEF Alerting
<1>3. Blind!Extreme(k) = ExtremeOf(Blind!Event(k), k)  BY DEF Blind!Extreme, ExtremeOf
<1>4. PICK h \in Blind!Event(k) : Blind!Extreme(k) = prices[h]  BY <1>2, <1>3, ExtremeOfIs
<1>5. Blind!Start(k) \in 1..2 /\ Blind!Start(k) <= h  BY DEF Blind!Event, Blind!Start
<1>6. h \in Blind!Start(k)..h  BY <1>2, <1>5
<1>7. Blind!Qualifies(prices[h], k)  BY <1>6 DEF Blind!Event
<1>8. Beyond(prices[h], k)
  BY <1>2, <1>7, BlindConstants DEF Blind!Qualifies, Blind!Required, Beyond
<1> QED  BY <1>2, <1>4, <1>8

LEMMA BlindLooks ==
    ASSUME NEW k \in Warnings, Blind!Update(k)
    PROVE  /\ UNCHANGED <<prices, quiet>>
           /\ \/ Notes(k, "none")
              \/ Blind!Event(k) # {} /\ Notes(k, "held") /\ \E stored \in BOOLEAN : Blind!Held(k, stored)
              \/ /\ Blind!Event(k) # {} /\ Tells(k, Blind!Extreme(k)) /\ refused' = refused
                 /\ \E stored \in BOOLEAN : ~Blind!Held(k, stored)
              \/ Blind!Event(k) # {} /\ Tells(k, Blind!Extreme(k)) /\ refused < MaxRefused /\ refused' = refused + 1
              \/ UNCHANGED <<last, sends, updated>> /\ refused < MaxRefused /\ refused' = refused + 1
<1>1. CASE Blind!Event(k) = {} \/ Blind!OverWithinTheHour(k)
  <2>1. Blind!Hold(k, "none") /\ UNCHANGED <<prices, quiet>>  BY <1>1 DEF Blind!Update
  <2> QED  BY <2>1 DEF Blind!Hold, Notes
<1>2. CASE ~(Blind!Event(k) = {} \/ Blind!OverWithinTheHour(k))
  <2>1. UNCHANGED <<prices, quiet>>  BY DEF Blind!Update
  <2>2. \/ Blind!Fault("logs") /\ Blind!Deliver(k)
        \/ \E stored \in BOOLEAN :
             IF Blind!Held(k, stored) THEN Blind!Hold(k, "held")
             ELSE \/ Blind!Deliver(k) /\ UNCHANGED refused
                  \/ Blind!Fault("refused") /\ UNCHANGED <<last, sends, updated>>
    BY <1>2 DEF Blind!Update
  <2>3. Blind!Deliver(k) => Tells(k, Blind!Extreme(k))  BY DEF Blind!Deliver, Tells, New
  <2>4. Blind!Hold(k, "held") => Notes(k, "held")  BY DEF Blind!Hold, Notes
  <2>6. Blind!Fault("refused") => refused < MaxRefused /\ refused' = refused + 1  BY DEF Blind!Fault
  <2>7. Blind!Fault("logs") => refused < MaxRefused /\ refused' = refused + 1  BY DEF Blind!Fault
  <2> QED  BY <1>2, <2>1, <2>2, <2>3, <2>4, <2>6, <2>7, Zenon
<1> QED  BY <1>1, <1>2

LEMMA BlindHourPasses ==
    ASSUME Blind!Hour
    PROVE  Passes /\ prices' \in [Blind!Hours -> SpikeLevels] /\ quiet' \in BOOLEAN /\ UNCHANGED refused
<1>1. PICK b \in [Warnings -> {"none", "anomalous", "recovered"}] :
        last' = [k \in Warnings |->
            IF ~last[k].told \/ last[k].age + 1 = 37 THEN NotYet
            ELSE [last[k] EXCEPT !.age = @ + 1, !.between = b[k]]]
  BY Zenon DEF Blind!Hour, Blind!Kinds, Blind!Cap, Blind!Never, Warnings, NotYet
<1>2. /\ sends' = [k \in Warnings |-> 0] /\ updated' = [k \in Warnings |-> "no"]
      /\ prices' \in [Blind!Hours -> SpikeLevels] /\ quiet' \in BOOLEAN /\ UNCHANGED refused
  BY DEF Blind!Hour, Blind!Kinds, Blind!Forecasts, Warnings
<1> QED  BY <1>1, <1>2, Zenon DEF Passes

LEMMA BlindExtremeStays == prices' = prices => \A k \in Warnings : Blind!Extreme(k)' = Blind!Extreme(k)
<1> QED  BY DEF Blind!Extreme, Blind!Event, Blind!Start, Blind!Qualifies, Blind!Required

LEMMA BlindHeldIsKnown ==
    ASSUME Alerting(SpikeLevels, Blind!Hours, MaxRefused), Blind!Event("spike") # {}, NEW stored \in BOOLEAN, Blind!Held("spike", stored)
    PROVE  Known("held", last["spike"], Blind!Extreme("spike")) /\ Same("held", last["spike"])
<1> DEFINE x == Blind!Extreme("spike")
           alert == last["spike"]
<1>1. x \in Int /\ HighPrice \in Int  BY BlindExtreme, BlindConstants DEF Warnings
<1>2. alert.age \in 0..37 /\ alert.extreme \in Int
  <2>1. last["spike"] \in Alert(SpikeLevels)  BY DEF Alerting, Warnings
  <2>2. alert.age \in 0..37 /\ alert.extreme \in SpikeLevels \cup {0}  BY <2>1 DEF Alert
  <2>3. \A n \in SpikeLevels \cup {0} : n \in Int  BY BlindConstants
  <2> HIDE DEF alert
  <2> QED  BY <2>2, <2>3
<1>3. /\ alert.told
      /\ \/ alert.age < 1
         \/ /\ ~(10 * x >= 12 * alert.extreme /\ x >= HighPrice)
            /\ alert.age < 6 \/ (alert.age < 24 /\ ~Blind!Recovered("spike", stored))
  BY DEF Blind!Held, Blind!Escalates
<1>4. ~Blind!Recovered("spike", stored) => alert.between = "anomalous"  BY DEF Blind!Recovered
<1> HIDE DEF x, alert
<1>5. Known("held", alert, x) /\ Same("held", alert)  BY <1>1, <1>2, <1>3, <1>4 DEF Known, Same
<1> QED  BY <1>5 DEF x, alert

LEMMA BlindKept ==
    ASSUME BlindInv, Blind!Next
    PROVE  BlindInv'
<1>0. /\ Alerting(SpikeLevels, Blind!Hours, MaxRefused)
      /\ Known(updated["spike"], last["spike"], Blind!Extreme("spike")) /\ Same(updated["spike"], last["spike"])
  BY DEF BlindInv
<1>1. CASE Blind!Hour
  <2>1. Alerting(SpikeLevels, Blind!Hours, MaxRefused)' /\ updated'["spike"] = "no"
    BY <1>0, <1>1, BlindHourPasses, PassesKeeps
  <2> QED  BY <2>1 DEF BlindInv, Known, Same
<1>2. CASE Blind!Revise
  <2>1. /\ prices' \in [Blind!Hours -> SpikeLevels] /\ updated' = [k \in Warnings |-> "no"]
        /\ UNCHANGED <<last, quiet, sends, refused>>
    BY <1>2 DEF Blind!Revise, Blind!Forecasts, Blind!Kinds, Warnings
  <2>2. Alerting(SpikeLevels, Blind!Hours, MaxRefused)'  BY <1>0, <2>1 DEF Alerting, Beyond
  <2>3. updated'["spike"] = "no"  BY <2>1 DEF Warnings
  <2> QED  BY <2>2, <2>3 DEF BlindInv, Known, Same
<1>3. ASSUME NEW k \in Warnings, Blind!Update(k) PROVE BlindInv'
  <2>1. UNCHANGED <<prices, quiet>> /\ Blind!Extreme("spike")' = Blind!Extreme("spike")
    BY <1>3, BlindLooks, BlindExtremeStays DEF Warnings
  <2>2. ASSUME Notes(k, "none") PROVE BlindInv'
    <3>1. Alerting(SpikeLevels, Blind!Hours, MaxRefused)'  BY <1>0, <2>1, <2>2, NotesKeeps
    <3>2. last' = last /\ updated'["spike"] = IF k = "spike" THEN "none" ELSE updated["spike"]
      BY <1>0, <2>2, NotesSays
    <3> QED  BY <1>0, <2>1, <3>1, <3>2 DEF BlindInv, Known, Same
  <2>3. ASSUME Blind!Event(k) # {}, Notes(k, "held"), NEW stored \in BOOLEAN, Blind!Held(k, stored)
        PROVE  BlindInv'
    <3>1. Alerting(SpikeLevels, Blind!Hours, MaxRefused)'  BY <1>0, <2>1, <2>3, NotesKeeps
    <3>2. last' = last /\ updated'["spike"] = IF k = "spike" THEN "held" ELSE updated["spike"]
      BY <1>0, <2>3, NotesSays
    <3>3. k = "spike" => Known("held", last["spike"], Blind!Extreme("spike")) /\ Same("held", last["spike"])
      BY <1>0, <2>3, BlindHeldIsKnown
    <3> QED  BY <1>0, <2>1, <3>1, <3>2, <3>3 DEF BlindInv, Known, Same
  <2>4. ASSUME Blind!Event(k) # {}, Tells(k, Blind!Extreme(k)), refused' \in 0..MaxRefused
        PROVE  BlindInv'
    <3>1. Blind!Extreme(k) \in SpikeLevels /\ Beyond(Blind!Extreme(k), k)  BY <1>0, <2>4, BlindExtreme
    <3>2. Alerting(SpikeLevels, Blind!Hours, MaxRefused)'  BY <1>0, <2>1, <2>4, <3>1, TellsKeeps
    <3>3. /\ Known(updated'["spike"], last'["spike"], Blind!Extreme("spike"))
          /\ Same(updated'["spike"], last'["spike"])
      BY <1>0, <2>4, TellsKnown
    <3> QED  BY <2>1, <3>2, <3>3 DEF BlindInv, Known, Same
  <2>5. refused' = refused \/ (refused < MaxRefused /\ refused' = refused + 1) => refused' \in 0..MaxRefused
    BY <1>0, BlindConstants DEF Alerting
  <2>6. ASSUME UNCHANGED <<last, sends, updated>>, refused' \in 0..MaxRefused PROVE BlindInv'
    <3>1. Alerting(SpikeLevels, Blind!Hours, MaxRefused)'  BY <1>0, <2>1, <2>6 DEF Alerting, Beyond
    <3> QED  BY <1>0, <2>1, <2>6, <3>1 DEF BlindInv, Known, Same
  <2> QED  BY <1>3, BlindLooks, <2>2, <2>3, <2>4, <2>5, <2>6, Zenon
<1> QED  BY <1>1, <1>2, <1>3 DEF Blind!Next, Blind!Kinds, Warnings

-----------------------------------------------------------------------------
(* The part of dips.                                                        *)
DipsInv ==
    Alerting(DipLevels, Dips!Hours, 0)

LEMMA DipsConstants ==
    /\ DipLevels \subseteq Int /\ {TypicalPrice, UserDelta, HighPrice, LowPrice} \subseteq Int
    /\ UserDelta > 1 /\ 0 \in Nat
    /\ IsFiniteSet(Dips!Hours) /\ Dips!Hours \subseteq Nat
<1>1. Dips!Assumptions  BY PartsAssumption
<1>2. IsFiniteSet(Dips!Hours) /\ Dips!Hours \subseteq Nat
  <2>1. ShortForecast + 1 \in Int  BY <1>1 DEF Dips!Assumptions
  <2>2. \A a, b \in Int : IsFiniteSet(a..b)  BY FS_Interval
  <2> QED  BY <2>1, <2>2 DEF Dips!Hours
<1> QED  BY <1>1, <1>2 DEF Dips!Assumptions

LEMMA DipsExtreme ==
    ASSUME Alerting(DipLevels, Dips!Hours, 0), NEW k \in Warnings, Dips!Event(k) # {}
    PROVE  Dips!Extreme(k) \in DipLevels /\ Beyond(Dips!Extreme(k), k)
<1>1. Dips!Event(k) \subseteq Dips!Hours  BY DEF Dips!Event
<1>2. IsFiniteSet(Dips!Event(k)) /\ \A h \in Dips!Event(k) : prices[h] \in DipLevels /\ prices[h] \in Int /\ h \in Nat
  BY <1>1, DipsConstants, Counting DEF Alerting
<1>3. Dips!Extreme(k) = ExtremeOf(Dips!Event(k), k)  BY DEF Dips!Extreme, ExtremeOf
<1>4. PICK h \in Dips!Event(k) : Dips!Extreme(k) = prices[h]  BY <1>2, <1>3, ExtremeOfIs
<1>5. Dips!Start(k) \in 1..2 /\ Dips!Start(k) <= h  BY DEF Dips!Event, Dips!Start
<1>6. h \in Dips!Start(k)..h  BY <1>2, <1>5
<1>7. Dips!Qualifies(prices[h], k)  BY <1>6 DEF Dips!Event
<1>8. Beyond(prices[h], k)
  BY <1>2, <1>7, DipsConstants DEF Dips!Qualifies, Dips!Required, Beyond
<1> QED  BY <1>2, <1>4, <1>8

LEMMA DipsLooks ==
    ASSUME NEW k \in Warnings, Dips!Update(k)
    PROVE  /\ UNCHANGED <<prices, quiet>>
           /\ \/ Notes(k, "none")
              \/ Dips!Event(k) # {} /\ Notes(k, "held") /\ \E stored \in BOOLEAN : Dips!Held(k, stored)
              \/ /\ Dips!Event(k) # {} /\ Tells(k, Dips!Extreme(k)) /\ refused' = refused
                 /\ \E stored \in BOOLEAN : ~Dips!Held(k, stored)
<1>1. CASE Dips!Event(k) = {} \/ Dips!OverWithinTheHour(k)
  <2>1. Dips!Hold(k, "none") /\ UNCHANGED <<prices, quiet>>  BY <1>1 DEF Dips!Update
  <2> QED  BY <2>1 DEF Dips!Hold, Notes
<1>2. CASE ~(Dips!Event(k) = {} \/ Dips!OverWithinTheHour(k))
  <2>1. UNCHANGED <<prices, quiet>>  BY DEF Dips!Update
  <2>2. \/ Dips!Fault("logs") /\ Dips!Deliver(k)
        \/ \E stored \in BOOLEAN :
             IF Dips!Held(k, stored) THEN Dips!Hold(k, "held")
             ELSE \/ Dips!Deliver(k) /\ UNCHANGED refused
                  \/ Dips!Fault("refused") /\ UNCHANGED <<last, sends, updated>>
    BY <1>2 DEF Dips!Update
  <2>3. Dips!Deliver(k) => Tells(k, Dips!Extreme(k))  BY DEF Dips!Deliver, Tells, New
  <2>4. Dips!Hold(k, "held") => Notes(k, "held")  BY DEF Dips!Hold, Notes
  <2>5. ~Dips!Fault("logs")  BY DEF Dips!Fault
  <2>6. Dips!Fault("refused") => FALSE  BY DEF Dips!Fault
  <2>7. Dips!Fault("logs") => FALSE  BY DEF Dips!Fault
  <2> QED  BY <1>2, <2>1, <2>2, <2>3, <2>4, <2>5, <2>6, <2>7, Zenon
<1> QED  BY <1>1, <1>2

LEMMA DipsHourPasses ==
    ASSUME Dips!Hour
    PROVE  Passes /\ prices' \in [Dips!Hours -> DipLevels] /\ quiet' \in BOOLEAN /\ UNCHANGED refused
<1>1. PICK b \in [Warnings -> {"none", "anomalous", "recovered"}] :
        last' = [k \in Warnings |->
            IF ~last[k].told \/ last[k].age + 1 = 37 THEN NotYet
            ELSE [last[k] EXCEPT !.age = @ + 1, !.between = b[k]]]
  BY Zenon DEF Dips!Hour, Dips!Kinds, Dips!Cap, Dips!Never, Warnings, NotYet
<1>2. /\ sends' = [k \in Warnings |-> 0] /\ updated' = [k \in Warnings |-> "no"]
      /\ prices' \in [Dips!Hours -> DipLevels] /\ quiet' \in BOOLEAN /\ UNCHANGED refused
  BY DEF Dips!Hour, Dips!Kinds, Dips!Forecasts, Warnings
<1> QED  BY <1>1, <1>2, Zenon DEF Passes

LEMMA DipsKept ==
    ASSUME DipsInv, Dips!Next
    PROVE  DipsInv'
<1>0. Alerting(DipLevels, Dips!Hours, 0)  BY DEF DipsInv
<1>1. CASE Dips!Hour  BY <1>0, <1>1, DipsHourPasses, PassesKeeps DEF DipsInv
<1>2. CASE Dips!Revise
  <2>1. /\ prices' \in [Dips!Hours -> DipLevels] /\ updated' = [k \in Warnings |-> "no"]
        /\ UNCHANGED <<last, quiet, sends, refused>>
    BY <1>2 DEF Dips!Revise, Dips!Forecasts, Dips!Kinds, Warnings
  <2> QED  BY <1>0, <2>1 DEF DipsInv, Alerting, Beyond
<1>3. ASSUME NEW k \in Warnings, Dips!Update(k) PROVE DipsInv'
  <2>1. UNCHANGED <<prices, quiet>>  BY <1>3, DipsLooks
  <2>2. ASSUME NEW as \in {"held", "none"}, Notes(k, as) PROVE DipsInv'
    BY <1>0, <2>1, <2>2, NotesKeeps DEF DipsInv
  <2>3. ASSUME Dips!Event(k) # {}, Tells(k, Dips!Extreme(k)), refused' = refused PROVE DipsInv'
    <3>1. Dips!Extreme(k) \in DipLevels /\ Beyond(Dips!Extreme(k), k)  BY <1>0, <2>3, DipsExtreme
    <3>2. refused' \in 0..0  BY <1>0, <2>3 DEF Alerting
    <3>3. Alerting(DipLevels, Dips!Hours, 0)'  BY <1>0, <2>1, <2>3, <3>1, <3>2, TellsKeeps
    <3> QED  BY <3>3 DEF DipsInv
  <2> QED  BY <1>3, DipsLooks, <2>2, <2>3, Zenon
<1> QED  BY <1>1, <1>2, <1>3 DEF Dips!Next, Dips!Kinds, Warnings

(* What is told anew is not held back.                                      *)
LEMMA DipsToldAnew ==
    ASSUME Alerting(DipLevels, Dips!Hours, 0), Dips!Next, Dips!Alerted("dip")
    PROVE  /\ Dips!Event("dip") # {} /\ last'["dip"].extreme = Dips!Extreme("dip")
           /\ \E stored \in BOOLEAN : ~Dips!Held("dip", stored)
<1>1. "dip" \in Warnings /\ updated["dip"] # "sent" /\ updated'["dip"] = "sent"
  BY DEF Dips!Alerted, Warnings
<1>2. ~Dips!Hour /\ ~Dips!Revise
  <2>1. Dips!Hour \/ Dips!Revise => updated' = [k \in Warnings |-> "no"]
    BY DEF Dips!Hour, Dips!Revise, Dips!Kinds, Warnings
  <2> QED  BY <1>1, <2>1
<1>3. PICK k \in Warnings : Dips!Update(k)  BY <1>2 DEF Dips!Next, Dips!Kinds, Warnings
<1>4. ~Notes(k, "none") /\ ~Notes(k, "held")  BY <1>1, NotesSendsNothing
<1>5. /\ Dips!Event(k) # {} /\ Tells(k, Dips!Extreme(k))
      /\ \E stored \in BOOLEAN : ~Dips!Held(k, stored)
  BY <1>1, <1>3, <1>4, DipsLooks
<1>6. k = "dip" /\ last'["dip"].extreme = Dips!Extreme(k)  BY <1>1, <1>5, TellsSends
<1> QED  BY <1>5, <1>6

LEMMA DipsNews ==
    ASSUME DipsInv, Dips!Next
    PROVE  Dips!DipIsNews
<1>1. SUFFICES ASSUME Dips!Alerted("dip"), last["dip"].told, last["dip"].age < 36
               PROVE  \/ last["dip"].extreme - last'["dip"].extreme >= Dips!Required(last'["dip"].extreme, "dip")
                      \/ last'["dip"].extreme < 0 /\ last["dip"].age \in 6..17
                           /\ (last["dip"].between # "anomalous" \/ ~Dips!Qualifies(prices[1], "dip"))
  BY DEF Dips!DipIsNews
<1>2. Alerting(DipLevels, Dips!Hours, 0)  BY DEF DipsInv
<1>3. PICK stored \in BOOLEAN : ~Dips!Held("dip", stored)  BY <1>1, <1>2, DipsToldAnew
<1>4. Dips!Event("dip") # {} /\ last'["dip"].extreme = Dips!Extreme("dip")  BY <1>1, <1>2, DipsToldAnew
<1>5. Dips!Extreme("dip") \in Int  BY <1>2, <1>4, DipsExtreme, DipsConstants DEF Warnings
<1>6. last["dip"].age \in 0..37
  <2>1. last["dip"] \in Alert(DipLevels)  BY <1>2 DEF Alerting, Warnings
  <2> QED  BY <2>1 DEF Alert
<1> DEFINE x == Dips!Extreme("dip")
           age == last["dip"].age
<1>7. CASE Dips!Escalates("dip")
  <2>1. last["dip"].extreme - x >= Dips!Required(x, "dip")  BY <1>7 DEF Dips!Escalates
  <2> QED  BY <1>4, <2>1
<1>8. CASE ~Dips!Escalates("dip")
  <2>1. /\ ~(age < 1) /\ ~(age < 6)
        /\ ~(age < 18 /\ (x >= 0 \/ ~Dips!Recovered("dip", stored)))
        /\ ~(age >= 18 /\ age < 36)
    BY <1>1, <1>3, <1>8 DEF Dips!Held
  <2>2. Dips!Recovered("dip", stored) => last["dip"].between # "anomalous" \/ ~Dips!Qualifies(prices[1], "dip")
    BY DEF Dips!Recovered, Dips!Start
  <2>3. x \in Int /\ age \in 0..37 /\ age < 36  BY <1>1, <1>5, <1>6
  <2>4. last'["dip"].extreme = x  BY <1>4
  <2> HIDE DEF x, age
  <2>5. age \in 6..17 /\ x < 0 /\ Dips!Recovered("dip", stored)  BY <2>1, <2>3
  <2> QED  BY <2>2, <2>4, <2>5 DEF age
<1> QED  BY <1>7, <1>8

-----------------------------------------------------------------------------
(* The parts together.                                                      *)
LEMMA NothingTold ==
    ASSUME NEW L, NEW H, NEW m \in Nat, prices \in [H -> L], quiet \in BOOLEAN, refused = 0,
           last = [k \in Warnings |-> NotYet],
           updated = [k \in Warnings |-> "no"], sends = [k \in Warnings |-> 0]
    PROVE  Alerting(L, H, m)
<1>1. NotYet \in Alert(L) /\ ~NotYet.told  BY DEF NotYet, Alert
<1>2. last \in [Warnings -> Alert(L)] /\ \A k \in Warnings : ~last[k].told  BY <1>1
<1> QED  BY <1>2 DEF Alerting

LEMMA SpikesAtFirst == Spikes!Init => SpikesInv /\ Locked
<1> SUFFICES ASSUME Spikes!Init PROVE SpikesInv /\ Locked  OBVIOUS
<1>1. /\ prices \in [Spikes!Hours -> SpikeLevels] /\ quiet \in BOOLEAN /\ refused = 0
      /\ last = [k \in Warnings |-> NotYet]
      /\ updated = [k \in Warnings |-> "no"] /\ sends = [k \in Warnings |-> 0]
  BY DEF Spikes!Init, Spikes!Forecasts, Spikes!Kinds, Spikes!Never, Spikes!Cap, Warnings, NotYet
<1>2. Alerting(SpikeLevels, Spikes!Hours, MaxRefused)  BY <1>1, SpikesConstants, NothingTold
<1>3. updated["spike"] = "no"  BY <1>1 DEF Warnings
<1> QED  BY <1>1, <1>2, <1>3 DEF SpikesInv, Known, Same, Locked

LEMMA BlindAtFirst == Blind!Init => BlindInv
<1> SUFFICES ASSUME Blind!Init PROVE BlindInv  OBVIOUS
<1>1. /\ prices \in [Blind!Hours -> SpikeLevels] /\ quiet \in BOOLEAN /\ refused = 0
      /\ last = [k \in Warnings |-> NotYet]
      /\ updated = [k \in Warnings |-> "no"] /\ sends = [k \in Warnings |-> 0]
  BY DEF Blind!Init, Blind!Forecasts, Blind!Kinds, Blind!Never, Blind!Cap, Warnings, NotYet
<1>2. Alerting(SpikeLevels, Blind!Hours, MaxRefused)  BY <1>1, BlindConstants, NothingTold
<1>3. updated["spike"] = "no"  BY <1>1 DEF Warnings
<1> QED  BY <1>1, <1>2, <1>3 DEF BlindInv, Known, Same

LEMMA DipsAtFirst == Dips!Init => DipsInv
<1> SUFFICES ASSUME Dips!Init PROVE DipsInv  OBVIOUS
<1>1. /\ prices \in [Dips!Hours -> DipLevels] /\ quiet \in BOOLEAN /\ refused = 0
      /\ last = [k \in Warnings |-> NotYet]
      /\ updated = [k \in Warnings |-> "no"] /\ sends = [k \in Warnings |-> 0]
  BY DEF Dips!Init, Dips!Forecasts, Dips!Kinds, Dips!Never, Dips!Cap, Warnings, NotYet
<1>2. Alerting(DipLevels, Dips!Hours, 0)  BY <1>1, DipsConstants, NothingTold
<1>3. updated["spike"] = "no"  BY <1>1 DEF Warnings
<1> QED  BY <1>1, <1>2, <1>3 DEF DipsInv

PriceInv ==
    /\ part = "spikes" => SpikesInv /\ Locked
    /\ part = "blind" => BlindInv
    /\ part = "dips" => DipsInv

LEMMA PriceAtFirst == PartsInit => PriceInv
<1>1. PartsInit /\ part = "spikes" => Spikes!Init  BY DEF PartsInit
<1>2. PartsInit /\ part = "blind" => Blind!Init  BY DEF PartsInit
<1>3. PartsInit /\ part = "dips" => Dips!Init  BY DEF PartsInit
<1> QED  BY <1>1, <1>2, <1>3, SpikesAtFirst, BlindAtFirst, DipsAtFirst DEF PriceInv

LEMMA PriceSteps ==
    ASSUME [PartsNext]_vars
    PROVE  /\ part' = part
           /\ part = "spikes" => Spikes!Next \/ UNCHANGED warnings
           /\ part = "blind" => Blind!Next \/ UNCHANGED warnings
           /\ part = "dips" => Dips!Next \/ UNCHANGED warnings
<1> QED  BY Zenon DEF PartsNext, ForDevices, ForPrices, ForBaseline, vars

LEMMA PriceStays == PriceInv /\ [PartsNext]_vars => PriceInv'
<1> SUFFICES ASSUME PriceInv, [PartsNext]_vars PROVE PriceInv'  OBVIOUS
<1>1. ASSUME part = "spikes" PROVE (SpikesInv /\ Locked)'
  <2>1. SpikesInv /\ Locked  BY <1>1 DEF PriceInv
  <2>2. CASE Spikes!Next  BY <2>1, <2>2, SpikesKept, SpikesLocked
  <2>3. CASE UNCHANGED warnings
    <3>1. Spikes!Extreme("spike")' = Spikes!Extreme("spike")
      BY <2>3, SpikesExtremeStays DEF warnings, Warnings
    <3> QED  BY <2>1, <2>3, <3>1 DEF warnings, SpikesInv, Alerting, Beyond, Locked, Known, Same
  <2> QED  BY <1>1, <2>2, <2>3, PriceSteps
<1>2. ASSUME part = "blind" PROVE BlindInv'
  <2>1. BlindInv  BY <1>2 DEF PriceInv
  <2>2. CASE Blind!Next  BY <2>1, <2>2, BlindKept
  <2>3. CASE UNCHANGED warnings
    <3>1. Blind!Extreme("spike")' = Blind!Extreme("spike")
      BY <2>3, BlindExtremeStays DEF warnings, Warnings
    <3> QED  BY <2>1, <2>3, <3>1 DEF warnings, BlindInv, Alerting, Beyond, Known, Same
  <2> QED  BY <1>2, <2>2, <2>3, PriceSteps
<1>3. ASSUME part = "dips" PROVE DipsInv'
  <2>1. DipsInv  BY <1>3 DEF PriceInv
  <2>2. CASE Dips!Next  BY <2>1, <2>2, DipsKept
  <2>3. CASE UNCHANGED warnings  BY <2>1, <2>3 DEF warnings, DipsInv, Alerting, Beyond
  <2> QED  BY <1>3, <2>2, <2>3, PriceSteps
<1> QED  BY <1>1, <1>2, <1>3, PriceSteps DEF PriceInv

LEMMA PriceMeans == PriceInv => CooldownInv
<1> SUFFICES ASSUME PriceInv PROVE CooldownInv  OBVIOUS
<1>1. ASSUME part = "spikes"
      PROVE  Spikes!OneHourLockout /\ Spikes!EverySpikeIsKnown /\ Spikes!HeldSpikeIsTheSame
  <2>1. SpikesInv /\ Locked  BY <1>1 DEF PriceInv
  <2>2. Spikes!OneHourLockout  BY <2>1 DEF Locked, Spikes!OneHourLockout, Spikes!Kinds, Warnings
  <2>3. Spikes!EverySpikeIsKnown  BY <2>1 DEF SpikesInv, Known, Spikes!EverySpikeIsKnown
  <2>4. Spikes!HeldSpikeIsTheSame  BY <2>1 DEF SpikesInv, Same, Spikes!HeldSpikeIsTheSame
  <2> QED  BY <2>2, <2>3, <2>4
<1>2. ASSUME part = "blind"
      PROVE  Blind!TypeOK /\ Blind!EverySpikeIsKnown /\ Blind!HeldSpikeIsTheSame
  <2>1. BlindInv  BY <1>2 DEF PriceInv
  <2>2. Alerting(SpikeLevels, Blind!Hours, MaxRefused)  BY <2>1 DEF BlindInv
  <2>3. \A k \in Warnings :
          /\ last[k].age \in 0..37 /\ last[k].told \in BOOLEAN
          /\ last[k].extreme \in SpikeLevels \cup {0}
          /\ last[k].between \in {"none", "anomalous", "recovered"}
          /\ last[k].told => Beyond(last[k].extreme, k)
    <3> TAKE k \in Warnings
    <3>1. last[k] \in Alert(SpikeLevels) /\ (last[k].told => Beyond(last[k].extreme, k))
      BY <2>2 DEF Alerting
    <3> QED  BY <3>1 DEF Alert
  <2>4. Blind!TypeOK
    BY <2>2, <2>3 DEF Alerting, Blind!TypeOK, Blind!Forecasts, Blind!Kinds, Blind!Cap, Warnings, Beyond
  <2>5. Blind!EverySpikeIsKnown  BY <2>1 DEF BlindInv, Known, Blind!EverySpikeIsKnown
  <2>6. Blind!HeldSpikeIsTheSame  BY <2>1 DEF BlindInv, Same, Blind!HeldSpikeIsTheSame
  <2> QED  BY <2>4, <2>5, <2>6
<1> QED  BY <1>1, <1>2 DEF CooldownInv, OneHourLockout, EverySpikeIsKnown, HeldSpikeIsTheSame

LEMMA PriceNews ==
    /\ PriceInv /\ [PartsNext]_vars => [part = "spikes" => Spikes!SpikeIsNews]_vars
    /\ PriceInv /\ [PartsNext]_vars => [part = "dips" => Dips!DipIsNews]_vars
<1> SUFFICES ASSUME PriceInv, [PartsNext]_vars
             PROVE  /\ [part = "spikes" => Spikes!SpikeIsNews]_vars
                    /\ [part = "dips" => Dips!DipIsNews]_vars
  OBVIOUS
<1>1. ASSUME part = "spikes", ~UNCHANGED vars PROVE Spikes!SpikeIsNews
  <2>1. SpikesInv  BY <1>1 DEF PriceInv
  <2>2. CASE Spikes!Next  BY <2>1, <2>2, SpikesNews
  <2>3. CASE UNCHANGED warnings  BY <2>3 DEF warnings, Spikes!SpikeIsNews, Spikes!Alerted
  <2> QED  BY <1>1, <2>2, <2>3, PriceSteps
<1>2. ASSUME part = "dips", ~UNCHANGED vars PROVE Dips!DipIsNews
  <2>1. DipsInv  BY <1>2 DEF PriceInv
  <2>2. CASE Dips!Next  BY <2>1, <2>2, DipsNews
  <2>3. CASE UNCHANGED warnings  BY <2>3 DEF warnings, Dips!DipIsNews, Dips!Alerted
  <2> QED  BY <1>2, <2>2, <2>3, PriceSteps
<1> QED  BY <1>1, <1>2

(* For any prices, sensitivity and forecast: a delivered alert of a spike is *)
(* followed by an hour without another, a spike that an update has looked at *)
(* is one that its user knows unless it is not among the highest prices, and *)
(* one held back after six hours has not let up; the last two even when the  *)
(* log cannot be read (handlePriceSpikeNotifications, its cooldown).         *)
THEOREM CooldownHolds == PartsSpec => []CooldownInv
<1> QED  BY PriceAtFirst, PriceStays, PriceMeans, PTL DEF PartsSpec

(* And what is told again is news: a spike that has gone on only when it is  *)
(* a fifth higher and among the highest prices, a dip within a day and a     *)
(* half only when lower by what its user asks for, or negative on the day    *)
(* after prices have recovered.                                              *)
THEOREM NewsHold == PartsSpec => AlertsAreNews
<1> QED  BY PriceAtFirst, PriceStays, PriceNews, PTL
         DEF PartsSpec, AlertsAreNews, SameSpikeIsToldOnce, SameDipIsToldOnce

-----------------------------------------------------------------------------
(* Devices and alerts. The parts differ in who acts: what an update does is  *)
(* said of the part "alone", and is the same in the others.                  *)
Idle == Alone!Idle
Phases == {"begun", "due", "sending", "pruning", "cleaning", "logging"}
Noted(H) == [hour : 0..H, ok : BOOLEAN, muted : BOOLEAN]
Jobs(H) == [at : Phases, todo : Seq(Endpoints), entry : SUBSET Noted(H)]
Job(at, todo, entry) == [at |-> at, todo |-> todo, entry |-> entry]

(* The types, for updates P, kinds K, hours to H and at most A requests.     *)
Sane(P, K, H, A) ==
    /\ kind \in K /\ hour \in 0..H /\ subs \in Seq(Endpoints)
    /\ prefs \in BOOLEAN /\ wants \in BOOLEAN /\ cleaning \in BOOLEAN
    /\ log \subseteq Noted(H) /\ dead \subseteq Endpoints
    /\ moving \subseteq Endpoints \X (Endpoints \cup {"none"})
    /\ up \in [P -> {Idle} \cup Jobs(H)]
    /\ \A p \in P : up[p].at = "sending" => up[p].todo # <<>>
    /\ told \in [Endpoints -> Seq(0..H)]
    /\ acts \in 0..A /\ faults \in 0..MaxFailed

LEMMA DeviceConstants ==
    /\ {ManyHours, FewHours, ManyActs, FewActs, MaxFailed} \subseteq Nat
    /\ "none" \notin Endpoints
<1>1. Alone!Assumptions /\ Gone!Assumptions /\ Browser!Assumptions  BY PartsAssumption
<1>2. {ManyHours, ManyActs, MaxFailed} \subseteq Nat /\ "none" \notin Endpoints  BY <1>1 DEF Alone!Assumptions
<1>3. FewHours \in Nat  BY <1>1 DEF Gone!Assumptions
<1>4. FewActs \in Nat  BY <1>1 DEF Browser!Assumptions
<1> QED  BY <1>2, <1>3, <1>4

LEMMA IdleIs == Idle.at = "idle" /\ \A H : \A j \in Jobs(H) : j # Idle
<1>1. Idle.at = "idle"  BY DEF Idle, Alone!Idle
<1> QED  BY <1>1 DEF Jobs, Phases

LEMMA JobIs ==
    ASSUME NEW H, NEW at \in Phases, NEW todo \in Seq(Endpoints), NEW entry \in SUBSET Noted(H)
    PROVE  /\ Job(at, todo, entry) \in Jobs(H)
           /\ Job(at, todo, entry).at = at /\ Job(at, todo, entry).todo = todo
           /\ Job(at, todo, entry).entry = entry
<1> QED  BY DEF Job, Jobs

LEMMA JobFields ==
    ASSUME NEW H, NEW j \in Jobs(H)
    PROVE  /\ DOMAIN j = {"at", "todo", "entry"} /\ j = [f \in {"at", "todo", "entry"} |-> j[f]]
           /\ \A a, t, n : Job(a, t, n) = [f \in {"at", "todo", "entry"} |->
                 IF f = "at" THEN a ELSE IF f = "todo" THEN t ELSE n]
<1> QED  BY DEF Jobs, Job
LEMMA JobAt ==
    ASSUME NEW H, NEW j \in Jobs(H), NEW at
    PROVE  [j EXCEPT !.at = at] = Job(at, j.todo, j.entry)
<1>1. DOMAIN j = {"at", "todo", "entry"} /\ j = [f \in {"at", "todo", "entry"} |-> j[f]]  BY JobFields
<1>2. \A a, t, n : Job(a, t, n) = [f \in {"at", "todo", "entry"} |->
            IF f = "at" THEN a ELSE IF f = "todo" THEN t ELSE n]
  BY JobFields
<1> QED  BY <1>1, <1>2
LEMMA JobAtTodo ==
    ASSUME NEW H, NEW j \in Jobs(H), NEW at, NEW todo
    PROVE  [j EXCEPT !.at = at, !.todo = todo] = Job(at, todo, j.entry)
<1>1. DOMAIN j = {"at", "todo", "entry"} /\ j = [f \in {"at", "todo", "entry"} |-> j[f]]  BY JobFields
<1>2. \A a, t, n : Job(a, t, n) = [f \in {"at", "todo", "entry"} |->
            IF f = "at" THEN a ELSE IF f = "todo" THEN t ELSE n]
  BY JobFields
<1> QED  BY <1>1, <1>2
LEMMA JobAtEntry ==
    ASSUME NEW H, NEW j \in Jobs(H), NEW at, NEW entry
    PROVE  [j EXCEPT !.at = at, !.entry = entry] = Job(at, j.todo, entry)
<1>1. DOMAIN j = {"at", "todo", "entry"} /\ j = [f \in {"at", "todo", "entry"} |-> j[f]]  BY JobFields
<1>2. \A a, t, n : Job(a, t, n) = [f \in {"at", "todo", "entry"} |->
            IF f = "at" THEN a ELSE IF f = "todo" THEN t ELSE n]
  BY JobFields
<1> QED  BY <1>1, <1>2
LEMMA JobAll ==
    ASSUME NEW H, NEW j \in Jobs(H), NEW at, NEW todo, NEW entry
    PROVE  [j EXCEPT !.at = at, !.todo = todo, !.entry = entry] = Job(at, todo, entry)
<1>1. DOMAIN j = {"at", "todo", "entry"} /\ j = [f \in {"at", "todo", "entry"} |-> j[f]]  BY JobFields
<1>2. \A a, t, n : Job(a, t, n) = [f \in {"at", "todo", "entry"} |->
            IF f = "at" THEN a ELSE IF f = "todo" THEN t ELSE n]
  BY JobFields
<1> QED  BY <1>1, <1>2

(* The devices that are left are as many places in the order that they had.  *)
LEMMA PlaceIs ==
    ASSUME NEW kept, IsFiniteSet(kept), kept \subseteq Nat, NEW n \in 1..Cardinality(kept)
    PROVE  Alone!Place(n, kept) \in kept /\ Cardinality({j \in kept : j < Alone!Place(n, kept)}) = n - 1
<1> DEFINE Before(i) == {j \in kept : j < i}
           Good == {i \in kept : n - 1 <= Cardinality(Before(i))}
           N == Cardinality(kept)
<1>1. N \in Nat /\ n \in Nat /\ 1 <= n /\ n <= N  BY FS_CardinalityType
<1>2. kept # {}  BY <1>1, FS_EmptySet
<1>3. \A i \in kept : IsFiniteSet(Before(i)) /\ Cardinality(Before(i)) \in Nat  BY Counting
<1>4. ASSUME NEW S, S \subseteq kept, S # {}
      PROVE  \E k \in S : \A j \in S : j <= k
  <2> DEFINE f == [i \in S |-> i]
  <2>1. IsFiniteSet(S)  BY <1>4, Counting
  <2>3. \A i \in S : i \in Nat /\ f[i] = i  BY <1>4
  <2>2. PICK k \in S : \A j \in S : f[j] <= f[k]
    <3> HIDE DEF f
    <3>1. \A i \in S : f[i] \in Int  BY <2>3
    <3> QED  BY <1>4, <2>1, <3>1, Greatest
  <2> QED  BY <2>2
<1>5. PICK top \in kept : \A j \in kept : j <= top  BY <1>2, <1>4
<1>6. top \in Good
  <2>1. Before(top) = kept \ {top}
    <3>1. \A j \in kept : j \in Nat /\ j <= top /\ top \in Nat  BY <1>5
    <3>2. \A j \in kept : j < top <=> j # top  BY <3>1
    <3> QED  BY <3>2
  <2>2. Cardinality(kept \ {top}) = N - 1  BY FS_RemoveElement
  <2> QED  BY <1>1, <2>1, <2>2
<1>7. PICK i \in Good : \A j \in Good : i <= j
  <2>1. Good \in SUBSET Nat /\ Good # {}  BY <1>6
  <2> HIDE DEF Good
  <2> QED  BY <2>1, Least
<1>8. Cardinality(Before(i)) = n - 1
  <2>1. i \in kept /\ Cardinality(Before(i)) \in Nat /\ n - 1 <= Cardinality(Before(i))  BY <1>3
  <2>2. SUFFICES ASSUME n <= Cardinality(Before(i)) PROVE FALSE  BY <1>1, <2>1
  <2>3. IsFiniteSet(Before(i)) /\ Before(i) # {}  BY <1>1, <1>3, <2>2, FS_EmptySet
  <2>4. PICK k \in Before(i) : \A j \in Before(i) : j <= k
    <3>1. Before(i) \subseteq kept  OBVIOUS
    <3> HIDE DEF Before
    <3> QED  BY <1>4, <2>3, <3>1
  <2>5. Before(k) = Before(i) \ {k}
    <3>1. k \in kept /\ k < i /\ k \in Nat /\ i \in Nat  BY <2>1
    <3>2. \A j \in kept : j \in Nat /\ (j < i => j <= k)  BY <2>4
    <3>3. \A j \in kept : j < k <=> j < i /\ j # k  BY <3>1, <3>2
    <3> QED  BY <3>3
  <2>6. Cardinality(Before(k)) = Cardinality(Before(i)) - 1
    <3>1. k \in Before(i)  OBVIOUS
    <3> HIDE DEF Before
    <3> QED  BY <2>3, <2>5, <3>1, FS_RemoveElement
  <2>7. n - 1 <= Cardinality(Before(k)) /\ k \in kept /\ k < i
    <3>1. k \in kept /\ k < i  OBVIOUS
    <3> HIDE DEF Before
    <3> QED  BY <1>1, <2>1, <2>2, <2>6, <3>1
  <2>8. k \in Good /\ i \in Nat /\ k \in Nat  BY <2>1, <2>7
  <2>9. i <= k  BY <1>7, <2>8
  <2> QED  BY <2>7, <2>8, <2>9
<1>9. \A S : Alone!Cardinality(S) = Cardinality(S)  BY DEF Alone!Cardinality, Cardinality
<1>10. Alone!Place(n, kept) = CHOOSE j \in kept : Cardinality(Before(j)) = n - 1
  BY <1>9 DEF Alone!Place
<1>11. i \in kept  BY <1>7
<1> HIDE DEF Before
<1>12. Alone!Place(n, kept) \in kept /\ Cardinality(Before(Alone!Place(n, kept))) = n - 1
  BY <1>8, <1>10, <1>11, Zenon
<1> QED  BY <1>12 DEF Before

LEMMA WithoutIs ==
    ASSUME subs \in Seq(Endpoints), NEW e
    PROVE  /\ Alone!Without(e) \in Seq(Endpoints)
           /\ Len(Alone!Without(e)) <= Len(subs)
           /\ (\A a, b \in DOMAIN subs : subs[a] = subs[b] => a = b)
                => \A a, b \in DOMAIN Alone!Without(e) : Alone!Without(e)[a] = Alone!Without(e)[b] => a = b
<1> DEFINE kept == {i \in DOMAIN subs : subs[i] # e}
           n == Cardinality(kept)
           left == [m \in 1..n |-> subs[Alone!Place(m, kept)]]
<1>1. DOMAIN subs = 1..Len(subs) /\ Len(subs) \in Nat  OBVIOUS
<1>2. IsFiniteSet(1..Len(subs)) /\ Cardinality(1..Len(subs)) = Len(subs)
  <2>1. \A a, b \in Int : IsFiniteSet(a..b) /\ Cardinality(a..b) = IF a > b THEN 0 ELSE b - a + 1
    BY FS_Interval
  <2> QED  BY <1>1, <2>1
<1>3. kept \subseteq 1..Len(subs) /\ kept \subseteq Nat  BY <1>1
<1>4. IsFiniteSet(kept) /\ n \in Nat /\ n <= Len(subs)
  <2> HIDE DEF kept
  <2> QED  BY <1>1, <1>2, <1>3, Counting
<1>5. Alone!Without(e) = left
  <2>1. Alone!Cardinality(kept) = n  BY DEF Alone!Cardinality, Cardinality
  <2> QED  BY <2>1 DEF Alone!Without
<1>6. \A m \in 1..n : /\ Alone!Place(m, kept) \in kept
                      /\ Cardinality({j \in kept : j < Alone!Place(m, kept)}) = m - 1
  <2> HIDE DEF kept
  <2> QED  BY <1>3, <1>4, PlaceIs
<1>7. \A m \in 1..n : subs[Alone!Place(m, kept)] \in Endpoints
  <2> TAKE m \in 1..n
  <2>1. Alone!Place(m, kept) \in 1..Len(subs)  BY <1>3, <1>6
  <2> QED  BY <2>1
<1>8. left \in Seq(Endpoints) /\ Len(left) = n
  <2> HIDE DEF n
  <2>1. left \in [1..n -> Endpoints]  BY <1>7
  <2> HIDE DEF left
  <2> QED  BY <1>4, <2>1
<1>9. ASSUME \A a, b \in DOMAIN subs : subs[a] = subs[b] => a = b, NEW a \in 1..n, NEW b \in 1..n, left[a] = left[b]
      PROVE  a = b
  <2>1. left[a] = subs[Alone!Place(a, kept)] /\ left[b] = subs[Alone!Place(b, kept)]  OBVIOUS
  <2>2. Alone!Place(a, kept) \in DOMAIN subs /\ Alone!Place(b, kept) \in DOMAIN subs  BY <1>6
  <2> HIDE DEF left
  <2>3. Alone!Place(a, kept) = Alone!Place(b, kept)  BY <1>9, <2>1, <2>2
  <2>4. a - 1 = b - 1  BY <1>6, <2>3
  <2> QED  BY <1>4, <2>4
<1>10. DOMAIN left = 1..n  OBVIOUS
<1> HIDE DEF left, n, kept
<1> QED  BY <1>4, <1>5, <1>8, <1>9, <1>10

-----------------------------------------------------------------------------
(* What the steps of an update do, for a sane state.                        *)
Others == UNCHANGED <<kind, hour, dead, moving, cleaning, acts>>
Goes(p, v) == up' = [up EXCEPT ![p] = v] /\ Others

LEMMA OfUp ==
    ASSUME NEW P, NEW K, NEW H, NEW A, Sane(P, K, H, A), NEW p \in P
    PROVE  /\ up[p] = Idle \/ up[p] \in Jobs(H)
           /\ up[p] # Idle => up[p].todo \in Seq(Endpoints) /\ up[p].entry \in SUBSET Noted(H)
           /\ up[p].at = "sending" => up[p].todo # <<>> /\ Head(up[p].todo) \in Endpoints
<1>1. up[p] = Idle \/ up[p] \in Jobs(H)  BY DEF Sane
<1>2. up[p] # Idle => up[p].todo \in Seq(Endpoints) /\ up[p].entry \in SUBSET Noted(H)  BY <1>1 DEF Jobs
<1>3. up[p].at = "sending" => up[p].todo # <<>> /\ Head(up[p].todo) \in Endpoints
  <2>1. SUFFICES ASSUME up[p].at = "sending" PROVE up[p].todo # <<>> /\ Head(up[p].todo) \in Endpoints
    OBVIOUS
  <2>2. up[p] # Idle /\ up[p].todo # <<>>  BY <2>1, IdleIs DEF Sane
  <2> QED  BY <1>2, <2>2
<1> QED  BY <1>1, <1>2, <1>3

LEMMA Begins ==
    ASSUME NEW p, Alone!Begin(p)
    PROVE  up[p] = Idle /\ Goes(p, Job("begun", <<>>, {})) /\ UNCHANGED <<subs, prefs, log, wants, told, faults>>
<1> QED  BY DEF Alone!Begin, Alone!userVars, Idle, Goes, Others, Job

LEMMA Checks ==
    ASSUME NEW P, NEW K, NEW H, NEW A, Sane(P, K, H, A), NEW p \in P, Alone!Check(p)
    PROVE  /\ up[p] # Idle /\ up[p].at = "begun" /\ UNCHANGED <<subs, prefs, log, wants, told, faults>>
           /\ \/ Goes(p, Idle)
              \/ Goes(p, Job("logging", <<>>, {[hour |-> hour, ok |-> FALSE, muted |-> TRUE]}))
              \/ Goes(p, Job("due", up[p].todo, up[p].entry)) /\ ~Alone!Recent
<1>1. /\ up[p] # Idle /\ up[p].at = "begun" /\ UNCHANGED <<subs, prefs, log, wants, told, faults>> /\ Others
  BY DEF Alone!Check, Alone!userVars, Idle, Others
<1>2. [up[p] EXCEPT !.at = "due"] = Job("due", up[p].todo, up[p].entry)
  BY <1>1, OfUp DEF Jobs, Job
<1>3. CASE Alone!Recent
  <2>1. up' = [up EXCEPT ![p] = Idle]  BY <1>3 DEF Alone!Check, Idle
  <2> QED  BY <1>1, <2>1 DEF Goes
<1>4. CASE ~Alone!Recent /\ Alone!MayMute
  <2>1. up' = [up EXCEPT ![p] = Job("logging", <<>>, {[hour |-> hour, ok |-> FALSE, muted |-> TRUE]})]
    BY <1>4 DEF Alone!Check, Job
  <2> QED  BY <1>1, <2>1 DEF Goes
<1>5. CASE ~Alone!Recent /\ ~Alone!MayMute
  <2>1. up' = [up EXCEPT ![p] = [up[p] EXCEPT !.at = "due"]]  BY <1>5 DEF Alone!Check
  <2> QED  BY <1>1, <1>2, <1>5, <2>1 DEF Goes
<1> QED  BY <1>1, <1>3, <1>4, <1>5

LEMMA Gets ==
    ASSUME NEW P, NEW K, NEW H, NEW A, Sane(P, K, H, A), NEW p \in P, Alone!GetUser(p)
    PROVE  /\ up[p] # Idle /\ up[p].at = "due" /\ UNCHANGED <<subs, prefs, log, wants, told, faults>>
           /\ Goes(p, Idle) \/ (subs # <<>> /\ Goes(p, Job("sending", subs, up[p].entry)))
<1>1. /\ up[p] # Idle /\ up[p].at = "due" /\ UNCHANGED <<subs, prefs, log, wants, told, faults>> /\ Others
  BY DEF Alone!GetUser, Alone!userVars, Idle, Others
<1>2. [up[p] EXCEPT !.at = "sending", !.todo = subs] = Job("sending", subs, up[p].entry)
  BY <1>1, OfUp, JobAtTodo
<1>3. CASE subs = <<>>
  <2>1. up' = [up EXCEPT ![p] = Idle]  BY <1>3 DEF Alone!GetUser, Idle
  <2> QED  BY <1>1, <2>1 DEF Goes
<1>4. CASE subs # <<>>
  <2>1. up' = [up EXCEPT ![p] = [up[p] EXCEPT !.at = "sending", !.todo = subs]]  BY <1>4 DEF Alone!GetUser
  <2> QED  BY <1>1, <1>2, <1>4, <2>1 DEF Goes
<1> QED  BY <1>1, <1>3, <1>4

Said(ok) == {[hour |-> hour, ok |-> ok, muted |-> FALSE]}
LEMMA Sends ==
    ASSUME NEW P, NEW K, NEW H, NEW A, Sane(P, K, H, A), NEW p \in P, Alone!Send(p)
    PROVE  /\ up[p] # Idle /\ up[p].at = "sending" /\ UNCHANGED <<subs, prefs, log, wants>>
           /\ \/ /\ Head(up[p].todo) \in dead /\ Goes(p, Job("pruning", up[p].todo, Said(FALSE)))
                 /\ UNCHANGED <<told, faults>>
              \/ /\ told' = [told EXCEPT ![Head(up[p].todo)] = Append(@, hour)]
                 /\ Goes(p, Job("logging", up[p].todo, Said(TRUE))) /\ UNCHANGED faults
              \/ /\ Goes(p, Job("logging", up[p].todo, Said(FALSE)))
                 /\ faults < MaxFailed /\ faults' = faults + 1 /\ UNCHANGED told
<1> DEFINE e == Head(up[p].todo)
           Sent(ok, at) == [up EXCEPT ![p].at = at, ![p].entry = {[hour |-> hour, ok |-> ok, muted |-> FALSE]}]
<1>1. /\ up[p] # Idle /\ up[p].at = "sending" /\ UNCHANGED <<subs, prefs, log, wants>> /\ Others
  BY DEF Alone!Send, Alone!userVars, Idle, Others
<1>2. \/ e \in dead /\ up' = Sent(FALSE, "pruning") /\ UNCHANGED <<told, faults>>
      \/ told' = [told EXCEPT ![e] = Append(@, hour)] /\ up' = Sent(TRUE, "logging") /\ UNCHANGED faults
      \/ /\ faults < MaxFailed /\ faults' = faults + 1
         /\ up' = Sent(FALSE, "logging") /\ UNCHANGED told
  BY DEF Alone!Send, Alone!Fault
<1>3. \A ok, at : Sent(ok, at) = [up EXCEPT ![p] = Job(at, up[p].todo, Said(ok))]
  <2> TAKE ok, at
  <2> DEFINE said == Said(ok)
  <2>1. Sent(ok, at) = [up EXCEPT ![p] = [up[p] EXCEPT !.at = at, !.entry = said]]
    BY DEF Sane, Said
  <2> HIDE DEF said
  <2>2. [up[p] EXCEPT !.at = at, !.entry = said] = Job(at, up[p].todo, said)
    <3>1. up[p] \in Jobs(H)  BY <1>1, OfUp
    <3>2. \A j \in Jobs(H) : [j EXCEPT !.at = at, !.entry = said] = Job(at, j.todo, said)
      BY JobAtEntry
    <3> QED  BY <3>1, <3>2
  <2> QED  BY <2>1, <2>2 DEF said
<1> HIDE DEF Sent
<1> QED  BY <1>1, <1>2, <1>3 DEF Goes

LEMMA Prunes ==
    ASSUME NEW P, NEW K, NEW H, NEW A, Sane(P, K, H, A), NEW p \in P, Alone!Prune(p)
    PROVE  /\ up[p] # Idle /\ up[p].at = "pruning" /\ UNCHANGED <<prefs, log, told, faults>>
           /\ subs' = Alone!Without(Head(up[p].todo)) /\ wants' = (wants /\ subs' # <<>>)
           /\ \/ subs' = <<>> /\ Goes(p, Job("cleaning", up[p].todo, up[p].entry))
              \/ subs' # <<>> /\ Goes(p, Job("logging", up[p].todo, up[p].entry))
<1>1. /\ up[p] # Idle /\ up[p].at = "pruning" /\ UNCHANGED <<prefs, log, told, faults>> /\ Others
      /\ subs' = Alone!Without(Head(up[p].todo)) /\ wants' = (wants /\ subs' # <<>>)
      /\ up' = [up EXCEPT ![p].at = IF subs' = <<>> THEN "cleaning" ELSE "logging"]
  BY DEF Alone!Prune, Idle, Others
<1>2. \A at : [up EXCEPT ![p].at = at] = [up EXCEPT ![p] = Job(at, up[p].todo, up[p].entry)]
  <2> TAKE at
  <2>1. [up EXCEPT ![p].at = at] = [up EXCEPT ![p] = [up[p] EXCEPT !.at = at]]  BY DEF Sane
  <2>2. [up[p] EXCEPT !.at = at] = Job(at, up[p].todo, up[p].entry)  BY <1>1, OfUp DEF Jobs, Job
  <2> QED  BY <2>1, <2>2
<1> QED  BY <1>1, <1>2 DEF Goes

LEMMA Cleans ==
    ASSUME NEW P, NEW K, NEW H, NEW A, Sane(P, K, H, A), NEW p \in P, Alone!CleanUp(p)
    PROVE  /\ up[p] # Idle /\ up[p].at = "cleaning" /\ UNCHANGED <<subs, log, wants, told, faults>>
           /\ prefs' = FALSE /\ Goes(p, Job("logging", up[p].todo, up[p].entry))
<1>1. /\ up[p] # Idle /\ up[p].at = "cleaning" /\ UNCHANGED <<subs, log, wants, told, faults>> /\ Others
      /\ prefs' = FALSE /\ up' = [up EXCEPT ![p].at = "logging"]
  BY DEF Alone!CleanUp, Alone!userVars, Idle, Others
<1>2. [up EXCEPT ![p].at = "logging"] = [up EXCEPT ![p] = [up[p] EXCEPT !.at = "logging"]]  BY DEF Sane
<1>3. [up[p] EXCEPT !.at = "logging"] = Job("logging", up[p].todo, up[p].entry)  BY <1>1, OfUp DEF Jobs, Job
<1> QED  BY <1>1, <1>2, <1>3 DEF Goes

Onwards(p) ==
    IF Len(up[p].todo) < 2 THEN Idle ELSE Job("sending", Tail(up[p].todo), {})
LEMMA Appends ==
    ASSUME NEW P, NEW K, NEW H, NEW A, Sane(P, K, H, A), NEW p \in P,
           up[p] # Idle, UNCHANGED <<kind, hour, subs, prefs, dead, moving, cleaning, wants, told, acts>>,
           up' = [up EXCEPT ![p] =
               IF Len(up[p].todo) < 2 THEN Idle
               ELSE [up[p] EXCEPT !.at = "sending", !.todo = Tail(up[p].todo), !.entry = {}]]
    PROVE  Goes(p, Onwards(p))
<1>1. [up[p] EXCEPT !.at = "sending", !.todo = Tail(up[p].todo), !.entry = {}] = Job("sending", Tail(up[p].todo), {})
  <2> DEFINE j == up[p]
             rest == Tail(up[p].todo)
             none == {}
             to == "sending"
  <2>1. j \in Jobs(H)  BY OfUp
  <2> HIDE DEF j, rest, none, to
  <2>2. DOMAIN j = {"at", "todo", "entry"} /\ j = [f \in {"at", "todo", "entry"} |-> j[f]]  BY <2>1, JobFields
  <2>3. \A a, t, n : Job(a, t, n) = [f \in {"at", "todo", "entry"} |->
            IF f = "at" THEN a ELSE IF f = "todo" THEN t ELSE n]
    BY <2>1, JobFields
  <2>4. [j EXCEPT !.at = to, !.todo = rest, !.entry = none] = Job(to, rest, none)  BY <2>2, <2>3
  <2> QED  BY <2>4 DEF j, rest, none, to
<1>2. CASE Len(up[p].todo) < 2
  <2>1. up' = [up EXCEPT ![p] = Idle]  BY <1>2
  <2> QED  BY <1>2, <2>1 DEF Goes, Others, Onwards
<1>3. CASE ~(Len(up[p].todo) < 2)
  <2>1. up' = [up EXCEPT ![p] = [up[p] EXCEPT !.at = "sending", !.todo = Tail(up[p].todo), !.entry = {}]]  BY <1>3
  <2> QED  BY <1>1, <1>3, <2>1 DEF Goes, Others, Onwards
<1> QED  BY <1>2, <1>3

LEMMA Logs ==
    ASSUME NEW P, NEW K, NEW H, NEW A, Sane(P, K, H, A), NEW p \in P, Alone!AppendLog(p)
    PROVE  /\ up[p] # Idle /\ up[p].at = "logging" /\ UNCHANGED <<subs, prefs, wants, told, faults>>
           /\ log' = log \cup up[p].entry /\ Goes(p, Onwards(p))
<1>1. /\ up[p] # Idle /\ up[p].at = "logging" /\ log' = log \cup up[p].entry /\ UNCHANGED faults
      /\ UNCHANGED <<kind, hour, subs, prefs, dead, moving, cleaning, wants, told, acts>>
  BY DEF Alone!AppendLog, Alone!userVars, Alone!Fault, Idle
<1>2. up' = [up EXCEPT ![p] =
               IF Len(up[p].todo) < 2 THEN Idle
               ELSE [up[p] EXCEPT !.at = "sending", !.todo = Tail(up[p].todo), !.entry = {}]]
  BY DEF Alone!AppendLog, Idle
<1> QED  BY <1>1, <1>2, Appends

-----------------------------------------------------------------------------
(* The types are kept.                                                      *)
LEMMA GoesSane ==
    ASSUME NEW P, NEW K, NEW H, NEW A, Sane(P, K, H, A), NEW p \in P, NEW v \in {Idle} \cup Jobs(H),
           v.at = "sending" => v.todo # <<>>, Goes(p, v),
           subs' \in Seq(Endpoints), prefs' \in BOOLEAN, wants' \in BOOLEAN, log' \subseteq Noted(H),
           told' \in [Endpoints -> Seq(0..H)], faults' \in 0..MaxFailed
    PROVE  Sane(P, K, H, A)'
<1>1. up' = [up EXCEPT ![p] = v]  BY DEF Goes
<1>2. up' \in [P -> {Idle} \cup Jobs(H)]  BY <1>1 DEF Sane
<1>3. \A q \in P : up'[q].at = "sending" => up'[q].todo # <<>>
  <2> TAKE q \in P
  <2>1. up'[q] = IF q = p THEN v ELSE up[q]  BY <1>1 DEF Sane
  <2> QED  BY <2>1 DEF Sane
<1>4. /\ kind' \in K /\ hour' \in 0..H /\ cleaning' \in BOOLEAN /\ dead' \subseteq Endpoints
      /\ moving' \subseteq Endpoints \X (Endpoints \cup {"none"}) /\ acts' \in 0..A
  BY DEF Sane, Goes, Others
<1>5. Idle' = Idle  BY DEF Idle, Alone!Idle
<1> QED  BY <1>2, <1>3, <1>4, <1>5 DEF Sane

LEMMA AsksSane ==
    ASSUME NEW P, NEW K, NEW H, NEW A, Sane(P, K, H, A), UNCHANGED <<kind, hour, log, up, told, faults>>,
           subs' \in Seq(Endpoints), prefs' \in BOOLEAN, wants' \in BOOLEAN, cleaning' \in BOOLEAN,
           dead' \subseteq Endpoints, moving' \subseteq Endpoints \X (Endpoints \cup {"none"}), acts' \in 0..A
    PROVE  Sane(P, K, H, A)'
<1>1. Idle' = Idle  BY DEF Idle, Alone!Idle
<1> QED  BY <1>1 DEF Sane

LEMMA NothingTodo ==
    /\ <<>> \in Seq(Endpoints) /\ \A H : {} \in SUBSET Noted(H)
    /\ "begun" \in Phases /\ "due" \in Phases /\ "sending" \in Phases
    /\ "pruning" \in Phases /\ "cleaning" \in Phases /\ "logging" \in Phases
<1> QED  BY DEF Phases

LEMMA JobOfNone ==
    ASSUME NEW H, NEW at \in Phases, NEW entry \in SUBSET Noted(H)
    PROVE  /\ Job(at, <<>>, entry) \in Jobs(H) /\ Job(at, <<>>, entry).at = at
           /\ Job(at, <<>>, entry).todo = <<>> /\ Job(at, <<>>, entry).entry = entry
<1> QED  BY DEF Job, Jobs
LEMMA JobOfNothing ==
    ASSUME NEW H, NEW at \in Phases, NEW todo \in Seq(Endpoints)
    PROVE  /\ Job(at, todo, {}) \in Jobs(H) /\ Job(at, todo, {}).at = at
           /\ Job(at, todo, {}).todo = todo /\ Job(at, todo, {}).entry = {}
<1> QED  BY DEF Job, Jobs

LEMMA OnwardsIs ==
    ASSUME NEW P, NEW K, NEW H, NEW A, Sane(P, K, H, A), NEW p \in P, up[p] # Idle
    PROVE  /\ Onwards(p) \in {Idle} \cup Jobs(H)
           /\ Onwards(p).at = "sending" => Onwards(p).todo # <<>>
           /\ Onwards(p) # Idle => Onwards(p).at = "sending"
           /\ Onwards(p) # Idle =>
                /\ Len(up[p].todo) \in Nat /\ Len(up[p].todo) >= 2 /\ Onwards(p).todo = Tail(up[p].todo)
<1> DEFINE todo == up[p].todo
<1>1. todo \in Seq(Endpoints)  BY OfUp
<1>2. CASE Len(todo) < 2
  <2>1. Onwards(p) = Idle  BY <1>2 DEF Onwards
  <2> QED  BY <2>1, IdleIs
<1>3. CASE ~(Len(todo) < 2)
  <2>1. Onwards(p) = Job("sending", Tail(todo), {})  BY <1>3 DEF Onwards
  <2> HIDE DEF todo
  <2>2. Tail(todo) \in Seq(Endpoints) /\ Tail(todo) # <<>> /\ Len(todo) \in Nat /\ Len(todo) >= 2
    <3>1. todo # <<>> /\ Len(todo) \in Nat /\ Len(todo) >= 2  BY <1>1, <1>3
    <3>2. Tail(todo) \in Seq(Endpoints) /\ Len(Tail(todo)) = Len(todo) - 1  BY <1>1, <3>1
    <3>3. Len(Tail(todo)) # 0  BY <3>1, <3>2
    <3> QED  BY <3>1, <3>2, <3>3
  <2>3. /\ Job("sending", Tail(todo), {}) \in Jobs(H) /\ Job("sending", Tail(todo), {}).at = "sending"
        /\ Job("sending", Tail(todo), {}).todo = Tail(todo)
    <3> DEFINE rest == Tail(todo)
    <3>1. rest \in Seq(Endpoints)  BY <2>2
    <3> HIDE DEF rest
    <3>2. /\ Job("sending", rest, {}) \in Jobs(H) /\ Job("sending", rest, {}).at = "sending"
          /\ Job("sending", rest, {}).todo = rest
      BY <3>1, NothingTodo, JobOfNothing
    <3> QED  BY <3>2 DEF rest
  <2> QED  BY <2>1, <2>2, <2>3 DEF todo
<1> QED  BY <1>2, <1>3

LEMMA BeginsSane ==
    ASSUME NEW P, NEW K, NEW H, NEW A, Sane(P, K, H, A), NEW p \in P, Alone!Begin(p)
    PROVE  Sane(P, K, H, A)'
<1> DEFINE v == Job("begun", <<>>, {})
<1>1. v \in Jobs(H) /\ v.at = "begun"  BY JobOfNothing, NothingTodo
<1>2. Goes(p, v) /\ UNCHANGED <<subs, prefs, log, wants, told, faults>>  BY Begins
<1>3. /\ subs' \in Seq(Endpoints) /\ prefs' \in BOOLEAN /\ wants' \in BOOLEAN /\ log' \subseteq Noted(H)
      /\ told' \in [Endpoints -> Seq(0..H)] /\ faults' \in 0..MaxFailed
  BY <1>2 DEF Sane
<1> HIDE DEF v
<1> QED  BY <1>1, <1>2, <1>3, GoesSane

LEMMA ChecksSane ==
    ASSUME NEW P, NEW K, NEW H, NEW A, Sane(P, K, H, A), NEW p \in P, Alone!Check(p)
    PROVE  Sane(P, K, H, A)'
<1>1. UNCHANGED <<subs, prefs, log, wants, told, faults>>  BY Checks
<1>2. /\ subs' \in Seq(Endpoints) /\ prefs' \in BOOLEAN /\ wants' \in BOOLEAN /\ log' \subseteq Noted(H)
      /\ told' \in [Endpoints -> Seq(0..H)] /\ faults' \in 0..MaxFailed
  BY <1>1 DEF Sane
<1>3. up[p] # Idle /\ up[p].todo \in Seq(Endpoints) /\ up[p].entry \in SUBSET Noted(H)  BY Checks, OfUp
<1>4. PICK v : /\ Goes(p, v)
               /\ \/ v = Idle
                  \/ v = Job("logging", <<>>, {[hour |-> hour, ok |-> FALSE, muted |-> TRUE]})
                  \/ v = Job("due", up[p].todo, up[p].entry)
  BY Checks
<1>5. Idle.at # "sending"  BY IdleIs
<1>6. {[hour |-> hour, ok |-> FALSE, muted |-> TRUE]} \in SUBSET Noted(H)  BY DEF Noted, Sane
<1>7. v \in {Idle} \cup Jobs(H) /\ v.at # "sending"
  <2> DEFINE muted == {[hour |-> hour, ok |-> FALSE, muted |-> TRUE]}
             logging == Job("logging", <<>>, muted)
             due == Job("due", up[p].todo, up[p].entry)
  <2>1. logging \in Jobs(H) /\ logging.at = "logging"
    <3>1. muted \in SUBSET Noted(H)  BY <1>6
    <3> HIDE DEF muted
    <3> QED  BY <3>1, NothingTodo, JobOfNone
  <2>2. due \in Jobs(H) /\ due.at = "due"  BY <1>3, NothingTodo, JobIs
  <2>3. v = Idle \/ v = logging \/ v = due  BY <1>4
  <2> HIDE DEF logging, due
  <2> QED  BY <1>5, <2>1, <2>2, <2>3
<1> QED  BY <1>2, <1>4, <1>7, GoesSane

LEMMA GetsSane ==
    ASSUME NEW P, NEW K, NEW H, NEW A, Sane(P, K, H, A), NEW p \in P, Alone!GetUser(p)
    PROVE  Sane(P, K, H, A)'
<1>1. UNCHANGED <<subs, prefs, log, wants, told, faults>>  BY Gets
<1>2. /\ subs' \in Seq(Endpoints) /\ prefs' \in BOOLEAN /\ wants' \in BOOLEAN /\ log' \subseteq Noted(H)
      /\ told' \in [Endpoints -> Seq(0..H)] /\ faults' \in 0..MaxFailed
  BY <1>1 DEF Sane
<1>3. up[p] # Idle /\ up[p].entry \in SUBSET Noted(H) /\ subs \in Seq(Endpoints)  BY Gets, OfUp DEF Sane
<1>4. PICK v : Goes(p, v) /\ (v = Idle \/ (subs # <<>> /\ v = Job("sending", subs, up[p].entry)))  BY Gets
<1>5. v \in {Idle} \cup Jobs(H) /\ (v.at = "sending" => v.todo # <<>>)
  BY <1>3, <1>4, IdleIs, JobIs DEF Phases
<1> QED  BY <1>2, <1>4, <1>5, GoesSane

LEMMA SaidIs ==
    ASSUME NEW P, NEW K, NEW H, NEW A, Sane(P, K, H, A), NEW ok \in BOOLEAN
    PROVE  Said(ok) \in SUBSET Noted(H)
<1> QED  BY DEF Said, Noted, Sane

LEMMA SendsSane ==
    ASSUME NEW P, NEW K, NEW H, NEW A, Sane(P, K, H, A), NEW p \in P, Alone!Send(p)
    PROVE  Sane(P, K, H, A)'
<1> DEFINE e == Head(up[p].todo)
<1>1. up[p] # Idle /\ up[p].at = "sending" /\ UNCHANGED <<subs, prefs, log, wants>>  BY Sends
<1>2. subs' \in Seq(Endpoints) /\ prefs' \in BOOLEAN /\ wants' \in BOOLEAN /\ log' \subseteq Noted(H)
  BY <1>1 DEF Sane
<1>3. up[p].todo \in Seq(Endpoints) /\ e \in Endpoints  BY <1>1, OfUp
<1>4. PICK v : Goes(p, v) /\ v \in {Job("pruning", up[p].todo, Said(FALSE)),
                                    Job("logging", up[p].todo, Said(TRUE)), Job("logging", up[p].todo, Said(FALSE))}
  BY Sends
<1>5. v \in {Idle} \cup Jobs(H) /\ v.at # "sending"
  <2>1. Said(TRUE) \in SUBSET Noted(H) /\ Said(FALSE) \in SUBSET Noted(H)  BY SaidIs
  <2> DEFINE a == Said(FALSE)
             b == Said(TRUE)
  <2>2. a \in SUBSET Noted(H) /\ b \in SUBSET Noted(H)  BY <2>1
  <2>3. v \in {Job("pruning", up[p].todo, a), Job("logging", up[p].todo, b), Job("logging", up[p].todo, a)}
    BY <1>4
  <2> HIDE DEF a, b
  <2> QED  BY <1>3, <2>2, <2>3, JobIs DEF Phases
<1>6. told' \in [Endpoints -> Seq(0..H)]
  <2>1. told \in [Endpoints -> Seq(0..H)] /\ hour \in 0..H  BY DEF Sane
  <2>2. told' = told \/ told' = [told EXCEPT ![e] = Append(@, hour)]  BY Sends
  <2> HIDE DEF e
  <2>3. Append(told[e], hour) \in Seq(0..H)  BY <1>3, <2>1
  <2> QED  BY <2>1, <2>2, <2>3
<1>7. faults' \in 0..MaxFailed
  <2>1. faults \in 0..MaxFailed /\ MaxFailed \in Nat  BY DeviceConstants DEF Sane
  <2>2. faults' = faults \/ (faults < MaxFailed /\ faults' = faults + 1)  BY Sends
  <2> QED  BY <2>1, <2>2
<1> QED  BY <1>2, <1>4, <1>5, <1>6, <1>7, GoesSane

LEMMA PrunesSane ==
    ASSUME NEW P, NEW K, NEW H, NEW A, Sane(P, K, H, A), NEW p \in P, Alone!Prune(p)
    PROVE  Sane(P, K, H, A)'
<1>1. /\ up[p] # Idle /\ UNCHANGED <<prefs, log, told, faults>>
      /\ subs' = Alone!Without(Head(up[p].todo)) /\ wants' = (wants /\ subs' # <<>>)
  BY Prunes
<1>2. /\ subs' \in Seq(Endpoints) /\ prefs' \in BOOLEAN /\ wants' \in BOOLEAN /\ log' \subseteq Noted(H)
      /\ told' \in [Endpoints -> Seq(0..H)] /\ faults' \in 0..MaxFailed
  <2>1. subs \in Seq(Endpoints)  BY DEF Sane
  <2>2. Alone!Without(Head(up[p].todo)) \in Seq(Endpoints)  BY <2>1, WithoutIs
  <2> QED  BY <1>1, <2>2 DEF Sane
<1>3. up[p].todo \in Seq(Endpoints) /\ up[p].entry \in SUBSET Noted(H)  BY <1>1, OfUp
<1>4. PICK v : Goes(p, v) /\ v \in {Job("cleaning", up[p].todo, up[p].entry), Job("logging", up[p].todo, up[p].entry)}
  BY Prunes
<1>5. v \in {Idle} \cup Jobs(H) /\ v.at # "sending"  BY <1>3, <1>4, JobIs DEF Phases
<1> QED  BY <1>2, <1>4, <1>5, GoesSane

LEMMA CleansSane ==
    ASSUME NEW P, NEW K, NEW H, NEW A, Sane(P, K, H, A), NEW p \in P, Alone!CleanUp(p)
    PROVE  Sane(P, K, H, A)'
<1> DEFINE v == Job("logging", up[p].todo, up[p].entry)
<1>1. up[p] # Idle /\ UNCHANGED <<subs, log, wants, told, faults>> /\ prefs' = FALSE /\ Goes(p, v)  BY Cleans
<1>2. up[p].todo \in Seq(Endpoints) /\ up[p].entry \in SUBSET Noted(H)  BY <1>1, OfUp
<1>3. v \in Jobs(H) /\ v.at = "logging"  BY <1>2, JobIs DEF Phases
<1>4. /\ subs' \in Seq(Endpoints) /\ prefs' \in BOOLEAN /\ wants' \in BOOLEAN /\ log' \subseteq Noted(H)
      /\ told' \in [Endpoints -> Seq(0..H)] /\ faults' \in 0..MaxFailed
  BY <1>1 DEF Sane
<1> HIDE DEF v
<1> QED  BY <1>1, <1>3, <1>4, GoesSane

LEMMA LogsSane ==
    ASSUME NEW P, NEW K, NEW H, NEW A, Sane(P, K, H, A), NEW p \in P, up[p] # Idle,
           UNCHANGED <<subs, prefs, wants, told>>, faults' \in 0..MaxFailed,
           log' \in {log, log \cup up[p].entry}, Goes(p, Onwards(p))
    PROVE  Sane(P, K, H, A)'
<1>1. up[p].entry \in SUBSET Noted(H)  BY OfUp
<1>2. /\ subs' \in Seq(Endpoints) /\ prefs' \in BOOLEAN /\ wants' \in BOOLEAN /\ log' \subseteq Noted(H)
      /\ told' \in [Endpoints -> Seq(0..H)]
  BY <1>1 DEF Sane
<1>3. Onwards(p) \in {Idle} \cup Jobs(H) /\ (Onwards(p).at = "sending" => Onwards(p).todo # <<>>)  BY OnwardsIs
<1> QED  BY <1>2, <1>3, GoesSane

LEMMA UpdateSane ==
    ASSUME NEW P, NEW K, NEW H, NEW A, Sane(P, K, H, A), NEW p \in P, Alone!Update(p)
    PROVE  Sane(P, K, H, A)'
<1>1. CASE Alone!AppendLog(p)
  <2>1. faults' \in 0..MaxFailed  BY <1>1, Logs DEF Sane
  <2>2. /\ up[p] # Idle /\ UNCHANGED <<subs, prefs, wants, told>>
        /\ log' \in {log, log \cup up[p].entry} /\ Goes(p, Onwards(p))
    BY <1>1, Logs
  <2> QED  BY <2>1, <2>2, LogsSane
<1> QED  BY <1>1, BeginsSane, ChecksSane, GetsSane, SendsSane, PrunesSane, CleansSane DEF Alone!Update


-----------------------------------------------------------------------------
(* The other parts take the same steps.                                     *)
LEMMA SameWithout ==
    /\ \A e : Browser!Without(e) = Alone!Without(e)
    /\ \A e : Gone!Without(e) = Alone!Without(e)
<1>1. \A S : Alone!Cardinality(S) = Cardinality(S)  BY DEF Alone!Cardinality, Cardinality
<1>2. \A S : Browser!Cardinality(S) = Cardinality(S)  BY DEF Browser!Cardinality, Cardinality
<1>3. \A S : Gone!Cardinality(S) = Cardinality(S)  BY DEF Gone!Cardinality, Cardinality
<1>4. \A n, kept : Browser!Place(n, kept) = Alone!Place(n, kept) /\ Gone!Place(n, kept) = Alone!Place(n, kept)
  BY <1>1, <1>2, <1>3 DEF Alone!Place, Browser!Place, Gone!Place
<1> QED  BY <1>1, <1>2, <1>3, <1>4 DEF Alone!Without, Browser!Without, Gone!Without

LEMMA BrowserUpdates ==
    ASSUME NEW p, Browser!Update(p)
    PROVE  Alone!Update(p)
<1>1. Browser!Idle = Alone!Idle  BY DEF Browser!Idle, Alone!Idle
<1>2. Browser!Due = Alone!Due  BY DEF Browser!Due, Alone!Due, Browser!HourOfDay, Alone!HourOfDay
<1>3. Browser!MayMute = Alone!MayMute
  BY DEF Browser!MayMute, Alone!MayMute, Browser!Quiet, Alone!Quiet, Browser!HourOfDay, Alone!HourOfDay
<1>4. Browser!Recent = Alone!Recent  BY DEF Browser!Recent, Alone!Recent, Browser!DayOf, Alone!DayOf
<1>5. Browser!Begin(p) => Alone!Begin(p)
  BY <1>1, <1>2 DEF Browser!Begin, Alone!Begin, Browser!userVars, Alone!userVars
<1>6. Browser!Check(p) => Alone!Check(p)
  BY <1>1, <1>3, <1>4 DEF Browser!Check, Alone!Check, Browser!userVars, Alone!userVars
<1>7. Browser!GetUser(p) => Alone!GetUser(p)
  BY <1>1 DEF Browser!GetUser, Alone!GetUser, Browser!userVars, Alone!userVars
<1>8. Browser!Send(p) => Alone!Send(p)
  BY <1>1 DEF Browser!Send, Alone!Send, Browser!userVars, Alone!userVars, Browser!Fault, Alone!Fault
<1>9. Browser!Prune(p) => Alone!Prune(p)
  BY <1>1, SameWithout DEF Browser!Prune, Alone!Prune
<1>10. Browser!CleanUp(p) => Alone!CleanUp(p)
  BY <1>1 DEF Browser!CleanUp, Alone!CleanUp, Browser!userVars, Alone!userVars
<1>11. Browser!AppendLog(p) => Alone!AppendLog(p)
  BY <1>1 DEF Browser!AppendLog, Alone!AppendLog, Browser!userVars, Alone!userVars, Browser!Fault, Alone!Fault
<1> QED  BY <1>5, <1>6, <1>7, <1>8, <1>9, <1>10, <1>11 DEF Browser!Update, Alone!Update

(* In "gone" an entry may fail to be written.                               *)
GoneLogs(p) ==
    /\ up[p] # Idle /\ up[p].at = "logging" /\ UNCHANGED <<subs, prefs, wants, told>>
    /\ log' \in {log, log \cup up[p].entry} /\ Goes(p, Onwards(p))
    /\ faults' \in {faults, faults + 1} /\ (faults' = faults \/ faults < MaxFailed)
LEMMA GoneUpdates ==
    ASSUME NEW P, NEW K, NEW H, NEW A, Sane(P, K, H, A), NEW p \in P, Gone!Update(p)
    PROVE  Alone!Update(p) \/ GoneLogs(p)
<1>1. Gone!Idle = Alone!Idle  BY DEF Gone!Idle, Alone!Idle
<1>2. Gone!Due = Alone!Due  BY DEF Gone!Due, Alone!Due, Gone!HourOfDay, Alone!HourOfDay
<1>3. Gone!MayMute = Alone!MayMute
  BY DEF Gone!MayMute, Alone!MayMute, Gone!Quiet, Alone!Quiet, Gone!HourOfDay, Alone!HourOfDay
<1>4. Gone!Recent = Alone!Recent  BY DEF Gone!Recent, Alone!Recent, Gone!DayOf, Alone!DayOf
<1>5. Gone!Begin(p) => Alone!Begin(p)
  BY <1>1, <1>2 DEF Gone!Begin, Alone!Begin, Gone!userVars, Alone!userVars
<1>6. Gone!Check(p) => Alone!Check(p)
  BY <1>1, <1>3, <1>4 DEF Gone!Check, Alone!Check, Gone!userVars, Alone!userVars
<1>7. Gone!GetUser(p) => Alone!GetUser(p)
  BY <1>1 DEF Gone!GetUser, Alone!GetUser, Gone!userVars, Alone!userVars
<1>8. Gone!Send(p) => Alone!Send(p)
  BY <1>1 DEF Gone!Send, Alone!Send, Gone!userVars, Alone!userVars, Gone!Fault, Alone!Fault
<1>9. Gone!Prune(p) => Alone!Prune(p)
  BY <1>1, SameWithout DEF Gone!Prune, Alone!Prune
<1>10. Gone!CleanUp(p) => Alone!CleanUp(p)
  BY <1>1 DEF Gone!CleanUp, Alone!CleanUp, Gone!userVars, Alone!userVars
<1>11. ASSUME Gone!AppendLog(p) PROVE GoneLogs(p)
  <2>1. /\ up[p] # Idle /\ up[p].at = "logging" /\ UNCHANGED <<subs, prefs, wants, told>>
        /\ log' \in {log, log \cup up[p].entry}
        /\ faults' \in {faults, faults + 1} /\ (faults' = faults \/ faults < MaxFailed)
        /\ UNCHANGED <<kind, hour, dead, moving, cleaning, acts>>
    BY <1>1, <1>11 DEF Gone!AppendLog, Gone!userVars, Gone!Fault, Idle
  <2>2. up' = [up EXCEPT ![p] =
               IF Len(up[p].todo) < 2 THEN Idle
               ELSE [up[p] EXCEPT !.at = "sending", !.todo = Tail(up[p].todo), !.entry = {}]]
    BY <1>1, <1>11 DEF Gone!AppendLog, Idle
  <2>3. Goes(p, Onwards(p))  BY <2>1, <2>2, Appends
  <2> QED  BY <2>1, <2>3 DEF GoneLogs
<1> QED  BY <1>5, <1>6, <1>7, <1>8, <1>9, <1>10, <1>11 DEF Gone!Update, Alone!Update

-----------------------------------------------------------------------------
(* Where one update runs at a time, the log and the update under way tell     *)
(* which devices may be told.                                               *)
Soon(k, g, h) ==
    CASE k \in {"summary", "solar"} -> Alone!DayOf(g) = Alone!DayOf(h)
      [] k = "vpp" -> h - g < VppWindow
      [] k = "load" -> h - g < LoadCooldown
Distinct(s) == \A a, b \in DOMAIN s : s[a] = s[b] => a = b
Delivered(g) == [hour |-> g, ok |-> TRUE, muted |-> FALSE]
Pending(v) == IF v.at = "logging" THEN v.entry ELSE {}
Spared(t, k, h) == \A i \in DOMAIN t : ~Soon(k, t[i], h)

Booked(ledger) == \A e \in Endpoints : \A i \in DOMAIN told[e] : Delivered(told[e][i]) \in ledger
Apart == \A e \in Endpoints : \A i, j \in DOMAIN told[e] : i < j => ~Soon(kind, told[e][i], told[e][j])
Cleared(v) ==
    /\ v.at = "due" => \A e \in Endpoints : Spared(told[e], kind, hour)
    /\ v.at \in {"sending", "pruning", "cleaning", "logging"} =>
         Distinct(v.todo) /\ \A n \in DOMAIN v.todo : n > 1 => Spared(told[v.todo[n]], kind, hour)
    /\ v.at = "sending" => Spared(told[Head(v.todo)], kind, hour)
Ledger == Booked(log \cup Pending(up[1])) /\ Apart /\ Cleared(up[1])

LEMMA TooSoonIs ==
    ASSUME NEW g, NEW h
    PROVE  (Alone!TooSoon(g, h) <=> Soon(kind, g, h)) /\ (Browser!TooSoon(g, h) <=> Soon(kind, g, h))
<1> QED  BY DEF Alone!TooSoon, Browser!TooSoon, Alone!DayOf, Browser!DayOf, Soon

(* What is written into the ledger stays, unless the clock moves.           *)
LEMMA LedgerStays ==
    ASSUME NEW K, NEW H, NEW A, Sane({1}, K, H, A), Ledger, NEW v, up' = [up EXCEPT ![1] = v],
           UNCHANGED <<kind, hour, told>>,
           log \cup Pending(up[1]) \subseteq log' \cup Pending(v), Cleared(v)
    PROVE  Ledger'
<1>1. up'[1] = v  BY DEF Sane
<1>2. Booked(log' \cup Pending(v))  BY DEF Ledger, Booked
<1>3. Booked(log \cup Pending(up[1]))' /\ Apart'  BY <1>1, <1>2 DEF Ledger, Booked, Apart, Pending
<1>4. Cleared(up[1])'  BY <1>1 DEF Cleared
<1> QED  BY <1>3, <1>4 DEF Ledger

LEMMA LedgerAsleep ==
    ASSUME Ledger, up[1] = Idle, UNCHANGED <<kind, log, up, told>>
    PROVE  Ledger'
<1>1. up'[1].at = "idle"  BY IdleIs
<1>2. Cleared(up[1])'  BY <1>1 DEF Cleared
<1>3. Booked(log \cup Pending(up[1]))' /\ Apart'  BY DEF Ledger, Booked, Apart, Pending
<1> QED  BY <1>2, <1>3 DEF Ledger

(* A user who has no recent entry may be told.                              *)
LEMMA NothingRecent ==
    ASSUME kind \in {"summary", "solar", "vpp", "load"}, Booked(log), ~Alone!Recent
    PROVE  \A e \in Endpoints : Spared(told[e], kind, hour)
<1> SUFFICES ASSUME NEW e \in Endpoints, NEW i \in DOMAIN told[e], Soon(kind, told[e][i], hour) PROVE FALSE
  BY DEF Spared
<1> DEFINE g == told[e][i]
           d == Delivered(g)
<1>1. d \in log  BY DEF Booked
<1>2. d.hour = g /\ d.ok /\ ~d.muted  BY DEF Delivered
<1> HIDE DEF d
<1>3. Soon(kind, d.hour, hour)  BY <1>2
<1>4. CASE kind \in {"summary", "solar"}
  <2>1. Alone!DayOf(d.hour) = Alone!DayOf(hour)  BY <1>3, <1>4 DEF Soon
  <2> QED  BY <1>1, <1>2, <1>4, <2>1 DEF Alone!Recent
<1>5. CASE kind = "vpp"
  <2>1. hour - d.hour < VppWindow  BY <1>3, <1>5 DEF Soon
  <2> QED  BY <1>1, <1>2, <1>5, <2>1 DEF Alone!Recent
<1>6. CASE kind = "load"
  <2>1. hour - d.hour < LoadCooldown  BY <1>3, <1>6 DEF Soon
  <2> QED  BY <1>1, <1>2, <1>6, <2>1 DEF Alone!Recent
<1> QED  BY <1>4, <1>5, <1>6

LEMMA LedgerBegins ==
    ASSUME NEW K, NEW H, NEW A, Sane({1}, K, H, A), Ledger, Alone!Begin(1)
    PROVE  Ledger'
<1> DEFINE v == Job("begun", <<>>, {})
<1>1. up[1] = Idle /\ Goes(1, v) /\ UNCHANGED <<log, told>>  BY Begins
<1>2. v.at = "begun"  BY DEF Job
<1>3. Cleared(v) /\ Pending(v) = {} /\ Pending(up[1]) = {}  BY <1>1, <1>2, IdleIs DEF Cleared, Pending
<1> HIDE DEF v
<1> QED  BY <1>1, <1>3, LedgerStays DEF Goes, Others

LEMMA LedgerChecks ==
    ASSUME NEW K, NEW H, NEW A, Sane({1}, K, H, A), K \subseteq {"summary", "solar", "vpp", "load"},
           Ledger, Alone!Check(1)
    PROVE  Ledger'
<1> DEFINE muted == {[hour |-> hour, ok |-> FALSE, muted |-> TRUE]}
           logging == Job("logging", <<>>, muted)
           due == Job("due", up[1].todo, up[1].entry)
<1>1. /\ up[1] # Idle /\ up[1].at = "begun" /\ UNCHANGED <<log, told>>
      /\ Goes(1, Idle) \/ Goes(1, logging) \/ (Goes(1, due) /\ ~Alone!Recent)
  BY Checks
<1>2. Pending(up[1]) = {}  BY <1>1 DEF Pending
<1>3. Booked(log)  BY <1>2 DEF Ledger
<1>4. Cleared(Idle)  BY IdleIs DEF Cleared
<1>5. Cleared(logging)
  <2>1. logging.at = "logging" /\ logging.todo = <<>>  BY DEF Job
  <2> HIDE DEF logging
  <2> QED  BY <2>1 DEF Cleared, Distinct
<1>6. ~Alone!Recent => Cleared(due)
  <2>1. due.at = "due"  BY DEF Job
  <2>2. kind \in {"summary", "solar", "vpp", "load"}  BY DEF Sane
  <2> HIDE DEF due
  <2> QED  BY <1>3, <2>1, <2>2, NothingRecent DEF Cleared
<1> HIDE DEF logging, due
<1>7. PICK v : Goes(1, v) /\ Cleared(v)  BY <1>1, <1>4, <1>5, <1>6
<1> QED  BY <1>1, <1>2, <1>7, LedgerStays DEF Goes, Others

LEMMA LedgerGets ==
    ASSUME NEW K, NEW H, NEW A, Sane({1}, K, H, A), Ledger, Distinct(subs), Alone!GetUser(1)
    PROVE  Ledger'
<1> DEFINE sending == Job("sending", subs, up[1].entry)
<1>1. /\ up[1] # Idle /\ up[1].at = "due" /\ UNCHANGED <<log, told>>
      /\ Goes(1, Idle) \/ (subs # <<>> /\ Goes(1, sending))
  BY Gets
<1>2. Pending(up[1]) = {}  BY <1>1 DEF Pending
<1>3. \A e \in Endpoints : Spared(told[e], kind, hour)  BY <1>1 DEF Ledger, Cleared
<1>4. Cleared(Idle)  BY IdleIs DEF Cleared
<1>5. ASSUME subs # <<>> PROVE Cleared(sending)
  <2>1. sending.at = "sending" /\ sending.todo = subs  BY DEF Job
  <2>2. subs \in Seq(Endpoints)  BY DEF Sane
  <2>3. Head(subs) \in Endpoints /\ \A n \in DOMAIN subs : subs[n] \in Endpoints  BY <1>5, <2>2
  <2> HIDE DEF sending
  <2> QED  BY <1>3, <2>1, <2>3 DEF Cleared
<1> HIDE DEF sending
<1>6. PICK v : Goes(1, v) /\ Cleared(v)  BY <1>1, <1>4, <1>5
<1> QED  BY <1>1, <1>2, <1>6, LedgerStays DEF Goes, Others

LEMMA LedgerSends ==
    ASSUME NEW K, NEW H, NEW A, Sane({1}, K, H, A), Ledger, Alone!Send(1)
    PROVE  Ledger'
<1> DEFINE todo == up[1].todo
           e == Head(todo)
           pruning == Job("pruning", todo, Said(FALSE))
           done == Job("logging", todo, Said(TRUE))
           lost == Job("logging", todo, Said(FALSE))
<1>1. /\ up[1] # Idle /\ up[1].at = "sending" /\ UNCHANGED log
      /\ \/ Goes(1, pruning) /\ UNCHANGED told
         \/ told' = [told EXCEPT ![e] = Append(@, hour)] /\ Goes(1, done)
         \/ Goes(1, lost) /\ UNCHANGED told
  BY Sends
<1>2. Pending(up[1]) = {}  BY <1>1 DEF Pending
<1>3. todo \in Seq(Endpoints) /\ todo # <<>> /\ e \in Endpoints  BY <1>1, OfUp
<1>4. /\ Distinct(todo) /\ \A n \in DOMAIN todo : n > 1 => Spared(told[todo[n]], kind, hour)
      /\ Spared(told[e], kind, hour)
  BY <1>1 DEF Ledger, Cleared
<1>5. /\ pruning.at = "pruning" /\ pruning.todo = todo /\ done.at = "logging" /\ done.todo = todo
      /\ lost.at = "logging" /\ lost.todo = todo
  BY DEF Job
<1>6. done.entry = Said(TRUE)  BY DEF Job
<1> HIDE DEF pruning, done, lost, todo
<1>7. CASE Goes(1, pruning) /\ UNCHANGED told
  <2>1. Cleared(pruning)  BY <1>4, <1>5 DEF Cleared
  <2> QED  BY <1>1, <1>2, <1>7, <2>1, LedgerStays DEF Goes, Others
<1>8. CASE Goes(1, lost) /\ UNCHANGED told
  <2>1. Cleared(lost)  BY <1>4, <1>5 DEF Cleared
  <2> QED  BY <1>1, <1>2, <1>8, <2>1, LedgerStays DEF Goes, Others
<1>9. CASE told' = [told EXCEPT ![e] = Append(@, hour)] /\ Goes(1, done)
  <2> HIDE DEF e
  <2>1. up'[1] = done /\ kind' = kind /\ hour' = hour /\ log' = log  BY <1>1, <1>9 DEF Goes, Others, Sane
  <2>2. told \in [Endpoints -> Seq(0..H)]  BY DEF Sane
  <2>3. told'[e] = Append(told[e], hour) /\ \A x \in Endpoints : x # e => told'[x] = told[x]
    BY <1>3, <1>9, <2>2
  <2>4. told[e] \in Seq(0..H) /\ hour \in 0..H  BY <1>3, <2>2 DEF Sane
  <2>5. /\ DOMAIN told[e] = 1..Len(told[e]) /\ Len(told[e]) \in Nat
        /\ DOMAIN told'[e] = 1..(Len(told[e]) + 1) /\ told'[e][Len(told[e]) + 1] = hour
        /\ \A i \in DOMAIN told[e] : told'[e][i] = told[e][i]
    BY <2>3, <2>4
  <2>6. \A i \in DOMAIN told'[e] : i \in DOMAIN told[e] \/ i = Len(told[e]) + 1  BY <2>5
  <2>7. Booked(log) /\ Apart  BY <1>2 DEF Ledger
  <2>8. Pending(done) = {Delivered(hour)}  BY <1>5, <1>6 DEF Pending, Said, Delivered
  <2>9. \A x \in Endpoints : \A i \in DOMAIN told'[x] : Delivered(told'[x][i]) \in log \cup Pending(done)
    <3> TAKE x \in Endpoints
    <3> TAKE i \in DOMAIN told'[x]
    <3>1. CASE x # e  BY <2>3, <2>7, <3>1 DEF Booked
    <3>2. CASE x = e /\ i \in DOMAIN told[e]  BY <2>5, <2>7, <3>2 DEF Booked
    <3>3. CASE x = e /\ i = Len(told[e]) + 1  BY <2>5, <2>8, <3>3
    <3> QED  BY <2>6, <3>1, <3>2, <3>3
  <2>10. Booked(log \cup Pending(up[1]))'  BY <2>1, <2>9 DEF Booked, Pending, Delivered
  <2>11. \A x \in Endpoints : \A i, j \in DOMAIN told'[x] : i < j => ~Soon(kind, told'[x][i], told'[x][j])
    <3> SUFFICES ASSUME NEW x \in Endpoints, NEW i \in DOMAIN told'[x], NEW j \in DOMAIN told'[x], i < j
                 PROVE  ~Soon(kind, told'[x][i], told'[x][j])
      OBVIOUS
    <3>1. CASE x # e
      <4>1. told'[x] = told[x]  BY <2>3, <3>1
      <4>2. i \in DOMAIN told[x] /\ j \in DOMAIN told[x]  BY <4>1
      <4>3. ~Soon(kind, told[x][i], told[x][j])  BY <2>7, <4>2 DEF Apart
      <4> QED  BY <4>1, <4>3
    <3>2. CASE x = e /\ j \in DOMAIN told[e]
      <4>1. i \in DOMAIN told[e]  BY <2>5, <2>6, <3>2
      <4>2. ~Soon(kind, told[e][i], told[e][j])  BY <1>3, <2>7, <3>2, <4>1 DEF Apart
      <4>3. told'[e][i] = told[e][i] /\ told'[e][j] = told[e][j]  BY <2>5, <3>2, <4>1
      <4> QED  BY <3>2, <4>2, <4>3
    <3>3. CASE x = e /\ j = Len(told[e]) + 1
      <4>1. i \in DOMAIN told[e]  BY <2>5, <2>6, <3>3
      <4>2. ~Soon(kind, told[e][i], hour)  BY <1>4, <4>1 DEF Spared
      <4>3. told'[e][i] = told[e][i] /\ told'[e][j] = hour  BY <2>5, <3>3, <4>1
      <4> QED  BY <3>3, <4>2, <4>3
    <3> QED  BY <2>6, <3>1, <3>2, <3>3
  <2>12. Apart'  BY <2>1, <2>11 DEF Apart
  <2>13. \A n \in DOMAIN todo : n > 1 => Spared(told'[todo[n]], kind, hour)
    <3> SUFFICES ASSUME NEW n \in DOMAIN todo, n > 1 PROVE Spared(told'[todo[n]], kind, hour)  OBVIOUS
    <3>1. e = todo[1] /\ 1 \in DOMAIN todo /\ todo[n] \in Endpoints  BY <1>3 DEF e
    <3>2. todo[n] # e  BY <1>4, <3>1 DEF Distinct
    <3>3. told'[todo[n]] = told[todo[n]]  BY <2>3, <3>1, <3>2
    <3> QED  BY <1>4, <3>3
  <2>14. Cleared(up[1])'  BY <1>4, <1>5, <2>1, <2>13 DEF Cleared
  <2> QED  BY <2>10, <2>12, <2>14 DEF Ledger
<1> QED  BY <1>1, <1>7, <1>8, <1>9

LEMMA LedgerPrunes ==
    ASSUME NEW K, NEW H, NEW A, Sane({1}, K, H, A), Ledger, Alone!Prune(1)
    PROVE  Ledger'
<1> DEFINE cleaned == Job("cleaning", up[1].todo, up[1].entry)
           logged == Job("logging", up[1].todo, up[1].entry)
<1>1. /\ up[1] # Idle /\ up[1].at = "pruning" /\ UNCHANGED <<log, told>>
      /\ Goes(1, cleaned) \/ Goes(1, logged)
  BY Prunes
<1>2. Pending(up[1]) = {}  BY <1>1 DEF Pending
<1>3. /\ cleaned.at = "cleaning" /\ cleaned.todo = up[1].todo /\ logged.at = "logging" /\ logged.todo = up[1].todo
  BY DEF Job
<1> HIDE DEF cleaned, logged
<1>4. Cleared(cleaned) /\ Cleared(logged)  BY <1>1, <1>3 DEF Ledger, Cleared
<1>5. PICK v : Goes(1, v) /\ Cleared(v)  BY <1>1, <1>4
<1> QED  BY <1>1, <1>2, <1>5, LedgerStays DEF Goes, Others

LEMMA LedgerCleans ==
    ASSUME NEW K, NEW H, NEW A, Sane({1}, K, H, A), Ledger, Alone!CleanUp(1)
    PROVE  Ledger'
<1> DEFINE logged == Job("logging", up[1].todo, up[1].entry)
<1>1. /\ up[1] # Idle /\ up[1].at = "cleaning" /\ UNCHANGED <<log, told>> /\ Goes(1, logged)  BY Cleans
<1>2. Pending(up[1]) = {}  BY <1>1 DEF Pending
<1>3. logged.at = "logging" /\ logged.todo = up[1].todo  BY DEF Job
<1> HIDE DEF logged
<1>4. Cleared(logged)  BY <1>1, <1>3 DEF Ledger, Cleared
<1> QED  BY <1>1, <1>2, <1>4, LedgerStays DEF Goes, Others

LEMMA LedgerLogs ==
    ASSUME NEW K, NEW H, NEW A, Sane({1}, K, H, A), Ledger, Alone!AppendLog(1)
    PROVE  Ledger'
<1> DEFINE todo == up[1].todo
           v == Onwards(1)
<1>1. /\ up[1] # Idle /\ up[1].at = "logging" /\ UNCHANGED told
      /\ log' = log \cup up[1].entry /\ Goes(1, v)
  BY Logs
<1>2. Pending(up[1]) = up[1].entry  BY <1>1 DEF Pending
<1>3. todo \in Seq(Endpoints)  BY <1>1, OfUp
<1>4. Distinct(todo) /\ \A n \in DOMAIN todo : n > 1 => Spared(told[todo[n]], kind, hour)
  BY <1>1 DEF Ledger, Cleared
<1>5. /\ v # Idle => v.at = "sending"
      /\ v # Idle => Len(todo) \in Nat /\ Len(todo) >= 2 /\ v.todo = Tail(todo)
  BY <1>1, OnwardsIs
<1> HIDE DEF v, todo
<1>6. Cleared(v)
  <2>1. CASE v = Idle  BY <2>1, IdleIs DEF Cleared
  <2>2. CASE v # Idle
    <3> DEFINE rest == Tail(todo)
    <3>1. /\ Len(todo) \in Nat /\ Len(todo) >= 2 /\ v.todo = rest /\ v.at = "sending"
      BY <1>5, <2>2
    <3>2. /\ DOMAIN todo = 1..Len(todo) /\ DOMAIN rest = 1..(Len(todo) - 1)
          /\ \A n \in DOMAIN rest : rest[n] = todo[n + 1] /\ Head(rest) = todo[2]
      BY <1>3, <3>1
    <3>3. \A n \in DOMAIN rest : n \in Nat /\ n + 1 \in DOMAIN todo /\ n + 1 > 1  BY <3>1, <3>2
    <3>4. 1 \in DOMAIN rest /\ 2 \in DOMAIN todo  BY <3>1, <3>2
    <3> HIDE DEF rest
    <3>5. Distinct(rest)
      <4> SUFFICES ASSUME NEW a \in DOMAIN rest, NEW b \in DOMAIN rest, rest[a] = rest[b] PROVE a = b
        BY DEF Distinct
      <4>1. todo[a + 1] = todo[b + 1]  BY <3>2
      <4>2. a + 1 = b + 1  BY <1>4, <3>3, <4>1 DEF Distinct
      <4> QED  BY <3>3, <4>2
    <3>6. \A n \in DOMAIN rest : Spared(told[rest[n]], kind, hour)  BY <1>4, <3>2, <3>3
    <3>7. Spared(told[Head(rest)], kind, hour)  BY <1>4, <3>2, <3>4
    <3> QED  BY <3>1, <3>5, <3>6, <3>7 DEF Cleared
  <2> QED  BY <2>1, <2>2
<1> QED  BY <1>1, <1>2, <1>6, LedgerStays DEF Goes, Others

LEMMA LedgerUpdate ==
    ASSUME NEW K, NEW H, NEW A, Sane({1}, K, H, A), K \subseteq {"summary", "solar", "vpp", "load"},
           Ledger, Distinct(subs), Alone!Update(1)
    PROVE  Ledger'
<1> QED  BY LedgerBegins, LedgerChecks, LedgerGets, LedgerSends, LedgerPrunes, LedgerCleans, LedgerLogs
    DEF Alone!Update

-----------------------------------------------------------------------------
(* One update, and a user who comes and goes ("alone").                      *)
AnyKind == {"summary", "solar", "vpp", "load"}
AloneInv ==
    /\ Sane({1}, AnyKind, ManyHours, ManyActs) /\ Ledger
    /\ Distinct(subs) /\ dead = {} /\ moving = {}
    /\ up[1].at \notin {"pruning", "cleaning"}
    /\ cleaning => ~wants
    /\ wants => prefs
    /\ prefs /\ ~cleaning => subs # <<>>

LEMMA HourSane ==
    ASSUME NEW P, NEW K, NEW H \in Nat, NEW A, Sane(P, K, H, A), hour < H, hour' = hour + 1,
           UNCHANGED <<kind, subs, prefs, log, dead, moving, cleaning, wants, up, told, acts, faults>>
    PROVE  Sane(P, K, H, A)'
<1>1. Idle' = Idle  BY DEF Idle, Alone!Idle
<1>2. hour' \in 0..H  BY DEF Sane
<1> QED  BY <1>1, <1>2 DEF Sane

(* While it has no device to remove, an update leaves the user's data alone. *)
LEMMA UpdateLeaves ==
    ASSUME NEW P, NEW K, NEW H, NEW A, Sane(P, K, H, A), NEW p \in P, Alone!Update(p),
           up[p].at \notin {"pruning", "cleaning"}, dead = {}
    PROVE  /\ UNCHANGED <<subs, prefs, wants, cleaning, dead, moving>>
           /\ up'[p].at \notin {"pruning", "cleaning"}
<1>1. ASSUME NEW v, Goes(p, v) PROVE up'[p] = v /\ UNCHANGED <<cleaning, dead, moving>>
  BY <1>1 DEF Goes, Others, Sane
<1>2. \A at, t, n : Job(at, t, n).at = at  BY DEF Job
<1>3. CASE Alone!Begin(p)
  <2>1. Goes(p, Job("begun", <<>>, {})) /\ UNCHANGED <<subs, prefs, wants>>  BY <1>3, Begins
  <2>2. up'[p] = Job("begun", <<>>, {}) /\ UNCHANGED <<cleaning, dead, moving>>  BY <1>1, <2>1
  <2>3. Job("begun", <<>>, {}).at = "begun"  BY DEF Job
  <2> QED  BY <2>1, <2>2, <2>3
<1>4. CASE Alone!Check(p)
  <2> DEFINE l == Job("logging", <<>>, {[hour |-> hour, ok |-> FALSE, muted |-> TRUE]})
             d == Job("due", up[p].todo, up[p].entry)
  <2>1. UNCHANGED <<subs, prefs, wants>> /\ (Goes(p, Idle) \/ Goes(p, l) \/ Goes(p, d))
    BY <1>4, Checks
  <2>2. l.at = "logging" /\ d.at = "due"  BY DEF Job
  <2> HIDE DEF l, d
  <2> QED  BY <1>1, <2>1, <2>2, IdleIs
<1>5. CASE Alone!GetUser(p)
  <2> DEFINE s == Job("sending", subs, up[p].entry)
  <2>1. UNCHANGED <<subs, prefs, wants>> /\ (Goes(p, Idle) \/ Goes(p, s))  BY <1>5, Gets
  <2>2. s.at = "sending"  BY DEF Job
  <2> HIDE DEF s
  <2> QED  BY <1>1, <2>1, <2>2, IdleIs
<1>6. CASE Alone!Send(p)
  <2> DEFINE done == Job("logging", up[p].todo, Said(TRUE))
             lost == Job("logging", up[p].todo, Said(FALSE))
  <2>1. UNCHANGED <<subs, prefs, wants>> /\ (Goes(p, done) \/ Goes(p, lost))  BY <1>6, Sends
  <2>2. done.at = "logging" /\ lost.at = "logging"  BY DEF Job
  <2> HIDE DEF done, lost
  <2> QED  BY <1>1, <2>1, <2>2
<1>7. CASE Alone!Prune(p)  BY <1>7, Prunes
<1>8. CASE Alone!CleanUp(p)  BY <1>8, Cleans
<1>9. CASE Alone!AppendLog(p)
  <2>1. UNCHANGED <<subs, prefs, wants>> /\ up[p] # Idle /\ Goes(p, Onwards(p))  BY <1>9, Logs
  <2>2. Onwards(p) = Idle \/ Onwards(p).at = "sending"  BY <2>1, OnwardsIs
  <2> QED  BY <1>1, <2>1, <2>2, IdleIs
<1> QED  BY <1>3, <1>4, <1>5, <1>6, <1>7, <1>8, <1>9 DEF Alone!Update

LEMMA AloneUpdates == AloneInv /\ Alone!Update(1) => AloneInv'
<1> SUFFICES ASSUME AloneInv, Alone!Update(1) PROVE AloneInv'  OBVIOUS
<1>1. Sane({1}, AnyKind, ManyHours, ManyActs)  BY DEF AloneInv
<1>2. Sane({1}, AnyKind, ManyHours, ManyActs)'  BY <1>1, UpdateSane
<1>3. Ledger'  BY <1>1, LedgerUpdate DEF AloneInv, AnyKind
<1>4. UNCHANGED <<subs, prefs, wants, cleaning, dead, moving>> /\ up'[1].at \notin {"pruning", "cleaning"}
  BY <1>1, UpdateLeaves DEF AloneInv
<1> QED  BY <1>2, <1>3, <1>4 DEF AloneInv, Distinct

LEMMA AloneTick == AloneInv /\ Alone!Tick => AloneInv'
<1> SUFFICES ASSUME AloneInv, Alone!Tick PROVE AloneInv'  OBVIOUS
<1>1. /\ hour < ManyHours /\ up[1] = Idle /\ hour' = hour + 1
      /\ UNCHANGED <<kind, subs, prefs, log, dead, moving, cleaning, wants, up, told, acts, faults>>
  BY DEF Alone!Tick, Alone!userVars, Idle
<1>2. Sane({1}, AnyKind, ManyHours, ManyActs)'  BY <1>1, HourSane, DeviceConstants DEF AloneInv
<1>3. Ledger'  BY <1>1, LedgerAsleep DEF AloneInv
<1> QED  BY <1>1, <1>2, <1>3 DEF AloneInv, Distinct

(* A request of the user does not touch what an update has in hand.          *)
LEMMA LedgerAsked ==
    ASSUME Ledger, UNCHANGED <<kind, hour, log, up, told>>
    PROVE  Ledger'
<1> QED  BY DEF Ledger, Booked, Apart, Cleared, Pending

LEMMA AskSane ==
    ASSUME NEW P, NEW K, NEW H, NEW A \in Nat, Sane(P, K, H, A), UNCHANGED <<kind, hour, log, up, told, faults>>,
           acts < A, acts' = acts + 1,
           subs' \in Seq(Endpoints), prefs' \in BOOLEAN, wants' \in BOOLEAN, cleaning' \in BOOLEAN,
           dead' \subseteq Endpoints, moving' \subseteq Endpoints \X (Endpoints \cup {"none"})
    PROVE  Sane(P, K, H, A)'
<1>1. acts' \in 0..A  BY DEF Sane
<1> QED  BY <1>1, AsksSane

LEMMA AppendIs ==
    ASSUME subs \in Seq(Endpoints), NEW e \in Endpoints, e \notin Alone!Range(subs)
    PROVE  /\ Append(subs, e) \in Seq(Endpoints) /\ Append(subs, e) # <<>>
           /\ Distinct(subs) => Distinct(Append(subs, e))
<1>1. /\ Append(subs, e) \in Seq(Endpoints) /\ Len(subs) \in Nat /\ DOMAIN subs = 1..Len(subs)
      /\ DOMAIN Append(subs, e) = 1..(Len(subs) + 1) /\ Append(subs, e)[Len(subs) + 1] = e
      /\ \A i \in DOMAIN subs : Append(subs, e)[i] = subs[i]
  OBVIOUS
<1>2. \A i \in DOMAIN subs : subs[i] # e  BY DEF Alone!Range
<1>3. \A i \in DOMAIN Append(subs, e) : i \in DOMAIN subs \/ i = Len(subs) + 1  BY <1>1
<1>4. Append(subs, e) # <<>>
  <2>1. Len(subs) + 1 \in DOMAIN Append(subs, e)  BY <1>1
  <2> QED  BY <2>1
<1>5. ASSUME Distinct(subs), NEW a \in DOMAIN Append(subs, e), NEW b \in DOMAIN Append(subs, e),
             Append(subs, e)[a] = Append(subs, e)[b]
      PROVE  a = b
  <2> DEFINE s == Append(subs, e)
  <2> HIDE DEF s
  <2>1. CASE a \in DOMAIN subs /\ b \in DOMAIN subs  BY <1>1, <1>5, <2>1 DEF Distinct
  <2>2. CASE a \in DOMAIN subs /\ b = Len(subs) + 1  BY <1>1, <1>2, <1>5, <2>2
  <2>3. CASE b \in DOMAIN subs /\ a = Len(subs) + 1  BY <1>1, <1>2, <1>5, <2>3
  <2> QED  BY <1>3, <1>5, <2>1, <2>2, <2>3
<1> QED  BY <1>1, <1>4, <1>5 DEF Distinct

LEMMA AloneSubscribes == \A e \in Endpoints : AloneInv /\ Alone!Subscribe(e) => AloneInv'
<1> SUFFICES ASSUME NEW e \in Endpoints, AloneInv, Alone!Subscribe(e) PROVE AloneInv'  OBVIOUS
<1>1. /\ acts < ManyActs /\ acts' = acts + 1
      /\ UNCHANGED <<kind, hour, log, up, told, faults, prefs, dead, moving, cleaning, wants>>
      /\ subs' = IF e \in Alone!Range(subs) THEN subs ELSE Append(subs, e)
  BY DEF Alone!Subscribe, Alone!Act, Alone!userVars
<1>2. Sane({1}, AnyKind, ManyHours, ManyActs)  BY DEF AloneInv
<1>3. subs \in Seq(Endpoints)  BY <1>2 DEF Sane
<1>4. subs' \in Seq(Endpoints) /\ Distinct(subs') /\ (subs # <<>> => subs' # <<>>)
  BY <1>1, <1>3, AppendIs DEF AloneInv
<1>5. /\ prefs' \in BOOLEAN /\ wants' \in BOOLEAN /\ cleaning' \in BOOLEAN
      /\ dead' \subseteq Endpoints /\ moving' \subseteq Endpoints \X (Endpoints \cup {"none"})
  BY <1>1, <1>2 DEF Sane
<1>6. Sane({1}, AnyKind, ManyHours, ManyActs)'  BY <1>1, <1>2, <1>4, <1>5, AskSane, DeviceConstants
<1>7. Ledger'  BY <1>1, LedgerAsked DEF AloneInv
<1> QED  BY <1>1, <1>4, <1>6, <1>7 DEF AloneInv, Distinct

LEMMA AloneUnsubscribes == \A e \in Endpoints : AloneInv /\ Alone!Unsubscribe(e) => AloneInv'
<1> SUFFICES ASSUME NEW e \in Endpoints, AloneInv, Alone!Unsubscribe(e) PROVE AloneInv'  OBVIOUS
<1>1. /\ acts < ManyActs /\ acts' = acts + 1 /\ ~cleaning
      /\ UNCHANGED <<kind, hour, log, up, told, faults, prefs, dead, moving>>
      /\ subs' = Alone!Without(e) /\ cleaning' = (subs' = <<>>) /\ wants' = (wants /\ subs' # <<>>)
  BY DEF Alone!Unsubscribe, Alone!Act
<1>2. Sane({1}, AnyKind, ManyHours, ManyActs)  BY DEF AloneInv
<1>3. subs \in Seq(Endpoints)  BY <1>2 DEF Sane
<1>4. subs' \in Seq(Endpoints) /\ Distinct(subs')  BY <1>1, <1>3, WithoutIs DEF AloneInv, Distinct
<1>5. /\ prefs' \in BOOLEAN /\ wants' \in BOOLEAN /\ cleaning' \in BOOLEAN
      /\ dead' \subseteq Endpoints /\ moving' \subseteq Endpoints \X (Endpoints \cup {"none"})
  BY <1>1, <1>2 DEF Sane
<1>6. Sane({1}, AnyKind, ManyHours, ManyActs)'  BY <1>1, <1>2, <1>4, <1>5, AskSane, DeviceConstants
<1>7. Ledger'  BY <1>1, LedgerAsked DEF AloneInv
<1>8. (cleaning' => ~wants') /\ (wants' => prefs') /\ (prefs' /\ ~cleaning' => subs' # <<>>)
  BY <1>1 DEF AloneInv
<1>9. dead' = {} /\ moving' = {} /\ up'[1].at \notin {"pruning", "cleaning"}  BY <1>1 DEF AloneInv
<1>10. Distinct(subs)'  BY <1>4 DEF Distinct
<1> QED  BY <1>6, <1>7, <1>8, <1>9, <1>10 DEF AloneInv

LEMMA AloneCleans == AloneInv /\ Alone!Unsubscribed => AloneInv'
<1> SUFFICES ASSUME AloneInv, Alone!Unsubscribed PROVE AloneInv'  OBVIOUS
<1>1. /\ cleaning /\ cleaning' = FALSE /\ prefs' = FALSE
      /\ UNCHANGED <<kind, hour, subs, log, dead, moving, up, wants, told, acts, faults>>
  BY DEF Alone!Unsubscribed
<1>2. Sane({1}, AnyKind, ManyHours, ManyActs)  BY DEF AloneInv
<1>3. /\ subs' \in Seq(Endpoints) /\ prefs' \in BOOLEAN /\ wants' \in BOOLEAN /\ cleaning' \in BOOLEAN
      /\ dead' \subseteq Endpoints /\ moving' \subseteq Endpoints \X (Endpoints \cup {"none"})
      /\ acts' \in 0..ManyActs
  BY <1>1, <1>2 DEF Sane
<1>4. Sane({1}, AnyKind, ManyHours, ManyActs)'  BY <1>1, <1>2, <1>3, AsksSane
<1>5. Ledger'  BY <1>1, LedgerAsked DEF AloneInv
<1> QED  BY <1>1, <1>4, <1>5 DEF AloneInv, Distinct

LEMMA AlonePrefers == AloneInv /\ Alone!Prefer => AloneInv'
<1> SUFFICES ASSUME AloneInv, Alone!Prefer PROVE AloneInv'  OBVIOUS
<1>1. /\ acts < ManyActs /\ acts' = acts + 1 /\ ~cleaning /\ subs # <<>> /\ prefs' = TRUE /\ wants' = TRUE
      /\ UNCHANGED <<kind, hour, log, up, told, faults, subs, dead, moving, cleaning>>
  BY DEF Alone!Prefer, Alone!Act
<1>2. Sane({1}, AnyKind, ManyHours, ManyActs)  BY DEF AloneInv
<1>3. /\ subs' \in Seq(Endpoints) /\ prefs' \in BOOLEAN /\ wants' \in BOOLEAN /\ cleaning' \in BOOLEAN
      /\ dead' \subseteq Endpoints /\ moving' \subseteq Endpoints \X (Endpoints \cup {"none"})
  BY <1>1, <1>2 DEF Sane
<1>4. Sane({1}, AnyKind, ManyHours, ManyActs)'  BY <1>1, <1>2, <1>3, AskSane, DeviceConstants
<1>5. Ledger'  BY <1>1, LedgerAsked DEF AloneInv
<1> QED  BY <1>1, <1>4, <1>5 DEF AloneInv, Distinct

LEMMA AloneKept == AloneInv /\ Alone!Next => AloneInv'
<1>1. ~(\E e, f \in Endpoints : Alone!Rotate(e, f)) /\ ~(\E e \in Endpoints : Alone!Revoke(e))
  BY DEF Alone!Rotate, Alone!Revoke, Alone!Act
<1>2. AloneInv => ~(\E m \in moving : Alone!Replace(m))  BY DEF AloneInv
<1> QED  BY <1>1, <1>2, AloneUpdates, AloneTick, AloneSubscribes, AloneUnsubscribes, AloneCleans, AlonePrefers
    DEF Alone!Next

-----------------------------------------------------------------------------
(* Any number of updates, and endpoints that are gone ("gone").              *)
GoneInv ==
    /\ Sane(Updates, {"vpp"}, FewHours, ManyActs)
    /\ moving \subseteq Endpoints \X Endpoints /\ ~cleaning
    /\ prefs => subs # <<>> \/ \E p \in Updates : up[p].at = "cleaning"

(* Whoever removes the last device is about to clean up.                     *)
LEMMA UpdateCleans ==
    ASSUME NEW P, NEW K, NEW H, NEW A, Sane(P, K, H, A), NEW p \in P,
           Alone!Update(p) \/ GoneLogs(p),
           prefs => subs # <<>> \/ \E q \in P : up[q].at = "cleaning"
    PROVE  /\ prefs' => subs' # <<>> \/ \E q \in P : up'[q].at = "cleaning"
           /\ UNCHANGED <<moving, cleaning>>
<1>1. ASSUME NEW v, Goes(p, v)
      PROVE  /\ up'[p] = v /\ UNCHANGED <<moving, cleaning>>
             /\ \A q \in P : q # p => up'[q] = up[q]
  BY <1>1 DEF Goes, Others, Sane
<1>2. ASSUME NEW v, Goes(p, v), UNCHANGED <<subs, prefs>>, up[p].at # "cleaning"
      PROVE  /\ prefs' => subs' # <<>> \/ \E q \in P : up'[q].at = "cleaning"
             /\ UNCHANGED <<moving, cleaning>>
  <2>1. \A q \in P : up[q].at = "cleaning" => up'[q].at = "cleaning"  BY <1>1, <1>2
  <2> QED  BY <1>1, <1>2, <2>1
<1>3. CASE Alone!Begin(p)  BY <1>2, <1>3, Begins, IdleIs
<1>4. CASE Alone!Check(p)
  <2>1. PICK v : Goes(p, v)  BY <1>4, Checks
  <2> QED  BY <1>2, <1>4, <2>1, Checks
<1>5. CASE Alone!GetUser(p)
  <2>1. PICK v : Goes(p, v)  BY <1>5, Gets
  <2> QED  BY <1>2, <1>5, <2>1, Gets
<1>6. CASE Alone!Send(p)
  <2>1. PICK v : Goes(p, v)  BY <1>6, Sends
  <2> QED  BY <1>2, <1>6, <2>1, Sends
<1>7. CASE Alone!Prune(p)
  <2> DEFINE c == Job("cleaning", up[p].todo, up[p].entry)
             l == Job("logging", up[p].todo, up[p].entry)
  <2>1. (subs' = <<>> /\ Goes(p, c)) \/ (subs' # <<>> /\ Goes(p, l))  BY <1>7, Prunes
  <2>2. c.at = "cleaning"  BY DEF Job
  <2> HIDE DEF c, l
  <2> QED  BY <1>1, <2>1, <2>2
<1>8. CASE Alone!CleanUp(p)
  <2>1. prefs' = FALSE /\ Goes(p, Job("logging", up[p].todo, up[p].entry))  BY <1>8, Cleans
  <2> QED  BY <1>1, <2>1
<1>9. CASE Alone!AppendLog(p)  BY <1>2, <1>9, Logs
<1>10. CASE GoneLogs(p)  BY <1>2, <1>10 DEF GoneLogs
<1> QED  BY <1>3, <1>4, <1>5, <1>6, <1>7, <1>8, <1>9, <1>10 DEF Alone!Update

LEMMA GoneUpdatesKeep == \A p \in Updates : GoneInv /\ Gone!Update(p) => GoneInv'
<1> SUFFICES ASSUME NEW p \in Updates, GoneInv, Gone!Update(p) PROVE GoneInv'  OBVIOUS
<1>1. Sane(Updates, {"vpp"}, FewHours, ManyActs)  BY DEF GoneInv
<1>2. Alone!Update(p) \/ GoneLogs(p)  BY <1>1, GoneUpdates
<1>3. ASSUME GoneLogs(p) PROVE Sane(Updates, {"vpp"}, FewHours, ManyActs)'
  <2>1. faults' \in 0..MaxFailed  BY <1>1, <1>3, DeviceConstants DEF GoneLogs, Sane
  <2> QED  BY <1>1, <1>3, <2>1, LogsSane DEF GoneLogs
<1>4. Sane(Updates, {"vpp"}, FewHours, ManyActs)'  BY <1>1, <1>2, <1>3, UpdateSane
<1>5. prefs => subs # <<>> \/ \E q \in Updates : up[q].at = "cleaning"  BY DEF GoneInv
<1>6. /\ prefs' => subs' # <<>> \/ \E q \in Updates : up'[q].at = "cleaning"
      /\ UNCHANGED <<moving, cleaning>>
  BY <1>1, <1>2, <1>5, UpdateCleans
<1> QED  BY <1>4, <1>6 DEF GoneInv

LEMMA GoneTick == GoneInv /\ Gone!Tick => GoneInv'
<1> SUFFICES ASSUME GoneInv, Gone!Tick PROVE GoneInv'  OBVIOUS
<1>1. /\ hour < FewHours /\ hour' = hour + 1
      /\ UNCHANGED <<kind, subs, prefs, log, dead, moving, cleaning, wants, up, told, acts, faults>>
  BY DEF Gone!Tick, Gone!userVars
<1>2. Sane(Updates, {"vpp"}, FewHours, ManyActs)'  BY <1>1, HourSane, DeviceConstants DEF GoneInv
<1> QED  BY <1>1, <1>2 DEF GoneInv

LEMMA GoneSubscribes == \A e \in Endpoints : GoneInv /\ Gone!Subscribe(e) => GoneInv'
<1> SUFFICES ASSUME NEW e \in Endpoints, GoneInv, Gone!Subscribe(e) PROVE GoneInv'  OBVIOUS
<1>1. /\ acts < ManyActs /\ acts' = acts + 1
      /\ UNCHANGED <<kind, hour, log, up, told, faults, prefs, dead, moving, cleaning, wants>>
      /\ subs' = IF e \in Gone!Range(subs) THEN subs ELSE Append(subs, e)
  BY DEF Gone!Subscribe, Gone!Act, Gone!userVars
<1>2. Sane(Updates, {"vpp"}, FewHours, ManyActs)  BY DEF GoneInv
<1>3. subs \in Seq(Endpoints)  BY <1>2 DEF Sane
<1>4. Gone!Range(subs) = Alone!Range(subs)  BY DEF Gone!Range, Alone!Range
<1>5. subs' \in Seq(Endpoints) /\ (subs # <<>> => subs' # <<>>)  BY <1>1, <1>3, <1>4, AppendIs
<1>6. /\ prefs' \in BOOLEAN /\ wants' \in BOOLEAN /\ cleaning' \in BOOLEAN
      /\ dead' \subseteq Endpoints /\ moving' \subseteq Endpoints \X (Endpoints \cup {"none"})
  BY <1>1, <1>2 DEF Sane
<1>7. Sane(Updates, {"vpp"}, FewHours, ManyActs)'  BY <1>1, <1>2, <1>5, <1>6, AskSane, DeviceConstants
<1> QED  BY <1>1, <1>5, <1>7 DEF GoneInv

LEMMA GoneRotates == \A e, f \in Endpoints : GoneInv /\ Gone!Rotate(e, f) => GoneInv'
<1> SUFFICES ASSUME NEW e \in Endpoints, NEW f \in Endpoints, GoneInv, Gone!Rotate(e, f) PROVE GoneInv'  OBVIOUS
<1>1. /\ acts < ManyActs /\ acts' = acts + 1
      /\ UNCHANGED <<kind, hour, log, up, told, faults, subs, prefs, cleaning, wants>>
      /\ dead' = dead \cup {e} /\ moving' = moving \cup {<<e, f>>}
  BY DEF Gone!Rotate, Gone!Act
<1>2. Sane(Updates, {"vpp"}, FewHours, ManyActs)  BY DEF GoneInv
<1>3. /\ subs' \in Seq(Endpoints) /\ prefs' \in BOOLEAN /\ wants' \in BOOLEAN /\ cleaning' \in BOOLEAN
      /\ dead' \subseteq Endpoints /\ moving' \subseteq Endpoints \X (Endpoints \cup {"none"})
  BY <1>1, <1>2 DEF Sane
<1>4. Sane(Updates, {"vpp"}, FewHours, ManyActs)'  BY <1>1, <1>2, <1>3, AskSane, DeviceConstants
<1>5. moving' \subseteq Endpoints \X Endpoints  BY <1>1 DEF GoneInv
<1> QED  BY <1>1, <1>4, <1>5 DEF GoneInv

(* One endpoint is written in the place of another.                          *)
LEMMA WrittenOver ==
    ASSUME subs \in Seq(Endpoints), NEW i, NEW e \in Endpoints
    PROVE  /\ [subs EXCEPT ![i] = e] \in Seq(Endpoints)
           /\ Len([subs EXCEPT ![i] = e]) = Len(subs)
           /\ subs # <<>> => [subs EXCEPT ![i] = e] # <<>>
<1> DEFINE s == [subs EXCEPT ![i] = e]
<1>1. Len(subs) \in Nat /\ subs \in [1..Len(subs) -> Endpoints]  OBVIOUS
<1>2. s \in [1..Len(subs) -> Endpoints]  BY <1>1
<1> HIDE DEF s
<1>3. s \in Seq(Endpoints) /\ Len(s) = Len(subs)  BY <1>1, <1>2
<1>4. subs # <<>> => s # <<>>  BY <1>1, <1>2, <1>3
<1> QED  BY <1>3, <1>4 DEF s

LEMMA GoneReplaces == \A m \in moving : GoneInv /\ Gone!Replace(m) => GoneInv'
<1> SUFFICES ASSUME NEW m \in moving, GoneInv, Gone!Replace(m) PROVE GoneInv'  OBVIOUS
<1> DEFINE at == {i \in DOMAIN subs : subs[i] = m[1]}
           first == CHOOSE i \in at : \A j \in at : i <= j
<1>1. m[1] \in Endpoints /\ m[2] \in Endpoints /\ m[2] # "none"  BY DeviceConstants DEF GoneInv
<1>2. /\ moving' = moving \ {m}
      /\ subs' = IF at = {} THEN subs ELSE [subs EXCEPT ![first] = m[2]]
      /\ UNCHANGED <<kind, hour, prefs, log, dead, cleaning, up, wants, told, acts, faults>>
  BY <1>1 DEF Gone!Replace, Gone!None
<1>3. Sane(Updates, {"vpp"}, FewHours, ManyActs)  BY DEF GoneInv
<1>4. subs \in Seq(Endpoints)  BY <1>3 DEF Sane
<1> HIDE DEF at, first
<1>5. subs' \in Seq(Endpoints) /\ (subs # <<>> => subs' # <<>>)  BY <1>1, <1>2, <1>4, WrittenOver
<1>6. /\ prefs' \in BOOLEAN /\ wants' \in BOOLEAN /\ cleaning' \in BOOLEAN /\ dead' \subseteq Endpoints
      /\ moving' \subseteq Endpoints \X (Endpoints \cup {"none"}) /\ acts' \in 0..ManyActs
  BY <1>2, <1>3 DEF Sane
<1>7. Sane(Updates, {"vpp"}, FewHours, ManyActs)'  BY <1>2, <1>3, <1>5, <1>6, AsksSane
<1> QED  BY <1>2, <1>5, <1>7 DEF GoneInv

LEMMA GoneKept == GoneInv /\ Gone!Next => GoneInv'
<1>1. ~(\E e \in Endpoints : Gone!Revoke(e)) /\ ~(\E e \in Endpoints : Gone!Unsubscribe(e)) /\ ~Gone!Prefer
  BY DEF Gone!Revoke, Gone!Unsubscribe, Gone!Prefer, Gone!Act
<1>2. GoneInv => ~Gone!Unsubscribed  BY DEF GoneInv, Gone!Unsubscribed
<1> QED  BY <1>1, <1>2, GoneUpdatesKeep, GoneTick, GoneSubscribes, GoneRotates, GoneReplaces DEF Gone!Next

-----------------------------------------------------------------------------
(* One update, and a browser that replaces its endpoint ("browser").         *)
BrowserInv ==
    /\ Sane({1}, AnyKind, ManyHours, FewActs) /\ Ledger
    /\ Len(subs) <= 1

LEMMA OneIsDistinct ==
    ASSUME subs \in Seq(Endpoints), Len(subs) <= 1
    PROVE  Distinct(subs)
<1>1. \A a \in DOMAIN subs : a = 1  OBVIOUS
<1> QED  BY <1>1 DEF Distinct

(* An update removes devices and adds none.                                  *)
LEMMA UpdateRemoves ==
    ASSUME NEW P, NEW K, NEW H, NEW A, Sane(P, K, H, A), NEW p \in P, Alone!Update(p)
    PROVE  Len(subs') <= Len(subs)
<1>1. subs \in Seq(Endpoints) /\ Len(subs) \in Nat  BY DEF Sane
<1>2. subs' = subs \/ subs' = Alone!Without(Head(up[p].todo))
  BY Begins, Checks, Gets, Sends, Prunes, Cleans, Logs DEF Alone!Update
<1>3. Len(Alone!Without(Head(up[p].todo))) <= Len(subs)  BY <1>1, WithoutIs
<1> QED  BY <1>1, <1>2, <1>3

LEMMA BrowserUpdatesKeep == BrowserInv /\ Browser!Update(1) => BrowserInv'
<1> SUFFICES ASSUME BrowserInv, Browser!Update(1) PROVE BrowserInv'  OBVIOUS
<1>1. Sane({1}, AnyKind, ManyHours, FewActs)  BY DEF BrowserInv
<1>2. Alone!Update(1)  BY BrowserUpdates
<1>3. Sane({1}, AnyKind, ManyHours, FewActs)'  BY <1>1, <1>2, UpdateSane
<1>4. subs \in Seq(Endpoints) /\ Len(subs) \in Nat  BY <1>1 DEF Sane
<1>5. Ledger'  BY <1>1, <1>2, <1>4, OneIsDistinct, LedgerUpdate DEF BrowserInv, AnyKind
<1>6. Len(subs') <= 1
  <2>1. Len(subs') <= Len(subs)  BY <1>1, <1>2, UpdateRemoves
  <2>2. subs' \in Seq(Endpoints)  BY <1>3 DEF Sane
  <2> QED  BY <1>4, <2>1, <2>2 DEF BrowserInv
<1> QED  BY <1>3, <1>5, <1>6 DEF BrowserInv

LEMMA BrowserTick == BrowserInv /\ Browser!Tick => BrowserInv'
<1> SUFFICES ASSUME BrowserInv, Browser!Tick PROVE BrowserInv'  OBVIOUS
<1>1. Browser!Idle = Idle  BY DEF Browser!Idle, Alone!Idle, Idle
<1>2. /\ hour < ManyHours /\ up[1] = Idle /\ hour' = hour + 1
      /\ UNCHANGED <<kind, subs, prefs, log, dead, moving, cleaning, wants, up, told, acts, faults>>
  BY <1>1 DEF Browser!Tick, Browser!userVars
<1>3. Sane({1}, AnyKind, ManyHours, FewActs)'  BY <1>2, HourSane, DeviceConstants DEF BrowserInv
<1>4. Ledger'  BY <1>2, LedgerAsleep DEF BrowserInv
<1> QED  BY <1>2, <1>3, <1>4 DEF BrowserInv

LEMMA BrowserCleans == BrowserInv /\ Browser!Unsubscribed => BrowserInv'
<1> SUFFICES ASSUME BrowserInv, Browser!Unsubscribed PROVE BrowserInv'  OBVIOUS
<1>1. /\ cleaning' = FALSE /\ prefs' = FALSE
      /\ UNCHANGED <<kind, hour, subs, log, dead, moving, up, wants, told, acts, faults>>
  BY DEF Browser!Unsubscribed
<1>2. Sane({1}, AnyKind, ManyHours, FewActs)  BY DEF BrowserInv
<1>3. /\ subs' \in Seq(Endpoints) /\ prefs' \in BOOLEAN /\ wants' \in BOOLEAN /\ cleaning' \in BOOLEAN
      /\ dead' \subseteq Endpoints /\ moving' \subseteq Endpoints \X (Endpoints \cup {"none"})
      /\ acts' \in 0..FewActs
  BY <1>1, <1>2 DEF Sane
<1>4. Sane({1}, AnyKind, ManyHours, FewActs)'  BY <1>1, <1>2, <1>3, AsksSane
<1>5. Ledger'  BY <1>1, LedgerAsked DEF BrowserInv
<1> QED  BY <1>1, <1>4, <1>5 DEF BrowserInv

(* The browser tells of an endpoint that is gone, and perhaps of a new one.  *)
LEMMA BrowserMoves ==
    ASSUME BrowserInv, acts < FewActs, acts' = acts + 1,
           UNCHANGED <<kind, hour, log, up, told, faults, subs, prefs, cleaning, wants>>,
           NEW e \in Endpoints, NEW f \in Endpoints \cup {"none"},
           dead' = dead \cup {e}, moving' = moving \cup {<<e, f>>}
    PROVE  BrowserInv'
<1>1. Sane({1}, AnyKind, ManyHours, FewActs)  BY DEF BrowserInv
<1>2. /\ subs' \in Seq(Endpoints) /\ prefs' \in BOOLEAN /\ wants' \in BOOLEAN /\ cleaning' \in BOOLEAN
      /\ dead' \subseteq Endpoints /\ moving' \subseteq Endpoints \X (Endpoints \cup {"none"})
  BY <1>1 DEF Sane
<1>3. Sane({1}, AnyKind, ManyHours, FewActs)'  BY <1>1, <1>2, AskSane, DeviceConstants
<1>4. Ledger'  BY LedgerAsked DEF BrowserInv
<1> QED  BY <1>3, <1>4 DEF BrowserInv

LEMMA BrowserRotates == \A e, f \in Endpoints : BrowserInv /\ Browser!Rotate(e, f) => BrowserInv'
<1> SUFFICES ASSUME NEW e \in Endpoints, NEW f \in Endpoints, BrowserInv, Browser!Rotate(e, f) PROVE BrowserInv'
  OBVIOUS
<1>1. /\ acts < FewActs /\ acts' = acts + 1
      /\ UNCHANGED <<kind, hour, log, up, told, faults, subs, prefs, cleaning, wants>>
      /\ dead' = dead \cup {e} /\ moving' = moving \cup {<<e, f>>}
  BY DEF Browser!Rotate, Browser!Act
<1> QED  BY <1>1, BrowserMoves

LEMMA BrowserRevokes == \A e \in Endpoints : BrowserInv /\ Browser!Revoke(e) => BrowserInv'
<1> SUFFICES ASSUME NEW e \in Endpoints, BrowserInv, Browser!Revoke(e) PROVE BrowserInv'  OBVIOUS
<1>1. /\ acts < FewActs /\ acts' = acts + 1
      /\ UNCHANGED <<kind, hour, log, up, told, faults, subs, prefs, cleaning, wants>>
      /\ dead' = dead \cup {e} /\ moving' = moving \cup {<<e, "none">>}
  BY DEF Browser!Revoke, Browser!Act, Browser!None
<1>2. "none" \in Endpoints \cup {"none"}  OBVIOUS
<1> QED  BY <1>1, <1>2, BrowserMoves

LEMMA RemovedIs ==
    ASSUME subs \in Seq(Endpoints), NEW i \in DOMAIN subs, Len(subs) <= 1
    PROVE  /\ SubSeq(subs, 1, i - 1) \o SubSeq(subs, i + 1, Len(subs)) \in Seq(Endpoints)
           /\ Len(SubSeq(subs, 1, i - 1) \o SubSeq(subs, i + 1, Len(subs))) <= 1
<1>1. i = 1 /\ Len(subs) = 1
  <2>1. Len(subs) \in Nat /\ DOMAIN subs = 1..Len(subs)  OBVIOUS
  <2> DEFINE n == Len(subs)
  <2>2. n \in Nat /\ n <= 1 /\ i \in 1..n  BY <2>1
  <2> HIDE DEF n
  <2>3. i = 1 /\ n = 1  BY <2>2
  <2> QED  BY <2>3 DEF n
<1>2. SubSeq(subs, 1, 0) \in Seq(Endpoints) /\ Len(SubSeq(subs, 1, 0)) = 0  OBVIOUS
<1>3. SubSeq(subs, 2, 1) \in Seq(Endpoints) /\ Len(SubSeq(subs, 2, 1)) = 0  OBVIOUS
<1>4. SubSeq(subs, 1, i - 1) \o SubSeq(subs, i + 1, Len(subs)) = SubSeq(subs, 1, 0) \o SubSeq(subs, 2, 1)  BY <1>1
<1> QED  BY <1>2, <1>3, <1>4

LEMMA BrowserReplaces == \A m \in moving : BrowserInv /\ Browser!Replace(m) => BrowserInv'
<1> SUFFICES ASSUME NEW m \in moving, BrowserInv, Browser!Replace(m) PROVE BrowserInv'  OBVIOUS
<1> DEFINE at == {i \in DOMAIN subs : subs[i] = m[1]}
           first == CHOOSE i \in at : \A j \in at : i <= j
<1>1. Sane({1}, AnyKind, ManyHours, FewActs) /\ Len(subs) <= 1  BY DEF BrowserInv
<1>2. subs \in Seq(Endpoints) /\ m[2] \in Endpoints \cup {"none"}  BY <1>1 DEF Sane
<1>3. /\ moving' = moving \ {m}
      /\ subs' = IF at = {} THEN subs
                 ELSE IF m[2] = "none" THEN SubSeq(subs, 1, first - 1) \o SubSeq(subs, first + 1, Len(subs))
                 ELSE [subs EXCEPT ![first] = m[2]]
      /\ UNCHANGED <<kind, hour, prefs, log, dead, cleaning, up, wants, told, acts, faults>>
  BY DEF Browser!Replace, Browser!None
<1>4. at # {} => first \in DOMAIN subs
  <2>1. SUFFICES ASSUME at # {} PROVE first \in at  OBVIOUS
  <2>2. at \in SUBSET Nat  BY <1>2
  <2> HIDE DEF at
  <2>3. \E i \in at : \A j \in at : i <= j  BY <2>1, <2>2, Least
  <2> QED  BY <2>3
<1> HIDE DEF at, first
<1>5. subs' \in Seq(Endpoints) /\ Len(subs') <= 1
  <2>1. CASE at = {}  BY <1>1, <1>2, <1>3, <2>1
  <2>2. CASE at # {} /\ m[2] = "none"
    <3>1. subs' = SubSeq(subs, 1, first - 1) \o SubSeq(subs, first + 1, Len(subs))  BY <1>3, <2>2
    <3> QED  BY <1>1, <1>2, <1>4, <2>2, <3>1, RemovedIs
  <2>3. CASE at # {} /\ m[2] # "none"
    <3>1. subs' = [subs EXCEPT ![first] = m[2]] /\ m[2] \in Endpoints  BY <1>2, <1>3, <2>3
    <3> QED  BY <1>1, <1>2, <3>1, WrittenOver
  <2> QED  BY <2>1, <2>2, <2>3
<1>6. /\ prefs' \in BOOLEAN /\ wants' \in BOOLEAN /\ cleaning' \in BOOLEAN /\ dead' \subseteq Endpoints
      /\ moving' \subseteq Endpoints \X (Endpoints \cup {"none"}) /\ acts' \in 0..FewActs
  BY <1>1, <1>3 DEF Sane
<1>7. Sane({1}, AnyKind, ManyHours, FewActs)'  BY <1>1, <1>3, <1>5, <1>6, AsksSane
<1>8. Ledger'  BY <1>3, LedgerAsked DEF BrowserInv
<1> QED  BY <1>5, <1>7, <1>8 DEF BrowserInv

LEMMA BrowserKept == BrowserInv /\ Browser!Next => BrowserInv'
<1>1. /\ ~(\E e \in Endpoints : Browser!Subscribe(e)) /\ ~(\E e \in Endpoints : Browser!Unsubscribe(e))
      /\ ~Browser!Prefer
  BY DEF Browser!Subscribe, Browser!Unsubscribe, Browser!Prefer, Browser!Act
<1> QED  BY <1>1, BrowserUpdatesKeep, BrowserTick, BrowserCleans, BrowserRotates, BrowserRevokes, BrowserReplaces
    DEF Browser!Next

-----------------------------------------------------------------------------
DeviceInv ==
    /\ part = "alone" => AloneInv
    /\ part = "gone" => GoneInv
    /\ part = "browser" => BrowserInv

(* A user with one device, who has been told nothing.                        *)
Fresh(P) ==
    /\ hour = 0 /\ prefs = TRUE /\ wants = TRUE /\ log = {} /\ dead = {} /\ moving = {} /\ cleaning = FALSE
    /\ \E e \in Endpoints : subs = <<e>>
    /\ up = [p \in P |-> Idle] /\ told = [e \in Endpoints |-> <<>>] /\ acts = 0 /\ faults = 0
LEMMA FreshIs ==
    ASSUME NEW P, NEW K, NEW H \in Nat, NEW A \in Nat, kind \in K, Fresh(P)
    PROVE  /\ Sane(P, K, H, A) /\ subs \in Seq(Endpoints) /\ Len(subs) = 1 /\ subs # <<>>
           /\ P = {1} => Ledger /\ up[1] = Idle
<1>1. PICK e \in Endpoints : subs = <<e>>  BY DEF Fresh
<1>2. subs \in Seq(Endpoints) /\ Len(subs) = 1 /\ subs # <<>>  BY <1>1
<1>3. up \in [P -> {Idle}] /\ \A p \in P : up[p] = Idle  BY DEF Fresh
<1>4. \A p \in P : up[p].at # "sending"  BY <1>3, IdleIs
<1>5. told \in [Endpoints -> Seq(0..H)]
  <2>1. <<>> \in Seq(0..H)  OBVIOUS
  <2> QED  BY <2>1 DEF Fresh
<1>6. /\ prefs \in BOOLEAN /\ wants \in BOOLEAN /\ cleaning \in BOOLEAN /\ hour \in 0..H /\ acts \in 0..A
      /\ faults \in 0..MaxFailed /\ log \subseteq Noted(H) /\ dead \subseteq Endpoints
      /\ moving \subseteq Endpoints \X (Endpoints \cup {"none"})
  <2>1. 0 \in 0..H /\ 0 \in 0..A /\ 0 \in 0..MaxFailed  BY DeviceConstants
  <2>2. hour = 0 /\ acts = 0 /\ faults = 0 /\ log = {} /\ dead = {} /\ moving = {}  BY DEF Fresh
  <2>3. prefs \in BOOLEAN /\ wants \in BOOLEAN /\ cleaning \in BOOLEAN  BY DEF Fresh
  <2> QED  BY <2>1, <2>2, <2>3
<1>7. up \in [P -> {Idle} \cup Jobs(H)]  BY <1>3
<1>8. Sane(P, K, H, A)  BY <1>2, <1>4, <1>5, <1>6, <1>7 DEF Sane
<1>9. ASSUME P = {1} PROVE Ledger /\ up[1] = Idle
  <2>1. up[1] = Idle  BY <1>3, <1>9
  <2>2. Cleared(up[1])  BY <2>1, IdleIs DEF Cleared
  <2>3. \A x \in Endpoints : DOMAIN told[x] = {}  BY DEF Fresh
  <2> QED  BY <2>1, <2>2, <2>3 DEF Ledger, Booked, Apart
<1> QED  BY <1>2, <1>8, <1>9

LEMMA DevicesAtFirst == PartsInit => DeviceInv
<1> SUFFICES ASSUME PartsInit PROVE DeviceInv  OBVIOUS
<1>1. ASSUME part = "alone" PROVE AloneInv
  <2>1. Alone!Init  BY <1>1 DEF PartsInit
  <2>2. Fresh({1}) /\ kind \in AnyKind  BY <2>1 DEF Alone!Init, Alone!Idle, Fresh, Idle, AnyKind
  <2>3. /\ Sane({1}, AnyKind, ManyHours, ManyActs) /\ subs \in Seq(Endpoints) /\ Len(subs) = 1 /\ subs # <<>>
        /\ Ledger /\ up[1] = Idle
    BY <2>2, FreshIs, DeviceConstants
  <2>4. Distinct(subs)  BY <2>3, OneIsDistinct
  <2> QED  BY <2>2, <2>3, <2>4, IdleIs DEF AloneInv, Fresh
<1>2. ASSUME part = "gone" PROVE GoneInv
  <2>1. Gone!Init  BY <1>2 DEF PartsInit
  <2>2. Fresh(Updates) /\ kind \in {"vpp"}  BY <2>1 DEF Gone!Init, Gone!Idle, Fresh, Idle, Alone!Idle
  <2>3. Sane(Updates, {"vpp"}, FewHours, ManyActs) /\ subs # <<>>  BY <2>2, FreshIs, DeviceConstants
  <2> QED  BY <2>2, <2>3 DEF GoneInv, Fresh
<1>3. ASSUME part = "browser" PROVE BrowserInv
  <2>1. Browser!Init  BY <1>3 DEF PartsInit
  <2>2. Fresh({1}) /\ kind \in AnyKind  BY <2>1 DEF Browser!Init, Browser!Idle, Fresh, Idle, Alone!Idle, AnyKind
  <2>3. Sane({1}, AnyKind, ManyHours, FewActs) /\ Len(subs) = 1 /\ Ledger  BY <2>2, FreshIs, DeviceConstants
  <2> QED  BY <2>3 DEF BrowserInv
<1> QED  BY <1>1, <1>2, <1>3 DEF DeviceInv

LEMMA DeviceSteps ==
    ASSUME [PartsNext]_vars
    PROVE  /\ part' = part
           /\ part = "alone" => Alone!Next \/ UNCHANGED devices
           /\ part = "gone" => Gone!Next \/ UNCHANGED devices
           /\ part = "browser" => Browser!Next \/ UNCHANGED devices
<1> QED  BY Zenon DEF PartsNext, ForDevices, ForPrices, ForBaseline, vars

LEMMA DevicesRest ==
    ASSUME UNCHANGED devices
    PROVE  AloneInv' = AloneInv /\ GoneInv' = GoneInv /\ BrowserInv' = BrowserInv
<1>1. Idle' = Idle  BY DEF Idle, Alone!Idle
<1>2. Ledger' = Ledger  BY DEF devices, Ledger, Booked, Apart, Cleared, Pending
<1>3. \A P, K, H, A : Sane(P, K, H, A)' = Sane(P, K, H, A)  BY <1>1 DEF devices, Sane
<1> QED  BY <1>2, <1>3 DEF devices, AloneInv, GoneInv, BrowserInv, Distinct

LEMMA DevicesStay == DeviceInv /\ [PartsNext]_vars => DeviceInv'
<1> SUFFICES ASSUME DeviceInv, [PartsNext]_vars PROVE DeviceInv'  OBVIOUS
<1>1. part = "alone" => AloneInv'  BY DeviceSteps, DevicesRest, AloneKept DEF DeviceInv
<1>2. part = "gone" => GoneInv'  BY DeviceSteps, DevicesRest, GoneKept DEF DeviceInv
<1>3. part = "browser" => BrowserInv'  BY DeviceSteps, DevicesRest, BrowserKept DEF DeviceInv
<1> QED  BY <1>1, <1>2, <1>3, DeviceSteps DEF DeviceInv

LEMMA SaneIsTyped ==
    /\ Sane({1}, AnyKind, ManyHours, ManyActs) => Alone!TypeOK
    /\ Sane(Updates, {"vpp"}, FewHours, ManyActs) => Gone!TypeOK
<1>1. ASSUME NEW S, NEW s \in Seq(S) PROVE Alone!Range(s) \subseteq S /\ Gone!Range(s) \subseteq S
  <2>1. \A i \in DOMAIN s : s[i] \in S  OBVIOUS
  <2> QED  BY <2>1 DEF Alone!Range, Gone!Range
<1>2. \A s \in Seq(Endpoints) : Alone!Range(s) \subseteq Endpoints /\ Gone!Range(s) \subseteq Endpoints
  BY <1>1
<1>3. \A H : \A s \in Seq(0..H) : Alone!Range(s) \subseteq 0..H /\ Gone!Range(s) \subseteq 0..H
  BY <1>1
<1>4. Gone!Idle = Alone!Idle /\ Alone!Idle = Idle  BY DEF Gone!Idle, Alone!Idle, Idle
<1>5. ASSUME NEW P, NEW K, NEW H, NEW A, Sane(P, K, H, A)
      PROVE  /\ kind \in K /\ hour \in 0..H /\ subs \in Seq(Endpoints)
             /\ prefs \in BOOLEAN /\ wants \in BOOLEAN /\ cleaning \in BOOLEAN
             /\ log \subseteq Noted(H) /\ dead \subseteq Endpoints
             /\ \A m \in moving : m[1] \in Endpoints /\ m[2] \in Endpoints \cup {"none"}
             /\ \A p \in P : up[p] = Idle \/ (up[p].at \in Phases /\ up[p].todo \in Seq(Endpoints))
             /\ \A e \in Endpoints : told[e] \in Seq(0..H)
             /\ acts \in 0..A /\ faults \in 0..MaxFailed
  <2>1. \A p \in P : up[p] = Idle \/ (up[p].at \in Phases /\ up[p].todo \in Seq(Endpoints))
    BY <1>5 DEF Sane, Jobs
  <2> QED  BY <1>5, <2>1 DEF Sane
<1>6. Sane({1}, AnyKind, ManyHours, ManyActs) => Alone!TypeOK
  BY <1>2, <1>3, <1>4, <1>5 DEF Alone!TypeOK, Alone!Entries, Alone!None, Noted, AnyKind, Phases
<1>7. Sane(Updates, {"vpp"}, FewHours, ManyActs) => Gone!TypeOK
  BY <1>2, <1>3, <1>4, <1>5 DEF Gone!TypeOK, Gone!Entries, Gone!None, Noted, Phases
<1> QED  BY <1>6, <1>7

LEMMA DevicesMean == DeviceInv => DevicesInv
<1> SUFFICES ASSUME DeviceInv PROVE DevicesInv  OBVIOUS
<1>1. (part = "alone" => Alone!TypeOK) /\ (part = "gone" => Gone!TypeOK)
  BY SaneIsTyped DEF DeviceInv, AloneInv, GoneInv
<1>2. AlertedOnce
  <2>1. Apart => Alone!AlertedOnce /\ Browser!AlertedOnce
    BY TooSoonIs DEF Apart, Alone!AlertedOnce, Browser!AlertedOnce
  <2> QED  BY <2>1 DEF AlertedOnce, DeviceInv, AloneInv, BrowserInv, Ledger
<1>3. PreferencesKept  BY DEF PreferencesKept, Alone!PreferencesKept, DeviceInv, AloneInv
<1>4. PreferencesNeedADevice
  <2>1. part = "alone" => Alone!PreferencesNeedADevice
    BY DEF DeviceInv, AloneInv, Alone!PreferencesNeedADevice
  <2>2. ASSUME part = "gone" PROVE Gone!PreferencesNeedADevice
    <3>1. \A p \in Updates : up[p].at = "cleaning" => up[p] # Gone!Idle
      BY IdleIs DEF Gone!Idle, Idle, Alone!Idle
    <3> QED  BY <2>2, <3>1 DEF DeviceInv, GoneInv, Gone!PreferencesNeedADevice
  <2> QED  BY <2>1, <2>2 DEF PreferencesNeedADevice
<1>5. EndpointsDistinct
  BY DEF EndpointsDistinct, Alone!EndpointsDistinct, Alone!IsInjective, DeviceInv, AloneInv, Distinct
<1> QED  BY <1>1, <1>2, <1>3, <1>4, <1>5 DEF DevicesInv

(* For any devices, hours, requests of the user and the browser, and faults: *)
(* no device is told twice of the same, the preferences of a user who keeps  *)
(* a device are kept, those of one who has none are cleaned up, whichever    *)
(* request or update removed the last, and no device is listed twice         *)
(* (handleNotifications, dispatchPushToUser, RemoveUserPushSubscription).    *)
THEOREM DevicesHold == PartsSpec => []DevicesInv
<1>1. PartsSpec => []DeviceInv  BY DevicesAtFirst, DevicesStay, PTL DEF PartsSpec
<1> QED  BY <1>1, DevicesMean, PTL
=============================================================================
