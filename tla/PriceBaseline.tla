---------------------------- MODULE PriceBaseline ----------------------------
(* What makes a price a spike or a dip (server/notifications.go): it is       *)
(* compared with percentiles of all recent prices, and with a reference, the  *)
(* prices of earlier days within an hour of the same time of day. Prices are  *)
(* in tenths of a cent, percentiles in percent.                               *)
EXTENDS Integers, FiniteSets

CONSTANTS
    Days,           \* bound: days of history, 1 is yesterday
    Levels,         \* bound: the prices history may hold
    Costs           \* bound: the prices judged

(* What the constants are, assumed by what instantiates this module.          *)
Assumptions ==
    /\ Levels \cup Costs \subseteq Int /\ Days \in Nat

VARIABLES hist, cost    \* per day with prices: those of the hour before, the same, the next

Sensitivities == {"low", "medium", "high"}
Window == -1..1

Init ==
    /\ hist \in UNION {[days -> [Window -> Levels]] : days \in (SUBSET (1..Days)) \ {{}}}
    /\ cost \in Costs
Next == UNCHANGED <<hist, cost>>
Spec == Init /\ [][Next]_<<hist, cost>>

-----------------------------------------------------------------------------
(* computePercentile: nearest rank, over a function of prices.                *)
Percentile(f, p) ==
    LET rank == ((Cardinality(DOMAIN f) - 1) * p) \div 100 IN
    CHOOSE v \in {f[i] : i \in DOMAIN f} :
        /\ Cardinality({i \in DOMAIN f : f[i] < v}) <= rank
        /\ rank < Cardinality({i \in DOMAIN f : f[i] <= v})

RawCosts == [i \in (DOMAIN hist) \X Window |-> hist[i[1]][i[2]]]

(* computeTimeOfDayWindowRefPrice: of every day's window the highest price,   *)
(* for a dip the lowest; of those the median, for a dip at most yesterday's.  *)
SlipExtreme(d, dip) == hist[d][0]
Extreme(d, dip) ==
    CHOOSE c \in {hist[d][w] : w \in Window} :
        \A w \in Window : IF dip THEN c <= hist[d][w] ELSE c >= hist[d][w]

SlipReference(dip) ==
    IF 1 \in DOMAIN hist THEN Extreme(1, dip)
    ELSE Percentile([d \in DOMAIN hist |-> Extreme(d, dip)], 50)
SlipUncapped(dip) == Percentile([d \in DOMAIN hist |-> Extreme(d, dip)], 50)
Reference(dip) ==
    LET median == Percentile([d \in DOMAIN hist |-> Extreme(d, dip)], 50) IN
    IF dip /\ 1 \in DOMAIN hist /\ Extreme(1, TRUE) < median THEN Extreme(1, TRUE) ELSE median

-----------------------------------------------------------------------------
Rank == [s \in Sensitivities |-> IF s = "low" THEN 95 ELSE 90]
SlipDelta == [low |-> 50, medium |-> 100, high |-> 30]
Delta == [low |-> 100, medium |-> 50, high |-> 30]
Floor == 180        \* priceSpikeAbsoluteFloorDollarsPerKWH
Ceiling == 40       \* priceDipAbsoluteCeilingDollarsPerKWH

(* qualifiesAsPriceAnomaly. A negative price need only be half as far below,  *)
(* and among the lowest fifth.                                                *)
IsSpike(c, s) ==
    c >= Floor /\ c >= Percentile(RawCosts, Rank[s]) /\ c - Reference(FALSE) >= Delta[s]
IsDip(c, s) ==
    /\ c <= Ceiling
    /\ c <= Percentile(RawCosts, IF c < 0 THEN 20 ELSE 100 - Rank[s])
    /\ Reference(TRUE) - c >= IF c < 0 THEN Delta[s] \div 2 ELSE Delta[s]

-----------------------------------------------------------------------------
(* computeTimeOfDayWindowRefPrice "caps at yesterday's minimum so consecutive *)
(* days of low/negative prices do not re-alert at the same level".            *)
RepeatedDipIsNoNews ==
    1 \in DOMAIN hist /\ Extreme(1, TRUE) <= cost => \A s \in Sensitivities : ~IsDip(cost, s)

(* "a single spike yesterday doesn't mask a real spike today": the reference  *)
(* is no higher than some other day reached.                                  *)
OneSpikeMasksNothing ==
    Cardinality(DOMAIN hist) > 1 => \E d \in DOMAIN hist \ {1} : Reference(FALSE) <= Extreme(d, FALSE)

(* "adjacent lower shoulder hours do not dilute the peak baseline": a price   *)
(* that every day reaches within an hour of this time is no spike.            *)
DailyPeakIsNoSpike ==
    (\A d \in DOMAIN hist : \E w \in Window : hist[d][w] >= cost)
        => \A s \in Sensitivities : ~IsSpike(cost, s)

(* A user who asks for a higher sensitivity is alerted whenever one who asks  *)
(* for a lower is.                                                            *)
SensitiveUsersHearMore ==
    /\ IsSpike(cost, "low") => IsSpike(cost, "medium")
    /\ IsSpike(cost, "medium") => IsSpike(cost, "high")
    /\ IsDip(cost, "low") => IsDip(cost, "medium")
    /\ IsDip(cost, "medium") => IsDip(cost, "high")

(* handlePriceSpikeNotifications: "High: Triggers on top 10% of all hours     *)
(* without time-of-day restriction."                                          *)
HighIgnoresTimeOfDay ==
    cost >= Floor /\ cost >= Percentile(RawCosts, Rank["high"])
        /\ cost - Percentile(RawCosts, 50) >= Delta["high"] => IsSpike(cost, "high")
=============================================================================
