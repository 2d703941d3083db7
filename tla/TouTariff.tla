----------------------------- MODULE TouTariff -----------------------------
(* A schedule as the vendors keep it: every piece in one of four tiers        *)
(* (ess/ess.go, classifyTOUScheduleTiers), every tier with one rate to buy    *)
(* and one to sell. Tesla's tariff (ess/tesla.go) knows nothing of what to do *)
(* in a tier but that the peak exports; Franklin's (ess/franklin.go) has a    *)
(* dispatch for every piece. Both are read back and compared with what is     *)
(* wanted before anything is sent.                                            *)
EXTENDS DaySchedule

MultiTierSpread == 5000                 \* multiTierSpreadThresholdDollars
TierStep == 1000
TeslaMinRateSpread == 15000             \* teslaMinRateSpreadDollars

Tiers == {"ON_PEAK", "PARTIAL_PEAK", "OFF_PEAK", "SUPER_OFF_PEAK"}

-----------------------------------------------------------------------------
(* The tiers: what peaks or exports is ON_PEAK; the rest goes by its import   *)
(* rate, the rates of a cluster being close to its least.                     *)
OnPeak(p) == p.peak \/ Exports(p.dispatch)
NotDearer(p, q) == p.import * Long(q) <= q.import * Long(p)
NearImport(p, q, by) == Near(p.import, Long(p), q.import, Long(q), by)

NonPeak(schedule) == SortSeq(SelectSeq(schedule, LAMBDA p : ~OnPeak(p)), LAMBDA p, q : NotDearer(p, q) /\ ~NotDearer(q, p))
Clusters(schedule) == FoldLeft(LAMBDA done, p :
    IF done # <<>> /\ NearImport(Last(done)[1], p, CoalesceRate)
    THEN Append(Front(done), Append(Last(done), p)) ELSE Append(done, <<p>>),
    <<>>, NonPeak(schedule))

NonPeakTier(clusters, p) ==
    LET k == Len(clusters)
        low == clusters[1][1]
        high == Last(Last(clusters))
        third == Max({1, k \div 3})
    IN  IF k = 1 \/ NearImport(low, high, CoalesceRate) THEN "OFF_PEAK"
        ELSE IF k = 2 \/ NearImport(low, high, MultiTierSpread)
        THEN IF NotDearer(p, Last(clusters[k \div 2])) THEN "SUPER_OFF_PEAK" ELSE "OFF_PEAK"
        ELSE IF NotDearer(p, Last(clusters[third])) THEN "SUPER_OFF_PEAK"
        ELSE IF NotDearer(clusters[k - third + 1][1], p) THEN "PARTIAL_PEAK"
        ELSE "OFF_PEAK"

Tiered(schedule) ==
    LET clusters == Clusters(schedule)
    IN  [i \in DOMAIN schedule |-> IF OnPeak(schedule[i]) THEN "ON_PEAK" ELSE NonPeakTier(clusters, schedule[i])]

(* calculateDurationWeightedRates: the means of a tier, rounded, and no more  *)
(* for selling than for buying.                                               *)
Total(schedule, tiers, tier, Of(_)) ==
    FoldLeft(LAMBDA sum, i : IF tiers[i] = tier THEN sum + Of(schedule[i]) ELSE sum, 0, [i \in DOMAIN schedule |-> i])
Mean(sum, long) == (2 * sum + long) \div (2 * long)
TierRates(schedule, tiers, tier) ==
    LET long == Total(schedule, tiers, tier, Long)
        sell == Mean(Total(schedule, tiers, tier, LAMBDA p : p.export), long)
    IN  [buy |-> Max({sell, Mean(Total(schedule, tiers, tier, LAMBDA p : p.import), long)}), sell |-> sell]
BaseRates(schedule, tiers) == [t \in Range(tiers) |-> TierRates(schedule, tiers, t)]

-----------------------------------------------------------------------------
(* Tesla: every dearer tier costs more than the cheaper, nothing sells for    *)
(* more than it costs, and the peak is dear enough to export.                 *)
SlipAbove(rates, tier, below) == rates
Above(rates, tier, below) ==
    IF {tier, below} \subseteq DOMAIN rates
    THEN [rates EXCEPT ![tier].buy = Max({IF @ <= rates[below].buy THEN rates[below].buy + TierStep ELSE @, rates[tier].sell})]
    ELSE rates
HighestNonPeakBuy(rates) ==
    LET dearest == SelectSeq(<<"PARTIAL_PEAK", "OFF_PEAK", "SUPER_OFF_PEAK">>, LAMBDA t : t \in DOMAIN rates)
    IN  IF dearest = <<>> THEN 0 ELSE rates[dearest[1]].buy
PeakRaised(rates) ==
    IF "ON_PEAK" \in DOMAIN rates
    THEN LET r == Max({rates["ON_PEAK"].buy, rates["ON_PEAK"].sell, HighestNonPeakBuy(rates) + TeslaMinRateSpread, TeslaMinRateSpread})
         IN  [rates EXCEPT !["ON_PEAK"] = [buy |-> r, sell |-> r]]
    ELSE rates
TeslaRates(rates) == PeakRaised(Above(Above(rates, "OFF_PEAK", "SUPER_OFF_PEAK"), "PARTIAL_PEAK", "OFF_PEAK"))

(* The pieces of a tier that touch are one; midnight is written as zero.      *)
TeslaTariff(schedule) ==
    LET tiers == Tiered(schedule)
        piece(i) == [from |-> schedule[i].from, to |-> schedule[i].to % Day, tier |-> tiers[i]]
    IN  [pieces |-> FoldLeft(LAMBDA done, i :
                        IF done # <<>> /\ Last(done).tier = tiers[i] /\ Last(done).to = schedule[i].from
                        THEN Append(Front(done), [Last(done) EXCEPT !.to = piece(i).to]) ELSE Append(done, piece(i)),
                        <<>>, [i \in DOMAIN schedule |-> i]),
         rates |-> TeslaRates(BaseRates(schedule, tiers))]

ReadPiece(p, r, dispatch) ==
    AtRate([from |-> p.from, to |-> p.to, import |-> r.buy, export |-> r.sell,
            dispatch |-> dispatch, peak |-> p.tier = "ON_PEAK"])
ReadTesla(tariff) == [i \in DOMAIN tariff.pieces |->
    LET p == tariff.pieces[i]
    IN  ReadPiece([p EXCEPT !.to = IF @ = 0 THEN Day ELSE @], tariff.rates[p.tier],
                  IF p.tier = "ON_PEAK" THEN "all" ELSE "self")]

TeslaMatch(tariff, schedule, clock) ==
    ~IsSignificantlyDifferent(ReadTesla(tariff), ReadTesla(TeslaTariff(schedule)), clock)

-----------------------------------------------------------------------------
(* Franklin: a dispatch for every piece, and the rates of a tier that has     *)
(* none are zero, but that peak and valley lend each other theirs.            *)
Lent(rates, tier, from) == IF rates[tier].buy = 0 THEN [rates EXCEPT ![tier] = rates[from]] ELSE rates
FranklinRates(rates) ==
    LET all == [t \in Tiers |-> IF t \in DOMAIN rates THEN rates[t] ELSE [buy |-> 0, sell |-> 0]]
    IN  Lent(Lent(all, "OFF_PEAK", "ON_PEAK"), "ON_PEAK", "OFF_PEAK")

Franklins(dispatch) == IF dispatch = "grid" THEN "all" ELSE dispatch
FranklinTariff(schedule) ==
    LET tiers == Tiered(schedule)
        piece(i) == [from |-> schedule[i].from, to |-> schedule[i].to, tier |-> tiers[i], dispatch |-> Franklins(schedule[i].dispatch)]
    IN  [pieces |-> FoldLeft(LAMBDA done, i :
                        IF done # <<>> /\ [Last(done) EXCEPT !.from = schedule[i].from, !.to = schedule[i].to] = piece(i)
                                       /\ Last(done).to = schedule[i].from
                        THEN Append(Front(done), [Last(done) EXCEPT !.to = schedule[i].to]) ELSE Append(done, piece(i)),
                        <<>>, [i \in DOMAIN schedule |-> i]),
         rates |-> FranklinRates(BaseRates(schedule, tiers))]

ReadFranklin(tariff) == [i \in DOMAIN tariff.pieces |->
    ReadPiece(tariff.pieces[i], tariff.rates[tariff.pieces[i].tier], tariff.pieces[i].dispatch)]

FranklinMatch(tariff, schedule, clock) ==
    \/ ~IsSignificantlyDifferent(ReadFranklin(tariff), schedule, clock)
    \/ ~IsSignificantlyDifferent(ReadFranklin(tariff), ReadFranklin(FranklinTariff(schedule)), clock)
=============================================================================
