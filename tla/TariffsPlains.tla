--------------------------- MODULE TariffsPlains ----------------------------
(* The tables of the Midwest, of Texas, of Australia and of Great Britain:    *)
(* Xcel Energy, WE Energies, the Texan retailers, Engie, Origin, GloBird and  *)
(* Octopus. Every plan is taken with the export schemes it offers.            *)
EXTENDS TouPeriods

Now == {2026, 2027}

-----------------------------------------------------------------------------
(* Xcel Energy.                                                               *)
Weekdays1(from, until) == <<P(Weekdays, {<<from, until>>})>>
xcel_standard == <<Flat(6, 9), Flat(10, 5)>>
xcel_tou == Working(6, 9, Weekdays1(900, 2100)) \o Working(10, 5, Weekdays1(900, 2100))
xcel_co_tou == Working(6, 9, Weekdays1(1500, 2100)) \o Working(10, 5, Weekdays1(1700, 2100))
xcel_tx_tou == Append(Working(6, 9, Weekdays1(1300, 1900)), Flat(10, 5))
Surcharge == <<Fee(AllYear)>>

getXcelMIPeakHours(option) ==
    CASE option \in {"2", "3"} -> Weekdays1(800, 2000)
      [] option \in {"4", "5"} -> Weekdays1(700, 1900)
      [] OTHER -> Weekdays1(900, 2100)
xcel_mi_tou(option) == Working(1, 12, getXcelMIPeakHours(option)) \o Surcharge

(* The schemes of NetMeteringScheme.                                          *)
occasional == <<Credit(AllYear)>>
time_of_delivery == AllCredit(Working(1, 12, Weekdays1(900, 2100)))
wi_pg2b ==
    Each(LAMBDA s : Observing(XcelWINames, s),
         AllCredit(Working(6, 9, Weekdays1(700, 2300)) \o Working(10, 5, Weekdays1(700, 2200))))
nd_time_of_day_purchase == AllCredit(xcel_tou)
tx_net_billing == [m \in 1..12 |-> Credit(Season(m, m, <<AllDay>>))]
xcelPeriods ==
    [xcel_co_tou |-> Rate(XcelCONames, Now, xcel_co_tou),
     xcel_mn_standard |-> Rate(XcelNames, Now, xcel_standard \o time_of_delivery),
     xcel_mn_tou |-> Rate(XcelNames, Now, xcel_tou \o occasional),
     xcel_nd_standard |-> Rate(XcelNames, Now, xcel_standard \o occasional),
     xcel_nd_tou |-> Rate(XcelNames, Now, xcel_tou \o nd_time_of_day_purchase),
     xcel_sd_tou |-> Rate(XcelNames, Now, xcel_tou \o time_of_delivery),
     xcel_mi_standard |-> Rate(XcelNames, Now, <<AllYear>> \o Surcharge),
     xcel_mi_tou_1 |-> Rate(XcelNames, Now, xcel_mi_tou("1")),
     xcel_mi_tou_3 |-> Rate(XcelNames, Now, xcel_mi_tou("3")),
     xcel_mi_tou_5 |-> Rate(XcelNames, Now, xcel_mi_tou("5")),
     xcel_wi_standard |-> Rate(XcelNames, Now, xcel_standard \o Surcharge \o wi_pg2b),
     xcel_wi_tou |-> Rate(XcelNames, Now, xcel_tou \o Surcharge \o wi_pg2b),
     xcel_tx_standard |-> Rate(XcelNames, Now, xcel_standard \o Surcharge \o tx_net_billing),
     xcel_tx_tou |-> Rate(XcelNames, Now, xcel_tx_tou \o Surcharge \o tx_net_billing)]

(* WE Energies, by the peak the customer chooses.                             *)
cgs(peak) == AllCredit(Working(6, 9, peak) \o Working(10, 5, peak))
we_rg2(from, until) == Working(1, 12, Weekdays1(from, until)) \o cgs(Weekdays1(from, until))
wePeriods ==
    [we_rg1 |-> Rate(WENames, Now, <<AllYear, Credit(AllYear)>>),
     we_peak_7_7 |-> Rate(WENames, Now, we_rg2(700, 1900)), we_peak_8_8 |-> Rate(WENames, Now, we_rg2(800, 2000)),
     we_peak_9_9 |-> Rate(WENames, Now, we_rg2(900, 2100)), we_peak_10_10 |-> Rate(WENames, Now, we_rg2(1000, 2200))]

-----------------------------------------------------------------------------
(* Texas: two windows of the busy, with the delivery fee and the credit told   *)
(* by the same windows; or one price.                                         *)
DayAndNight(busy, night) == <<Season(1, 12, <<P(AllWeek, busy), P(AllWeek, night)>>)>>
FreeNights(busy, night) ==
    DayAndNight(busy, night) \o AllFee(DayAndNight(busy, night)) \o AllCredit(DayAndNight(busy, night))
EveningPeak == DayAndNight({<<1800, 2100>>}, {<<0, 1800>>, <<2100, 2400>>})
Delivered == <<AllYear, Fee(AllYear)>>
texasPeriods ==
    [tesla_dynamic |-> Rate(None, Now, EveningPeak \o <<Fee(AllYear)>> \o AllCredit(EveningPeak)),
     tesla_fixed |-> Rate(None, Now, Append(Delivered, Credit(AllYear))),
     green_mountain_free_nights |-> Rate(None, Now, FreeNights({<<600, 2000>>}, {<<2000, 2400>>, <<0, 600>>})),
     green_mountain_fixed |-> Rate(None, Now, Append(Delivered, Credit(AllYear))),
     direct_energy_twelve_hour |-> Rate(None, Now, FreeNights({<<900, 2100>>}, {<<2100, 2400>>, <<0, 900>>})),
     direct_energy_live_brighter |-> Rate(None, Now, Delivered),
     txu_free_nights |-> Rate(None, Now, FreeNights({<<600, 2000>>}, {<<2000, 2400>>, <<0, 600>>})),
     txu_season_pass |-> Rate(None, Now, Delivered)]

-----------------------------------------------------------------------------
(* Australia. A season runs from the 31st of a month until the 31st of        *)
(* another: 0 and 13 are the ends of the year.                                *)
Until31(from, to, seasons) ==
    Each(LAMBDA s : OnDays({31}, InMonths({from}, s)), seasons)
    \o Each(LAMBDA s : InMonths((from + 1)..(to - 1), s), seasons)
    \o Each(LAMBDA s : OnDays(1..30, InMonths({to}, s)), seasons)
OnWeekdays(busy, rest) ==
    <<Season(1, 12, <<P(Weekdays, busy), P(Weekdays, rest), P(Weekend, {<<0, 2400>>})>>)>>
FlatFeedIn == <<Credit(AllYear)>>

AfternoonPeak == DayAndNight({<<1500, 2100>>}, {<<0, 1500>>, <<2100, 2400>>})
EngieAusgrid ==
    Until31(0, 3, AfternoonPeak) \o Until31(3, 5, <<AllYear>>) \o Until31(5, 8, AfternoonPeak)
    \o Until31(8, 10, <<AllYear>>) \o Until31(10, 13, AfternoonPeak)
EngieEndeavour ==
    LET peak == OnWeekdays({<<1600, 2000>>}, {<<0, 1600>>, <<2000, 2400>>}) IN
    Until31(0, 3, peak) \o Until31(10, 13, peak) \o Until31(3, 10, peak)
Energex == <<Season(1, 12, <<P(AllWeek, {<<1600, 2100>>}), P(AllWeek, {<<1100, 1600>>}),
                            P(AllWeek, {<<0, 1100>>, <<2100, 2400>>})>>)>>
engiePeriods ==
    [engie_single |-> Rate(None, {2026}, <<AllYear>> \o FlatFeedIn),
     engie_tou_ausgrid |-> Rate(None, {2026}, EngieAusgrid \o FlatFeedIn),
     engie_tou_endeavour |-> Rate(None, {2026}, EngieEndeavour \o FlatFeedIn),
     engie_tou_energex |-> Rate(None, {2026}, Energex \o FlatFeedIn),
     engie_tou_citipower |-> Rate(None, {2026}, AfternoonPeak \o FlatFeedIn)]

GloBirdPeak == <<P(AllWeek, {<<1600, 2300>>})>>
globirdFour4FreePeriods ==
    <<Season(1, 12, GloBirdPeak \o <<P(AllWeek, {<<1000, 1400>>}),
                                     P(AllWeek, {<<0, 1000>>, <<1400, 1600>>, <<2300, 2400>>})>>),
      Credit(Season(1, 12, GloBirdPeak \o <<P(AllWeek, {<<0, 1600>>, <<2300, 2400>>})>>))>>
globirdSolarPlusPeriods(loc) ==
    CASE loc = "ausgrid" -> <<AllYear>> \o FlatFeedIn
      [] loc = "endeavour" -> OnWeekdays({<<1300, 2000>>}, {<<0, 1300>>, <<2000, 2400>>}) \o FlatFeedIn
      [] loc = "energex" -> DayAndNight({<<1600, 2100>>}, {<<0, 1600>>, <<2100, 2400>>}) \o FlatFeedIn
globirdPeriods ==
    [globird_four4free |-> Rate(None, {2026}, globirdFour4FreePeriods),
     globird_solarplus_ausgrid |-> Rate(None, {2026}, globirdSolarPlusPeriods("ausgrid")),
     globird_solarplus_endeavour |-> Rate(None, {2026}, globirdSolarPlusPeriods("endeavour")),
     globird_solarplus_energex |-> Rate(None, {2026}, globirdSolarPlusPeriods("energex"))]

ThreeTimes(peak, shoulder, weekend) ==
    <<Season(1, 12, <<P(Weekdays, peak), P(Weekdays, shoulder), P(Weekend, weekend)>>)>>
ausgridSeasonalPeriods ==
    LET summer == ThreeTimes({<<1400, 2000>>}, {<<700, 1400>>, <<2000, 2200>>}, {<<700, 2200>>})
        winter == ThreeTimes({<<1700, 2100>>}, {<<700, 1700>>, <<2100, 2200>>}, {<<700, 2200>>})
        shoulder == <<Season(1, 12, <<P(AllWeek, {<<700, 2200>>})>>)>>
        offPeak == <<Season(1, 12, <<P(AllWeek, {<<0, 700>>, <<2200, 2400>>})>>)>> IN
    Until31(0, 3, summer \o offPeak) \o Until31(3, 5, shoulder \o offPeak) \o Until31(5, 8, winter \o offPeak)
    \o Until31(8, 10, shoulder \o offPeak) \o Until31(10, 13, summer \o offPeak)
endeavourWeekdayWeekendPeriods ==
    <<Season(1, 12, <<P(Weekdays, {<<1300, 2000>>}), P(Weekdays, {<<700, 1300>>, <<2000, 2200>>}),
                      P(Weekdays, {<<0, 700>>, <<2200, 2400>>}), P(Weekend, {<<0, 2400>>})>>)>>
WeekdayPeak == ThreeTimes({<<1600, 2000>>}, {<<700, 1600>>, <<2000, 2200>>}, {<<700, 2200>>})
               \o <<Season(1, 12, <<P(AllWeek, {<<0, 700>>, <<2200, 2400>>})>>)>>
MaximiserPeak(from) == DayAndNight({<<from, 2100>>}, {<<0, from>>, <<2100, 2400>>})
originPeriods ==
    [origin_maximiser_energex |-> Rate(None, {2026}, MaximiserPeak(1600) \o AllCredit(MaximiserPeak(1600))),
     origin_maximiser_ausgrid |-> Rate(None, {2026}, MaximiserPeak(1700) \o AllCredit(MaximiserPeak(1700))),
     origin_go_energex |-> Rate(None, {2026}, WeekdayPeak \o FlatFeedIn),
     origin_boost_energex |-> Rate(None, {2026}, Energex \o FlatFeedIn),
     origin_go_citipower |-> Rate(None, {2026}, AfternoonPeak \o FlatFeedIn),
     origin_go_ausgrid |-> Rate(None, {2026}, ausgridSeasonalPeriods \o FlatFeedIn),
     origin_go_endeavour |-> Rate(None, {2026}, endeavourWeekdayWeekendPeriods \o FlatFeedIn)]

-----------------------------------------------------------------------------
(* Octopus Energy: the cheap hours of Go begin and end at half past.          *)
Flux == <<Season(1, 12, <<P(AllWeek, {<<200, 500>>}), P(AllWeek, {<<1600, 1900>>}),
                         P(AllWeek, {<<500, 1600>>, <<1900, 2400>>, <<0, 200>>})>>)>>
octopusFluxFees == Flux \o AllCredit(Flux)
octopusExportPeriods(tariff) ==
    CASE tariff = "outgoing_prime" -> AllCredit(DayAndNight({<<1600, 1900>>}, {<<0, 1600>>, <<1900, 2400>>}))
      [] tariff \in {"outgoing_agile", "none"} -> <<>>
      [] OTHER -> FlatFeedIn
octopusGoFees(tariff) == DayAndNight({<<30, 530>>}, {<<0, 30>>, <<530, 2400>>}) \o octopusExportPeriods(tariff)
octopusIntelligentGoFees(tariff) ==
    DayAndNight({<<2330, 2400>>, <<0, 530>>}, {<<530, 2330>>}) \o octopusExportPeriods(tariff)
octopusPeriods ==
    [octopus_flux |-> Rate(None, Now, octopusFluxFees),
     octopus_go |-> Rate(None, Now, octopusGoFees("outgoing_prime")),
     octopus_go_agile |-> Rate(None, Now, octopusGoFees("outgoing_agile")),
     octopus_intelligent_go |-> Rate(None, Now, octopusIntelligentGoFees("outgoing_15p"))]

PlainsRates == xcelPeriods @@ wePeriods @@ texasPeriods @@ engiePeriods @@ globirdPeriods @@ originPeriods
               @@ octopusPeriods

-----------------------------------------------------------------------------
(* The fees of the hourly utilities of Illinois, ComEd and Ameren, on top of  *)
(* or instead of the market's price: a rate is a pile of riders, each a list  *)
(* of dates from and until which one figure is filed, added up at a moment.   *)
(* The kind of a season is its rider.                                         *)
(* From the first of a month until the first of another: one season per year. *)
SlipBetween(rider, from, until, pieces) ==
    [i \in 1..(until[1] - from[1] + 1) |->
        [Season(1, 12, pieces) EXCEPT
            !.kind = rider, !.years = {from[1] + i - 1},
            !.months = {m \in 1..12 : /\ i = 1 => m >= from[2]
                                      /\ i = until[1] - from[1] + 1 => m <= until[2]}]]
Between(rider, from, until, pieces) ==
    [i \in 1..(until[1] - from[1] + 1) |->
        [Season(1, 12, pieces) EXCEPT
            !.kind = rider, !.years = {from[1] + i - 1},
            !.months = {m \in 1..12 : /\ i = 1 => m >= from[2]
                                      /\ i = until[1] - from[1] + 1 => m < until[2]}]]
Flatly(rider, from, until) == Between(rider, from, until, <<AllDay>>)

(* A figure a month, from one month of 2026 to another.                       *)
Filed(rider, from, to) == [i \in 1..(to - from + 1) |-> Flatly(rider, <<2026, from + i - 1>>, <<2026, from + i>>)[1]]

(* Night, morning, midday and evening, in one season or apart.                *)
TimesOfDay == <<P(AllWeek, {<<0, 600>>, <<2100, 2400>>}), P(AllWeek, {<<600, 1300>>}), P(AllWeek, {<<1300, 1900>>}),
                P(AllWeek, {<<1900, 2100>>})>>

Begin26 == <<2026, 1>>
June26 == <<2026, 6>>
June27 == <<2027, 6>>
End26 == <<2027, 1>>
End27 == <<2028, 1>>

-----------------------------------------------------------------------------
(* ComEd. Of the monthly adjustments the last one stands until the year ends. *)
getComEdDeliveryFees(variableDeliveryRate) ==
    Between("DFC", Begin26, June27, IF variableDeliveryRate THEN TimesOfDay ELSE <<AllDay>>)

Adjusted(rider) == Filed(rider, 1, 10) \o Flatly(rider, <<2026, 11>>, End26)

getComEdAdditionalFees(variableDeliveryRate) ==
    getComEdDeliveryFees(variableDeliveryRate)
    \o Flatly("PSC", Begin26, June26) \o Flatly("PSC", June26, <<2026, 9>>) \o Flatly("PSC", <<2026, 9>>, June27)
    \o Flatly("MPCC", Begin26, June26) \o Flatly("MPCC", June26, June27)
    \o Adjusted("HPEA")

SlipBESFees(variableDeliveryRate) ==
    getComEdDeliveryFees(variableDeliveryRate)
    \o Flatly("PSC", Begin26, June26) \o Flatly("PSC", June26, <<2026, 9>>) \o Flatly("PSC", <<2026, 10>>, June27)
    \o Flatly("PEC", Begin26, June26) \o Flatly("PEC", June26, <<2026, 9>>) \o Flatly("PEC", <<2026, 9>>, <<2026, 10>>)
    \o Flatly("PEC", <<2026, 10>>, June27)
    \o Adjusted("PEA")
getComEdBESFees(variableDeliveryRate) ==
    getComEdDeliveryFees(variableDeliveryRate)
    \o Flatly("PSC", Begin26, June26) \o Flatly("PSC", June26, <<2026, 9>>) \o Flatly("PSC", <<2026, 9>>, June27)
    \o Flatly("PEC", Begin26, June26) \o Flatly("PEC", June26, <<2026, 9>>) \o Flatly("PEC", <<2026, 9>>, <<2026, 10>>)
    \o Flatly("PEC", <<2026, 10>>, June27)
    \o Adjusted("PEA")

BESTUntilSeptember ==
    Between("PEC", Begin26, June26, TimesOfDay) \o Between("PEC", June26, <<2026, 9>>, TimesOfDay)
BESTFromSeptember ==
    Between("PEC", <<2026, 9>>, <<2026, 10>>, TimesOfDay) \o Between("PEC", <<2026, 10>>, June27, TimesOfDay)
getComEdBESTFees ==
    getComEdDeliveryFees(TRUE)
    \o Flatly("PSC", Begin26, June27)
    \o Flatly("PEA", Begin26, <<2026, 10>>) \o Flatly("PEA", <<2026, 10>>, <<2026, 11>>)
    \o Flatly("PEA", <<2026, 11>>, June27) \o BESTUntilSeptember \o BESTFromSeptember

(* Ameren.                                                                    *)
getAmerenAdditionalFees ==
    Flatly("transmission", Begin26, June26) \o Flatly("transmission", June26, End27)
    \o Flatly("DS-1", Begin26, June26) \o Flatly("DS-1", June26, <<2026, 10>>) \o Flatly("DS-1", <<2026, 10>>, End26)
    \o Flatly("DS-1", End26, June27) \o Flatly("DS-1", June27, <<2027, 10>>) \o Flatly("DS-1", <<2027, 10>>, End27)
getAmerenBGSFees ==
    getAmerenAdditionalFees
    \o Flatly("BGS-1", Begin26, June26) \o Flatly("BGS-1", June26, <<2026, 10>>) \o Flatly("BGS-1", <<2026, 10>>, End26)
    \o Flatly("BGS-1", End26, June27) \o Flatly("BGS-1", June27, <<2027, 10>>) \o Flatly("BGS-1", <<2027, 10>>, End27)

comEdUtilityInfo ==
    [comed_besh |-> Rate(None, {2026}, getComEdAdditionalFees(FALSE)),
     comed_besh_dtod |-> Rate(None, {2026}, getComEdAdditionalFees(TRUE)),
     comed_bes |-> Rate(None, {2026}, getComEdBESFees(FALSE)),
     comed_bes_dtod |-> Rate(None, {2026}, getComEdBESFees(TRUE)),
     comed_best |-> Rate(None, {2026}, getComEdBESTFees)]
amerenUtilityInfo ==
    [ameren_psp |-> Rate(None, {2026, 2027}, getAmerenAdditionalFees),
     ameren_bgs |-> Rate(None, {2026, 2027}, getAmerenBGSFees)]
IllinoisRates == comEdUtilityInfo @@ amerenUtilityInfo

-----------------------------------------------------------------------------
(* Every rider of a rate is charged at every moment of the rate's years, and  *)
(* once: the figures filed for a rider leave no month out and do not overlap. *)
EveryRiderOnce ==
    year \in Rates[rate].years => \A rider \in {Seasons[i].kind : i \in DOMAIN Seasons} : Once(Periods({rider}))

(* No rider is charged twice, in the months after the rate's years either,    *)
(* where the riders end one by one.                                           *)
NoRiderTwice ==
    \A rider \in {Seasons[i].kind : i \in DOMAIN Seasons} :
        \A p, q \in Periods({rider}) : p = q \/ p.slots \cap q.slots = {}
=============================================================================
