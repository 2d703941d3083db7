---------------------------- MODULE TariffsWest ----------------------------
(* The tables of the utilities of the West: Arizona's, California's, those of *)
(* the Rockies and the North-West, and Hawaii's. Rates that share a table are *)
(* listed once, each with the export scheme that adds most to it.             *)
EXTENDS TouPeriods

Now == {2026, 2027}
Year26 == {2026}
ExportCredit == <<Credit(AllYear)>>
Working6 == 1..6                                   \* Monday to Saturday
HolidayOf(from, to, pieces) == OnHolidays(Rest(Season(from, to, pieces)))
Regular(from, to, pieces) == OffHolidays(Rest(Season(from, to, pieces)))

-----------------------------------------------------------------------------
(* Arizona Public Service.                                                    *)
Peak1619 == P(Weekdays, {<<1600, 1900>>})
Midday == P(Weekdays, {<<1000, 1500>>})
Overnight == P(Weekdays, {<<2300, 2400>>, <<0, 500>>})
APSTouE == Working(5, 10, <<Peak1619>>) \o Working(11, 4, <<Peak1619, Midday>>)
APSR3 == Working(5, 10, <<Peak1619>>) \o Working(11, 4, <<Peak1619, Midday>>)
APSREV == Working(5, 10, <<Peak1619, Overnight>>) \o Working(11, 4, <<Peak1619, Midday, Overnight>>)
apsPeriods ==
    [aps_r_1 |-> Rate(APSNames, Now, <<AllYear>> \o ExportCredit),
     aps_tou_e |-> Rate(APSNames, Now, APSTouE \o ExportCredit),
     aps_r_3 |-> Rate(APSNames, Now, APSR3 \o ExportCredit),
     aps_r_ev |-> Rate(APSNames, Now, APSREV \o ExportCredit)]

(* Salt River Project: four seasons, all day off-peak on holidays, with the   *)
(* credit on every period.                                                    *)
Peak1420 == P(Weekdays, {<<1400, 2000>>})
WinterPeaks == P(Weekdays, {<<500, 900>>, <<1700, 2100>>})
SRPDays(from, to, pieces) == <<OnHolidays(Season(from, to, <<AllDay>>)), Regular(from, to, pieces)>>
SRPSeasons(days(_, _, _), summer, winter) ==
    days(5, 6, summer) \o days(9, 10, summer) \o days(7, 8, summer) \o days(11, 4, winter)
SRPE13 == SRPSeasons(SRPDays, <<Peak1420>>, <<WinterPeaks>>)
SRPE15 == SRPSeasons(SRPDays, <<Peak1420>>, <<WinterPeaks>>)
SRPE27 == SRPSeasons(SRPDays, <<Peak1420>>, <<WinterPeaks>>)
SRPSuper(hours, from, to, pieces) ==
    <<HolidayOf(from, to, <<P(AllWeek, hours)>>), Regular(from, to, <<P(AllWeek, hours)>> \o pieces)>>
SRPE14 ==
    LET days(from, to, pieces) == SRPSuper({<<2300, 2400>>, <<0, 500>>}, from, to, pieces) IN
    SRPSeasons(days, <<Peak1420>>, <<WinterPeaks>>)
SRPE16 ==
    LET days(from, to, pieces) == SRPSuper({<<800, 1500>>}, from, to, pieces) IN
    SRPSeasons(days, <<P(Weekdays, {<<1700, 2200>>})>>, <<P(Weekdays, {<<1700, 2200>>})>>)
SRPE28 ==
    LET days(from, to, pieces) == SRPSuper({<<800, 1500>>}, from, to, pieces) IN
    SRPSeasons(days, <<P(Weekdays, {<<1800, 2100>>})>>, <<P(Weekdays, {<<1800, 2100>>})>>)
srpPeriods ==
    [srp_e13 |-> Rate(SRPNames, Now, AllBoth(SRPE13)), srp_e14 |-> Rate(SRPNames, Now, AllBoth(SRPE14)),
     srp_e15 |-> Rate(SRPNames, Now, SRPE15), srp_e16 |-> Rate(SRPNames, Now, AllBoth(SRPE16)),
     srp_e27 |-> Rate(SRPNames, Now, SRPE27), srp_e28 |-> Rate(SRPNames, Now, AllBoth(SRPE28))]

-----------------------------------------------------------------------------
(* The three Californian companies credit exports by the hour (Net Billing),  *)
(* weekends and holidays apart, and charge a fee that is never credited.      *)
Hourly(days) == [h \in 1..24 |-> P(days, {<<100 * (h - 1), 100 * h>>})]
NetBilling ==
    AllCredit(<<OffHolidays(Season(1, 12, Hourly(Weekdays))), Season(1, 12, Hourly(Weekend)),
                OnHolidays(Season(1, 12, Hourly(Weekdays)))>>)
NonBypassable == <<Fee(Season(1, 12, <<AllDay>>))>>

SDGEHoliday(from, to) ==
    HolidayOf(from, to, <<P(AllWeek, {<<1600, 2100>>}), P(AllWeek, {<<1400, 1600>>, <<2100, 2400>>}),
                        P(AllWeek, {<<0, 1400>>})>>)
SDGERegular(from, to) ==
    Regular(from, to, <<P(Weekdays, {<<1600, 2100>>}), P(Weekdays, {<<0, 600>>, <<1000, 1400>>}),
                        P(Weekend, {<<1600, 2100>>}), P(Weekend, {<<1400, 1600>>, <<2100, 2400>>}),
                        P(Weekend, {<<0, 1400>>})>>)
SDGEDays(from, to) == <<SDGEHoliday(from, to), SDGERegular(from, to)>>
SDGEDR2(from, to) == <<HolidayOf(from, to, <<P(AllWeek, {<<1600, 2100>>})>>),
                       Regular(from, to, <<P(AllWeek, {<<1600, 2100>>})>>)>>
SubSeasons(days(_, _)) ==
    Each(LAMBDA s : InYears({2026}, s), days(1, 5) \o days(6, 7) \o days(8, 10) \o days(11, 12))
    \o Each(LAMBDA s : InYears({2027}, s), days(6, 10) \o days(11, 5))
sdgePeriods ==
    [sdge_ev_tou_5 |-> Rate(EdisonNames, Now, SubSeasons(SDGEDays) \o NetBilling \o NonBypassable),
     sdge_tou_dr2 |-> Rate(EdisonNames, Now, SubSeasons(SDGEDR2) \o NonBypassable)]

SCESummer(peak) == <<Rest(Season(6, 9, <<P(Weekdays, {peak}), P(Weekend, {peak})>>))>>
SCEWinter(from, to, peak) == <<Rest(Season(from, to, <<P(AllWeek, {peak}), P(AllWeek, {<<800, 1600>>})>>))>>
SCE49 == SCESummer(<<1600, 2100>>) \o SCEWinter(1, 5, <<1600, 2100>>) \o SCEWinter(10, 12, <<1600, 2100>>)
SCE58 == SCESummer(<<1700, 2000>>) \o SCEWinter(1, 5, <<1700, 2000>>) \o SCEWinter(10, 12, <<1700, 2000>>)
SCEPrime == SCE49
scePeriods ==
    [sce_tou_d_4_9pm |-> Rate(EdisonNames, Now, SCE49 \o NetBilling \o NonBypassable),
     sce_tou_d_5_8pm |-> Rate(EdisonNames, Now, SCE58 \o NetBilling \o NonBypassable),
     sce_tou_d_prime |-> Rate(EdisonNames, Now, SCEPrime \o NonBypassable)]

Peak49 == P(AllWeek, {<<1600, 2100>>})
PGETouC == <<Rest(Season(6, 9, <<Peak49>>)), Rest(Season(10, 5, <<Peak49>>))>>
PGETouD == Working(6, 9, <<P(Weekdays, {<<1700, 2000>>})>>) \o Working(10, 5, <<P(Weekdays, {<<1700, 2000>>})>>)
PartialPeak == P(AllWeek, {<<1500, 1600>>, <<2100, 2400>>})
PGEElec == <<Rest(Season(6, 9, <<Peak49, PartialPeak>>)), Rest(Season(10, 5, <<Peak49, PartialPeak>>))>>
PGEEV2 == <<Rest(Season(6, 9, <<Peak49, PartialPeak>>)), Rest(Season(10, 5, <<Peak49, PartialPeak>>))>>
pgEPeriods ==
    [pg_e_e1 |-> Rate(PGENames, Now, <<AllYear>> \o NetBilling \o NonBypassable),
     pg_e_e_tou_c |-> Rate(PGENames, Now, PGETouC \o NonBypassable),
     pg_e_e_tou_d |-> Rate(PGENames, Now, PGETouD \o NetBilling \o NonBypassable),
     pg_e_e_elec |-> Rate(PGENames, Now, PGEElec \o NonBypassable),
     pg_e_ev2 |-> Rate(PGENames, Now, PGEEV2 \o NonBypassable)]

(* Los Angeles and Burbank.                                                   *)
Quarters(pieces) ==
    <<Rest(Season(1, 3, pieces)), Rest(Season(4, 5, pieces)), Rest(Season(6, 6, pieces)),
      Rest(Season(7, 9, pieces)), Rest(Season(10, 12, pieces))>>
LADWPR1A == Quarters(<<>>)
LADWPR1B == Quarters(<<P(Weekdays, {<<1300, 1700>>}), P(Weekdays, {<<1000, 1300>>, <<1700, 2000>>})>>)
ladwp == [ladwp_r1a |-> Rate(None, Year26, LADWPR1A), ladwp_r1b |-> Rate(None, Year26, LADWPR1B)]
BWPEV ==
    Working(6, 10, <<P(Weekdays, {<<1600, 1900>>}), P(Weekdays, {<<800, 1600>>, <<1900, 2300>>})>>)
    \o Working(11, 5, <<P(Weekdays, {<<800, 2300>>})>>)
bwpPeriods ==
    [bwp_residential |-> Rate(BWPNames, Now, <<AllYear>> \o ExportCredit),
     bwp_res_tou_ev |-> Rate(BWPNames, Now, BWPEV \o ExportCredit)]

-----------------------------------------------------------------------------
(* The Rockies.                                                               *)
IdahoWinter == <<P(Working6, {<<600, 900>>, <<1700, 2000>>})>>
IdahoTOU ==
    Working(6, 9, <<P(Working6, {<<1900, 2300>>}), P(Working6, {<<1500, 1900>>})>>)
    \o Working(1, 5, IdahoWinter) \o Working(10, 12, IdahoWinter)
IdahoExport ==
    AllCredit(Working(6, 9, <<P(Working6, {<<1500, 2300>>})>>) \o <<Flat(1, 5), Flat(10, 12)>>)
idahoPeriods ==
    [idaho_std |-> Rate(IdahoNames, Year26, <<Flat(1, 5), Flat(6, 9), Flat(10, 12)>> \o IdahoExport),
     idaho_tou |-> Rate(IdahoNames, Year26, IdahoTOU \o IdahoExport)]

TwoSeasons(to) == <<Season(6, to, <<AllDay>>), Season(to + 1, 5, <<AllDay>>)>>
RockyPeak == <<P(Weekdays, {<<1800, 2200>>})>>
RockyUtahTOU ==
    <<OnHolidays(Season(6, 9, <<AllDay>>)), Regular(6, 9, RockyPeak),
      OnHolidays(Season(10, 5, <<AllDay>>)), Regular(10, 5, RockyPeak)>>
RockyIdaho ==
    TwoSeasons(10)
    \o AllCredit(<<Rest(Season(6, 10, <<P(AllWeek, {<<1500, 2300>>})>>)),
                   Rest(Season(11, 5, <<P(AllWeek, {<<600, 900>>, <<1800, 2300>>})>>))>>)
rockyPeriods ==
    [rocky_utah |-> Rate(RockyNames, Now, AllBoth(TwoSeasons(9))),
     rocky_utah_tou |-> Rate(RockyNames, Now, AllBoth(RockyUtahTOU)),
     rocky_idaho |-> Rate(RockyNames, Now, RockyIdaho),
     rocky_wyoming |-> Rate(RockyNames, Now, <<Season(1, 12, <<AllDay>>)>>)]
MVEATimeOfDay == <<Rest(Season(1, 12, <<P(Working6, {<<1700, 2100>>})>>)), Credit(AllYear)>>
mvea == [mvea_16_01 |-> Rate(None, Year26, <<AllYear>>), mvea_16_05 |-> Rate(None, Year26, MVEATimeOfDay)]

(* The North-West. Portland's prices change in the middle of a month: its     *)
(* periods are given the bounds of one price after another.                   *)
getPGESubPeriods(s) ==
    <<InYears({2026}, InMonths(1..3, s)), InYears({2026}, InMonths({4}, s)), InYears({2026}, InMonths(5..6, s)),
      InYears({2026}, OnDays(1..7, InMonths({7}, s))), InYears({2026}, OnDays(8..31, InMonths({7}, s))),
      InYears({2026}, InMonths(8..12, s)), InYears({2027}, s)>>
PortlandHoliday == OnHolidays(Season(1, 12, <<AllDay>>))
PortlandRegular ==
    Regular(1, 12, <<P(Weekdays, {<<1700, 2100>>}), P(Weekdays, {<<700, 1700>>}), P(Weekend, {})>>)
portlandGeneralPeriods ==
    [portland |-> Rate(PortlandNames, Now, getPGESubPeriods(PortlandHoliday) \o getPGESubPeriods(PortlandRegular))]

ThreeSeasons(days(_, _, _), winter, summer) == days(1, 3, winter) \o days(10, 12, winter) \o days(4, 9, summer)
PSEPeaks == <<P(Working6, {<<700, 1000>>, <<1700, 2000>>})>>
PSE307 == ThreeSeasons(Working, PSEPeaks, <<P(Working6, {<<1700, 2000>>})>>)
PSE327 ==
    LET days(from, to, pieces) == SRPSuper({<<2300, 2400>>, <<0, 700>>}, from, to, pieces) IN
    ThreeSeasons(days, PSEPeaks, PSEPeaks)
psePeriods ==
    [pse_7 |-> Rate(PSENames, Year26, <<AllYear>>), pse_307 |-> Rate(PSENames, Year26, PSE307),
     pse_327 |-> Rate(PSENames, Year26, PSE327)]

-----------------------------------------------------------------------------
(* Hawaii: an import table and an export table, chosen apart.                 *)
HawaiiTOU == Rest(Season(1, 12, <<P(AllWeek, {<<900, 1700>>}), P(AllWeek, {<<1700, 2100>>})>>))
SmartExport == Rest(Season(1, 12, <<P(AllWeek, {<<900, 1600>>})>>))
hawaiiPeriods ==
    [heco_r |-> Rate(None, Now, <<AllYear, Credit(SmartExport)>>),
     heco_ard_tou_r |-> Rate(None, Now, <<HawaiiTOU, Credit(HawaiiTOU)>>),
     heco_r_cgs |-> Rate(None, Now, <<AllYear>> \o ExportCredit)]

WestRates ==
    apsPeriods @@ srpPeriods @@ sdgePeriods @@ scePeriods @@ pgEPeriods @@ ladwp @@ bwpPeriods @@ idahoPeriods
    @@ rockyPeriods @@ mvea @@ portlandGeneralPeriods @@ psePeriods @@ hawaiiPeriods

-----------------------------------------------------------------------------
(* The export credits of California's net billing (u is the utility): a table *)
(* of dollars by month, kind of day and hour (left out here: a credit is its  *)
(* key), told to the price code as three periods of every hour of every month *)
(* (NetBilling above). SCE and PG&E look the keys of the periods up, SDG&E    *)
(* asks for the credit of a day it finds in the month, at a moment it reaches *)
(* by adding hours to midnight.                                               *)
NBTHolidays(u) == IF u = "pge" THEN PGENames ELSE EdisonNames

DayType(u, y, m, d) ==
    IF Dow(y, m, d) \in 6..7 \/ <<y, m, d>> \in Observed(NBTHolidays(u), y) THEN "Weekend" ELSE "Weekday"
getNBTExportRate(u, y, m, d, h) == <<m, DayType(u, y, m, d), h>>

(* startMonth.Add(hour): the hour on the clock, where the first of November   *)
(* is the Sunday that has one o'clock twice.                                  *)
Clock(y, m, h) == IF m = 11 /\ Dow(y, 11, 1) = 7 /\ h >= 2 THEN h - 1 ELSE h

(* The first day of the month on one of some weekdays, by AddDate.            *)
FirstOf(y, m, dows) == CHOOSE d \in 1..7 : Dow(y, m, d) \in dows /\ \A e \in 1..(d - 1) : Dow(y, m, e) \notin dows

(* What the period of an hour credits, on weekdays, on weekends and holidays. *)
SlipPeriodKey(u, y, m, type, h) == <<m, type, (h + 23) % 24>>
PeriodKey(u, y, m, type, h) ==
    IF u # "sdge" THEN <<m, type, h>>
    ELSE getNBTExportRate(u, y, m, FirstOf(y, m, IF type = "Weekday" THEN 1..5 ELSE 6..7), Clock(y, m, h))

(* The period that contains the moment: weekdays but holidays, weekends, and  *)
(* the holidays on weekdays.                                                  *)
SlipCredit(u, h) == PeriodKey(u, year, month, IF dow \in 6..7 THEN "Weekend" ELSE "Weekday", h)
CreditAt(u, h) ==
    LET holiday == Today \in Observed(NBTHolidays(u), year) IN
    PeriodKey(u, year, month, IF dow \in 6..7 \/ holiday THEN "Weekend" ELSE "Weekday", h)

-----------------------------------------------------------------------------
(* A weekday is credited by the weekday's column, a weekend and a holiday by  *)
(* the weekend's: the periods and the lookup by time agree on the day.        *)
CreditsTheDay(u) == \A h \in 0..23 : CreditAt(u, h)[2] = getNBTExportRate(u, year, month, day, h)[2]

(* Every hour is credited by the row of that hour.                            *)
CreditsTheHour(u) == \A h \in 0..23 : CreditAt(u, h)[3] = getNBTExportRate(u, year, month, day, h)[3]
=============================================================================
