---------------------------- MODULE TariffsEast -----------------------------
(* The tables of the utilities of the South-East (Duke Energy's companies,    *)
(* Dominion, Georgia Power, the Georgia cooperatives, Florida's utilities and *)
(* EPB), the North-East and the Mid-Atlantic, and the small ones of           *)
(* utility/tou.go that lie there. Every rate is taken with each of its export *)
(* schemes that changes the table.                                            *)
EXTENDS TouPeriods

Now == {2026, 2027}
FourYears == 2025..2028

-----------------------------------------------------------------------------
(* Duke Energy.                                                               *)
SlipDukeTOU(months, peak, discount) ==
    <<OnHolidays(Rest(Season(months[1], months[2], <<P(AllWeek, discount)>>))),
      Rest(Season(months[1], months[2], <<P(Weekdays, peak), P(AllWeek, discount)>>))>>
DukeTOU(months, peak, discount) == NightAndPeak(months[1], months[2], discount, peak)
buildDukeTOUPeriods ==
    DukeTOU(<<5, 9>>, {<<1800, 2100>>}, {<<100, 600>>})
    \o DukeTOU(<<10, 4>>, {<<600, 900>>}, {<<100, 300>>, <<1100, 1600>>})
buildExportCreditPeriod == <<Credit(AllYear)>>
NightRate == <<Rest(Season(1, 12, <<P(AllWeek, {<<2300, 2400>>, <<0, 500>>})>>))>>

(* The purchased-power credits: a table of summer, winter and shoulder.       *)
Shoulder(seasons) == Each(LAMBDA s : InMonths({3, 4, 5, 10, 11}, s), seasons)
SlipPurchased(summer, winter, shoulder) == AllCredit(Working(6, 9, summer) \o Working(12, 2, winter))
Purchased(summer, winter, shoulder) ==
    AllCredit(Working(6, 9, summer) \o Working(12, 2, winter) \o Shoulder(Working(1, 12, shoulder)))
buildDECNCPPExportPeriods ==
    Purchased(<<P(Weekdays, {<<1200, 1700>>, <<2100, 2300>>}), P(Weekdays, {<<1700, 2100>>})>>,
              <<P(Weekdays, {<<500, 600>>, <<900, 1000>>}), P(Weekdays, {<<1700, 2300>>}),
                P(Weekdays, {<<600, 900>>})>>,
              <<P(Weekdays, {<<500, 900>>, <<1700, 2400>>})>>)
buildDEPNCPPExportPeriods ==
    Purchased(<<P(Weekdays, {<<1400, 1800>>, <<2200, 2400>>}), P(Weekdays, {<<1800, 2200>>})>>,
              <<P(Weekdays, {<<0, 600>>}), P(Weekdays, {<<1700, 2400>>}), P(Weekdays, {<<600, 900>>})>>,
              <<P(Weekdays, {<<0, 900>>, <<1700, 2400>>})>>)
buildDEPSCPPExportPeriods ==
    Purchased(<<P(Weekdays, {<<1300, 1700>>, <<2100, 2300>>}), P(Weekdays, {<<1700, 2100>>})>>,
              <<P(Weekdays, {<<400, 600>>, <<900, 1100>>}), P(Weekdays, {<<1800, 2200>>}),
                P(Weekdays, {<<600, 900>>})>>,
              <<P(Weekdays, {<<500, 1000>>, <<1700, 2300>>})>>)

SolarTOU ==
    <<OnHolidays(Rest(Season(3, 11, <<P(AllWeek, {<<0, 600>>})>>))),
      OffHolidays(Rest(Season(3, 11, <<P(Weekdays, {<<1800, 2100>>}), P(AllWeek, {<<0, 600>>})>>)))>>
    \o Working(12, 2, <<P(Weekdays, {<<600, 900>>, <<1800, 2100>>})>>)

dukeCarolinasNCPeriods ==
    [duke_carolinas_nc_rs |-> Rate(DukeNames, Now, <<AllYear>> \o buildExportCreditPeriod),
     duke_carolinas_nc_rt |-> Rate(DukeNames, Now, buildDukeTOUPeriods \o buildExportCreditPeriod),
     duke_carolinas_nc_rt_ev |-> Rate(DukeNames, Now, NightRate \o buildExportCreditPeriod),
     duke_carolinas_nc_rstc_scg |-> Rate(DukeNames, Now, buildDukeTOUPeriods \o buildDECNCPPExportPeriods)]
dukeCarolinasSCPeriods ==
    [duke_carolinas_sc_rs |-> Rate(DukeNames, Now, <<AllYear>> \o buildExportCreditPeriod),
     duke_carolinas_sc_retc |-> Rate(DukeNames, Now, buildDukeTOUPeriods \o buildExportCreditPeriod),
     duke_carolinas_sc_r_stou |-> Rate(DukeNames, Now, SolarTOU \o buildExportCreditPeriod)]
dukeProgressNCPeriods ==
    [duke_progress_nc_res |-> Rate(DukeNames, Now, <<AllYear>> \o buildExportCreditPeriod),
     duke_progress_nc_r_tou_scg |-> Rate(DukeNames, Now, buildDukeTOUPeriods \o buildDEPNCPPExportPeriods)]
dukeProgressSCPeriods ==
    [duke_progress_sc_res |-> Rate(DukeNames, Now, <<AllYear>> \o buildExportCreditPeriod),
     duke_progress_sc_r_tou_ev_scg |-> Rate(DukeNames, Now, NightRate \o buildDEPSCPPExportPeriods)]

(* Indiana's periods are made day by day, the peak by the side of the year.   *)
OnSide(b, pieces) == OffHolidays(InWinter(b, Season(1, 12, pieces)))
IndianaTOU ==
    <<Season(1, 12, <<P(AllWeek, {<<0, 400>>})>>),
      OnHolidays(Season(1, 12, <<P(AllWeek, {<<400, 2400>>})>>)),
      OffHolidays(Season(1, 12, <<P(Weekend, {<<400, 2400>>})>>)),
      OnSide(TRUE, <<P(Weekdays, {<<600, 800>>, <<1700, 2100>>}),
                    P(Weekdays, {<<400, 600>>, <<800, 1700>>, <<2100, 2400>>})>>),
      OnSide(FALSE, <<P(Weekdays, {<<1700, 2100>>}), P(Weekdays, {<<400, 1700>>, <<2100, 2400>>})>>)>>
dukeIndianaPeriods ==
    [duke_indiana_rs |-> Rate(IndianaNames, Now, <<AllYear>> \o buildExportCreditPeriod),
     duke_indiana_rs_tou |-> Rate(IndianaNames, Now, IndianaTOU \o buildExportCreditPeriod)]

RST1(from, to, discount, peak, off) ==
    <<OffHolidays(Season(from, to, <<P(Weekdays, {<<0, discount>>}), P(Weekdays, peak), P(Weekdays, off)>>)),
      Season(from, to, <<P(Weekend, {<<0, discount>>}), P(Weekend, {<<discount, 2400>>})>>),
      OnHolidays(Season(from, to, <<P(AllWeek, {<<0, discount>>}), P(AllWeek, {<<discount, 2400>>})>>))>>
buildDukeFLRST1Periods ==
    RST1(12, 2, 300, {<<500, 1000>>, <<1800, 2100>>}, {<<300, 500>>, <<1000, 1800>>, <<2100, 2400>>})
    \o RST1(3, 11, 600, {<<1800, 2100>>}, {<<600, 1800>>, <<2100, 2400>>})
dukeFloridaPeriods ==
    [duke_florida_rs |-> Rate(IndianaNames, FourYears, <<Flat(12, 2), Flat(3, 11)>>),
     duke_florida_rst |-> Rate(IndianaNames, FourYears, buildDukeFLRST1Periods)]

-----------------------------------------------------------------------------
(* Dominion Energy, in Virginia and both Carolinas.                           *)
Seasonal(from, to, then, until) == <<Season(from, to, <<AllDay>>), Season(then, until, <<AllDay>>)>>
Dominion1G == NightAndPeak(5, 9, {<<0, 500>>}, {<<1500, 1800>>})
              \o NightAndPeak(10, 4, {<<0, 500>>}, {<<600, 900>>, <<1700, 2000>>})
Dominion1PNC == Working(6, 9, <<P(Weekdays, {<<1300, 2100>>})>>)
                \o Working(10, 5, <<P(Weekdays, {<<630, 1200>>, <<1700, 2100>>})>>)
Dominion1TNC == Dominion1PNC
Dominion5SC ==
    AllBoth(<<Rest(Season(5, 9, <<P(AllWeek, {<<1600, 2000>>}), P(AllWeek, {<<100, 500>>})>>)),
              Rest(Season(10, 4, <<P(AllWeek, {<<600, 900>>}), P(AllWeek, {<<100, 500>>, <<1300, 1500>>})>>))>>)
dominionPeriods ==
    [dominion_1 |-> Rate(DominionNames, FourYears, Seasonal(6, 9, 10, 5)),
     dominion_1g |-> Rate(DominionNames, FourYears, Dominion1G),
     dominion_1p_nc |-> Rate(DominionNCNames, FourYears, Dominion1PNC),
     dominion_1t_nc |-> Rate(DominionNCNames, FourYears, Dominion1TNC),
     dominion_5_sc |-> Rate(None, FourYears, Dominion5SC),
     dominion_8_sc |-> Rate(None, FourYears, Seasonal(5, 9, 10, 4))]

-----------------------------------------------------------------------------
(* Georgia Power: the months of a year come in blocks of one price version,   *)
(* each intersected with summer and winter; the fuel fee has the same shape.  *)
summerMonths == {6, 7, 8, 9}
winterMonths == {1, 2, 3, 4, 5, 10, 11, 12}
Blocks == <<[years |-> {2026}, months |-> 1..5], [years |-> {2026}, months |-> 6..12],
            [years |-> {2027}, months |-> 1..12]>>
Within(block, seasons) ==
    [i \in DOMAIN seasons |-> [seasons[i] EXCEPT !.years = block.years, !.months = @ \cap block.months]]
InBlocks(seasons) ==
    Within(Blocks[1], seasons) \o Within(Blocks[2], seasons) \o Within(Blocks[3], seasons)

InSummer(s) == InMonths(summerMonths, s)
OffWinter(s) == InMonths(winterMonths, s)
GPOvernight ==
    <<InSummer(OnHolidays(Rest(Season(1, 12, <<P(AllWeek, {<<700, 2300>>})>>)))),
      InSummer(OffHolidays(Rest(Season(1, 12,
          <<P(Weekdays, {<<1400, 1900>>}), P(Weekdays, {<<700, 1400>>, <<1900, 2300>>}),
            P(Weekend, {<<700, 2300>>})>>)))),
      OffWinter(Rest(Season(1, 12, <<P(AllWeek, {<<700, 2300>>})>>)))>>
GPPeak ==
    <<InSummer(OnHolidays(AllYear)), InSummer(OffHolidays(Rest(Season(1, 12, <<P(Weekdays, {<<1400, 1900>>})>>)))),
      OffWinter(AllYear)>>
gpFCRPeriods(shape) == AllFee(shape)
gpPeriods ==
    [gp_tou_oa |-> Rate(GPNames, Now, InBlocks(GPOvernight \o gpFCRPeriods(GPOvernight)) \o buildExportCreditPeriod),
     gp_tou_rd |-> Rate(GPNames, Now, InBlocks(GPPeak \o gpFCRPeriods(GPPeak)) \o buildExportCreditPeriod)]

(* The cooperatives. Walton's September peak is the first ten days but Labor  *)
(* Day, told date by date.                                                    *)
Sawnee == Working(6, 8, <<P(Weekdays, {<<1400, 2000>>})>>) \o <<Flat(1, 5), Flat(9, 12)>>
sawneePeriods ==
    [sawnee_h |-> Rate(SawneeNames, {2026}, <<AllYear, Credit(AllYear)>>),
     sawnee_tu |-> Rate(SawneeNames, {2026}, Append(Sawnee, Credit(AllYear)))]
LaborDay == Names({}, {}, {"Labor"})
WaltonPeak == <<P(Weekdays, {<<1500, 2000>>})>>
WaltonSeptember ==
    <<Observing(LaborDay, OffHolidays(OnDays(1..10, Rest(Season(9, 9, WaltonPeak))))),
      Observing(LaborDay, OnHolidays(Flat(9, 9))), OnDays(11..30, Flat(9, 9))>>
waltonPeriods ==
    [walton_a15 |-> Rate(None, {2026}, <<Flat(1, 4), Flat(5, 10), Flat(11, 12), Credit(AllYear)>>),
     walton_tu5 |-> Rate(SawneeNames, {2026},
         <<Flat(1, 5), Flat(10, 12)>> \o Working(6, 8, WaltonPeak) \o WaltonSeptember \o <<Credit(AllYear)>>)]

-----------------------------------------------------------------------------
(* Florida.                                                                   *)
TwicePeak == <<P(Weekdays, {<<600, 1000>>, <<1800, 2200>>})>>
FPLRTR1 == Working(4, 10, <<P(Weekdays, {<<1200, 2100>>})>>) \o Working(11, 3, TwicePeak)
fplPeriods ==
    [fpl_rs1 |-> Rate(FPLNames, Now, <<AllYear>>), fpl_rtr1 |-> Rate(FPLNames, Now, FPLRTR1)]
JEAGST == Working(11, 3, TwicePeak) \o Working(4, 10, <<P(Weekdays, {<<1200, 2100>>})>>)
jeaPeriods ==
    [jea_r |-> Rate(JEANames, Now, <<AllYear, Credit(AllYear)>>),
     jea_gst |-> Rate(JEANames, Now, Append(JEAGST, Credit(AllYear)))]
SECOPeaks(from, to, peak) == NightAndPeak(from, to, {<<0, 600>>}, {peak})
secoPeriods ==
    [seco_rs |-> Rate(SECONames, {2026}, <<AllYear, Credit(AllYear)>>),
     seco_rs_tou |-> Rate(SECONames, {2026},
         SECOPeaks(4, 10, <<1400, 1800>>) \o SECOPeaks(1, 3, <<600, 900>>) \o SECOPeaks(11, 12, <<600, 900>>)
         \o <<Credit(AllYear)>>)]

-----------------------------------------------------------------------------
(* EPB Chattanooga: the fuel adjustment is a fee of its own, and exports are  *)
(* credited flat (Part A) or by the hour (Part B), which has its own holidays.*)
Monthly(months) == Season(months[1], months[2], <<AllDay>>)
epbFCAPeriods ==
    AllFee(<<InYears({2025}, Monthly(<<1, 12>>)), InYears({2026}, Monthly(<<1, 5>>)),
             InYears({2026}, Monthly(<<6, 6>>)), InYears({2026}, Monthly(<<7, 7>>)),
             InYears({2026}, Monthly(<<8, 8>>)), InYears({2026}, Monthly(<<9, 9>>)),
             InYears({2026}, Monthly(<<10, 12>>)), InYears({2027, 2028}, Monthly(<<1, 12>>))>>)
epbDPPAPeriods ==
    AllCredit(<<InYears({2025}, AllYear), InYears({2026}, Flat(1, 5)), InYears({2026}, Flat(6, 6)),
                InYears({2026}, Flat(7, 12)), InYears({2027, 2028}, AllYear)>>)

buildEPBDPPBPeriod(years, from, to, super, on, off, superOff, weekendOff, weekendSuperOff) ==
    AllCredit(Each(LAMBDA s : InYears(years, s),
        <<OffHolidays(Season(from, to, <<P(Weekdays, super), P(Weekdays, on), P(Weekdays, off), P(Weekdays, superOff)>>)),
          Season(from, to, <<P(Weekend, weekendOff), P(Weekend, weekendSuperOff)>>),
          OnHolidays(Season(from, to, <<P(Weekdays, weekendOff), P(Weekdays, weekendSuperOff)>>))>>))
PartB1(years, from, to) ==
    buildEPBDPPBPeriod(years, from, to, {<<1400, 1800>>}, {<<1200, 1400>>, <<1800, 2100>>},
        {<<800, 1200>>, <<2100, 2300>>}, {<<0, 800>>, <<2300, 2400>>}, {<<900, 2200>>}, {<<0, 900>>, <<2200, 2400>>})
PartB2(years, from, to, end, evening) ==
    buildEPBDPPBPeriod(years, from, to, {<<1300, end>>}, {<<1100, 1300>>, <<end, 2100>>},
        {<<900, 1100>>, <<2100, 2300>>}, {<<0, 900>>, <<2300, 2400>>}, {<<1000, 2200>>}, {<<0, 1000>>, <<2200, 2400>>})
epbDPPBPeriods ==
    Each(LAMBDA s : Observing(Plain6, s),
        PartB1({2025}, 1, 12) \o PartB1({2026}, 1, 5) \o PartB2({2026}, 6, 6, 1900, 2100)
        \o PartB2({2026}, 7, 12, 1800, 2100) \o PartB2({2027, 2028}, 1, 12, 1800, 2100))
EPBTimeShift == Working(4, 10, <<P(Weekdays, {<<1500, 1900>>})>>) \o Working(11, 3, <<P(Weekdays, {<<600, 1000>>})>>)
epbPeriods ==
    [epb_base |-> Rate(EPBNames, FourYears, <<Monthly(<<1, 12>>)>> \o epbFCAPeriods \o epbDPPAPeriods),
     epb_time_shift |-> Rate(EPBNames, FourYears, EPBTimeShift \o epbFCAPeriods \o epbDPPBPeriods),
     epb_night_shift |-> Rate(EPBNames, FourYears, NightRate \o epbFCAPeriods \o epbDPPAPeriods)]

SouthRates ==
    dukeCarolinasNCPeriods @@ dukeCarolinasSCPeriods @@ dukeProgressNCPeriods @@ dukeProgressSCPeriods
    @@ dukeIndianaPeriods @@ dukeFloridaPeriods @@ dominionPeriods @@ gpPeriods @@ sawneePeriods @@ waltonPeriods
    @@ fplPeriods @@ jeaPeriods @@ secoPeriods @@ epbPeriods

-----------------------------------------------------------------------------
(* Baltimore Gas and Electric.                                                *)
BGESeasons(summer, winter) == Working(6, 9, summer) \o Working(10, 5, winter)
bgePeriods ==
    [bge_r |-> Rate(BGENames, 2026..2028, <<Season(6, 9, <<AllDay>>), Season(10, 5, <<AllDay>>)>>),
     bge_rl |-> Rate(BGENames, 2026..2028, BGESeasons(
         <<P(Weekdays, {<<1000, 2000>>}), P(Weekdays, {<<700, 1000>>, <<2000, 2300>>})>>,
         <<P(Weekdays, {<<700, 1100>>, <<1700, 2100>>}), P(Weekdays, {<<1100, 1700>>})>>)),
     bge_ev |-> Rate(BGENames, 2026..2028, BGESeasons(
         <<P(Weekdays, {<<1000, 2000>>})>>, <<P(Weekdays, {<<700, 1100>>, <<1700, 2100>>})>>)),
     bge_rd |-> Rate(BGENames, 2026..2028, BGESeasons(
         <<P(Weekdays, {<<1500, 2000>>})>>, <<P(Weekdays, {<<600, 900>>, <<1700, 2100>>})>>))]

(* PECO's table begins in the December of 2025: 2026 is its one whole year.   *)
PECOSchedules(f(_, _)) ==
    Each(LAMBDA s : InYears({2025}, s), f(12, 12)) \o Each(LAMBDA s : InYears({2026}, s), f(1, 5) \o f(6, 12))
pecoPeriods ==
    [peco_r |-> Rate(PECONames, {2026}, PECOSchedules(LAMBDA from, to : <<Flat(from, to)>>)),
     peco_tou |-> Rate(PECONames, {2026},
         PECOSchedules(LAMBDA from, to : NightAndPeak(from, to, {<<0, 600>>}, {<<1400, 1800>>})))]

dlcPeriods ==
    [dlc_rs |-> Rate(DLCNames, Now, <<AllYear>>),
     dlc_tou |-> Rate(DLCNames, Now, NightAndPeak(1, 12, {<<0, 600>>, <<2300, 2400>>}, {<<1500, 2100>>}))]

(* Pepco tells the weekend and the holidays apart.                            *)
buildPepcoDCRPIVPeriods(from, to) ==
    <<OffHolidays(Season(from, to, <<P(Weekdays, {<<1200, 2000>>}), P(Weekdays, {<<0, 1200>>, <<2000, 2400>>})>>)),
      Season(from, to, <<P(Weekend, {<<0, 2400>>})>>),
      OnHolidays(Season(from, to, <<P(AllWeek, {<<0, 2400>>})>>))>>
pepcoDCPeriods ==
    [pepco_dc_r |-> Rate(PepcoNames, 2025..2028, <<Flat(6, 10), Flat(11, 5)>>),
     pepco_dc_r_piv |-> Rate(PepcoNames, 2025..2028,
         buildPepcoDCRPIVPeriods(6, 10) \o buildPepcoDCRPIVPeriods(11, 5))]

-----------------------------------------------------------------------------
(* PSEG Long Island.                                                          *)
LatePeak == <<P(Weekdays, {<<1500, 1900>>})>>
Night(hour, until) == {<<hour, 2400>>, <<0, until>>}
FiveSeasons(night, peak) ==
    NightAndPeak(6, 9, night, peak) \o NightAndPeak(4, 5, night, peak) \o NightAndPeak(10, 11, night, peak)
    \o NightAndPeak(1, 3, night, peak) \o NightAndPeak(12, 12, night, peak)
psegli_194 == Working(6, 9, LatePeak) \o Working(1, 5, LatePeak) \o Working(10, 12, LatePeak)
psegli_195 ==
    NightAndPeak(6, 9, Night(2200, 600), {<<1500, 1900>>}) \o NightAndPeak(1, 5, Night(2200, 600), {<<1500, 1900>>})
    \o NightAndPeak(10, 12, Night(2200, 600), {<<1500, 1900>>})
psegli_190 == FiveSeasons(Night(2200, 600), {<<1600, 1900>>})
psegli_191 == FiveSeasons(Night(2300, 700), {<<1600, 2000>>})
psegli_192 == FiveSeasons(Night(2200, 600), {<<1500, 1900>>})
psegli_193 == [i \in 1..3 |-> Rest(Season(<<6, 1, 10>>[i], <<9, 5, 12>>[i], <<P(AllWeek, Night(2300, 600))>>))]
psegliPeriods ==
    [psegli_194 |-> Rate(PSEGLINames, {2026}, psegli_194), psegli_195 |-> Rate(PSEGLINames, {2026}, psegli_195),
     psegli_190 |-> Rate(PSEGLINames, {2026}, psegli_190), psegli_191 |-> Rate(PSEGLINames, {2026}, psegli_191),
     psegli_192 |-> Rate(PSEGLINames, {2026}, psegli_192), psegli_193 |-> Rate(PSEGLINames, {2026}, psegli_193)]

-----------------------------------------------------------------------------
(* Eversource: 2026 changes its prices in the middle, 2027 does not.          *)
Halves(f(_, _), turn) ==
    Each(LAMBDA s : InYears({2026}, s), f(1, turn) \o f(turn + 1, 12)) \o Each(LAMBDA s : InYears({2027}, s), f(1, 12))
eversource_ct_rate_1 == Halves(LAMBDA from, to : <<Flat(from, to)>>, 6)
eversource_ct_rate_5 == Halves(LAMBDA from, to : <<Flat(from, to)>>, 6)
eversource_ct_rate_7 ==
    Halves(LAMBDA from, to : <<Rest(Season(from, to, <<P(Weekdays, {<<1200, 2000>>})>>))>>, 6)
eversource_ct_vpp == Halves(LAMBDA from, to : <<Flat(from, to)>>, 6)
eversource_nh_rate_r == Halves(LAMBDA from, to : <<Flat(from, to)>>, 1)
eversource_nh_rate_r_otod == Halves(LAMBDA from, to : Working(from, to, <<P(Weekdays, {<<1300, 1900>>})>>), 1)
eversource_nh_rate_r_ev ==
    <<OnHolidays(Rest(Season(1, 12, <<P(AllWeek, {<<700, 2300>>})>>))),
      OffHolidays(Rest(Season(1, 12,
          <<P(Weekdays, {<<1400, 1900>>}), P(Weekdays, {<<700, 1400>>, <<1900, 2300>>}),
            P(Weekend, {<<700, 2300>>})>>)))>>
fixed == <<InYears({2026}, Flat(1, 1)), InYears({2026}, Flat(2, 7)), InYears({2026}, Flat(8, 12)),
           InYears({2027}, AllYear)>>
monthly == [m \in 1..12 |-> InYears({2026}, Flat(m, m))] \o <<InYears({2027}, AllYear)>>
eversourcePeriods ==
    [eversource_ct_rate_1 |-> Rate(EversourceNames, Now, eversource_ct_rate_1),
     eversource_ct_rate_5 |-> Rate(EversourceNames, Now, eversource_ct_rate_5),
     eversource_ct_rate_7 |-> Rate(EversourceNames, Now, eversource_ct_rate_7),
     eversource_ct_vpp |-> Rate(EversourceNames, Now, eversource_ct_vpp),
     eversource_nh_rate_r |-> Rate(EversourceNames, Now, eversource_nh_rate_r),
     eversource_nh_rate_r_otod |-> Rate(EversourceNames, Now, eversource_nh_rate_r_otod),
     eversource_nh_rate_r_ev |-> Rate(EversourceNames, Now, eversource_nh_rate_r_ev),
     eversource_ma_fixed |-> Rate(EversourceNames, Now, fixed),
     eversource_ma_monthly |-> Rate(EversourceNames, Now, monthly)]

-----------------------------------------------------------------------------
(* The tables of touUtilityInfo.                                              *)
Day3(hours) == [i \in 1..3 |-> P(AllWeek, {hours[i]})]
tou_example ==
    [tou_example_1 |-> Rate(None, Now, <<Season(1, 12, Day3(<<<<0, 600>>, <<600, 1200>>, <<1200, 2400>>>>))>>),
     tou_example_2 |-> Rate(None, Now, <<Season(1, 12, Day3(<<<<0, 630>>, <<630, 1200>>, <<1200, 2400>>>>))>>)]

Rutherford(months, peak) ==
    Both(InMonths(months, Rest(Season(1, 12, <<P(Weekdays, peak), P(AllWeek, {<<0, 500>>, <<2200, 2400>>})>>))))
rutherford_electric ==
    [rutherford_electric_tod |-> Rate(None, {2026},
        <<Rutherford(5..9, {<<1300, 1900>>}), Rutherford({10, 4}, {<<700, 900>>, <<1300, 1900>>}),
          Rutherford({11, 12, 1, 2, 3}, {<<700, 900>>})>>)]
novec ==
    [novec_r1 |-> Rate(None, Now, <<AllYear>>),
     novec_r1_ev |-> Rate(None, Now, <<Rest(Season(1, 12, <<P(AllWeek, {<<600, 2300>>})>>))>>)]
centerpoint_indiana == [centerpoint_indiana_rs |-> Rate(None, {2026}, <<AllYear, Credit(AllYear)>>)]

EastRates == bgePeriods @@ pecoPeriods @@ dlcPeriods @@ pepcoDCPeriods @@ psegliPeriods @@ eversourcePeriods
             @@ tou_example @@ rutherford_electric @@ novec @@ centerpoint_indiana @@ SouthRates
=============================================================================
