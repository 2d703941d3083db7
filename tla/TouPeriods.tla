----------------------------- MODULE TouPeriods -----------------------------
(* Time-of-use tariffs: a rate is a table of seasons (utility/tou.go,         *)
(* touSimplifiedPeriod), buildPeriods turns it into periods, a period         *)
(* contains a moment or not (types/utility.go, TimePeriod.Contains), and the  *)
(* prices of all the periods that contain the start of a price segment are    *)
(* added up. Two periods over one moment charge it twice, none charges it     *)
(* nothing, and neither is an error. A walk over the days of some years looks *)
(* at every half hour of every rate; dollars are left out of the tables.      *)
EXTENDS Calendar, Sequences, Functions

CONSTANT Rates      \* a record Rate(..) of each rate

VARIABLE rate
vars == <<rate, year, month, day, dow>>

-----------------------------------------------------------------------------
(* The tables. Hours are written 1530, days as in Calendar; a piece without   *)
(* hours is all day. OtherDollarsPerKWH or OtherDescription makes Rest.       *)
Weekdays == 1..5
Weekend == 6..7
AllWeek == 1..7
P(days, hours) == [days |-> days, hours |-> hours]
AllDay == P(AllWeek, {})
None == Names({}, {}, {})

Months(from, to) == IF from > to THEN 1..to \union from..12 ELSE from..to

Season(from, to, pieces) ==
    [months |-> Months(from, to), days |-> 1..31, years |-> 2025..2035, dates |-> "any", names |-> None,
     winter |-> BOOLEAN, kind |-> "price", pieces |-> pieces, rest |-> FALSE]
Rest(s) == [s EXCEPT !.rest = TRUE]
Flat(from, to) == Rest(Season(from, to, <<>>))
OnHolidays(s) == [s EXCEPT !.dates = "holidays"]
OffHolidays(s) == [s EXCEPT !.dates = "others"]
Observing(names, s) == [s EXCEPT !.names = names]
Credit(s) == [s EXCEPT !.kind = "credit"]       \* OnlySeparateGenerationCredit
Both(s) == [s EXCEPT !.kind = "both"]           \* SeparateGenerationCredit
Fee(s) == [s EXCEPT !.kind = "fee"]             \* GridAdditional
InYears(years, s) == [s EXCEPT !.years = years]
InMonths(months, s) == [s EXCEPT !.months = months]
OnDays(days, s) == [s EXCEPT !.days = days]
InWinter(b, s) == [s EXCEPT !.winter = {b}]

(* What most tables do: off-peak all day on holidays, pieces on other days.   *)
Working(from, to, pieces) ==
    <<OnHolidays(Flat(from, to)), OffHolidays(Rest(Season(from, to, pieces)))>>

(* A night of its own, and a peak on working days.                            *)
NightAndPeak(from, to, night, peak) ==
    <<OnHolidays(Rest(Season(from, to, <<P(AllWeek, night)>>))),
      OffHolidays(Rest(Season(from, to, <<P(AllWeek, night), P(Weekdays, peak)>>)))>>

Each(f(_), seasons) == [i \in DOMAIN seasons |-> f(seasons[i])]
AllCredit(seasons) == Each(Credit, seasons)
AllBoth(seasons) == Each(Both, seasons)
AllFee(seasons) == Each(Fee, seasons)
AllYear == Flat(1, 12)

(* A rate of a utility with its holidays, for the years its table is built.   *)
Rate(names, years, seasons) ==
    [years |-> years, seasons |-> [i \in DOMAIN seasons |->
        IF seasons[i].names = None THEN Observing(names, seasons[i]) ELSE seasons[i]]]

-----------------------------------------------------------------------------
Slots == {100 * h + m : h \in 0..23, m \in {0, 30}}
Other(t) == IF t % 100 = 0 THEN t + 30 ELSE t - 30      \* the other half of its hour
HalfPast(t) == 100 * (t \div 100) + 30

(* TimePeriod.Contains: hours may run past midnight. The mask of the minutes  *)
(* that Rest leaves out does not know that.                                   *)
Contained(w) == {t \in Slots : IF w[1] < w[2] THEN w[1] <= t /\ t < w[2] ELSE t >= w[1] \/ t < w[2]}
Marked(w) == {t \in Slots : w[1] <= t /\ t < w[2]}

Applies(s) ==
    /\ year \in s.years /\ month \in s.months /\ day \in s.days
    /\ s.dates = "any" \/ (s.dates = "holidays") = (Today \in Observed(s.names, year))
    /\ s.winter = BOOLEAN \/ Winter(year, month, day) \in s.winter

PieceSlots(p) ==
    IF dow \notin p.days THEN {} ELSE IF p.hours = {} THEN Slots ELSE UNION {Contained(w) : w \in p.hours}
RestSlots(s) ==
    Slots \ UNION {IF p.hours = {} THEN Slots ELSE UNION {Marked(w) : w \in p.hours} :
                   p \in {q \in Range(s.pieces) : dow \in q.days}}

(* The periods of the day: those of the pieces, and the one of the rest (0).  *)
Seasons == Rates[rate].seasons
Today1(kinds) == {i \in DOMAIN Seasons : Seasons[i].kind \in kinds /\ Applies(Seasons[i])}
Periods(kinds) ==
    {[id |-> <<i, j>>, slots |-> PieceSlots(Seasons[i].pieces[j])] :
        <<i, j>> \in UNION {{i} \X DOMAIN Seasons[i].pieces : i \in Today1(kinds)}}
    \union {[id |-> <<i, 0>>, slots |-> RestSlots(Seasons[i])] :
            i \in {i \in Today1(kinds) : Seasons[i].rest}}

(* priceForTime narrows the hour to the window of each period that holds the  *)
(* moment: where that window begins or ends at half past, the hour splits.    *)
SlipNarrows(p, t) == FALSE
Narrows(p, t) ==
    IF p.id[2] = 0 THEN Other(t) \notin p.slots
    ELSE \E w \in Seasons[p.id[1]].pieces[p.id[2]].hours : HalfPast(t) \in {w[1], w[2]} /\ t \in Contained(w)
Split(periods) == UNION {{t \in p.slots : Narrows(p, t)} : p \in periods}

-----------------------------------------------------------------------------
Begin == rate \in DOMAIN Rates /\ Init
Walk == NextDay /\ UNCHANGED rate
Tariffs == Begin /\ [][Walk]_vars

-----------------------------------------------------------------------------
Once(periods) ==
    /\ UNION {p.slots : p \in periods} = Slots
    /\ \A p, q \in periods : p # q => p.slots \intersect q.slots = {}

Charges(kinds) == \E i \in DOMAIN Seasons : Seasons[i].kind \in kinds

(* Every half hour of every day of a rate's years is in one period of its     *)
(* prices, neither in two (their dollars are added) nor in none (it is free); *)
(* and in one period of the fee on top, where the rate has one.               *)
EveryMomentPricedOnce ==
    year \in Rates[rate].years =>
        Once(Periods({"price", "both"})) /\ (Charges({"fee"}) => Once(Periods({"fee"})))

(* A rate that credits exports credits every half hour, and each of them once *)
(* (UtilityFeesPeriod.Apply adds the credits too).                            *)
EveryExportCreditedOnce ==
    year \in Rates[rate].years =>
        (Charges({"credit", "both"}) => Once(Periods({"credit", "both"})))

(* The segments priceForTime makes of an hour meet: one that ends at half     *)
(* past is followed by one that begins there (GetFuturePrices fails           *)
(* otherwise), and an hour left whole has the same periods in both halves.    *)
SegmentsMeet ==
    LET periods == Periods({"price", "credit", "both", "fee"})
        split == Split(periods) IN
    /\ \A t \in split : Other(t) \in split
    /\ \A p \in periods : \A t \in p.slots \ split : Other(t) \in p.slots
=============================================================================
