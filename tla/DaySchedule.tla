---------------------------- MODULE DaySchedule ----------------------------
(* A plan of the next day made into a schedule of the clock                   *)
(* (controller/tou.go, BuildTOUSchedule), and the test whether a schedule is  *)
(* worth sending to a battery (types/tou.go, IsSignificantlyDifferent).       *)
(* Time is in units of ten minutes, of which a poll knows no finer; a day has *)
(* Hours hours. Rates are in hundred-thousandths of a dollar. A dispatch is a *)
(* battery mode and a solar mode: "self" is all that exports nothing, "solar" *)
(* and "hold" export the sun in load and standby, "grid" exports the battery, *)
(* "all" both.                                                                *)
EXTENDS Integers, SequencesExt

CONSTANTS
    Hours,          \* hours of a day: 24
    Jump,           \* the moment the clocks change
    By              \* by how many units: an hour on, an hour back, or none

(* What the constants are, assumed by what instantiates this module.          *)
DayAssumptions ==
    /\ Hours \in Nat \ {0} /\ Jump \in Nat /\ By \in {-6, 0, 6}

Hour == 6
Day == Hours * Hour
MinTOUPeakSpread == 2000                \* minTOUPeakSpreadDollars
PriceMateriality == 3000                \* priceMaterialityThresholdDollars
CoalesceRate == 1500                    \* TOUCoalesceRateThresholdDollars
ScheduleRate == 5010                    \* touScheduleRateThresholdDollars
ScheduleTime == 1                       \* touScheduleTimeThresholdMinutes: one unit, not two

Dispatches == {"self", "solar", "hold", "grid", "all"}
Exports(dispatch) == dispatch # "self"

(* The clock at a moment. The clocks change at a full hour, never at midnight. *)
Local(t) == IF t >= Jump THEN t + By ELSE t
Clock(t) == Local(t) % Day
NextMidnight(t) == LET m == t + Day - Clock(t) IN IF t < Jump /\ Jump <= m THEN m - By ELSE m

-----------------------------------------------------------------------------
(* A plan is a sequence of intervals, one after the other, from now on:       *)
(* [start, end, import, export, dispatch], rates by the kilowatt hour.        *)
(* A schedule is a sequence of pieces of the clock day:                       *)
(* [from, to, import, export, dispatch, peak], the rates times their length,  *)
(* so that merging pieces adds them and their mean is import / (to - from).   *)
Long(p) == p.to - p.from
AtRate(p) == [p EXCEPT !.import = @ * Long(p), !.export = @ * Long(p)]
Near(r, m, s, n, by) == LET d == r * n - s * m IN d <= by * m * n /\ -d <= by * m * n
NearRates(p, q, by) == Near(p.import, Long(p), q.import, Long(q), by) /\ Near(p.export, Long(p), q.export, Long(q), by)
SlipJoined(p, q) == [p EXCEPT !.import = @ + q.import, !.export = @ + q.export]
Joined(p, q) == [p EXCEPT !.to = q.to, !.import = @ + q.import, !.export = @ + q.export]

(* The horizon: a day from now, or from the start of the hour.                *)
Override(plan) == Exports(plan[1].dispatch)
HorizonStart(plan) == plan[1].start - IF Override(plan) THEN 0 ELSE Clock(plan[1].start) % Hour
HorizonEnd(plan) == HorizonStart(plan) + Day
Within(plan) == {i \in DOMAIN plan : plan[i].end > HorizonStart(plan) /\ plan[i].start < HorizonEnd(plan)}

UtilityPeak(plan) ==
    LET rates == {plan[i].import : i \in Within(plan)}
    IN  {r \in rates : Max(rates) - Min(rates) >= MinTOUPeakSpread /\ r >= Max(rates) - PriceMateriality}
Peak(plan) == LET dear == UtilityPeak(plan) IN {i \in DOMAIN plan : Exports(plan[i].dispatch) \/ plan[i].import \in dear}
PeakAfterHorizonEnd(plan) == LET horizon == HorizonEnd(plan) IN
    \E i \in Peak(plan) : plan[i].end > horizon /\ plan[i].start <= horizon

(* The intervals within the horizon by the clock, cut at midnight.            *)
SlipSlice(p, from, end, peak) ==
    [from |-> Clock(from), to |-> Clock(end),
     import |-> p.import, export |-> p.export, dispatch |-> p.dispatch, peak |-> peak]
Slice(p, from, end, peak) ==
    [from |-> Clock(from), to |-> IF end = NextMidnight(from) THEN Day ELSE Clock(end),
     import |-> p.import, export |-> p.export, dispatch |-> p.dispatch, peak |-> peak]
Slices(p, from, end, peak) ==
    LET night == NextMidnight(from)
        cut == IF night < end THEN <<Slice(p, from, night, peak), Slice(p, night, end, peak)>>
                              ELSE <<Slice(p, from, end, peak)>>
    IN  SelectSeq(cut, LAMBDA s : s.from < s.to)
RawSlices(plan) ==
    LET peak == Peak(plan)
        horizon == HorizonEnd(plan)
    IN  FlattenSeq([i \in 1..Max(Within(plan)) |->
            Slices(plan[i], IF i = 1 THEN HorizonStart(plan) ELSE plan[i].start, Min({plan[i].end, horizon}), i \in peak)])

(* Tomorrow's peak that reaches up to now stays as now is, while now lasts.   *)
Overlap(raw) == {k \in 2..Len(raw) : \A j \in k..Len(raw) :
    raw[j].peak /\ raw[j].to % Day = raw[IF j = Len(raw) THEN 1 ELSE j + 1].from}
Frozen(plan, raw) ==
    IF raw[1].peak \/ PeakAfterHorizonEnd(plan)
    THEN [k \in DOMAIN raw |-> IF k \in Overlap(raw) THEN [raw[1] EXCEPT !.from = raw[k].from, !.to = raw[k].to] ELSE raw[k]]
    ELSE raw

(* The pieces in the order of the clock, each to begin where the last ended.  *)
InOrder(raw) == SortSeq(raw, LAMBDA p, q : p.from < q.from \/ (p.from = q.from /\ p.to < q.to))
Filler(from, to, like) == [like EXCEPT !.from = from, !.to = to, !.dispatch = "self", !.peak = FALSE]
Reached(clean) == IF clean = <<>> THEN 0 ELSE Last(clean).to
Placed(clean, s) ==
    IF s.to <= Reached(clean) THEN clean
    ELSE IF s.from <= Reached(clean) THEN Append(clean, [s EXCEPT !.from = Reached(clean)])
    ELSE clean \o <<Filler(Reached(clean), s.from, s), s>>
CleanSlices(sorted) ==
    LET clean == FoldLeft(Placed, <<>>, sorted)
    IN  IF Reached(clean) < Day THEN Append(clean, Filler(Reached(clean), Day, Last(clean))) ELSE clean

CanMerge(p, q) == p.dispatch = q.dispatch /\ p.peak = q.peak /\ NearRates(p, q, CoalesceRate)
Coalesced(slices) == FoldLeft(LAMBDA done, s :
    IF done # <<>> /\ CanMerge(Last(done), s) THEN Append(Front(done), Joined(Last(done), s)) ELSE Append(done, s),
    <<>>, slices)

BuildTOUSchedule(plan) ==
    LET clean == CleanSlices(InOrder(Frozen(plan, RawSlices(plan))))
    IN  Coalesced([i \in DOMAIN clean |-> AtRate(clean[i])])

-----------------------------------------------------------------------------
(* What a schedule does: pieces of one dispatch are one, whatever their rate. *)
Operational(schedule) == FoldLeft(LAMBDA done, p :
    LET norm == [p EXCEPT !.peak = Exports(p.dispatch)]
    IN  IF done # <<>> /\ Last(done).dispatch = norm.dispatch /\ Last(done).to = norm.from
        THEN Append(Front(done), Joined(Last(done), norm)) ELSE Append(done, norm),
    <<>>, schedule)

CoversTime(p, clock) == clock \in p.from..(p.to - 1)
ActiveStart(s, o, i, clock) ==
    /\ i > 1 /\ i <= Len(s)
    /\ s[i - 1].to = s[i].from /\ o[i - 1].to = o[i].from
    /\ CoversTime(s[i], clock) /\ CoversTime(o[i], clock)
Apart(a, b) == a - b > ScheduleTime \/ b - a > ScheduleTime

IsSignificantlyDifferent(schedule, other, clock) ==
    LET s == Operational(schedule)
        o == Operational(other)
    IN  \/ Len(s) # Len(o)
        \/ \E i \in DOMAIN s :
            \/ s[i].dispatch # o[i].dispatch
            \/ s[i].peak /\ ~NearRates(s[i], o[i], ScheduleRate)
            \/ Apart(s[i].from, o[i].from) /\ ~ActiveStart(s, o, i, clock)
            \/ Apart(s[i].to, o[i].to) /\ ~ActiveStart(s, o, i + 1, clock)

(* Does the next export begin within the hour, and export the sun only?       *)
(* hasUpcomingSolarOnlyExportWithinHour (ess/tesla.go)                        *)
SlipUpcomingSolarOnlyExport(schedule, clock) ==
    \E p \in Range(schedule) : p.dispatch \in {"solar", "hold"} /\ p.from \div Hour = clock \div Hour
UpcomingSolarOnlyExport(schedule, clock) ==
    LET ahead(p) == (p.from - clock) % Day
        soon == {i \in DOMAIN schedule : Exports(schedule[i].dispatch) /\ ahead(schedule[i]) \in 1..(Hour - 1)}
    IN  \E i \in soon : /\ schedule[i].dispatch \in {"solar", "hold"}
                        /\ \A j \in soon : ahead(schedule[i]) <= ahead(schedule[j])
=============================================================================
