--------------------------- MODULE RollingSchedule ---------------------------
(* A battery that exports by its schedule: every poll plans the next day, and *)
(* SetModes (ess/franklin.go, ess/tesla.go) puts the battery in its scheduled *)
(* mode while the plan exports and sends the schedule when it differs from    *)
(* the one the battery has.                                                   *)
(* What the plans want is a window of some dispatch on each of three days; it *)
(* may change from poll to poll, but not in the past.                         *)
EXTENDS TouTariff

CONSTANTS
    Vendor,         \* "tesla" or "franklin"
    Worlds,         \* what may be wanted: a window of each of three days
    ImportAt,       \* the rates at each hour of the clock
    ExportAt,
    Begin, End,     \* bounds: the first poll, and the last
    Gaps,           \* units from one poll to the next
    MaxChanges,     \* bound: how often the plans change
    MaxFaults       \* bound: how many posts fail

(* What the constants are, assumed by what instantiates this module.          *)
Assumptions ==
    /\ DayAssumptions /\ Vendor \in {"tesla", "franklin"}
    /\ {Begin, End, MaxChanges, MaxFaults} \subseteq Nat /\ Gaps \subseteq Nat \ {0}

VARIABLES
    now,            \* the time of the last poll
    world,
    mode,           \* how the battery runs: "self" or "tou"
    rule,           \* what a Tesla may export: "pv_only" or "battery_ok"
    tariff,         \* its schedule: None while it is the owner's
    checked,        \* did the last poll compare its schedule, and send it if need be?
    posted,         \* did the last poll send one?
    changes, faults

vars == <<now, world, mode, rule, tariff, checked, posted, changes, faults>>

None == [pieces |-> <<>>]

-----------------------------------------------------------------------------
(* What the plans want at a moment, and the plan of a poll.                   *)
Wanted(w, t) ==
    LET window == w[Local(t) \div Day + 1]
    IN  IF t > 0 /\ Clock(t) \in window.from..(window.to - 1) THEN window.dispatch ELSE "self"

(* buildPlanningTimeline cuts an hour in pieces of twenty minutes, but leaves *)
(* less than forty in one.                                                    *)
Boundary(from, t) ==
    LET start == Max({from, t - (Clock(t) % Hour)})
    IN  t = start \/ ((t - start) % 2 = 0 /\ Hour - (Clock(t) % Hour) >= 2)
Plan(w, from) ==
    LET starts == SelectSeq([i \in 1..(Day + Hour) |-> from + i - 1],
                            LAMBDA t : Boundary(from, t) /\ ~\E u \in (from + Day)..(t - 1) : Boundary(from, u))
    IN  [i \in 1..(Len(starts) - 1) |->
            [start |-> starts[i], end |-> starts[i + 1], dispatch |-> Wanted(w, starts[i]),
             import |-> ImportAt[Clock(starts[i]) \div Hour], export |-> ExportAt[Clock(starts[i]) \div Hour]]]

-----------------------------------------------------------------------------
Tariff(schedule) == IF Vendor = "tesla" THEN TeslaTariff(schedule) ELSE FranklinTariff(schedule)
ReadBack(t) == IF Vendor = "tesla" THEN ReadTesla(t) ELSE ReadFranklin(t)
SlipMatch(t, schedule, clock) == t = Tariff(schedule)
Match(t, schedule, clock) ==
    t # None /\ IF Vendor = "tesla" THEN TeslaMatch(t, schedule, clock) ELSE FranklinMatch(t, schedule, clock)

(* Franklin's gateway is not given a schedule with a new mode or reserve that *)
(* exports nothing; Tesla's schedule is sent anew with the mode that runs it. *)
Checks(exports, wants, other) ==
    /\ tariff # None \/ exports
    /\ Vendor = "franklin" => exports \/ (mode = wants /\ ~other)
Sends(exports, schedule, clock) ==
    \/ ~Match(tariff, schedule, clock)
    \/ Vendor = "tesla" /\ exports /\ mode # "tou"

(* A Tesla's battery may export, but not when the sun is to within the hour.  *)
Rule(dispatch, schedule, clock) ==
    CASE dispatch \in {"grid", "all"} -> "battery_ok"
      [] dispatch \in {"solar", "hold"} -> "pv_only"
      [] OTHER -> IF UpcomingSolarOnlyExport(schedule, clock) THEN "pv_only" ELSE "battery_ok"

(* The rule, the schedule and the mode are posted in turn, until one fails.   *)
Poll == \E t \in {now + gap : gap \in Gaps}, w \in Worlds :
    /\ t <= End /\ Clock(t) % Hour # 0
    /\ w # world => changes < MaxChanges /\ \A u \in Begin..(t - 1) : Wanted(w, u) = Wanted(world, u)
    /\ LET plan == Plan(w, t)
           exports == Override(plan)
           wants == IF exports THEN "tou" ELSE "self"
           schedule == BuildTOUSchedule(plan)
           allowed == IF Vendor = "tesla" THEN Rule(plan[1].dispatch, schedule, Clock(t)) ELSE rule
           differs == Sends(exports, schedule, Clock(t))
       IN  \E other \in BOOLEAN, fails \in {"none", "rule", "schedule", "mode"} :
           LET sends == Checks(exports, wants, other) /\ differs
           IN  /\ other => Vendor = "franklin" /\ ~exports
               /\ fails # "none" => faults < MaxFaults
               /\ fails = "rule" => allowed # rule
               /\ fails = "schedule" => sends
               /\ fails = "mode" => wants # mode
               /\ now' = t /\ world' = w
               /\ mode' = IF fails = "none" THEN wants ELSE mode
               /\ rule' = IF fails = "rule" THEN rule ELSE allowed
               /\ tariff' = IF sends /\ fails \notin {"rule", "schedule"} THEN Tariff(schedule) ELSE tariff
               /\ checked' = (Checks(exports, wants, other) /\ fails \notin {"rule", "schedule"})
               /\ posted' = (sends /\ fails \notin {"rule", "schedule"})
               /\ changes' = IF w # world THEN changes + 1 ELSE changes
               /\ faults' = IF fails # "none" THEN faults + 1 ELSE faults

Init ==
    /\ now = Begin /\ world \in Worlds
    /\ mode = "self" /\ rule = "pv_only" /\ tariff = None /\ checked = FALSE /\ posted = FALSE
    /\ changes = 0 /\ faults = 0

Next == Poll
Spec == Init /\ [][Next]_vars

-----------------------------------------------------------------------------
TypeOK ==
    /\ now \in Begin..End /\ world \in Worlds /\ mode \in {"self", "tou"} /\ rule \in {"pv_only", "battery_ok"}
    /\ \A p \in Range(tariff.pieces) : p.tier \in Tiers
    /\ tariff # None => tariff.rates \in [DOMAIN tariff.rates -> [buy : Nat, sell : Nat]] /\ DOMAIN tariff.rates \subseteq Tiers
    /\ checked \in BOOLEAN /\ posted \in BOOLEAN
    /\ changes \in 0..MaxChanges /\ faults \in 0..MaxFaults

(* tou.go:82, "guaranteed to span seamlessly from 00:00 to 24:00 without gaps *)
(* or overlaps", through the vendors' ways of writing it.                     *)
Seamless ==
    LET s == ReadBack(tariff)
    IN  tariff # None =>
        /\ s[1].from = 0 /\ Last(s).to = Day
        /\ \A i \in DOMAIN s : s[i].from < s[i].to /\ (i > 1 => s[i].from = s[i - 1].to)

(* What the battery does by its schedule at a moment, and what was planned: a *)
(* Tesla exports in all of its peak, that of the rates included.              *)
Does(s, t) ==
    LET i == CHOOSE j \in DOMAIN s : CoversTime(s[j], Clock(t))
    IN  IF OnPeak(s[i]) THEN s[i].dispatch ELSE "self"
Dear(t) == LET rates == Range(ImportAt)
           IN  Max(rates) - Min(rates) >= MinTOUPeakSpread /\ ImportAt[Clock(t) \div Hour] >= Max(rates) - PriceMateriality
Peaks(t) == Exports(Wanted(world, t)) \/ Dear(t)
Says(s, t, u) == Does(s, t) = IF Vendor = "tesla" THEN IF Peaks(u) THEN "all" ELSE "self" ELSE Franklins(Wanted(world, u))

(* A battery whose schedule was compared does by it at once what is planned.  *)
NowAsPlanned == checked /\ tariff # None => Says(ReadBack(tariff), now, now)

(* And so for the whole next day, give or take the tolerance of a boundary;   *)
(* but today's or tomorrow's peak about the clock of now is left as it is     *)
(* until it is over, and the start of what is done now may lie elsewhere.     *)
FollowsPlan ==
    LET sent == ReadBack(tariff)
        until(t, P(_)) == \A s \in t..(now + Day) : P(s)
        asNow(s) == Does(sent, s) = Does(sent, now)
        wantedAsNow(s) == Wanted(world, s) = Wanted(world, now)
        left(t) == (\A s \in (t - Day)..now : Peaks(s)) \/ until(t, Peaks)
        shifted(t) == \E u \in now..t : (Says(sent, u, t) /\ until(u + 1, asNow))
                                         \/ (Says(sent, t, u) /\ until(u + 1, wantedAsNow))
    IN  checked /\ tariff # None => \A t \in now..(now + Day - 1) :
            \/ \E u \in (t - ScheduleTime)..(t + ScheduleTime) : Says(sent, t, u)
            \/ left(t) \/ shifted(t)

(* tesla.go: a Powerwall whose next export, less than an hour away, is of the *)
(* sun alone is not allowed to export its battery, nor is one told to now.    *)
NoBatteryAhead ==
    LET soon == {t \in now..(now + Hour - 1) : Exports(Wanted(world, t))}
    IN  checked /\ soon # {} /\ rule = "battery_ok" => Wanted(world, Min(soon)) = "grid"

(* The Fleet API takes no tariff that sells for more than it buys; a dearer   *)
(* tier costs more than a cheaper, and the peak more than all by far.         *)
TariffOrdered ==
    LET buys(tier) == IF tier \in DOMAIN tariff.rates THEN {tariff.rates[tier].buy} ELSE {}
        below(tier, other, by) == \A a \in buys(tier), b \in buys(other) : a + by <= b
    IN  tariff # None =>
        /\ \A r \in Range(tariff.rates) : r.sell <= r.buy
        /\ below("SUPER_OFF_PEAK", "OFF_PEAK", 1) /\ below("OFF_PEAK", "PARTIAL_PEAK", 1)
        /\ \A tier \in Tiers \ {"ON_PEAK"} : below(tier, "ON_PEAK", TeslaMinRateSpread)

(* A schedule is sent again only when the plans changed, or when what is      *)
(* wanted turns now or a day later: never while a window lasts (tou.go,       *)
(* "preventing 20-minute schedule churn").                                    *)
Turns(w, t) == Wanted(w, t) # Wanted(w, t - 1)
SendsAtChanges ==
    checked /\ posted' /\ tariff # None /\ mode' = mode =>
        \/ world' # world
        \/ \E t \in (now + 1)..now' : Turns(world, t) \/ Turns(world, t + Day)
SentAtChanges == [][SendsAtChanges]_vars

(* tou.go:145, "periods within priceMaterialityThresholdDollars (0.5 cents)   *)
(* of the maximum rate represent the utility peak window".                    *)
PeaksAreDearest == \A t \in now..(now + Day - 1) :
    tariff # None /\ Does(ReadBack(tariff), t) # "self" => Exports(Wanted(world, t)) \/ ImportAt[Clock(t) \div Hour] >= Max(Range(ImportAt)) - 500
=============================================================================
