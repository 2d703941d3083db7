----------------------------- MODULE BatteryWalk -----------------------------
(* A plan's walk over its intervals (controller/plan_blocks.go                *)
(* expandBlockPlan, getHardOverride): in every interval what the block asks   *)
(* for, or what an outage, an event of the utility (VPP), a car on charge or  *)
(* a free price imposes, and what it does to the battery. Events are those of *)
(* extractVPPAnchors.                                                         *)
(*                                                                            *)
(* What an interval does to the battery and at the meter is stepPhysics       *)
(* (controller/plan.go). Energies are whole units: those of the battery are   *)
(* counted in what they will deliver, so that a unit stored takes Loss units  *)
(* from sun or grid, and one delivered is one (the round-trip efficiency is   *)
(* 1 / Loss, losses both ways). A percentage of charge is the same share of   *)
(* Capacity, and a tolerance of a percent or less is none.                    *)
EXTENDS Integers, FiniteSets

CONSTANTS
    Capacity,
    MaxCharge, MaxDischarge,    \* per interval, at the meter
    Loss,
    Horizon,        \* intervals
    Lead,           \* vppStandbyLeadTime, in intervals
    Loads, Suns, Reserves,
    EventSets,      \* the events a plan may have
    Outages, Cars   \* may the grid be gone, may a car charge at the first interval

ASSUME PhysicsAssumption ==
    /\ Capacity \in Nat \ {0} /\ MaxCharge \in Nat /\ MaxDischarge \in Nat
    /\ Loss \in Nat \ {0} /\ MaxCharge % Loss = 0

BatteryModes == {"charge", "load", "export", "standby"}
SolarModes == {"any", "export", "none"}

(* actionCandidate; a target or an override of zero is none.                  *)
Actions == [battery : BatteryModes, solar : SolarModes, target : 0..Capacity, override : 0..Capacity]

(* planInterval, and whether the battery may be charged at all: what the sun  *)
(* and the home draw comes in whole losses.                                   *)
Intervals == [load : Nat, solar : Nat, reserve : 0..Capacity, charges : BOOLEAN]

Least(x, y) == IF x <= y THEN x ELSE y
Above(x, y) == IF x > y THEN x - y ELSE 0

-----------------------------------------------------------------------------
(* The level the battery is not discharged below: an event's own, else the    *)
(* target of an export where it is higher, else the reserve.                  *)
SlipFloor(a, v) == IF a.override > 0 THEN a.override ELSE IF a.battery = "export" THEN a.target ELSE v.reserve
Floor(a, v) ==
    IF a.override > 0 THEN a.override
    ELSE IF a.battery = "export" /\ a.target > v.reserve THEN a.target
    ELSE v.reserve

Deliverable(e, a, v) == Least(MaxDischarge, Above(e, Floor(a, v)))

(* The battery, not the sun, is the first to cover the home.                  *)
BatteryFirst(a) == a.battery = "export" \/ (a.battery = "load" /\ a.solar = "export")

(* What the battery cannot cover of the home the sun does, before it exports. *)
SlipToHome(e, a, v) == IF BatteryFirst(a) THEN 0 ELSE Least(v.solar, v.load)
ToHome(e, a, v) ==
    Least(v.solar, IF BatteryFirst(a) THEN Above(v.load, Deliverable(e, a, v)) ELSE v.load)
Surplus(e, a, v) == v.solar - ToHome(e, a, v)
Unmet(e, a, v) == v.load - ToHome(e, a, v)

(* What the sun puts into the battery.                                        *)
SlipStored(e, a, v) == IF BatteryFirst(a) THEN 0 ELSE Least(Surplus(e, a, v), MaxCharge)
Stored(e, a, v) ==
    IF BatteryFirst(a) \/ ~v.charges \/ (a.solar = "export" /\ a.battery # "charge") THEN 0
    ELSE Least(Surplus(e, a, v), Least(MaxCharge, (Capacity - e) * Loss))
Sunned(e, a, v) == e + Stored(e, a, v) \div Loss

SunExported(e, a, v) == IF a.solar = "none" THEN 0 ELSE Surplus(e, a, v) - Stored(e, a, v)
Curtailed(e, a, v) == IF a.solar = "none" THEN Surplus(e, a, v) - Stored(e, a, v) ELSE 0

(* What the grid puts into the battery, up to the target.                     *)
Bought(e, a, v) ==
    IF a.battery # "charge" \/ ~v.charges THEN 0
    ELSE Least(MaxCharge - Stored(e, a, v),
               Above(IF a.target = 0 THEN Capacity ELSE a.target, Sunned(e, a, v)) * Loss)

(* What the battery gives the home, and then the grid.                        *)
SlipGiven(e, a, v) ==
    IF a.battery = "standby" THEN 0 ELSE Least(Unmet(e, a, v), Deliverable(Sunned(e, a, v), a, v))
Given(e, a, v) ==
    IF a.battery \notin {"load", "export"} THEN 0
    ELSE Least(Unmet(e, a, v), Deliverable(Sunned(e, a, v), a, v))
SlipSold(e, a, v) == IF a.battery # "export" THEN 0 ELSE Deliverable(Sunned(e, a, v), a, v)
Sold(e, a, v) ==
    IF a.battery # "export" THEN 0
    ELSE Deliverable(Sunned(e, a, v), a, v) - Given(e, a, v)

After(e, a, v) ==
    Sunned(e, a, v) + Bought(e, a, v) \div Loss - Given(e, a, v) - Sold(e, a, v)

Imported(e, a, v) == Unmet(e, a, v) - Given(e, a, v) + Bought(e, a, v)
Exported(e, a, v) == SunExported(e, a, v) + Sold(e, a, v)

-----------------------------------------------------------------------------
Event == [start : 0..Horizon, end : 0..Horizon, soc : 0..Capacity,
          mandatory : BOOLEAN, paid : BOOLEAN, out : BOOLEAN]

ASSUME WalkAssumption ==
    /\ Horizon \in Nat \ {0} /\ Lead \in Nat \ {0}
    /\ Loads \subseteq Nat /\ Suns \subseteq Nat /\ Reserves \subseteq 0..Capacity
    /\ EventSets \subseteq SUBSET Event /\ Outages \subseteq BOOLEAN /\ Cars \subseteq BOOLEAN
    /\ \A x \in Loads \union Suns : x % Loss = 0     \* the unit is small enough

VARIABLES
    site,       \* the settings and the status the plan is made with
    events,     \* event: start, end (first interval after), soc, mandatory, paid
    step, energy,
    last,       \* the interval just walked: its level before, its action, the interval
    atStart     \* per event: the level at its first interval

vars == <<site, events, step, energy, last, atStart>>

NoStep == [level |-> -1]

(* extractVPPAnchors: those opted out of, and those over, are no events; one  *)
(* that is not mandatory is taken to be paid for.                             *)
Kept(E) == {[x EXCEPT !.paid = @ \/ ~x.mandatory] : x \in {y \in E : ~y.out /\ y.end > 0}}

TypeOK ==
    /\ site \in [grid : BOOLEAN, export : BOOLEAN, charges : BOOLEAN,
                 solar : {"any", "none"}, outage : BOOLEAN, car : BOOLEAN]
    /\ events \in SUBSET Event /\ \A x \in events : x.end > 0
    /\ step \in 0..Horizon /\ energy \in 0..Capacity
    /\ atStart \in [events -> -1..Capacity]

Init ==
    /\ site \in [grid : BOOLEAN, export : BOOLEAN, charges : BOOLEAN,
                 solar : {"any", "none"}, outage : Outages, car : Cars]
    /\ \E E \in EventSets : events = Kept(E)
    /\ step = 0 /\ energy \in 0..Capacity /\ last = NoStep
    /\ atStart = [x \in events |-> IF x.start = 0 THEN energy ELSE -1]

-----------------------------------------------------------------------------
Running(x) == x.start <= step /\ step < x.end
Preparing(x) == x.mandatory /\ x.start - Lead <= step /\ step < x.start
Earlier(x, y) == x.start < y.start

(* The first event, by its start, that runs or is prepared for.               *)
Governing ==
    {x \in events : /\ Running(x) \/ Preparing(x)
                    /\ \A y \in events : (Running(y) \/ Preparing(y)) => ~Earlier(y, x)}

Act(mode, target, override) ==
    [battery |-> mode, solar |-> site.solar, target |-> target, override |-> override]

(* While it runs: out of the battery to the event's level, and no lower. An   *)
(* event that is not mandatory goes to the interval's reserve.                *)
SlipDuring(x, v) == Act(IF site.export \/ x.paid THEN "export" ELSE "load", 0, 0)
During(x, v) ==
    LET level == IF x.mandatory THEN x.soc ELSE v.reserve
    IN  IF energy <= level THEN Act("standby", 0, level)
        ELSE Act(IF site.export \/ x.paid THEN "export" ELSE "load", level, level)

(* For two hours before a mandatory event: charged to the full, then held.    *)
SlipBefore(x, v) == Act("standby", 0, 0)
Before(x, v) ==
    IF energy < Capacity /\ site.grid /\ site.charges THEN Act("charge", Capacity, 0)
    ELSE Act("standby", 0, 0)

(* getHardOverride. The car does not hold back a block that charges or        *)
(* exports.                                                                   *)
Overrides(v, wish, free) ==
    IF site.outage THEN {Act("load", 0, 0)}
    ELSE IF Governing # {}
    THEN {IF Running(x) THEN During(x, v) ELSE Before(x, v) : x \in Governing}
    ELSE IF step = 0 /\ site.car /\ wish.battery \notin {"charge", "export"}
    THEN {Act("standby", 0, 0)}
    ELSE IF free THEN {Act("charge", Capacity, 0)} ELSE {}

(* What a block may ask for, prices aside (isBlockActionAllowed): the grid    *)
(* charges, and the battery and the sun export, only where the site lets them.*)
Wishes(v) ==
    {Act(m, 0, 0) : m \in {"load", "standby"}}
    \union {[Act("load", 0, 0) EXCEPT !.solar = "export"] : x \in {y \in {1} : site.solar = "any"}}
    \union {Act("charge", t, 0) : t \in {u \in v.reserve..Capacity : u > energy /\ site.grid /\ site.charges}}
    \union {Act("export", t, 0) : t \in {u \in v.reserve..Capacity : site.export /\ energy > v.reserve}}

Walk ==
    /\ step < Horizon
    /\ \E load \in Loads, sun \in Suns, r \in Reserves, free \in BOOLEAN :
        LET v == [load |-> load, solar |-> sun, reserve |-> r, charges |-> site.charges]
        IN  \E wish \in Wishes(v) :
            \E a \in IF Overrides(v, wish, free) = {} THEN {wish} ELSE Overrides(v, wish, free) :
                /\ energy' = After(energy, a, v)
                /\ last' = [level |-> energy, act |-> a, interval |-> v]
    /\ step' = step + 1
    /\ atStart' = [x \in events |-> IF x.start = step' THEN energy' ELSE atStart[x]]
    /\ UNCHANGED <<site, events>>

Done == step = Horizon /\ UNCHANGED vars

Next == Walk \/ Done

Spec == Init /\ [][Next]_vars

-----------------------------------------------------------------------------
(* An interval charges the battery or discharges it, not both: the meter, the *)
(* sun and the home account for its change, at the loss of the one direction. *)
Balanced ==
    last # NoStep =>
        LET e == last.level   a == last.act   v == last.interval
            net == v.solar + Imported(e, a, v) - v.load - Exported(e, a, v) - Curtailed(e, a, v)
        IN  net = IF energy >= e THEN Loss * (energy - e) ELSE energy - e

(* Sun and grid together stay within what the battery takes in an interval,   *)
(* home and grid within what it gives.                                        *)
WithinPower ==
    last # NoStep =>
        LET e == last.level   a == last.act   v == last.interval
        IN  /\ Stored(e, a, v) + Bought(e, a, v) <= MaxCharge
            /\ Given(e, a, v) + Sold(e, a, v) <= MaxDischarge

(* One meter cannot buy and sell in the same interval, whatever the mode, the *)
(* limits of the battery and its levels.                                      *)
NeverBuysAndSells ==
    last # NoStep =>
        LET e == last.level   a == last.act   v == last.interval
        IN  Imported(e, a, v) = 0 \/ Exported(e, a, v) = 0

(* No interval takes the battery below its reserve, or below the level of an  *)
(* event, or further down if it was there already.                            *)
ReserveKept ==
    last # NoStep =>
        LET a == last.act
        IN  energy >= Least(last.level, IF a.override > 0 THEN a.override ELSE last.interval.reserve)

(* A mandatory event finds the battery full, where the lead before it is long *)
(* enough to fill it, the plan had all of it, could charge, and no event that *)
(* began before it ran on into the lead.                                      *)
FullAtMandatory ==
    \A x \in events :
        (/\ x.mandatory /\ Lead * MaxCharge >= Capacity * Loss /\ Lead <= x.start /\ x.start <= step
         /\ site.grid /\ site.charges /\ ~site.outage
         /\ \A y \in events \ {x} : y.end + Lead <= x.start \/ x.start <= y.start)
            => atStart[x] = Capacity

(* While a mandatory event runs, and when it ends, the plan's battery is at   *)
(* its level at least, or where it started, unless an event that began no     *)
(* later ran beside it.                                                       *)
EventLevelKept ==
    \A x \in events :
        (/\ x.mandatory /\ x.soc > 0 /\ x.start <= step /\ step <= x.end /\ ~site.outage
         /\ \A y \in events \ {x} : y.end <= x.start \/ x.start < y.start)
            => energy >= Least(atStart[x], x.soc)

(* An event finds its battery as it must, and the energy of every step adds up*)
(* (controller/plan_blocks.go, controller/plan.go).                           *)
EventsInv == TypeOK /\ FullAtMandatory /\ EventLevelKept /\ Balanced
=============================================================================
