-------------------------------- MODULE MCPlans --------------------------------
(* What plans do to a battery, and how they are sent to it. A behaviour is of *)
(* one part:                                                                  *)
(*   events          four intervals with events, two of which fill the battery *)
(*   meter           two intervals, every level, draw and sun about the limits *)
(*   franklin, tesla           windows of export on three days, by one rate   *)
(*   franklinRates, teslaRates        by rates that have a peak; plans change *)
(*   back, forward             the clocks change                              *)
(*   peaks                     a rate just above the others                   *)
(* Days of schedules have eight hours, with an export in the morning, at noon *)
(* or from noon until midnight; the last hour and the first of the next day   *)
(* are one.                                                                   *)
EXTENDS BatteryWalk, Sequences, TLC

CONSTANTS Parts             \* the parts looked at

VARIABLES
    part,
    now, world, mode, rule, tariff, checked, posted, changes, faults        \* RollingSchedule

schedules == <<now, world, mode, rule, tariff, checked, posted, changes, faults>>

-----------------------------------------------------------------------------
Ev(s, e, l, m) == [start |-> s, end |-> e, soc |-> l, mandatory |-> m, paid |-> FALSE, out |-> FALSE]
MCEventSets ==
    {{}, {Ev(0, 2, 1, TRUE)}, {Ev(2, 4, 1, TRUE)}, {Ev(2, 3, 1, FALSE)},
     {Ev(2, 3, 1, TRUE), Ev(3, 4, 0, TRUE)}, {Ev(2, 4, 1, TRUE), Ev(3, 4, 2, FALSE)},
     {[Ev(1, 3, 2, TRUE) EXCEPT !.paid = TRUE], [Ev(0, 1, 1, FALSE) EXCEPT !.out = TRUE]}}

(* An event may name no level of its own.                                     *)
Meter == INSTANCE BatteryWalk WITH
    Horizon <- 2, Loads <- {0, 2, 6}, Suns <- {0, 4, 8}, Reserves <- {0, 1, 3},
    EventSets <- {{}, {Ev(0, 2, 0, TRUE)}}, Outages <- {FALSE}, Cars <- {FALSE}

W(from, to, dispatch) == [from |-> from * 6, to |-> to * 6, dispatch |-> dispatch]
No == W(0, 0, "self")
Windows == {No, W(0, 3, "hold"), W(2, 5, "solar"), W(2, 8, "grid")}
SomeWorlds == {<<a, b, c>> : a \in Windows \ {W(0, 3, "hold")}, b \in Windows, c \in {No, W(0, 3, "hold")}}
FewWorlds == {<<a, b, No>> : a, b \in Windows \ {W(0, 3, "hold")}}
OneRate == [h \in 0..7 |-> 15000]
PeakRates == [h \in 0..7 |-> CASE h < 2 -> 12000 [] h \in 3..5 -> 40000 [] h = 7 -> 18000 [] OTHER -> 15000]
SunRates == [h \in 0..7 |-> CASE h \in 2..4 -> 30000 [] OTHER -> 8000]
FlatRates == [h \in 0..7 |-> IF h \in 3..4 THEN 17500 ELSE 15000]

Franklin == INSTANCE RollingSchedule WITH
    Hours <- 8, Jump <- 0, By <- 0, Vendor <- "franklin", Worlds <- SomeWorlds,
    ImportAt <- OneRate, ExportAt <- OneRate, Begin <- 1, End <- 70, Gaps <- {2},
    MaxChanges <- 0, MaxFaults <- 1
Tesla == INSTANCE RollingSchedule WITH
    Hours <- 8, Jump <- 0, By <- 0, Vendor <- "tesla", Worlds <- SomeWorlds,
    ImportAt <- OneRate, ExportAt <- OneRate, Begin <- 1, End <- 70, Gaps <- {2},
    MaxChanges <- 0, MaxFaults <- 1
FranklinRates == INSTANCE RollingSchedule WITH
    Hours <- 8, Jump <- 0, By <- 0, Vendor <- "franklin", Worlds <- FewWorlds,
    ImportAt <- PeakRates, ExportAt <- SunRates, Begin <- 1, End <- 60, Gaps <- {2},
    MaxChanges <- 1, MaxFaults <- 0
TeslaRates == INSTANCE RollingSchedule WITH
    Hours <- 8, Jump <- 0, By <- 0, Vendor <- "tesla", Worlds <- FewWorlds,
    ImportAt <- PeakRates, ExportAt <- SunRates, Begin <- 1, End <- 60, Gaps <- {2},
    MaxChanges <- 1, MaxFaults <- 0
Back == INSTANCE RollingSchedule WITH
    Hours <- 8, Jump <- 54, By <- -6, Vendor <- "franklin", Worlds <- SomeWorlds,
    ImportAt <- OneRate, ExportAt <- OneRate, Begin <- 1, End <- 94, Gaps <- {2},
    MaxChanges <- 0, MaxFaults <- 0
Forward == INSTANCE RollingSchedule WITH
    Hours <- 8, Jump <- 54, By <- 6, Vendor <- "franklin", Worlds <- FewWorlds,
    ImportAt <- OneRate, ExportAt <- OneRate, Begin <- 1, End <- 60, Gaps <- {2},
    MaxChanges <- 0, MaxFaults <- 0
Dear == INSTANCE RollingSchedule WITH
    Hours <- 8, Jump <- 0, By <- 0, Vendor <- "tesla", Worlds <- FewWorlds,
    ImportAt <- FlatRates, ExportAt <- OneRate, Begin <- 1, End <- 60, Gaps <- {2},
    MaxChanges <- 0, MaxFaults <- 0

ASSUME PartsAssumption ==
    /\ Parts \subseteq {"events", "meter", "franklin", "tesla", "franklinRates", "teslaRates",
                        "back", "forward", "peaks"}
    /\ Franklin!Assumptions /\ Tesla!Assumptions /\ FranklinRates!Assumptions /\ TeslaRates!Assumptions
    /\ Back!Assumptions /\ Forward!Assumptions /\ Dear!Assumptions

-----------------------------------------------------------------------------
PartsInit ==
    /\ part \in Parts
    /\ CASE part = "events" -> Init
         [] part = "meter" -> Meter!Init
         [] OTHER -> /\ site = [grid |-> TRUE, export |-> TRUE, charges |-> TRUE,
                                solar |-> "any", outage |-> FALSE, car |-> FALSE]
                     /\ events = {} /\ step = 0 /\ energy = 0 /\ last = NoStep
                     /\ atStart = [x \in events |-> -1]
    /\ CASE part = "franklin" -> Franklin!Init
         [] part = "tesla" -> Tesla!Init
         [] part = "franklinRates" -> FranklinRates!Init
         [] part = "teslaRates" -> TeslaRates!Init
         [] part = "back" -> Back!Init
         [] part = "forward" -> Forward!Init
         [] part = "peaks" -> Dear!Init
         [] OTHER -> Franklin!Init /\ world = <<No, No, No>>

ForWalk(next) == next /\ UNCHANGED <<part, schedules>>
ForSchedules(next) == next /\ UNCHANGED <<part, vars>>

PartsNext ==
    \/ part = "events" /\ ForWalk(Next)
    \/ part = "meter" /\ ForWalk(Meter!Next)
    \/ part = "franklin" /\ ForSchedules(Franklin!Next)
    \/ part = "tesla" /\ ForSchedules(Tesla!Next)
    \/ part = "franklinRates" /\ ForSchedules(FranklinRates!Next)
    \/ part = "teslaRates" /\ ForSchedules(TeslaRates!Next)
    \/ part = "back" /\ ForSchedules(Back!Next)
    \/ part = "forward" /\ ForSchedules(Forward!Next)
    \/ part = "peaks" /\ ForSchedules(Dear!Next)

partVars == <<part, vars, schedules>>
PartsSpec == PartsInit /\ [][PartsNext]_partVars

-----------------------------------------------------------------------------
(* The types of the modules in their parts. Balanced, WithinPower,            *)
(* NeverBuysAndSells, ReserveKept, FullAtMandatory and EventLevelKept of      *)
(* BatteryWalk hold of every part as they stand: they say nothing of a        *)
(* battery that has taken no step.                                            *)
TypesOK ==
    /\ TypeOK
    /\ part = "franklin" => Franklin!TypeOK
    /\ part = "tesla" => Tesla!TypeOK
    /\ part = "franklinRates" => FranklinRates!TypeOK
    /\ part = "teslaRates" => TeslaRates!TypeOK
    /\ part = "back" => Back!TypeOK

(* The properties of RollingSchedule, in the parts that they are about.       *)
Seamless ==
    /\ part = "franklin" => Franklin!Seamless
    /\ part = "tesla" => Tesla!Seamless
    /\ part = "franklinRates" => FranklinRates!Seamless
    /\ part = "teslaRates" => TeslaRates!Seamless
    /\ part = "back" => Back!Seamless
FollowsPlan ==
    /\ part = "franklin" => Franklin!FollowsPlan
    /\ part = "tesla" => Tesla!FollowsPlan
    /\ part = "franklinRates" => FranklinRates!FollowsPlan
    /\ part = "teslaRates" => TeslaRates!FollowsPlan
    /\ part = "back" => Back!FollowsPlan
SentAtChanges ==
    [][(part = "franklin" => Franklin!SendsAtChanges) /\ (part = "tesla" => Tesla!SendsAtChanges)]_partVars
NoBatteryAhead ==
    /\ part = "tesla" => Tesla!NoBatteryAhead
    /\ part = "teslaRates" => TeslaRates!NoBatteryAhead
TariffOrdered == part = "teslaRates" => TeslaRates!TariffOrdered

(* Neither of these holds (README, Departures): the battery does now what is  *)
(* planned now, also when the clocks go on, and a peak is dearer than the     *)
(* rest.                                                                      *)
NowAsPlanned == part = "forward" => Forward!NowAsPlanned
PeaksAreDearest == part = "peaks" => Dear!PeaksAreDearest

(* The days of a schedule meet without a gap, ask for what the plan asks for, *)
(* never ahead of it, and name peaks above what is not (RollingSchedule).     *)
ScheduleInv == TypesOK /\ Seamless /\ FollowsPlan /\ NoBatteryAhead /\ TariffOrdered
=============================================================================
