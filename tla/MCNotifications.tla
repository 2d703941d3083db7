---------------------------- MODULE MCNotifications ----------------------------
(* What a user is told. A behaviour is of one part:                           *)
(*   alone      one update, the user comes and goes, pushes fail              *)
(*   gone       two updates, endpoints that the push service has forgotten    *)
(*   browser    the browser replaces and revokes endpoints                    *)
(*   overlap    two updates in the hour of the summary                        *)
(*   busy       the user subscribes while the last device is removed, or the  *)
(*              new endpoint before it replaces the old one                   *)
(*   spikes     high prices; a push may be refused                            *)
(*   blind      high prices; the log may be unreadable                        *)
(*   dips       low prices; hours of the price history may be missing         *)
(*   lows       low prices judged against three days of history               *)
(*   highs      high prices judged against three days of history              *)
(* Days of alerts have four hours: night, morning, noon, evening. Prices are  *)
(* around a typical ten cents.                                                *)
EXTENDS Integers, Sequences, FiniteSets, TLC

CONSTANTS
    Parts,                                          \* the parts looked at
    Endpoints, Updates,                             \* of Alerts
    DayHours, SummaryHour, QuietHours, SunHours,
    VppWindow, LoadCooldown,
    ManyHours, FewHours, ManyActs, FewActs, MaxFailed,  \* its bounds
    SpikeLevels, DipLevels,                         \* of PriceAlerts
    TypicalPrice, UserDelta, HighPrice, LowPrice,
    LongForecast, ShortForecast, MaxRefused,        \* its bounds
    BaselineDays, LowLevels, LowCosts, HighLevels, HighCosts    \* of PriceBaseline

VARIABLES
    part,
    kind, hour, subs, prefs, log, dead, moving, cleaning, up, wants, told, acts, faults,    \* Alerts
    prices, last, quiet, updated, sends, refused,                           \* PriceAlerts
    hist, cost                                                              \* PriceBaseline

devices == <<kind, hour, subs, prefs, log, dead, moving, cleaning, up, wants, told, acts, faults>>
warnings == <<prices, last, quiet, updated, sends, refused>>
baseline == <<hist, cost>>

-----------------------------------------------------------------------------
Alone == INSTANCE Alerts WITH
    Updates <- {1}, Kinds <- {"summary", "solar", "vpp", "load"},
    HoursPerDay <- DayHours, Window <- VppWindow, Cooldown <- LoadCooldown,
    Acts <- {"subscribe", "unsubscribe", "prefer"}, Faults <- {"failed"},
    MaxHours <- ManyHours, MaxActs <- ManyActs, MaxFaults <- MaxFailed
Gone == INSTANCE Alerts WITH
    Kinds <- {"vpp"},
    HoursPerDay <- DayHours, Window <- VppWindow, Cooldown <- LoadCooldown,
    Acts <- {"subscribe", "rotate"}, Faults <- {"append"},
    MaxHours <- FewHours, MaxActs <- ManyActs, MaxFaults <- MaxFailed
Browser == INSTANCE Alerts WITH
    Updates <- {1}, Kinds <- {"summary", "solar", "vpp", "load"},
    HoursPerDay <- DayHours, Window <- VppWindow, Cooldown <- LoadCooldown,
    Acts <- {"rotate", "revoke"}, Faults <- {"failed"},
    MaxHours <- ManyHours, MaxActs <- FewActs, MaxFaults <- MaxFailed
Overlap == INSTANCE Alerts WITH
    Endpoints <- {"a"}, Updates <- {1, 2}, Kinds <- {"summary"},
    HoursPerDay <- DayHours, Window <- VppWindow, Cooldown <- LoadCooldown,
    Acts <- {}, Faults <- {}, MaxHours <- 1, MaxActs <- 0, MaxFaults <- 0
Busy == INSTANCE Alerts WITH
    Updates <- {1}, Kinds <- {"vpp"},
    HoursPerDay <- DayHours, Window <- VppWindow, Cooldown <- LoadCooldown,
    Acts <- {"subscribe", "prefer", "rotate"}, Faults <- {},
    MaxHours <- 1, MaxActs <- ManyActs, MaxFaults <- 0

Spikes == INSTANCE PriceAlerts WITH
    Levels <- SpikeLevels, Ahead <- LongForecast, Reference <- TypicalPrice, MinDelta <- UserDelta,
    EscalatedHigh <- HighPrice, EscalatedLow <- LowPrice, Gaps <- FALSE,
    Faults <- {"refused"}, MaxFaults <- MaxRefused, faults <- refused
Blind == INSTANCE PriceAlerts WITH
    Levels <- SpikeLevels, Ahead <- ShortForecast, Reference <- TypicalPrice, MinDelta <- UserDelta,
    EscalatedHigh <- HighPrice, EscalatedLow <- LowPrice, Gaps <- FALSE,
    Faults <- {"refused", "logs"}, MaxFaults <- MaxRefused, faults <- refused
Dips == INSTANCE PriceAlerts WITH
    Levels <- DipLevels, Ahead <- ShortForecast, Reference <- TypicalPrice, MinDelta <- UserDelta,
    EscalatedHigh <- HighPrice, EscalatedLow <- LowPrice, Gaps <- TRUE,
    Faults <- {}, MaxFaults <- 0, faults <- refused

MCDipLevels == {-60, -10, 30, 100}
MCLowPrice == -50
MCLowLevels == {-30, 20, 90}
MCLowCosts == {-60, -30, 0, 20, 40, 50}

Lows == INSTANCE PriceBaseline WITH Days <- BaselineDays, Levels <- LowLevels, Costs <- LowCosts
Highs == INSTANCE PriceBaseline WITH Days <- BaselineDays, Levels <- HighLevels, Costs <- HighCosts

ASSUME PartsAssumption ==
    /\ Parts \subseteq {"alone", "gone", "browser", "overlap", "busy",
                        "spikes", "blind", "dips", "lows", "highs"}
    /\ Alone!Assumptions /\ Gone!Assumptions /\ Browser!Assumptions
    /\ Overlap!Assumptions /\ Busy!Assumptions
    /\ Spikes!Assumptions /\ Blind!Assumptions /\ Dips!Assumptions
    /\ Lows!Assumptions /\ Highs!Assumptions

-----------------------------------------------------------------------------
OfDevices == {"alone", "gone", "browser", "overlap", "busy"}
OfPrices == {"spikes", "blind", "dips"}

PartsInit ==
    /\ part \in Parts
    /\ CASE part = "gone" -> Gone!Init
         [] part = "browser" -> Browser!Init
         [] part = "overlap" -> Overlap!Init
         [] part = "busy" -> Busy!Init
         [] OTHER -> Alone!Init /\ (part \notin OfDevices => kind = "vpp" /\ subs = <<CHOOSE e \in Endpoints : TRUE>>)
    /\ CASE part = "blind" -> Blind!Init
         [] part = "dips" -> Dips!Init
         [] OTHER -> Spikes!Init /\ (part \notin OfPrices => ~quiet /\ prices = CHOOSE p \in Spikes!Forecasts : TRUE)
    /\ CASE part = "lows" -> Lows!Init
         [] part = "highs" -> Highs!Init
         [] OTHER -> hist = <<[w \in -1..1 |-> 100]>> /\ cost = 100

ForDevices(step) == step /\ UNCHANGED <<part, warnings, baseline>>
ForPrices(step) == step /\ UNCHANGED <<part, devices, baseline>>
ForBaseline(step) == step /\ UNCHANGED <<part, devices, warnings>>

PartsNext ==
    \/ part = "alone" /\ ForDevices(Alone!Next)
    \/ part = "gone" /\ ForDevices(Gone!Next)
    \/ part = "browser" /\ ForDevices(Browser!Next)
    \/ part = "overlap" /\ ForDevices(Overlap!Next)
    \/ part = "busy" /\ ForDevices(Busy!Next)
    \/ part = "spikes" /\ ForPrices(Spikes!Next)
    \/ part = "blind" /\ ForPrices(Blind!Next)
    \/ part = "dips" /\ ForPrices(Dips!Next)
    \/ part = "lows" /\ ForBaseline(Lows!Next)
    \/ part = "highs" /\ ForBaseline(Highs!Next)

vars == <<part, devices, warnings, baseline>>
PartsSpec == PartsInit /\ [][PartsNext]_vars

-----------------------------------------------------------------------------
(* The properties of the modules, in the parts that they are about.            *)
AlertedOnce ==
    /\ part = "alone" => Alone!AlertedOnce
    /\ part = "browser" => Browser!AlertedOnce
PreferencesKept == part = "alone" => Alone!PreferencesKept
PreferencesNeedADevice ==
    /\ part = "alone" => Alone!PreferencesNeedADevice
    /\ part = "gone" => Gone!PreferencesNeedADevice
EndpointsDistinct == part = "alone" => Alone!EndpointsDistinct

(* None of these holds (README, Departures): updates that overlap alert once, *)
(* a pruning leaves the preferences of a user who has a device again, and a   *)
(* replaced endpoint is one of its user only.                                 *)
OverlapAlertsOnce == part = "overlap" => Overlap!AlertedOnce
PruningKeepsPreferences == part = "busy" => Busy!PreferencesKept
RotatedStayDistinct == part = "busy" => Busy!EndpointsDistinct

OneHourLockout == part = "spikes" => Spikes!OneHourLockout
SameSpikeIsToldOnce == [][part = "spikes" => Spikes!SpikeIsNews]_vars
SameDipIsToldOnce == [][part = "dips" => Dips!DipIsNews]_vars
EverySpikeIsKnown ==
    /\ part = "spikes" => Spikes!EverySpikeIsKnown
    /\ part = "blind" => Blind!EverySpikeIsKnown
HeldSpikeIsTheSame ==
    /\ part = "spikes" => Spikes!HeldSpikeIsTheSame
    /\ part = "blind" => Blind!HeldSpikeIsTheSame

RepeatedDipIsNoNews == part = "lows" => Lows!RepeatedDipIsNoNews
OneSpikeMasksNothing == part = "highs" => Highs!OneSpikeMasksNothing
DailyPeakIsNoSpike == part = "highs" => Highs!DailyPeakIsNoSpike
SensitiveUsersHearMore ==
    /\ part = "lows" => Lows!SensitiveUsersHearMore
    /\ part = "highs" => Highs!SensitiveUsersHearMore

(* Devices and preferences of a user belong together, an endpoint is one      *)
(* device's, and an alert is delivered once (notifications.go).               *)
DevicesInv ==
    /\ part = "alone" => Alone!TypeOK
    /\ part = "gone" => Gone!TypeOK
    /\ AlertedOnce /\ PreferencesKept /\ PreferencesNeedADevice /\ EndpointsDistinct
(* A spike is followed by an hour without another, and what is held back is a *)
(* spike that its user knows.                                                 *)
CooldownInv ==
    /\ part = "blind" => Blind!TypeOK
    /\ OneHourLockout /\ EverySpikeIsKnown /\ HeldSpikeIsTheSame
(* One spike, or one dip, is told once.                                       *)
AlertsAreNews == SameSpikeIsToldOnce /\ SameDipIsToldOnce
(* The baseline that prices are compared with: a dip or peak that comes every *)
(* day is none, a single spike hides no other, and who asks to hear more does.*)
BaselineInv == RepeatedDipIsNoNews /\ OneSpikeMasksNothing /\ DailyPeakIsNoSpike /\ SensitiveUsersHearMore
=============================================================================
