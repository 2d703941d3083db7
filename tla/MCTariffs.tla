------------------------------- MODULE MCTariffs -------------------------------
(* A walk over the days of some years, by one part:                           *)
(*   calendar      every day that the tables of Calendar cover                *)
(*   west, east, plains            every rate of these tables                 *)
(*   illinois      the riders of the hourly utilities, and the years they end *)
(*   netBilling    the export credits of California                           *)
EXTENDS Integers, Sequences, FiniteSets, TLC

CONSTANTS
    Parts,              \* the parts looked at
    CreditedByDay, CreditedByHour       \* utilities whose export credits are looked at

VARIABLES part, rate, year, month, day, dow

-----------------------------------------------------------------------------
Dates == INSTANCE Calendar WITH FirstYear <- 2025, LastYear <- 2035

WestTables == INSTANCE TariffsWest WITH FirstYear <- 2026, LastYear <- 2027, Rates <- << >>
West == INSTANCE TariffsWest WITH FirstYear <- 2026, LastYear <- 2027, Rates <- WestTables!WestRates
EastTables == INSTANCE TariffsEast WITH FirstYear <- 2026, LastYear <- 2027, Rates <- << >>
East == INSTANCE TariffsEast WITH FirstYear <- 2026, LastYear <- 2027, Rates <- EastTables!EastRates
PlainsTables == INSTANCE TariffsPlains WITH FirstYear <- 2026, LastYear <- 2028, Rates <- << >>
Plains == INSTANCE TariffsPlains WITH FirstYear <- 2026, LastYear <- 2027, Rates <- PlainsTables!PlainsRates
Illinois == INSTANCE TariffsPlains WITH FirstYear <- 2026, LastYear <- 2028, Rates <- PlainsTables!IllinoisRates

ASSUME PartsAssumption ==
    /\ Parts \subseteq {"calendar", "west", "east", "plains", "illinois", "netBilling"}
    /\ CreditedByDay \union CreditedByHour \subseteq {"sdge", "sce", "pge"}
    /\ Dates!Assumptions /\ West!Assumptions /\ East!Assumptions
    /\ Plains!Assumptions /\ Illinois!Assumptions

-----------------------------------------------------------------------------
PartsInit ==
    /\ part \in Parts
    /\ CASE part = "west" -> West!Begin
         [] part = "east" -> East!Begin
         [] part = "plains" -> Plains!Begin
         [] part = "illinois" -> Illinois!Begin
         [] part = "netBilling" -> WestTables!Init /\ rate = "none"
         [] part = "calendar" -> Dates!Init /\ rate = "none"

PartsNext ==
    /\ UNCHANGED <<part, rate>>
    /\ \/ part = "west" /\ West!Walk
       \/ part = "east" /\ East!Walk
       \/ part = "plains" /\ Plains!Walk
       \/ part = "illinois" /\ Illinois!Walk
       \/ part = "netBilling" /\ WestTables!NextDay
       \/ part = "calendar" /\ Dates!NextDay

vars == <<part, rate, year, month, day, dow>>
PartsSpec == PartsInit /\ [][PartsNext]_vars

-----------------------------------------------------------------------------
(* The properties of the modules, in the parts that they are about. Of SDG&E  *)
(* neither CreditsTheDay nor CreditsTheHour holds.                            *)
GoodFridayIsBeforeEaster == part = "calendar" => Dates!GoodFridayIsBeforeEaster
EveryHolidayIsObserved == part = "calendar" => Dates!EveryHolidayIsObserved
HolidaysAreWeekdays == part = "calendar" => Dates!HolidaysAreWeekdays
WinterTurnsOnSundays == part = "calendar" => Dates!WinterTurnsOnSundays

EveryMomentPricedOnce ==
    /\ part = "west" => West!EveryMomentPricedOnce
    /\ part = "east" => East!EveryMomentPricedOnce
    /\ part = "plains" => Plains!EveryMomentPricedOnce
EveryExportCreditedOnce ==
    /\ part = "west" => West!EveryExportCreditedOnce
    /\ part = "east" => East!EveryExportCreditedOnce
    /\ part = "plains" => Plains!EveryExportCreditedOnce
SegmentsMeet ==
    /\ part = "east" => East!SegmentsMeet
    /\ part = "plains" => Plains!SegmentsMeet
EveryRiderOnce == part = "illinois" => Illinois!EveryRiderOnce
NoRiderTwice == part = "illinois" => Illinois!NoRiderTwice

CreditsTheDay == part = "netBilling" => \A u \in CreditedByDay : WestTables!CreditsTheDay(u)
CreditsTheHour == part = "netBilling" => \A u \in CreditedByHour : WestTables!CreditsTheHour(u)

(* Every moment of every rate has one price, one credit and each rider once,  *)
(* at the boundaries of its segments too, in the calendar of the tariffs: its *)
(* Good Fridays, the Sundays that turn to winter, and the days on which       *)
(* holidays are observed.                                                     *)
TariffsInv ==
    /\ EveryMomentPricedOnce /\ EveryExportCreditedOnce /\ SegmentsMeet
    /\ EveryRiderOnce /\ NoRiderTwice
    /\ CreditsTheDay /\ CreditsTheHour
    /\ GoodFridayIsBeforeEaster /\ EveryHolidayIsObserved /\ HolidaysAreWeekdays /\ WinterTurnsOnSundays
=============================================================================
