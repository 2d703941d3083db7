\* What plans do to a battery and how they are sent to it, where that goes well.
\* Schedules stop at their last poll.
CHECK_DEADLOCK FALSE
CONSTANTS
    Parts = {"events", "meter", "franklin", "tesla", "franklinRates", "teslaRates", "back", "forward", "peaks"}
    Capacity = 4
    MaxCharge = 4
    MaxDischarge = 3
    Loss = 2
    Horizon = 4
    Lead = 2
    Loads = {0, 2}
    Suns = {0, 4}
    Reserves = {1, 3}
    EventSets <- MCEventSets
    Outages = {TRUE, FALSE}
    Cars = {TRUE, FALSE}
SPECIFICATION PartsSpec
INVARIANTS
    EventsInv
    WithinPower
    NeverBuysAndSells
    ReserveKept
    ScheduleInv
PROPERTIES
    SentAtChanges
