\* What instances keep in memory, where it is kept well.
\* Flags and limiters stop at their last minute.
CHECK_DEADLOCK FALSE
CONSTANTS
    Parts = {"steady", "down", "served", "alone", "joined", "newSite", "month", "pages", "monthEnd", "hit",
             "cached", "edited", "rules", "limits"}
    SteadyCalls = {1, 2}  AloneSites = {"home", "farm"}  AgileDays = 3  AgileLookback = 1  AgileFaults = 2
    MonthCalls = {1, 2}  MonthDays = 2  MonthRecent = 1  MonthFaults = 2
    RuleSites = {"first", "second"}  RuleBucket <- TwoBuckets  RulePercents = {0, 50, 100}  MaxRules = 3
    Instances = {1, 2}
    Admins = {"connectedApps", "notifications", "onlyPlanMode"}
    TTL = 5
    Retry = 1
    LastMinute = 7
    Requests = {1, 2}
    Burst <- TwoAndOne
    StaleAfter = 4
    LastTick = 11
SPECIFICATION PartsSpec
INVARIANTS
    AnswersInv
    PricesInv
    FlagsInv
    LimiterInv
PROPERTIES
    CacheSteps
