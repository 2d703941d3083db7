\* What must happen to a site in the end, under fairness.
CONSTANTS
    Parts = {"pauses", "overlaps", "onTime", "alerts", "document"}
    first = first  remove = remove  absent = absent  nochange = nochange  refusal = refusal
    DelayedDays = 5  DelayedEnd = 2  LongLookback = 2  DelayedFaults = 3
    MonthsUpdates = {1, 2}  MonthsDays = 4  MonthsEnd = 1
    PunctualDays = 6  PunctualEnd = 2  ShortLookback = 1  LateFaults = 2
    SweptSites = {a, b, c}  SpareSites = {c}  FewGroups = {1, 2, 13}
    TouGroups = {1, 2, 3, 4}  ComEdGroups = {13}  SweepJobs = 2  SweepRounds = 3  SweepWorkers = 2
    AlertUsers = {ann, bob}  QuietUsers = {bob}
    AlertUpdates = {1, 2}  FirstUpdate = 1  AlertDelay = 1  AlertAge = 1
    AlertFlips = 3  PairFlips = 3  AlertFaults = 1
SPECIFICATION PartsFairSpec
CHECK_DEADLOCK FALSE
PROPERTIES
    PausesSettle
    
