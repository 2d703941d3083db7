\* What a user is told, where it is told well.
\* The parts of devices stop at their last hour.
CHECK_DEADLOCK FALSE
CONSTANTS
    Parts = {"alone", "gone", "browser", "overlap", "busy", "spikes", "blind", "dips", "lows", "highs"}
    Endpoints = {"a", "b"}  Updates = {1, 2}
    DayHours = 4  SummaryHour = 1  QuietHours = {0}  SunHours = {1, 2}
    VppWindow = 2  LoadCooldown = 3
    ManyHours = 6  FewHours = 2  ManyActs = 3  FewActs = 2  MaxFailed = 1
    SpikeLevels = {100, 200, 260, 400}  DipLevels <- MCDipLevels
    TypicalPrice = 100  UserDelta = 50  HighPrice = 250  LowPrice <- MCLowPrice
    LongForecast = 2  ShortForecast = 1  MaxRefused = 1
    BaselineDays = 3
    LowLevels <- MCLowLevels  LowCosts <- MCLowCosts
    HighLevels = {100, 250, 400}  HighCosts = {150, 200, 250, 300, 400}
SPECIFICATION PartsSpec
INVARIANTS
    DevicesInv
    CooldownInv
    BaselineInv
PROPERTIES
    AlertsAreNews
