\* Every property of one command after another.
CONSTANTS
    One = {u1}  Two = {u1, u2}
    Server = {i1}  Servers = {i1, i2}
    Parts = {"target", "powerwall", "manual", "gateway", "microinverters"}
    TargetAsked <- MCAsked  TargetLevels = {4, 50, 82, 100}
    PowerwallSite <- Managing  PowerwallAsked <- MCPowerwallAsked  PowerwallLevel = 50
    PowerwallOwned <- Shipped  PowerwallChanges = 3  PowerwallFaults = 2
    FranklinSites <- MCFranklinSites  FranklinAsked <- MCFranklinAsked
    FranklinLevels = {19, 50, 51, 90}
    FranklinGateways <- MCFranklinGateways  FranklinOwned <- MCFranklinOwned
    FranklinChanges = 2  FranklinFaults = 2
    EnphaseSites <- MCEnphaseSites  EnphaseAsked <- MCEnphaseAsked  EnphaseLevels = {19, 30, 90}
    EnphaseOwned <- MCEnphaseOwned  EnphaseChanges = 3  EnphaseFaults = 2
SPECIFICATION PartsSpec
CHECK_DEADLOCK FALSE
INVARIANTS
    TargetInv
    PowerwallInv
    GatewayInv
    EnphaseInv
PROPERTIES
    OwnersKept
    PostsInOrder
