\* What must happen in the end, under fairness.
CONSTANTS
    One = {u1}  Two = {u1, u2}
    Server = {i1}  Servers = {i1, i2}
    Parts = {"manual", "powerwalls", "gateways", "all"}
    TargetAsked <- MCAsked  TargetLevels = {4, 50, 82, 100}
    PowerwallSite <- Managing  PowerwallAsked <- MCPowerwallAsked  PowerwallLevel = 50
    PowerwallOwned <- Shipped  PowerwallChanges = 3  PowerwallFaults = 2
    FranklinSites <- MCFranklinSites  FranklinAsked <- MCFranklinAsked
    FranklinLevels = {19, 50, 51, 90}
    FranklinGateways <- BackedGateway  FranklinOwned <- MCFranklinOwned
    FranklinChanges = 2  FranklinFaults = 2
    EnphaseSites <- MCEnphaseSites  EnphaseAsked <- MCEnphaseAsked  EnphaseLevels = {19, 30, 90}
    EnphaseOwned <- OwnersChoice  EnphaseChanges = 3  EnphaseFaults = 2
SPECIFICATION PartsFairSpec
PROPERTIES
    BatteriesHeal
