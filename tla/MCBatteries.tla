----------------------------- MODULE MCBatteries -----------------------------
(* The batteries, each commanded as its vendor's module has it. A behaviour   *)
(* is of one part, the batteries of the others rest:                          *)
(*   target    a Powerwall that obeys one command after another, every command *)
(*             of a grid, while its level moves: what a SetModes leaves behind *)
(*   powerwall, gateway, microinverters                                        *)
(*             a Powerwall, a Franklin gateway, an Enphase battery commanded   *)
(*             by one update after another, by sweeps and by hand              *)
(*   manual    a Powerwall commanded by hand                                   *)
(*   powerwalls, gateways, all                                                 *)
(*             the same commanded by two updates at once, in sweeps            *)
EXTENDS TeslaTarget, TLC

CONSTANTS
    One, Two,           \* updates: one, two
    Server, Servers,    \* instances of the server: one, two
    Parts,              \* the parts looked at
    TargetAsked, TargetLevels,                                      \* of target
    PowerwallSite, PowerwallAsked, PowerwallLevel, PowerwallOwned,  \* of powerwall
    PowerwallChanges, PowerwallFaults,
    FranklinSites, FranklinAsked, FranklinLevels,                   \* of Franklin gateways
    FranklinGateways, FranklinOwned, FranklinChanges, FranklinFaults,
    EnphaseSites, EnphaseAsked, EnphaseLevels,                      \* of Enphase batteries
    EnphaseOwned, EnphaseChanges, EnphaseFaults

VARIABLES
    part,
    site, wanted, level, call, alone, changes, faults,  \* of the part's battery
    bat, cache, fresh, ver, last, newest,               \* Powerwalls only
    gateway,                                            \* Franklin only
    storm, now, asked, weather                          \* Enphase only

shared == <<site, wanted, level, call, alone, changes, faults>>
powerwall == <<bat, cache, fresh, ver, last, newest>>
microinverters == <<storm, now, asked, weather>>

-----------------------------------------------------------------------------
(* Powerwalls: a site that manages schedules, commands for all four posts.    *)
Managing == [gridCharge |-> TRUE, exportBat |-> TRUE, exportSolar |-> TRUE, managed |-> TRUE, dry |-> FALSE]
Charge == [bat |-> "charge", sol |-> "noexport", to |-> 100, min |-> 20, sched |-> "none", soon |-> FALSE]
Export == [bat |-> "export", sol |-> "any", to |-> 100, min |-> 20, sched |-> "s1", soon |-> FALSE]
Load == [bat |-> "load", sol |-> "any", to |-> 100, min |-> 20, sched |-> "s2", soon |-> TRUE]
Shipped == [grid |-> FALSE, rule |-> "never", tou |-> "own", mode |-> "self_consumption", soc |-> 20]

Powerwall == INSTANCE TeslaModes WITH
    Updates <- One, Instances <- Server, Settings <- PowerwallSite, Commands <- PowerwallAsked,
    Level <- PowerwallLevel, Owned <- PowerwallOwned, Sweeps <- TRUE, Manuals <- TRUE,
    Faults <- {"refused"}, SiteDeadline <- 1, VerifyDelay <- 2,
    MaxChanges <- PowerwallChanges, MaxFaults <- PowerwallFaults
Manual == INSTANCE TeslaModes WITH
    Updates <- One, Instances <- Server, Settings <- Managing, Commands <- {Charge, Load},
    Level <- 50, Owned <- Shipped, Sweeps <- FALSE, Manuals <- TRUE,
    Faults <- {"refused", "ignored", "read"},
    SiteDeadline <- 1, VerifyDelay <- 2, MaxChanges <- 2, MaxFaults <- 2
Powerwalls == INSTANCE TeslaModes WITH
    Updates <- Two, Instances <- Servers, Settings <- Managing, Commands <- {Charge, Load},
    Level <- 50, Owned <- Shipped, Sweeps <- TRUE, Manuals <- FALSE,
    Faults <- {"lost", "ignored"},
    SiteDeadline <- 1, VerifyDelay <- 2, MaxChanges <- 1, MaxFaults <- 1

(* Every command of a grid, obeyed by a Powerwall at any of some levels.      *)
AllCommands ==
    [bat : BatteryModes, sol : SolarModes, to : 0..100, min : 0..100,
     sched : {"none", "s1", "s2"}, soon : BOOLEAN]
MCAsked ==
    {c \in [bat : BatteryModes, sol : SolarModes, to : {83, 100}, min : {20, 81},
            sched : {"none", "s1"}, soon : BOOLEAN] :
        /\ c.bat # "charge" => c.to = 100
        /\ c.sol # "any" => ~c.soon}
MCPowerwallAsked == {Charge, Export, Load}
PowerwallSites ==
    [gridCharge : BOOLEAN, exportBat : BOOLEAN, exportSolar : BOOLEAN, managed : BOOLEAN, dry : {FALSE}]

TargetInit ==
    /\ site \in PowerwallSites
    /\ level \in TargetLevels
    /\ bat \in [grid : BOOLEAN, rule : {"never"}, tou : {"own", "s2"}, mode : Modes, soc : {0, 20}]
TargetNext ==
    \/ level' \in TargetLevels /\ UNCHANGED <<site, bat>>
    \/ /\ \E c \in TargetAsked : bat' = Target(c, site, level, bat)
       /\ UNCHANGED <<site, level>>

(* Franklin: sites that manage schedules, that may not charge from the grid,  *)
(* that only dry-run or cannot do everything; gateways as shipped, as owners  *)
(* set them, and as RateRudder or the vendor's dispatch left them.            *)
ManagingSite ==
    [managed |-> TRUE, gridCharge |-> TRUE, dry |-> FALSE, edit |-> TRUE, fromGrid |-> TRUE,
     offers |-> {"sc", "backup"}]
PlainSite == [ManagingSite EXCEPT !.managed = FALSE, !.fromGrid = FALSE]
MCFranklinSites ==
    {ManagingSite, PlainSite, [ManagingSite EXCEPT !.dry = TRUE], [ManagingSite EXCEPT !.edit = FALSE],
     [PlainSite EXCEPT !.offers = {"sc"}]}

Asks(b, sol, min, sched) == [bat |-> b, sol |-> sol, to |-> 100, min |-> min, sched |-> sched]
ThreeAsked ==
    {Asks("charge", "any", 20, "s1"), Asks("standby", "export", 3, "s2"),
     Asks("load", "any", 3, "s1")}
MCFranklinAsked ==
    ThreeAsked \union {Asks("standby", "noexport", 20, "s2"), Asks("export", "export", 20, "s1")}

Runs(mode, sc, tou, sched) ==
    [mode |-> mode, soc |-> [sc |-> sc, tou |-> tou], sched |-> sched, busy |-> FALSE]
OwnersPlan == Runs("tou", 20, 40, "own")
MCFranklinOwned == {OwnersPlan, Runs("backup", 20, 40, "own")}
NewGateway == Runs("sc", 20, -1, "none")
LeftBacked == Runs("backup", 6, 5, "s1")
MCFranklinGateways == {NewGateway, LeftBacked, OwnersPlan, Runs("dispatch", 50, 20, "s2")}
BackedGateway == {LeftBacked}

Gateway == INSTANCE FranklinModes WITH
    Updates <- Two, Sites <- FranklinSites, Commands <- FranklinAsked, Levels <- FranklinLevels,
    Gateways <- FranklinGateways, Owned <- FranklinOwned,
    Faults <- {"refused", "lost", "read", "storm", "late", "missing"},
    MaxChanges <- FranklinChanges, MaxFaults <- FranklinFaults

(* Enphase: sites that let the grid charge, that do not, and that only        *)
(* dry-run; batteries as installed, on a schedule and on backup.              *)
LiveSites == [gridCharge : BOOLEAN, dry : {FALSE}]
MCEnphaseSites == LiveSites \union {[gridCharge |-> TRUE, dry |-> TRUE]}
MCEnphaseAsked ==
    {[bat |-> "charge", to |-> 100, min |-> 20], [bat |-> "standby", to |-> 100, min |-> 20],
     [bat |-> "load", to |-> 100, min |-> 3], [bat |-> "export", to |-> 100, min |-> 20]}
Installed == [charge |-> FALSE, sched |-> FALSE, profile |-> "savings", soc |-> 30]
OnSchedule == [charge |-> TRUE, sched |-> TRUE, profile |-> "self", soc |-> 20]
OnBackup == [charge |-> TRUE, sched |-> FALSE, profile |-> "backup", soc |-> 100]
MCEnphaseOwned == {Installed, OnSchedule, OnBackup}
OwnersChoice == {Installed, OnBackup}

Microinverters == INSTANCE EnphaseModes WITH
    Updates <- Two, Sites <- EnphaseSites, Commands <- EnphaseAsked, Levels <- EnphaseLevels,
    Configs <- EnphaseOwned, Faults <- {"refused", "lost", "read"},
    MaxChanges <- EnphaseChanges, MaxFaults <- EnphaseFaults

ASSUME PartsAssumption ==
    /\ Parts \subseteq {"target", "powerwall", "manual", "powerwalls", "gateway", "gateways",
                        "microinverters", "all"}
    /\ Powerwall!Assumptions /\ Manual!Assumptions /\ Powerwalls!Assumptions
    /\ Gateway!Assumptions /\ Microinverters!Assumptions

(* What is asked of a battery, what it may be and what its site allows: the   *)
(* least that a battery may be charged to is the least reserve it takes.      *)
ASSUME PowerwallAssumption ==
    /\ TargetAsked \subseteq AllCommands /\ TargetLevels \subseteq 0..100
    /\ \E u \in One : One = {u}
    /\ \E i \in Server : Server = {i}
    /\ PowerwallSite \in PowerwallSites /\ PowerwallAsked \subseteq AllCommands
    /\ PowerwallLevel \in 0..100 /\ PowerwallOwned \in Powerwall!Powerwalls
ASSUME FranklinAssumption ==
    /\ \A s \in FranklinSites :
        s \in [managed : BOOLEAN, gridCharge : BOOLEAN, dry : BOOLEAN, edit : BOOLEAN, fromGrid : BOOLEAN,
              offers : SUBSET {"sc", "backup"}]
    /\ \A c \in FranklinAsked :
        c \in [bat : BatteryModes, sol : SolarModes, to : 5..100, min : 0..100,
              sched : {"none", "s1", "s2"}]
    /\ FranklinLevels \subseteq 0..100
    /\ \A g \in FranklinGateways : g \in Gateway!AllGateways
    /\ \A g \in FranklinOwned : g \in Gateway!AllGateways /\ g.sched \in {"none", "own"}
ASSUME EnphaseAssumption ==
    /\ \A s \in EnphaseSites : s \in [gridCharge : BOOLEAN, dry : BOOLEAN]
    /\ \A c \in EnphaseAsked : c \in [bat : BatteryModes, to : 10..100, min : 0..100]
    /\ EnphaseLevels \subseteq 0..100
    /\ \A c \in EnphaseOwned : c \in Microinverters!AllConfigs

-----------------------------------------------------------------------------
Teslas == {"powerwall", "manual", "powerwalls"}
Franklins == {"gateway", "gateways"}
Enphases == {"microinverters", "all"}

(* In some parts one update commands the battery, in others two do, in the    *)
(* least of circumstances.                                                    *)
Single == \A u \in Two \ One : call[u] = Gateway!Idle
FranklinNarrowed ==
    /\ part = "gateway" => Single
    /\ part = "gateways" =>
        wanted \in ThreeAsked /\ level = 50 /\ changes <= 1 /\ faults <= 1
EnphaseNarrowed ==
    /\ part = "microinverters" => Single
    /\ part = "all" => level = 30 /\ changes <= 1 /\ faults <= 1

PowerwallRests ==
    /\ bat = Shipped /\ cache = [i \in Server |-> Shipped] /\ fresh = [i \in Server |-> FALSE]
    /\ ver = [u \in One |-> Powerwall!Idle]
    /\ last = [ok |-> FALSE, to |-> Shipped] /\ newest = Shipped.soc
EnphaseRests ==
    storm = FALSE /\ now = Installed /\ asked = now /\ weather = [u \in One |-> "unread"]

PartsInit ==
    /\ part \in Parts
    /\ part \notin Franklins => gateway = OwnersPlan
    /\ part \notin Enphases => EnphaseRests
    /\ part \in Franklins \union Enphases => PowerwallRests
    /\ CASE part = "target" ->
              /\ TargetInit /\ wanted = Charge /\ call = [u \in One |-> Powerwall!Idle]
              /\ alone = [u \in One |-> FALSE] /\ changes = 0 /\ faults = 0
              /\ cache = [i \in Server |-> Shipped] /\ fresh = [i \in Server |-> FALSE]
              /\ ver = [u \in One |-> Powerwall!Idle]
              /\ last = [ok |-> FALSE, to |-> Shipped] /\ newest = Shipped.soc
         [] part \in Teslas ->
              /\ CASE part = "powerwall" -> Powerwall!Init
                   [] part = "manual" -> Manual!Init
                   [] part = "powerwalls" -> Powerwalls!Init
              /\ site = Managing /\ level = 50 /\ alone = [u \in Two |-> FALSE]
         [] part \in Franklins ->
              /\ Gateway!Init /\ FranklinNarrowed
              /\ part = "gateways" => site \in {ManagingSite, PlainSite} /\ gateway \in {NewGateway, LeftBacked}
         [] part \in Enphases ->
              /\ Microinverters!Init /\ EnphaseNarrowed
              /\ part = "all" => site \in LiveSites /\ now \in {Installed, OnSchedule}

ForPowerwall(step) == step /\ UNCHANGED <<part, site, level, alone, gateway, microinverters>>
ForGateway(step) == step /\ UNCHANGED <<part, powerwall, microinverters>> /\ FranklinNarrowed'
ForEnphase(step) == step /\ UNCHANGED <<part, powerwall, gateway>> /\ EnphaseNarrowed'

PartsNext ==
    \/ /\ part = "target" /\ TargetNext
       /\ UNCHANGED <<part, wanted, call, alone, changes, faults, cache, fresh, ver, last, newest,
                      gateway, microinverters>>
    \/ part = "powerwall" /\ ForPowerwall(Powerwall!Next)
    \/ part = "manual" /\ ForPowerwall(Manual!Next)
    \/ part = "powerwalls" /\ ForPowerwall(Powerwalls!Next)
    \/ part \in Franklins /\ ForGateway(Gateway!Next)
    \/ part \in Enphases /\ ForEnphase(Microinverters!Next)

vars == <<part, shared, powerwall, gateway, microinverters>>
PartsSpec == PartsInit /\ [][PartsNext]_vars

(* The fairness of the modules, each in its part: the battery or its minutes  *)
(* go on, an update goes on, so does its verification, and what an update     *)
(* waits for is not missed for ever.                                          *)
Passes(i) ==
    \/ part = "manual" /\ i \in Server /\ ForPowerwall(Manual!Age(i))
    \/ part = "powerwalls" /\ ForPowerwall(Powerwalls!Age(i))
    \/ part = "gateways" /\ ForGateway(Gateway!Loaded)
    \/ part = "all" /\ ForEnphase(Microinverters!Apply)
GoesOn(u) ==
    \/ part = "manual" /\ u \in One /\ ForPowerwall(Manual!Goes(u))
    \/ part = "powerwalls" /\ ForPowerwall(Powerwalls!Goes(u))
    \/ part = "gateways" /\ ForGateway(Gateway!GoesOn(u))
    \/ part = "all" /\ ForEnphase(Microinverters!GoesOn(u))
Verifies(u) ==
    \/ part = "manual" /\ u \in One /\ ForPowerwall(Manual!GoesOn(u))
    \/ part = "powerwalls" /\ ForPowerwall(Powerwalls!GoesOn(u))
Waits(u) ==
    \/ part = "manual" /\ u \in One /\ ForPowerwall(Manual!Look(u))
    \/ part = "powerwalls" /\ ForPowerwall(Powerwalls!Look(u))
    \/ part = "gateways" /\ ForGateway(Gateway!Wait(u))
    \/ part = "all" /\ ForEnphase(Microinverters!Age(u))

PartsFairSpec ==
    /\ PartsSpec
    /\ \A i \in Servers : WF_vars(Passes(i))
    /\ \A u \in Two : WF_vars(GoesOn(u)) /\ WF_vars(Verifies(u)) /\ SF_vars(Waits(u))

-----------------------------------------------------------------------------
(* A command obeyed is not posted again: the same command, asked again at     *)
(* once, finds nothing to change, whatever the Powerwall was before.          *)
Settles ==
    part = "target" =>
        \A c \in TargetAsked : Needed(c, site, level, Target(c, site, level, bat), FALSE) = {}

(* Standby holds: a battery off the managed schedule neither falls below its  *)
(* level (up to the percent that counts as none) nor is lifted from the grid, *)
(* unless it is below the least level or about full.                          *)
StandbyHolds ==
    part = "target" =>
        \A c \in TargetAsked : c.bat = "standby" /\ ~Managed(c, site) =>
            LET to == Target(c, site, level, bat) IN
            /\ to.soc >= level - 1
            /\ \/ to.soc <= Larger(HoldLevel(c, level), 5) + 1
               \/ to.mode = "backup" /\ ~to.grid
               \/ level >= 99 \/ level < c.min

(* A load command releases the battery down to its least level: the mode that *)
(* stands by and the reserve that holds never outlive it.                     *)
LoadReleases ==
    part = "target" =>
        \A c \in TargetAsked : c.bat = "load" =>
            LET to == Target(c, site, level, bat) IN
            to.mode # "backup" /\ to.soc <= Larger(c.min, 5) + 1

(* The properties of the modules, in the parts that they are about.           *)
PowerwallObeys == part = "powerwall" => Powerwall!Obeyed
CacheTrue == part = "powerwall" => Powerwall!CacheTrue
ReserveIsVerified == [][part = "manual" => Manual!NotGivenUp]_vars
EveryUpdateAnswers == []<>(part = "manual" => \A u \in One : call[u].at # "waiting")

GatewayObeys == part \in Franklins => Gateway!Obeyed
ReloadsAlone == part \in Franklins => Gateway!ReloadsAlone
ModeComesLast == [][(part \in Franklins) => Gateway!ModeIsLast]_vars
OwnScheduleKept == [][(part \in Franklins) => Gateway!KeepsOwnSchedule]_vars
DryTouchesNothing == [][(part \in Franklins) => Gateway!TouchesNothing]_vars

EnphaseObeys == part \in Enphases => Microinverters!Obeyed
BackupKept == [][(part \in Enphases) => Microinverters!KeepsBackup]_vars
OwnersChargeKept == [][(part \in Enphases) => Microinverters!KeepsOwnersCharge]_vars
NotAskedTwice == [][(part \in Enphases) => Microinverters!AsksOnce]_vars

(* Every battery ends in what is wanted last, though posts fail, get lost or  *)
(* are ignored and the updates of two instances overlap.                      *)
EndAsWanted ==
    <>[](/\ part = "powerwalls" => Powerwalls!Healed
         /\ part = "gateways" => Gateway!Healed
         /\ part = "all" => Microinverters!Healed)

(* This does not hold (README, Departures): the reserve that a verification   *)
(* posts is the newest wanted.                                                *)
NewestReserve == part = "manual" => Manual!NewestReserve

(* A Powerwall's target settles, standby holds and a load releases (SetModes  *)
(* of tesla.go).                                                              *)
TargetInv == Settles /\ StandbyHolds /\ LoadReleases
(* A Powerwall does what a SetModes that succeeded asked of it, and what an   *)
(* instance remembers of it is true.                                          *)
PowerwallInv == (part = "powerwall" => Powerwall!TypeOK) /\ PowerwallObeys /\ CacheTrue
(* A gateway does what a SetModes that succeeded asked of it, its dispatch is *)
(* never reloaded along with a mode or a reserve (franklin.go).               *)
GatewayInv == (part \in Franklins => Gateway!TypeOK) /\ GatewayObeys /\ ReloadsAlone
(* An Enphase system does what a SetModes that succeeded asked (enphase.go).  *)
EnphaseInv == (part \in Enphases => Microinverters!TypeOK) /\ EnphaseObeys

(* What is the owner's stays the owner's, whatever is commanded: the schedule *)
(* of a gateway, all of a gateway that only dry-runs, a backup profile and    *)
(* the permission to charge from the grid of an Enphase system.               *)
OwnersKept == OwnScheduleKept /\ DryTouchesNothing /\ BackupKept /\ OwnersChargeKept
(* The order of the posts: a reserve is verified and not given up, the mode   *)
(* of a gateway comes after what it needs, and nothing is asked for twice     *)
(* while it is being applied.                                                 *)
PostsInOrder == ReserveIsVerified /\ ModeComesLast /\ NotAskedTwice

(* Every battery ends as wanted, and no update waits for ever for the          *)
(* verification of its reserve.                                               *)
BatteriesHeal == EveryUpdateAnswers /\ EndAsWanted
=============================================================================
