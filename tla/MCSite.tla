-------------------------------- MODULE MCSite --------------------------------
(* One site as time goes by: its updates, its history, the alerts of its grid, *)
(* and the jobs that sweep it and others. A behaviour is of one part:         *)
(*   sweeps     one request after another, in every state of the house        *)
(*   pauses     the same beside a member who pauses and resumes               *)
(*   overlaps   two requests at once, and faults                              *)
(*   delayed    history that the vendor delivers late or not at all           *)
(*   faulted    and of which writes fail as well                              *)
(*   months     two updates sync history over the end of a month              *)
(*   oneByOne   history of a site that is updated on time                     *)
(*   onTime     three jobs, three sites                                       *)
(*   tardy      jobs that start a round late                                  *)
(*   moving     sites that change jobs, requests that end early               *)
(*   alerts     one update, two users, one of whom keeps quiet hours          *)
(*   pairs      two updates, one user                                         *)
(*   document   calls of readModifyWriteDoc while requests fail               *)
EXTENDS Integers, Sequences, FiniteSets, TLC

CONSTANTS
    Parts,                                      \* the parts looked at
    first, remove, absent, nochange, refusal,   \* of the document: calls, their answers
    DelayedDays, DelayedEnd, LongLookback, DelayedFaults,   \* of the history, where it is late,
    MonthsUpdates, MonthsDays, MonthsEnd,                   \* over the end of a month,
    PunctualDays, PunctualEnd, ShortLookback, LateFaults,   \* and of a site updated on time
    SweptSites, SpareSites, FewGroups,          \* of the jobs; the last two narrow some parts
    TouGroups, ComEdGroups, SweepJobs, SweepRounds, SweepWorkers,
    AlertUsers, QuietUsers,                     \* of the alerts
    AlertUpdates, FirstUpdate, AlertDelay, AlertAge, AlertFlips, PairFlips, AlertFaults

VARIABLES
    part,
    paused, house, bat, latest, call, changes, faults, commanded,           \* SiteUpdate
    now, delivered, stored, summary, sync, ran, missed,                     \* HistorySync
    round, shuffle, group, job, moved, tried, waited,                       \* CronSweep
    down, quiet, asking, log, alert, stamp, told, flips, unsent,            \* GridAlerts
    doc, clock, pc, snap, attempt, reads, result, applied, since, faulted, errors

updates == <<paused, house, bat, latest, call, changes, faults, commanded>>
histories == <<now, delivered, stored, summary, sync, ran, missed>>
jobs == <<round, shuffle, group, job, moved, tried, waited>>
alerts == <<down, quiet, asking, log, alert, stamp, told, flips, unsent>>
document == <<doc, clock, pc, snap, attempt, reads, result, applied, since, faulted, errors>>

-----------------------------------------------------------------------------
(* Updates; a tick is two and a half minutes.                                 *)
Lone == INSTANCE SiteUpdate WITH
    Calls <- {1}, Houses <- {"calm", "emergency", "alarms", "offgrid", "vpp"}, Manage <- TRUE,
    Faults <- {"refused"}, Recent <- 2, MaxChanges <- 5, MaxFaults <- 2
Pauses == INSTANCE SiteUpdate WITH
    Calls <- {1}, Houses <- {"calm", "vpp", "alarms"}, Manage <- TRUE,
    Faults <- {}, Recent <- 2, MaxChanges <- 5, MaxFaults <- 0
Overlaps == INSTANCE SiteUpdate WITH
    Calls <- {1, 2}, Houses <- {"calm"}, Manage <- TRUE,
    Faults <- {"refused", "stop"}, Recent <- 2, MaxChanges <- 2, MaxFaults <- 1

(* History, over days of three parts.                                         *)
Delayed == INSTANCE HistorySync WITH
    Updates <- {1}, Days <- DelayedDays, MonthEnd <- DelayedEnd, Lookback <- LongLookback,
    New <- TRUE, Steady <- TRUE, Overrun <- TRUE, Faults <- {"late", "history"}, MaxFaults <- DelayedFaults,
    up <- sync, faults <- missed
Faulted == INSTANCE HistorySync WITH
    Updates <- {1}, Days <- DelayedDays, MonthEnd <- DelayedDays, Lookback <- LongLookback,
    New <- TRUE, Steady <- TRUE, Overrun <- TRUE,
    Faults <- {"late", "history", "bulk", "summary"}, MaxFaults <- DelayedFaults,
    up <- sync, faults <- missed
Months == INSTANCE HistorySync WITH
    Updates <- MonthsUpdates, Days <- MonthsDays, MonthEnd <- MonthsEnd, Lookback <- ShortLookback,
    New <- FALSE, Steady <- TRUE, Overrun <- TRUE, Faults <- {}, MaxFaults <- 0,
    up <- sync, faults <- missed
OneByOne == INSTANCE HistorySync WITH
    Updates <- {1}, Days <- PunctualDays, MonthEnd <- PunctualEnd, Lookback <- ShortLookback,
    New <- TRUE, Steady <- TRUE, Overrun <- FALSE, Faults <- {"late"}, MaxFaults <- LateFaults,
    up <- sync, faults <- missed

(* Jobs that sweep the sites.                                                 *)
Sweeping == INSTANCE CronSweep WITH
    Sites <- SweptSites, Total <- SweepJobs, Rounds <- SweepRounds, Workers <- SweepWorkers,
    Moves <- TRUE, Faults <- {"late", "cut"}, part <- shuffle

(* Alerts of the grid.                                                        *)
Alerting == INSTANCE GridAlerts WITH
    Users <- AlertUsers, Updates <- AlertUpdates, Sweeps <- TRUE, Manuals <- TRUE,
    Faults <- {"lost", "append", "gone"}, Delay <- AlertDelay, DeferredAge <- AlertAge,
    MaxFlips <- AlertFlips, MaxFaults <- AlertFaults, up <- alert, faults <- unsent

(* One call adds an entry to a document, another removes an entry that it     *)
(* must find, as RemoveUserApp does.                                          *)
Changed(c, v) ==
    CASE c = first -> IF v = absent THEN {"first"} ELSE v \union {"first"}
      [] c = remove -> IF v = absent \/ "first" \notin v THEN refusal ELSE v \ {"first"}
Document == INSTANCE ReadModifyWrite WITH
    Clients <- {first, remove}, Values <- {{}, {"first"}}, Absent <- absent, NoChange <- nochange,
    Refusal <- refusal, Mutate <- Changed, MaxRetries <- 2, MaxReads <- 2, MaxCommits <- 3,
    MaxFaults <- 1, Outage <- TRUE, faults <- errors

ASSUME PartsAssumption ==
    /\ Parts \subseteq {"sweeps", "pauses", "overlaps", "delayed", "faulted", "months", "oneByOne",
                        "onTime", "tardy", "moving", "alerts", "pairs", "document"}
    /\ Lone!Assumptions /\ Pauses!Assumptions /\ Overlaps!Assumptions
    /\ Delayed!Assumptions /\ Faulted!Assumptions /\ Months!Assumptions /\ OneByOne!Assumptions
    /\ Sweeping!Assumptions /\ Alerting!Assumptions

(* A site goes back further than the vendor fails or is late for, and the     *)
(* hours of a day are there by six in the morning after it; today is one of   *)
(* the days modelled.                                                         *)
ASSUME HistoryAssumption ==
    /\ {DelayedDays, MonthsDays, PunctualDays} \subseteq Nat \ {0, 1}
    /\ DelayedFaults + 3 <= 3 * LongLookback
    /\ ShortLookback >= 1 /\ LateFaults <= 2

(* A site that is late in one hour and again in the next waits three rounds,  *)
(* an hour, if an hour has so many.                                           *)
ASSUME JobsAssumption == SweepRounds \in Nat /\ SweepRounds >= 3

-----------------------------------------------------------------------------
OfUpdates == {"sweeps", "pauses", "overlaps"}
OfHistory == {"delayed", "faulted", "months", "oneByOne"}
OfJobs == {"onTime", "tardy", "moving"}
OfAlerts == {"alerts", "pairs"}

(* One job after another, each on time, sweeps a few groups; jobs are late and *)
(* sites are moved, jobs cut short, where not all sites are set up.           *)
JobsNarrowed ==
    /\ part \in {"onTime", "moving"} =>
        /\ \A j \in Sweeping!Jobs : job[j].due <= 1
        /\ \A s \in SweptSites : group[s] \in FewGroups \union {Sweeping!Unset}
        /\ \A g, h \in TouGroups \ FewGroups : g < h => shuffle[g] < shuffle[h]
    /\ part = "onTime" =>
        /\ \A j \in Sweeping!Jobs : Cardinality(job[j].doing) <= 1
        /\ \A s \in SweptSites : group[s] # Sweeping!Unset
    /\ part = "tardy" => \A s \in SweptSites \ SpareSites : group[s] # Sweeping!Unset
    /\ part \in {"tardy", "moving"} => \A s \in SpareSites : group[s] = Sweeping!Unset
    /\ part = "moving" => \A s \in SweptSites : waited[s] <= 1
Undisturbed == group' = group /\ \A j \in Sweeping!Jobs : ~Sweeping!Cut(j)

(* One update in the one part, and its log entries do not fail; fewer changes  *)
(* of the grid and the hour in the other.                                     *)
AlertsNarrowed ==
    /\ part = "pairs" => flips <= PairFlips
    /\ part = "alerts" => \A p \in AlertUpdates : p # FirstUpdate => alert[p] = Alerting!Idle
Logged == \A p \in AlertUpdates : ~Alerting!LogFails(p)

PartsInit ==
    /\ part \in Parts
    /\ CASE part = "pauses" -> Pauses!Init
         [] part = "overlaps" -> Overlaps!Init
         [] OTHER -> Lone!Init /\ (part \notin OfUpdates => ~paused /\ house = "calm")
    /\ CASE part = "faulted" -> Faulted!Init
         [] part = "months" -> Months!Init
         [] part = "oneByOne" -> OneByOne!Init
         [] OTHER -> Delayed!Init /\ (part \notin OfHistory => now = 3)
    /\ Sweeping!Init /\ JobsNarrowed
    /\ part \notin OfJobs => /\ group = [s \in SweptSites |-> Sweeping!Unset]
                             /\ shuffle = CHOOSE f \in Sweeping!Shuffles : TRUE
    /\ Alerting!Init
    /\ asking = CASE part = "alerts" -> AlertUsers
                  [] part = "pairs" -> QuietUsers
                  [] OTHER -> {}
    /\ Document!Init /\ (part # "document" => doc = Document!NoDoc)

ForUpdates(step) == step /\ UNCHANGED <<part, histories, jobs, alerts, document>>
ForHistory(step) == step /\ UNCHANGED <<part, updates, jobs, alerts, document>>
ForJobs(step) == step /\ UNCHANGED <<part, updates, histories, alerts, document>> /\ JobsNarrowed'
ForAlerts(step) == step /\ UNCHANGED <<part, updates, histories, jobs, document>> /\ AlertsNarrowed'
ForDocument(step) == step /\ UNCHANGED <<part, updates, histories, jobs, alerts>>

PartsNext ==
    \/ part = "sweeps" /\ ForUpdates(Lone!Next)
    \/ part = "pauses" /\ ForUpdates(Pauses!Next)
    \/ part = "overlaps" /\ ForUpdates(Overlaps!Next)
    \/ part = "delayed" /\ ForHistory(Delayed!Next)
    \/ part = "faulted" /\ ForHistory(Faulted!Next)
    \/ part = "months" /\ ForHistory(Months!Next)
    \/ part = "oneByOne" /\ ForHistory(OneByOne!Next)
    \/ part \in {"onTime", "tardy"} /\ ForJobs(Sweeping!Next) /\ Undisturbed
    \/ part = "moving" /\ ForJobs(Sweeping!Next)
    \/ part = "alerts" /\ ForAlerts(Alerting!Next) /\ Logged
    \/ part = "pairs" /\ ForAlerts(Alerting!Next)
    \/ part = "document" /\ ForDocument(Document!Next)

vars == <<part, updates, histories, jobs, alerts, document>>
PartsSpec == PartsInit /\ [][PartsNext]_vars

(* The fairness of the modules, each in its part: time passes; the first, the *)
(* second and the third of what is under way goes on; and sweeps keep coming. *)
Passes ==
    \/ part = "sweeps" /\ ForUpdates(Lone!Tick)
    \/ part = "pauses" /\ ForUpdates(Pauses!Tick)
    \/ part = "overlaps" /\ ForUpdates(Overlaps!Tick)
    \/ part = "onTime" /\ ForJobs(Sweeping!NextRound)
    \/ part = "alerts" /\ ForAlerts(Alerting!Tick)
GoesOn(n) ==
    \/ part = "sweeps" /\ n = 1 /\ ForUpdates(Lone!GoesOn(n))
    \/ part = "pauses" /\ n = 1 /\ ForUpdates(Pauses!GoesOn(n))
    \/ part = "overlaps" /\ n \in {1, 2} /\ ForUpdates(Overlaps!GoesOn(n))
    \/ part = "onTime" /\ n \in Sweeping!Jobs /\ ForJobs(Sweeping!GoesOn(n))
    \/ part = "alerts" /\ n = FirstUpdate /\ ForAlerts(Alerting!Swept(n)) /\ Logged
    \/ part = "document" /\ n = 1 /\ ForDocument(Document!Step(first))
    \/ part = "document" /\ n = 2 /\ ForDocument(Document!Step(remove))
SweptAgain(n) ==
    \/ part = "sweeps" /\ n = 1 /\ ForUpdates(Lone!Begin(n, TRUE))
    \/ part = "pauses" /\ n = 1 /\ ForUpdates(Pauses!Begin(n, TRUE))
    \/ part = "overlaps" /\ ForUpdates(Overlaps!Begin(n, TRUE))

PartsFairSpec ==
    /\ PartsSpec
    /\ WF_vars(Passes)
    /\ \A n \in 0..2 : WF_vars(GoesOn(n))
    /\ \A n \in 1..2 : SF_vars(SweptAgain(n))

-----------------------------------------------------------------------------
(* The properties of the modules, in the parts that they are about.           *)
SweepsAreSpaced == [][part # "overlaps" => Lone!SpacesSweeps]_vars
PauseSettles == part = "pauses" => Pauses!PauseSettles
ResumeSettles == part \in {"sweeps", "overlaps"} => Lone!ResumeSettles

PastDaysAreWhole == part = "delayed" => Delayed!PastDaysAreWhole
NoDayIsSkipped ==
    /\ part = "faulted" => Faulted!NoDayIsSkipped
    /\ part = "months" => Months!NoDayIsSkipped
SummaryIsFinal == part = "oneByOne" => OneByOne!SummaryIsFinal
ControllerSeesAll == [][part = "oneByOne" => OneByOne!SeesAll]_vars

EverySiteOncePerRound == [][part = "onTime" => Sweeping!OncePerRound]_vars
NoSiteWaitsAnHour == part \in {"onTime", "tardy"} => Sweeping!NoSiteWaitsAnHour
NoSiteInTwoRuns == part \in OfJobs => Sweeping!NoSiteInTwoRuns
EverySiteIsUpdated == part = "onTime" => Sweeping!EverySiteIsUpdated

OutageToldOnce == part = "alerts" => Alerting!OutageToldOnce
RestoredFollowsOutage == part \in OfAlerts => Alerting!RestoredFollowsOutage
NoBlipIsTold == [][(part \in OfAlerts) => Alerting!NotABlip]_vars
RestorationIsRecorded == part = "alerts" => Alerting!RestorationIsRecorded

EveryCallReturns == part = "document" => Document!EveryCallReturns

(* Neither of these holds (README, Departures): a paused site is left alone,  *)
(* and sweeps are spaced where they overlap.                                  *)
PausedUntouched == Pauses!PausedUntouched
OverlappingSweepsAreSpaced == Overlaps!SweepsAreSpaced

(* A summary is of a whole day, final, and no day is left out (update.go).    *)
HistoryInv == (part = "delayed" => Delayed!TypeOK) /\ PastDaysAreWhole /\ NoDayIsSkipped /\ SummaryIsFinal
(* No site waits an hour for its update nor has two at once, though jobs are  *)
(* cut short and sites move between groups (update.go).                         *)
JobsInv == (part \in OfJobs => Sweeping!TypeOK) /\ NoSiteWaitsAnHour /\ NoSiteInTwoRuns
(* An outage is told once, and a restoration to those who were told of one    *)
(* (notifications.go).                                                        *)
OutagesInv == (part \in OfAlerts => Alerting!TypeOK) /\ OutageToldOnce /\ RestoredFollowsOutage
(* Sweeps are spaced, the controller is given every day, a round updates every*)
(* site once, and a blip of the grid is not told.                             *)
SiteSteps == SweepsAreSpaced /\ ControllerSeesAll /\ EverySiteOncePerRound /\ NoBlipIsTold
(* A pause ends in the owner's modes, a resumed site in managed ones          *)
(* (update.go, settings.go).                                                  *)
PausesSettle == PauseSettles /\ ResumeSettles
(* Every site is updated, every restoration recorded, every call of           *)
(* readModifyWriteDoc returns.                                                *)
WorkIsDone == EverySiteIsUpdated /\ RestorationIsRecorded /\ EveryCallReturns
=============================================================================
