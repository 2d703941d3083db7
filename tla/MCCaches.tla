------------------------------- MODULE MCCaches -------------------------------
(* What instances of the server keep in memory. A behaviour is of one part:   *)
(*   steady     a site syncs Agile prices in every slot, some lookups         *)
(*   down       as steady, one lookup at a time, upstream fails as well       *)
(*   served     one site, upstream fails, the database can be read            *)
(*   alone      one lookup of Agile prices at a time, some sites              *)
(*   joined     a lookup of Agile prices joins another for the same days      *)
(*   newSite    a site's first sync, minutes after another fetch              *)
(*   month      VPP rates within a month, some lookups, all goes wrong        *)
(*   pages      the page of the VPP rates fails, the database does not        *)
(*   monthEnd   VPP rates at the end of a month; a write fails half-way       *)
(*   hit        VPP rates of today in memory while the page is down           *)
(*   cached     flags in two instances, one administrator, failed reads       *)
(*   edited     flags in one instance, every administrator                    *)
(*   rules      some criteria over some sites                                 *)
(*   limits     the requests of a client and the cleanup                      *)
EXTENDS Integers, Sequences, FiniteSets, TLC

CONSTANTS
    Parts,                          \* the parts looked at
    SteadyCalls, AloneSites, AgileDays, AgileLookback, AgileFaults, \* of AgilePrices
    MonthCalls, MonthDays, MonthRecent, MonthFaults,                \* of VppPrices
    RuleSites, RuleBucket, RulePercents, MaxRules,                  \* of FlagRules
    Instances, Admins, TTL, Retry, LastMinute,      \* of FlagCache
    Requests, Burst, StaleAfter, LastTick           \* of RateLimiter

VARIABLES
    part,
    now, horizon, aged, recent, memory, db, stored, synced, call, faults,   \* AgilePrices
    today, posted, kept, months, lookup, misses,                            \* VppPrices
    minute, configs, admin, cache, fetch, tried,                            \* FlagCache
    given,                                                                  \* FlagRules
    tick, limiters, current, request, cleaner, owed, apart                  \* RateLimiter

agile == <<now, horizon, aged, recent, memory, db, stored, synced, call, faults>>
vpp == <<today, posted, kept, months, lookup, misses>>
flags == <<minute, configs, admin, cache, fetch, tried>>
limits == <<tick, limiters, current, request, cleaner, owed, apart>>

-----------------------------------------------------------------------------
Steadily == INSTANCE AgilePrices WITH
    Calls <- SteadyCalls, Sites <- {"home"}, New <- {}, Lookback <- AgileLookback, Days <- AgileDays, Steady <- TRUE,
    Faults <- {"database", "restart"}, MaxFaults <- AgileFaults
Down == INSTANCE AgilePrices WITH
    Calls <- {1}, Sites <- {"home"}, New <- {}, Lookback <- 1, Days <- 3, Steady <- TRUE,
    Faults <- {"upstream", "database", "restart"}, MaxFaults <- 2
Served == INSTANCE AgilePrices WITH
    Calls <- {1, 2}, Sites <- {"home"}, New <- {}, Lookback <- 1, Days <- 2, Steady <- FALSE,
    Faults <- {"upstream", "restart"}, MaxFaults <- 2
Alone == INSTANCE AgilePrices WITH
    Calls <- {1}, Sites <- AloneSites, New <- {}, Lookback <- AgileLookback, Days <- AgileDays, Steady <- TRUE,
    Faults <- {"database", "restart"}, MaxFaults <- AgileFaults
Joined == INSTANCE AgilePrices WITH
    Calls <- {1, 2}, Sites <- {"home"}, New <- {}, Lookback <- 1, Days <- 2, Steady <- TRUE,
    Faults <- {}, MaxFaults <- 0
NewSite == INSTANCE AgilePrices WITH
    Calls <- {1}, Sites <- {"home"}, New <- {"home"}, Lookback <- 1, Days <- 2, Steady <- FALSE,
    Faults <- {}, MaxFaults <- 0

Month == INSTANCE VppPrices WITH
    Calls <- MonthCalls, Days <- MonthDays, MonthEnd <- MonthDays + 3, Recent <- MonthRecent,
    Faults <- {"page", "read", "write", "restart"}, MaxFaults <- MonthFaults,
    memory <- kept, db <- months, call <- lookup, faults <- misses
Pages == INSTANCE VppPrices WITH
    Calls <- {1}, Days <- 3, MonthEnd <- 1, Recent <- 1,
    Faults <- {"page", "write", "restart"}, MaxFaults <- 2,
    memory <- kept, db <- months, call <- lookup, faults <- misses
Turn == INSTANCE VppPrices WITH
    Calls <- {1}, Days <- 2, MonthEnd <- 1, Recent <- 1,
    Faults <- {"write", "restart"}, MaxFaults <- 2,
    memory <- kept, db <- months, call <- lookup, faults <- misses
Hit == INSTANCE VppPrices WITH
    Calls <- {1}, Days <- 2, MonthEnd <- 9, Recent <- 1, Faults <- {"page"}, MaxFaults <- 1,
    memory <- kept, db <- months, call <- lookup, faults <- misses

Flags == INSTANCE FlagCache WITH MaxTime <- LastMinute, now <- minute

Rules == INSTANCE FlagRules WITH
    Sites <- RuleSites, Bucket <- RuleBucket, Percents <- RulePercents, MaxCriteria <- MaxRules

Limits == INSTANCE RateLimiter WITH Idle <- StaleAfter, MaxTime <- LastTick, now <- tick

(* Two sites, in buckets below and above a percentage of fifty.               *)
TwoBuckets == [s \in {"first", "second"} |-> IF s = "first" THEN 10 ELSE 90]
(* Two general requests a minute, a sensitive one.                            *)
TwoAndOne == [b \in {"general", "sensitive"} |-> IF b = "general" THEN 2 ELSE 1]

ASSUME PartsAssumption ==
    /\ Parts \subseteq {"steady", "down", "served", "alone", "joined", "newSite",
                        "month", "pages", "monthEnd", "hit",
                        "cached", "edited", "rules", "limits"}
    /\ Steadily!Assumptions /\ Down!Assumptions /\ Served!Assumptions
    /\ Alone!Assumptions /\ Joined!Assumptions /\ NewSite!Assumptions
    /\ Month!Assumptions /\ Pages!Assumptions /\ Turn!Assumptions /\ Hit!Assumptions
    /\ Flags!Assumptions /\ Rules!Assumptions /\ Limits!Assumptions

(* There are days to look up, ahead and back; a site is no kind of lookup,    *)
(* and has a name.                                                            *)
ASSUME NamesAssumption ==
    /\ MonthDays >= 1 /\ AgileLookback >= 1
    /\ AloneSites # {} /\ AloneSites \cap {"current", "future"} = {}
    /\ Rules!NoSite \notin RuleSites /\ RulePercents \subseteq Int /\ MaxRules \in Nat

-----------------------------------------------------------------------------
OfAgile == {"steady", "down", "served", "alone", "joined", "newSite"}
OfVpp == {"month", "pages", "monthEnd", "hit"}
OfFlags == {"cached", "edited"}

PartsInit ==
    /\ part \in Parts
    /\ CASE part = "down" -> Down!Init
         [] part = "served" -> Served!Init
         [] part = "alone" -> Alone!Init
         [] part = "joined" -> Joined!Init
         [] part = "newSite" -> NewSite!Init
         [] OTHER -> Steadily!Init /\ (part \notin OfAgile => now = 3)
    /\ CASE part = "pages" -> Pages!Init
         [] part = "monthEnd" -> Turn!Init
         [] part = "hit" -> Hit!Init
         [] OTHER -> Month!Init /\ (part \notin OfVpp => months = {})
    /\ Flags!Init /\ (part # "cached" => minute = 0) /\ (part \notin OfFlags => configs = << >>)
    /\ IF part = "rules" THEN Rules!Init ELSE given = << >>
    /\ Limits!Init

ForAgile(step) == step /\ UNCHANGED <<part, vpp, flags, given, limits>>
ForVpp(step) == step /\ UNCHANGED <<part, agile, flags, given, limits>>
ForFlags(step) == step /\ UNCHANGED <<part, agile, vpp, given, limits>>
ForRules(step) == step /\ UNCHANGED <<part, agile, vpp, flags, limits>>
ForLimits(step) == step /\ UNCHANGED <<part, agile, vpp, flags, given>>

(* Of the flags a part looks at some steps only.                              *)
OneEdits == \A a \in Admins : a # "connectedApps" => admin'[a] = admin[a]
OneServes == \A i \in Instances : tried'[i].ok /\ (i # 1 => fetch'[i] = fetch[i])

PartsNext ==
    \/ part = "steady" /\ ForAgile(Steadily!Next)
    \/ part = "down" /\ ForAgile(Down!Next)
    \/ part = "served" /\ ForAgile(Served!Next)
    \/ part = "alone" /\ ForAgile(Alone!Next)
    \/ part = "joined" /\ ForAgile(Joined!Next)
    \/ part = "newSite" /\ ForAgile(NewSite!Next)
    \/ part = "month" /\ ForVpp(Month!Next)
    \/ part = "pages" /\ ForVpp(Pages!Next)
    \/ part = "monthEnd" /\ ForVpp(Turn!Next)
    \/ part = "hit" /\ ForVpp(Hit!Next)
    \/ part = "cached" /\ ForFlags(Flags!Next) /\ OneEdits
    \/ part = "edited" /\ ForFlags(Flags!Next) /\ OneServes
    \/ part = "rules" /\ ForRules(Rules!Next)
    \/ part = "limits" /\ ForLimits(Limits!Next)

vars == <<part, agile, vpp, flags, given, limits>>
PartsSpec == PartsInit /\ [][PartsNext]_vars

-----------------------------------------------------------------------------
(* The properties of the modules, in the parts that they are about.           *)
HistoryHasNoHole == part = "steady" => Steadily!HistoryHasNoHole
FailsEmptyHanded ==
    [][(part = "down" => Down!EmptyHanded) /\ (part = "served" => Served!EmptyHanded)]_vars
AnswerIsComplete == part = "alone" => Alone!AnswerIsComplete
LoneHistoryHasNoHole == part = "alone" => Alone!HistoryHasNoHole

AnswerHasEveryHour == part = "month" => Month!AnswerHasEveryHour
StoredSparesThePage == [][part = "pages" => Pages!Unstored]_vars

OneReadPerMark == Flags!OneReadPerMark

NamedSitesDecide == part = "rules" => Rules!NamedSitesDecide
UnnamedSitesUnchanged == part = "rules" => Rules!UnnamedSitesUnchanged
RolloutGrows == part = "rules" => Rules!RolloutGrows

(* None of these holds (README, Departures): an answer is complete, also to a *)
(* lookup that joined another and to a site's first sync; an upstream that    *)
(* fails twice leaves no hole; an answer has every hour, also at the end of a *)
(* month; what is in memory spares the page; and of two first changes of the  *)
(* flags none is lost.                                                        *)
JoinedIsComplete == part = "joined" => Joined!AnswerIsComplete
OutageLeavesNoHole == part = "down" => Down!HistoryHasNoHole
NewSiteIsComplete == part = "newSite" => NewSite!AnswerIsComplete
MonthEndHasEveryHour == part = "monthEnd" => Turn!AnswerHasEveryHour
HitAvoidsFetch == [][part = "hit" => Hit!Unmet]_vars
FirstChangesKept == Flags!FirstChangesKept

(* No lookup answers with an hour missing (the Agile and VPP prices), and one *)
(* at a time they make a history without a hole.                              *)
AnswersInv ==
    /\ part = "alone" => Alone!TypeOK
    /\ part = "month" => Month!TypeOK
    /\ AnswerIsComplete /\ LoneHistoryHasNoHole /\ AnswerHasEveryHour
(* The history has no hole where lookups overlap, join and are stored late.   *)
PricesInv == (part = "steady" => Steadily!TypeOK) /\ (part = "down" => Down!TypeOK) /\ HistoryHasNoHole
(* Every instance goes by flags no older than their time to live, of the      *)
(* version it read, what one administrator saves another does not undo, and   *)
(* rules decide as they were written, whatever normalising them drops.        *)
FlagsInv == Flags!FlagsInv /\ NamedSitesDecide /\ UnnamedSitesUnchanged /\ RolloutGrows
(* A client is held to its limit and, beside a cleanup, to one more of it.    *)
LimiterInv == Limits!LimiterInv
(* A lookup fails only with nothing to answer, fetches no page for what is    *)
(* stored, and flags are read once in their time.                             *)
CacheSteps == FailsEmptyHanded /\ StoredSparesThePage /\ OneReadPerMark
=============================================================================
