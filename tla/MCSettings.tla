------------------------------ MODULE MCSettings ------------------------------
(* The settings document of a site, by one of:                                *)
(*   writers       a manual update, a save and a change of preferences overlap *)
(*   faults        and others, on documents that are missing or old, with      *)
(*                 every fault                                                *)
(*   alone         one request after the other, and the time between them      *)
(*   deletion      the deletion of the site among sweeps and saves            *)
(*   refused       alone, but the calls that verify a new token may fail       *)
EXTENDS SiteSettings, TLC

CONSTANTS Parts             \* the parts looked at

VARIABLES part

-----------------------------------------------------------------------------
TouSite == [ess |-> TRUE, utility |-> "tou", pause |-> FALSE]
ComedSite == [TouSite EXCEPT !.utility = "comed"]
PausedSite == [TouSite EXCEPT !.pause = TRUE]
NoUtility == [TouSite EXCEPT !.utility = "none"]
NoBattery == [TouSite EXCEPT !.ess = FALSE]
AllConfigs == {TouSite, ComedSite, PausedSite, NoUtility, NoBattery}

Writers == INSTANCE SiteSettings WITH
    Kinds <- {"manual", "save", "prefs"}, Configs <- {TouSite, ComedSite},
    Starts <- {"linked"}, Faults <- {"validate"}, MaxCommits <- 4, MaxTime <- 0
Faulty == INSTANCE SiteSettings WITH
    Kinds <- {"sweep", "stage", "read", "prefs", "save"}, Configs <- {TouSite},
    Starts <- {"missing", "legacy"}, Faults <- AllFaults, MaxCommits <- 3, MaxTime <- 0
Alone == INSTANCE SiteSettings WITH Kinds <- Kinds \ {"delete"}, Faults <- {}
Deletion == INSTANCE SiteSettings WITH
    Kinds <- {"sweep", "save", "delete"}, Configs <- {TouSite},
    Starts <- {"linked", "legacy"}, Faults <- {"store"}, MaxCommits <- 3, MaxTime <- 0
Refused == INSTANCE SiteSettings WITH
    Kinds <- {"sweep"}, Configs <- {TouSite},
    Starts <- {"linked"}, Faults <- {"validate"}, MaxCommits <- 3, MaxTime <- 0

ASSUME PartsAssumption == Parts \subseteq {"writers", "faults", "alone", "deletion", "refused"}

(* Requests that do not overlap.                                              *)
Solo(step(_)) == \E a \in Reqs : (\A b \in Reqs \ {a} : req[b].at = "idle") /\ step(a)

PartsInit ==
    /\ part \in Parts
    /\ \/ part = "writers" /\ Writers!Init
       \/ part = "faults" /\ Faulty!Init
       \/ part = "alone" /\ Alone!Init
       \/ part = "deletion" /\ Deletion!Init
       \/ part = "refused" /\ Refused!Init

PartsNext ==
    /\ UNCHANGED part
    /\ \/ part = "writers" /\ Writers!Next
       \/ part = "faults" /\ Faulty!Next
       \/ part = "alone" /\ (Solo(Alone!Step) \/ Alone!Tick \/ Alone!AgeToken)
       \/ part = "deletion" /\ Deletion!Next
       \/ part = "refused" /\ (Solo(Refused!Step) \/ Refused!AgeToken)

partVars == <<part, vars>>
PartsSpec == PartsInit /\ [][PartsNext]_partVars

Symmetry == Permutations(Reqs)

-----------------------------------------------------------------------------
(* CopiesInv, UserWritesKept, SchedulingInv and TokenNeverRegresses of        *)
(* SiteSettings hold of every part. The others hold of these:                 *)

(* Each rotation of the token reached the document, when requests do not      *)
(* overlap and no call fails: RecordGrant and SaveWrite store it.             *)
TokenUsable == part = "alone" => StoredTokenUsable
(* "the refresh token can only be used once so we need to ensure we return it *)
(* and it gets updated" (tesla.go): the same though the calls that verify the *)
(* new token fail. It does not hold.                                          *)
RotationIsStored == part = "refused" => StoredTokenUsable
(* No sign-in before the backoff is over, when requests do not overlap.       *)
AloneBacksOff == part = "alone" => BackoffHonoured
(* One request at a time, no sign-in comes early and no token is lost.        *)
LoginsInv == TokenUsable /\ AloneBacksOff
=============================================================================
