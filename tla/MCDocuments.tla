----------------------------- MODULE MCDocuments -----------------------------
(* Documents that several requests change at once. A behaviour is of one part *)
(* of them, the others rest in an initial state:                              *)
(*   document     readModifyWriteDoc on the log of a month, to which two calls *)
(*                append an entry (AppendNotificationLog) while another marks *)
(*                the first's (RecordNotificationClick)                       *)
(*   members      two users and two sites, every operation, calls that fail   *)
(*   joins        three users of one site                                     *)
(*   redeemed     applications that are approved, redeemed and revoked        *)
(*   limited      applications up to their limit, by requests that overlap    *)
(*   single       every operation on applications, one at a time              *)
(*   overwritten  keys made and revoked while a join writes the user back     *)
EXTENDS ReadModifyWrite, FiniteSets, TLC

CONSTANTS
    first, second, click,           \* calls
    Requests,
    Users, Sites, MaxSites, MaxJoins, MaxFailed,    \* of Membership
    Guest, Home,                    \* a user and a site among them
    Apps, MaxApps, MaxCleanup, MaxMade, MaxLost,    \* of Apps
    Parts                           \* the parts looked at

MCValues == {{}, {"first"}, {"second"}, {"first", "second"}, {"first", "clicked"},
             {"first", "second", "clicked"}}
MCMutate(c, v) ==
    CASE c = first -> IF v = Absent THEN {"first"} ELSE v \union {"first"}
      [] c = second -> IF v = Absent THEN {"second"} ELSE v \union {"second"}
      [] c = click -> IF v = Absent \/ "clicked" \in v \/ "first" \notin v
                        THEN NoChange ELSE v \union {"clicked"}

MCSymmetry == Permutations(Requests) \union Permutations(Apps)

VARIABLES
    part,
    site, list, join, joins, failed, alone, sober,
    app, expired, used, codes, held, issued, req, begun, lost, calm, tries, revoked, intact

documents == <<doc, clock, pc, snap, attempt, reads, result, applied, since, faulted, faults>>
memberships == <<site, list, join, joins, failed, alone, sober>>
applications == <<app, expired, used, codes, held, issued, req, begun, lost, calm, tries, revoked, intact>>

Members == INSTANCE Membership WITH
    Kinds <- {"create", "join", "deleteSite", "deleteUser"},
    MaxBegun <- MaxJoins, MaxFaults <- MaxFailed,
    req <- join, begun <- joins, faults <- failed, calm <- sober

User == INSTANCE Apps WITH
    Kinds <- {"list", "key", "approve", "redeem", "revoke", "overwrite"},
    MaxBegun <- MaxMade, MaxFaults <- MaxLost, faults <- lost

ASSUME PartsAssumption ==
    /\ Parts \subseteq {"document", "members", "joins", "redeemed", "limited", "single", "overwritten"}
    /\ Guest \in Users /\ Home \in Sites
    /\ Members!Assumptions /\ User!Assumptions

PartsInit ==
    /\ part \in Parts
    /\ Init /\ (part # "document" => doc = NoDoc)
    /\ Members!Init /\ User!Init

MembersPart ==
    /\ Members!Next
    /\ \A r \in Requests : join'[r].at # "idle" => join'[r].u # Guest
JoinsPart ==
    /\ Members!Next /\ joins' <= 3 /\ failed' = 0
    /\ \A r \in Requests :
          join'[r].at # "idle" => join'[r].kind \in {"create", "join"} /\ join'[r].s = Home

(* A step among requests of certain kinds, up to a number of applications,    *)
(* requests and failures.                                                     *)
UserStep(kinds, apps, made, losses) ==
    /\ User!Next
    /\ \A r \in Requests : req'[r].at # "idle" => req'[r].kind \in kinds
    /\ Cardinality(used') <= apps /\ begun' <= made /\ lost' <= losses
RedeemedPart == UserStep({"approve", "redeem", "revoke"}, 2, 4, 2)
LimitedPart == UserStep({"key", "approve", "revoke", "list"}, 4, 5, 1)
SinglePart == User!Next /\ calm'
OverwrittenPart == UserStep({"key", "revoke", "overwrite"}, 2, 3, 0)

PartsNext ==
    /\ \/ part = "document" /\ Next /\ UNCHANGED <<memberships, applications>>
       \/ /\ \/ part = "members" /\ MembersPart
             \/ part = "joins" /\ JoinsPart
          /\ UNCHANGED <<documents, applications>>
       \/ /\ \/ part = "redeemed" /\ RedeemedPart
             \/ part = "limited" /\ LimitedPart
             \/ part = "single" /\ SinglePart
             \/ part = "overwritten" /\ OverwrittenPart
          /\ UNCHANGED <<documents, memberships>>
    /\ UNCHANGED part

PartsSpec == PartsInit /\ [][PartsNext]_<<part, documents, memberships, applications>>

-----------------------------------------------------------------------------
(* None of these holds (README, Departures): a join only adds a permission,   *)
(* an app that is revoked stays so beside a login, and the clean-up of apps   *)
(* removes pending ones only.                                                 *)
JoinOnlyAdds == Members!JoinOnlyAdds
OverwrittenStaysGone == part = "overwritten" => User!RevokedStaysGone
CleansOnlyPending == User!CleansOnlyPending

(* A site's permissions and its users' lists agree, as far as joins, creations*)
(* and deletions promise (join.go, users.go, firestore.go).                   *)
MembersInv == Members!MembersInv
(* A join leaves both sides, a deletion neither.                              *)
MembersSteps == Members!MembersSteps
(* A code yields one token, its replay revokes it, a revoked app does not come*)
(* back, and no user has more apps than the limit (apps.go, oauth.go).        *)
AppsInv == User!AppsInv
=============================================================================
