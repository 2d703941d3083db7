----------------------------- MODULE Membership -----------------------------
(* Who belongs to which site is written in two documents: the site's list of  *)
(* permissions and each user's list of sites. handleJoin, handleDeleteSite    *)
(* and handleDeleteUser change both, one after the other, each by writing back *)
(* the whole document it read a moment before (CreateSite and CreateUser      *)
(* apart, which fail when the document exists). A handler may stop between    *)
(* any two calls to the database.                                             *)
EXTENDS Naturals, FiniteSets

CONSTANTS
    Requests,   \* requests that can be under way at once
    Users, Sites,
    Absent,     \* no document
    MaxSites,   \* sites a user may belong to: 5 in the code
    Kinds,      \* the kinds of request of this instance
    MaxBegun,   \* bound on the requests begun
    MaxFaults   \* bound on failed writes and on handlers that stop

(* What the constants are, assumed by what instantiates this module.          *)
Assumptions ==
    /\ \A U \in SUBSET Users : U # Absent
    /\ \A S \in SUBSET Sites : S # Absent
    /\ MaxSites \in Nat /\ MaxBegun \in Nat /\ MaxFaults \in Nat
    /\ Kinds \subseteq {"create", "join", "deleteSite", "deleteUser"}

VARIABLES
    site,       \* [Sites -> the users permitted, or Absent]
    list,       \* [Users -> the sites listed, or Absent]
    req,        \* the requests under way: what each has read and has yet to do
    begun, faults,
    alone,      \* history: nobody else took a step since this request began
    calm        \* history: no two requests ever overlapped, none stopped half way

vars == <<site, list, req, begun, faults, alone, calm>>

Idle == [at |-> "idle"]

(* Who may be half way through, for the history only.                         *)
Others(r) == {q \in Requests \ {r} : req[q].at # "idle"}

Reqs == {Idle} \union
    [at : {"site", "user", "list", "perm", "access", "each", "strip", "purge", "drop"},
     kind : Kinds, u : Users, s : Sites, new : BOOLEAN,
     perms : SUBSET Users,      \* the site as this request read it
     mine : SUBSET Sites,       \* a user's list as it will write it
     todo : SUBSET Users, who : Users]

TypeOK ==
    /\ site \in [Sites -> (SUBSET Users) \union {Absent}]
    /\ list \in [Users -> (SUBSET Sites) \union {Absent}]
    /\ req \in [Requests -> Reqs]
    /\ begun \in 0..MaxBegun /\ faults \in 0..MaxFaults
    /\ alone \in [Requests -> BOOLEAN] /\ calm \in BOOLEAN

Init ==
    /\ site = [s \in Sites |-> Absent]
    /\ list = [u \in Users |-> Absent]
    /\ req = [r \in Requests |-> Idle]
    /\ begun = 0 /\ faults = 0
    /\ alone = [r \in Requests |-> FALSE]
    /\ calm = TRUE

(* A step of request r ends the solitude of the others.                       *)
Steps(r, q) ==
    /\ req' = [req EXCEPT ![r] = q]
    /\ alone' = [p \in Requests |-> p = r /\ alone[r]]
    /\ UNCHANGED <<begun, calm>>

Goes(r, q) == Steps(r, q) /\ UNCHANGED faults
Fails(r, q) == faults < MaxFaults /\ faults' = faults + 1 /\ Steps(r, q)

Permitted(u, s) == site[s] # Absent /\ u \in site[s]
Listed(u) == IF list[u] = Absent THEN {} ELSE list[u]

(* Slips for the mutants: the limit off by one.                               *)
SlipMayJoin(k, u, s) ==
    Cardinality(Listed(u)) <= MaxSites \/ (k = "join" /\ s \in Listed(u))

(* The limit, on the list the middleware read; a member may always rejoin.    *)
MayJoin(k, u, s) ==
    Cardinality(Listed(u)) < MaxSites \/ (k = "join" /\ s \in Listed(u))

Begun(k, u, s) ==
    [at |-> CASE k = "deleteSite" -> "access" [] k = "deleteUser" -> "drop" [] OTHER -> "site",
     kind |-> k, u |-> u, s |-> s, new |-> list[u] = Absent,
     perms |-> {}, mine |-> {}, todo |-> {}, who |-> u]

(* The middleware reads the user; the handler's first checks use that copy.   *)
Begin(r) ==
    \E k \in Kinds, u \in Users, s \in Sites :
        /\ req[r].at = "idle" /\ begun < MaxBegun
        /\ k \in {"create", "join"} => MayJoin(k, u, s)
        /\ k = "deleteSite" => list[u] # Absent
        /\ k = "deleteUser" => list[u] = {}
        /\ req' = [req EXCEPT ![r] = Begun(k, u, s)]
        /\ begun' = begun + 1
        /\ alone' = [p \in Requests |-> p = r /\ Others(r) = {}]
        /\ calm' = (calm /\ Others(r) = {})
        /\ UNCHANGED <<site, list, faults>>

(* A new site is created with its founder's permission, unless the id is taken. *)
CreateSite(r) ==
    LET q == req[r] IN
    /\ q.at = "site" /\ q.kind = "create"
    /\ \/ /\ site[q.s] = Absent
          /\ site' = [site EXCEPT ![q.s] = {q.u}]
          /\ Goes(r, [q EXCEPT !.at = "user", !.perms = {q.u}])
       \/ site[q.s] # Absent /\ Goes(r, Idle) /\ UNCHANGED site
    /\ UNCHANGED list

(* A join reads the site it has the code of.                                  *)
ReadSite(r) ==
    LET q == req[r] IN
    /\ q.at = "site" /\ q.kind = "join"
    /\ \/ site[q.s] # Absent /\ Goes(r, [q EXCEPT !.at = "user", !.perms = site[q.s]])
       \/ site[q.s] = Absent /\ Goes(r, Idle)
    /\ UNCHANGED <<site, list>>

CreateUser(r) ==
    LET q == req[r] IN
    /\ q.at = "user" /\ q.new
    /\ \/ /\ list[q.u] = Absent
          /\ list' = [list EXCEPT ![q.u] = {q.s}]
          /\ Goes(r, [q EXCEPT !.at = "perm"])
       \/ list[q.u] # Absent /\ Goes(r, Idle) /\ UNCHANGED list
    /\ UNCHANGED site

(* A slip: a user who has the permission already is not written.              *)
SlipReadUser(r) ==
    LET q == req[r] IN
    /\ q.at = "user" /\ ~q.new
    /\ \/ list[q.u] = Absent /\ Goes(r, Idle)
       \/ /\ list[q.u] # Absent /\ q.u \notin q.perms
          /\ Goes(r, [q EXCEPT !.at = "list", !.mine = list[q.u] \union {q.s}])
       \/ list[q.u] # Absent /\ q.u \in q.perms /\ Goes(r, [q EXCEPT !.at = "perm"])
    /\ UNCHANGED <<site, list>>

(* An existing user is read again; the list is written only when the site is  *)
(* missing from it, or has another name there.                                *)
ReadUser(r) ==
    LET q == req[r] IN
    /\ q.at = "user" /\ ~q.new
    /\ \/ list[q.u] = Absent /\ Goes(r, Idle)
       \/ /\ list[q.u] # Absent
          /\ Goes(r, [q EXCEPT !.at = "list", !.mine = list[q.u] \union {q.s}])
       \/ list[q.u] # Absent /\ q.s \in list[q.u] /\ Goes(r, [q EXCEPT !.at = "perm"])
    /\ UNCHANGED <<site, list>>

(* UpdateUser: the whole document, made anew if it is gone.                   *)
WriteList(r) ==
    LET q == req[r] IN
    /\ q.at = "list"
    /\ list' = [list EXCEPT ![q.u] = q.mine]
    /\ Goes(r, [q EXCEPT !.at = "perm"])
    /\ UNCHANGED site

(* UpdateSite: the site as it was read, with the permission added.            *)
Permit(r) ==
    LET q == req[r] IN
    /\ q.at = "perm"
    /\ site' = IF q.u \in q.perms THEN site
               ELSE [site EXCEPT ![q.s] = q.perms \union {q.u}]
    /\ Goes(r, Idle)
    /\ UNCHANGED list

(* handleDeleteSite: the middleware reads the site and checks the permission. *)
ReadMembers(r) ==
    LET q == req[r] IN
    /\ q.at = "access"
    /\ \/ /\ Permitted(q.u, q.s)
          /\ Goes(r, [q EXCEPT !.at = "each", !.perms = site[q.s], !.todo = site[q.s]])
       \/ ~Permitted(q.u, q.s) /\ Goes(r, Idle)
    /\ UNCHANGED <<site, list>>

(* For every member: read, take the site out, write back; a user that cannot  *)
(* be read is passed over.                                                    *)
ReadMember(r) ==
    LET q == req[r] IN
    /\ q.at = "each"
    /\ \E p \in q.todo :
          LET rest == [q EXCEPT !.todo = @ \ {p}] IN
          \/ list[p] # Absent
             /\ Goes(r, [rest EXCEPT !.at = "strip", !.who = p, !.mine = list[p] \ {q.s}])
          \/ list[p] = Absent /\ Goes(r, rest)
          \/ list[p] # Absent /\ Fails(r, rest)
    /\ UNCHANGED <<site, list>>

StripMember(r) ==
    LET q == req[r] IN
    /\ q.at = "strip"
    /\ \/ /\ list' = [list EXCEPT ![q.who] = q.mine]
          /\ Goes(r, [q EXCEPT !.at = "each"])
       \/ Fails(r, [q EXCEPT !.at = "each"]) /\ UNCHANGED list
    /\ UNCHANGED site

(* A slip: whoever deletes the site is left out of the loop.                  *)
SlipDropSite(r) ==
    LET q == req[r] IN
    /\ q.at = "each" /\ q.todo \subseteq {q.u}
    /\ site' = [site EXCEPT ![q.s] = Absent] /\ Goes(r, Idle)
    /\ UNCHANGED list

(* DeleteSite removes the site document last; when it fails before that, the  *)
(* document stays.                                                            *)
DropSite(r) ==
    LET q == req[r] IN
    /\ q.at = "each" /\ q.todo = {}
    /\ \/ site' = [site EXCEPT ![q.s] = Absent] /\ Goes(r, Idle)
       \/ Fails(r, Idle) /\ UNCHANGED site
    /\ UNCHANGED list

(* A slip: the handler goes on after the deletion.                            *)
DropUser(r) ==
    LET q == req[r] IN
    /\ q.at = "drop"
    /\ list' = [list EXCEPT ![q.u] = Absent]
    /\ Goes(r, Idle)
    /\ UNCHANGED site

(* The instance stops, or a call fails and the handler returns the error.     *)
Stop(r) ==
    /\ req[r].at # "idle" /\ faults < MaxFaults
    /\ faults' = faults + 1
    /\ req' = [req EXCEPT ![r] = Idle]
    /\ alone' = [alone EXCEPT ![r] = FALSE]
    /\ calm' = FALSE
    /\ UNCHANGED <<site, list, begun>>

Next == \E r \in Requests :
    \/ Begin(r) \/ CreateSite(r) \/ ReadSite(r) \/ CreateUser(r) \/ ReadUser(r)
    \/ WriteList(r) \/ Permit(r) \/ ReadMembers(r) \/ ReadMember(r) \/ StripMember(r)
    \/ DropSite(r) \/ DropUser(r) \/ Stop(r)

Spec == Init /\ [][Next]_vars

-----------------------------------------------------------------------------
Quiet == \A r \in Requests : req[r].at = "idle"

(* At rest, when no two requests ever overlapped and none failed half way, a  *)
(* user lists exactly the sites that permit them, and no more than allowed.   *)
BothSidesAgree ==
    Quiet /\ calm /\ faults = 0 =>
        \A u \in Users :
            /\ \A s \in Sites : s \in Listed(u) <=> Permitted(u, s)
            /\ Cardinality(Listed(u)) <= MaxSites

(* A join that runs to its end with nobody in between leaves both documents   *)
(* saying so, whatever half-done joins and deletions it started from: to try  *)
(* again repairs.                                                             *)
JoinRepairs ==
    [][\A r \in Requests :
          req[r].at = "perm" /\ alone[r] /\ Permit(r) =>
             LET q == req[r] IN q.s \in list'[q.u] /\ q.u \in site'[q.s]]_vars

(* The same for a deletion: no member it met still lists the site, and it is  *)
(* gone, unless a call failed.                                                *)
DeletionIsWhole ==
    [][\A r \in Requests :
          req[r].at = "each" /\ DropSite(r) /\ alone[r] /\ faults' = 0 =>
             LET q == req[r] IN
             site'[q.s] = Absent /\ \A u \in q.perms : q.s \notin Listed(u)]_vars

MembersInv == TypeOK /\ BothSidesAgree
MembersSteps == JoinRepairs /\ DeletionIsWhole

(* "2. Update Site (Add permission)" (join.go): a join only adds. What the    *)
(* code does is write back all the permissions it read.                       *)
JoinOnlyAdds ==
    [][\A r \in Requests, s \in Sites :
          Permit(r) /\ site[s] # Absent =>
             site'[s] # Absent /\ site[s] \subseteq site'[s]]_vars

(* "Limit user to 5 sites" (join.go).                                         *)
SiteLimit == \A u \in Users : Cardinality(Listed(u)) <= MaxSites
=============================================================================
