-------------------------------- MODULE Apps --------------------------------
(* A user's connected applications: API keys and OAuth apps, elements of the  *)
(* user document. Every change goes through readModifyWriteDoc, taken here by *)
(* its abstract specification, AtomicDocument: a change is atomic, may be     *)
(* made again when a reply was lost, and may have been made though the caller *)
(* gets an error. The handlers around it read the user once and act on that   *)
(* copy: handleNewApp and handleOAuthApprove (apps.go, oauth.go) clean up and *)
(* count before they add, handleListApps only cleans up; handleOAuthToken redeems the code of a pending app; *)
(* handleRevokeApp removes one. handleJoin, handleDeleteSite and handleLogin  *)
(* write the whole user back (UpdateUser), applications included.             *)
EXTENDS Naturals, FiniteSets

CONSTANTS
    Requests,
    Apps,           \* application ids: random in the code, never used twice
    MaxApps,        \* maxUserApps: 25 in the code
    MaxCleanup,     \* maxExpiredCleanup: 3 in the code
    Kinds,
    MaxBegun, MaxFaults     \* bounds

(* What the constants are, assumed by what instantiates this module.          *)
Assumptions ==
    /\ MaxApps \in Nat \ {0} /\ MaxCleanup \in Nat /\ MaxBegun \in Nat /\ MaxFaults \in Nat
    /\ IsFiniteSet(Requests) /\ IsFiniteSet(Apps)
    /\ Kinds \subseteq {"list", "key", "approve", "redeem", "revoke", "overwrite"}

VARIABLES
    app,        \* [Apps -> [st, tok]]: none, pending or live, and the token it accepts
    expired,    \* the codes past their sixty seconds
    used,       \* the ids generated so far
    codes,      \* ids whose authorization code a client holds
    held,       \* tokens handed to clients: <<id, token>>
    issued,     \* tokens generated so far
    req, begun, faults,
    calm,       \* history: no two requests overlapped so far
    tries,      \* history: redemptions that began while the code was valid
    revoked,    \* history: ids whose revocation was confirmed
    intact      \* history: no user was written back other than as it was

vars == <<app, expired, used, codes, held, issued, req, begun, faults, calm, tries, revoked, intact>>

None == [st |-> "none", tok |-> 0]
Pending == [st |-> "pending", tok |-> 0]
Live(t) == [st |-> "live", tok |-> t]
Idle == [at |-> "idle"]
Present(m) == {a \in Apps : m[a].st # "none"}

AppRecords == [st : {"none", "pending", "live"}, tok : Nat]
Reqs == {Idle} \union
    [at : {"clean", "add", "find", "replace", "remove", "restore"},
     kind : Kinds, a : Apps, fresh : BOOLEAN, tok : Nat,
     copy : [Apps -> AppRecords], todo : SUBSET Apps, left : Nat]

TypeOK ==
    /\ app \in [Apps -> AppRecords]
    /\ expired \subseteq Apps /\ used \subseteq Apps /\ codes \subseteq Apps
    /\ held \subseteq Apps \X Nat
    /\ issued \in Nat
    /\ req \in [Requests -> Reqs]
    /\ begun \in 0..MaxBegun /\ faults \in 0..MaxFaults
    /\ calm \in BOOLEAN /\ tries \in [Apps -> Nat] /\ revoked \subseteq Apps
    /\ intact \in BOOLEAN

Init ==
    /\ app = [a \in Apps |-> None]
    /\ expired = {} /\ used = {} /\ codes = {} /\ held = {} /\ issued = 0
    /\ req = [r \in Requests |-> Idle]
    /\ begun = 0 /\ faults = 0
    /\ calm = TRUE /\ tries = [a \in Apps |-> 0] /\ revoked = {} /\ intact = TRUE

Goes(r, q) == req' = [req EXCEPT ![r] = q] /\ UNCHANGED faults
Fails(r, q) == faults < MaxFaults /\ faults' = faults + 1 /\ req' = [req EXCEPT ![r] = q]

(* AtomicDocument's Change: answered; or the reply is lost, and the change    *)
(* is made again (the call stays where it is) or reported as an error.        *)
Changed(r, m, okay, err) ==
    /\ app' = m
    /\ Goes(r, okay) \/ Fails(r, req[r]) \/ Fails(r, err)

(* AtomicDocument's Fail: nothing was written.                                *)
Unchanged(r, err) == UNCHANGED app /\ Fails(r, err)

Begins(r, q) ==
    /\ req[r].at = "idle" /\ begun < MaxBegun
    /\ begun' = begun + 1
    /\ calm' = (calm /\ \A p \in Requests : req[p].at = "idle")
    /\ Goes(r, q) /\ UNCHANGED app

Blank(k, a) ==
    [at |-> "find", kind |-> k, a |-> a, fresh |-> TRUE, tok |-> 0, copy |-> app,
     todo |-> {}, left |-> 0]

Stale(m) == {a \in Apps : m[a].st = "pending" /\ a \in expired}

(* The expired pending apps of the copy that one request removes.             *)
CleanupSets(m) ==
    {T \in SUBSET Stale(m) :
        Cardinality(T) = MaxCleanup \/ (T = Stale(m) /\ Cardinality(T) < MaxCleanup)}

(* What is counted against the limit: pending apps too.                       *)
SlipRemaining(m, T) == Cardinality({a \in Apps : m[a].st = "live"}) - Cardinality(T)
Remaining(m, T) == Cardinality(Present(m)) - Cardinality(T)

BeginClean(r, k, a) ==
    \E T \in CleanupSets(app) :
        /\ Begins(r, [Blank(k, a) EXCEPT !.at = "clean", !.todo = T, !.left = Remaining(app, T)])
        /\ UNCHANGED <<expired, codes, held, issued, tries, revoked, intact>>

(* handleNewApp, handleOAuthApprove: on the middleware's copy of the user.    *)
BeginNew(r) ==
    \E k \in Kinds \intersect {"key", "approve"}, a \in Apps \ used :
        BeginClean(r, k, a) /\ used' = used \union {a}

BeginList(r) ==
    /\ "list" \in Kinds
    /\ \E a \in Apps : BeginClean(r, "list", a)
    /\ UNCHANGED used

(* cleanExpiredPendingApps: RemoveUserApp, by id; one that fails still counts. *)
Clean(r) ==
    LET q == req[r] IN
    /\ q.at = "clean"
    /\ \E a \in q.todo :
          LET rest == [q EXCEPT !.todo = @ \ {a}] IN
          \/ app[a].st # "none"
             /\ Changed(r, [app EXCEPT ![a] = None], rest, [rest EXCEPT !.left = @ + 1])
          \/ app[a].st = "none" /\ Goes(r, rest) /\ UNCHANGED app
          \/ Unchanged(r, [rest EXCEPT !.left = @ + 1])
    /\ UNCHANGED <<expired, used, codes, held, issued, begun, calm, tries, revoked, intact>>

(* The limit, on what the clean-up counted; a list is answered.               *)
Count(r) ==
    LET q == req[r] IN
    /\ q.at = "clean" /\ q.todo = {}
    /\ Goes(r, IF q.kind = "list" \/ q.left >= MaxApps THEN Idle ELSE [q EXCEPT !.at = "add"])
    /\ UNCHANGED <<app, expired, used, codes, held, issued, begun, calm, tries, revoked, intact>>

(* AddUserApp: by id, so that doing it twice leaves one.                      *)
Add(r) ==
    LET q == req[r]
        key == q.kind = "key" IN
    /\ q.at = "add"
    /\ \/ Changed(r, [app EXCEPT ![q.a] = IF key THEN Live(issued + 1) ELSE Pending], Idle, Idle)
       \/ Unchanged(r, Idle)
    /\ issued' = IF key THEN issued + 1 ELSE issued
    /\ LET answered == faults' = faults IN
       /\ codes' = IF answered /\ ~key THEN codes \union {q.a} ELSE codes
       /\ held' = IF answered /\ key THEN held \union {<<q.a, issued + 1>>} ELSE held
    /\ UNCHANGED <<expired, used, begun, calm, tries, revoked, intact>>

(* handleOAuthToken with a code a client holds. A request that is malformed   *)
(* (grant type, verifier, client) goes straight to the removal of the app.    *)
BeginRedeem(r) ==
    /\ "redeem" \in Kinds
    /\ \E a \in codes, valid \in BOOLEAN :
          LET fresh == a \notin expired IN
          /\ valid \/ fresh
          /\ Begins(r, [Blank("redeem", a) EXCEPT !.fresh = fresh,
                                                 !.at = IF valid THEN "find" ELSE "remove"])
          /\ tries' = IF fresh THEN [tries EXCEPT ![a] = @ + 1] ELSE tries
    /\ UNCHANGED <<expired, used, codes, held, issued, revoked, intact>>

(* The user is read: a pending app is redeemed; one redeemed already means    *)
(* that the code came twice; the removal needs a code still valid when the    *)
(* request came in.                                                           *)
Find(r) ==
    LET q == req[r] IN
    /\ q.at = "find"
    /\ \/ app[q.a].st = "none" /\ Goes(r, Idle) /\ UNCHANGED issued
       \/ /\ app[q.a].st = "live" \/ ~q.fresh
          /\ app[q.a].st # "none"
          /\ Goes(r, IF q.fresh THEN [q EXCEPT !.at = "remove"] ELSE Idle)
          /\ UNCHANGED issued
       \/ /\ app[q.a].st = "pending" /\ q.fresh
          /\ issued' = issued + 1
          /\ Goes(r, [q EXCEPT !.at = "replace", !.tok = issued + 1])
    /\ UNCHANGED <<app, expired, used, codes, held, begun, calm, tries, revoked, intact>>

(* What ReplaceUserApp demands of the app: still there, the code still unused. *)
SlipRedeemed(a) == app[a].st # "none"
SlipUpsert(a) == app[a].st # "live"
Redeemable(a) == app[a].st = "pending"

(* When ReplaceUserApp fails, whatever the reason, the app is removed.        *)
SlipAfterConflict(q) == Idle
AfterConflict(q) == [q EXCEPT !.at = "remove"]

Replace(r) ==
    LET q == req[r]
        drop == AfterConflict(q) IN
    /\ q.at = "replace"
    /\ \/ /\ Redeemable(q.a)
          /\ Changed(r, [app EXCEPT ![q.a] = Live(q.tok)], Idle, drop)
          /\ held' = IF faults' = faults THEN held \union {<<q.a, q.tok>>} ELSE held
       \/ ~Redeemable(q.a) /\ Goes(r, drop) /\ UNCHANGED <<app, held>>
       \/ Unchanged(r, drop) /\ UNCHANGED held
    /\ UNCHANGED <<expired, used, codes, issued, begun, calm, tries, revoked, intact>>

(* handleRevokeApp, on any app the user sees.                                 *)
BeginRevoke(r) ==
    /\ "revoke" \in Kinds
    /\ \E a \in Present(app) : Begins(r, [Blank("revoke", a) EXCEPT !.at = "remove"])
    /\ UNCHANGED <<expired, used, codes, held, issued, tries, revoked, intact>>

(* RemoveUserApp: by id, pending or not; an app that is gone is an error the  *)
(* clean-ups ignore.                                                          *)
Remove(r) ==
    LET q == req[r] IN
    /\ q.at = "remove"
    /\ \/ /\ app[q.a].st # "none"
          /\ Changed(r, [app EXCEPT ![q.a] = None], Idle, Idle)
          /\ revoked' = IF q.kind = "revoke" /\ faults' = faults
                        THEN revoked \union {q.a} ELSE revoked
       \/ app[q.a].st = "none" /\ Goes(r, Idle) /\ UNCHANGED <<app, revoked>>
       \/ Unchanged(r, Idle) /\ UNCHANGED revoked
    /\ UNCHANGED <<expired, used, codes, held, issued, begun, calm, tries, intact>>

(* handleJoin, handleDeleteSite, handleLogin: GetUser, and later UpdateUser of *)
(* all of it.                                                                 *)
BeginOverwrite(r) ==
    /\ "overwrite" \in Kinds
    /\ \E a \in Apps : Begins(r, [Blank("overwrite", a) EXCEPT !.at = "restore"])
    /\ UNCHANGED <<expired, used, codes, held, issued, tries, revoked, intact>>

Restore(r) ==
    /\ req[r].at = "restore"
    /\ app' = req[r].copy
    /\ intact' = (intact /\ app' = app)
    /\ Goes(r, Idle)
    /\ UNCHANGED <<expired, used, codes, held, issued, begun, calm, tries, revoked>>

(* A minute passes.                                                           *)
Expire ==
    /\ \E a \in used : app[a].st = "pending" /\ expired' = expired \union {a}
    /\ UNCHANGED <<app, used, codes, held, issued, req, begun, faults, calm, tries, revoked, intact>>

(* The instance stops.                                                        *)
Stop(r) ==
    /\ req[r].at # "idle" /\ Fails(r, Idle)
    /\ UNCHANGED <<app, expired, used, codes, held, issued, begun, calm, tries, revoked, intact>>

Next ==
    \/ Expire
    \/ \E r \in Requests :
        \/ BeginNew(r) \/ BeginList(r) \/ Clean(r) \/ Count(r) \/ Add(r)
        \/ BeginRedeem(r) \/ Find(r) \/ Replace(r)
        \/ BeginRevoke(r) \/ Remove(r) \/ BeginOverwrite(r) \/ Restore(r) \/ Stop(r)

Spec == Init /\ [][Next]_vars

-----------------------------------------------------------------------------
Quiet == \A r \in Requests : req[r].at = "idle"

(* One code, one token: however often and however many at a time redeem it,   *)
(* and whatever replies get lost, clients are handed at most one token of an  *)
(* app, and a live app that a client has a token of accepts that one.         *)
OneTokenPerCode ==
    \A h, g \in held : h[1] = g[1] =>
        h = g /\ (app[h[1]].st = "live" => app[h[1]].tok = h[2])

(* "revoked oauth app due to authorization code replay": once all is quiet, an *)
(* app whose code came twice in time is gone, in whatever order its requests  *)
(* read and wrote, unless a call to the database failed.                      *)
ReplayRevokes ==
    Quiet /\ faults = 0 => \A a \in Apps : tries[a] >= 2 => app[a].st = "none"

(* The limit holds when requests follow one another, and is exceeded by at    *)
(* most the number that overlap, though each counts on a copy of its own.     *)
AppLimit ==
    Cardinality(Present(app)) <=
        IF calm THEN MaxApps ELSE MaxApps + Cardinality(Requests) - 1

(* "revoked user app": a confirmed revocation is final while nothing fails,   *)
(* whatever redemption of the app was under way.                              *)
RevokedStaysGone ==
    faults = 0 => \A a \in revoked : app[a].st = "none"

(* What holds of a user's applications as long as nobody writes back a user   *)
(* read before somebody else changed them.                                    *)
AppsInv ==
    TypeOK /\ (intact => OneTokenPerCode /\ ReplayRevokes /\ RevokedStaysGone /\ AppLimit)

(* "removes up to 3 expired pending OAuth apps" (apps.go): what the clean-up  *)
(* removes is still pending.                                                  *)
CleansOnlyPending ==
    [][\A r \in Requests : Clean(r) =>
          \A a \in Apps : app[a].st = "live" => app'[a].st = "live"]_vars
=============================================================================
