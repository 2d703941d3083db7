---------------------------- MODULE SiteSettings ----------------------------
(***************************************************************************)
(* One site's settings document and every request that writes it.           *)
(*                                                                          *)
(* The document holds what the users chose, the encrypted credentials of    *)
(* the battery system, the failure counters that pace authentication, each  *)
(* user's notification preferences and the update group the scheduler       *)
(* queries.  Requests run on many server instances; each reads the          *)
(* document, calls the battery vendor, and writes the whole document back,  *)
(* most of them under a precondition on the version they read, a settings   *)
(* save under none.                                                         *)
(***************************************************************************)
EXTENDS Integers, FiniteSets

CONSTANTS
    Reqs,        \* requests that may be in flight at once
    Kinds,       \* which handlers run: a subset of AllKinds
    Configs,     \* the user-editable settings a save may ask for
    Users,       \* users of the site
    Prefs,       \* notification preferences of a user on the site
    NoPref,      \* the empty preference: the user has no entry
    Starts,      \* which documents the site may start with
    Faults,      \* which failures of the outside world may happen
    MaxRetries,  \* attempts of readModifyWriteDoc
    MaxCommits,  \* bound: no request begins after so many writes, or denials
    MaxTokens,   \* bound on the refresh tokens the vendor issues
    MaxTime      \* bound on the clock

(* sweep: a site's part of handleUpdateSites; manual: handleUpdate; revert: *)
(* revertManagedTOUModeOnPause, entered from a save only.                   *)
AllKinds == {"sweep", "manual", "save", "stage", "read", "prefs", "delete"}
AllFaults == {"validate",  \* the vendor rejects the calls that verify a token
              "response",  \* the vendor rotates the token, the reply is lost
              "modes",     \* the vendor answers 401 to a mode change
              "store",     \* a write fails, or commits and its reply is lost
              "crash"}     \* the instance stops, or the context is cancelled
Utilities == {"none", "tou", "comed"}
Updates == {"sweep", "manual", "revert"}

ConfigSet == [ess : BOOLEAN, utility : Utilities, pause : BOOLEAN]
NoConfig == [ess |-> FALSE, utility |-> "none", pause |-> FALSE]
NoNotifications == [u \in Users |-> NoPref]

ASSUME KindsAssumption == Kinds \subseteq AllKinds
ASSUME ConfigsAssumption == Configs \subseteq ConfigSet
ASSUME UsersAssumption == Users # {}
ASSUME PrefsAssumption == NoPref \in Prefs
ASSUME StartsAssumption == Starts \subseteq {"missing", "legacy", "linked"}
ASSUME FaultsAssumption == Faults \subseteq AllFaults
ASSUME BoundsAssumption ==
    /\ MaxRetries \in Nat \ {0}
    /\ MaxCommits \in Nat
    /\ MaxTokens \in Nat
    /\ MaxTime \in Nat

(* Seconds in a tick of the clock: the shortest backoff there is.           *)
TickSeconds == 30

(* ver is the document's UpdateTime and 0 that of a document that does not  *)
(* exist, the zero time GetSettings returns with empty settings.  current   *)
(* says the stored schema version is the code's.  tok is the generation of  *)
(* the stored refresh token, 0 without credentials.  group is the pool the  *)
(* update group falls in.                                                   *)
Docs == [ver : Nat, current : BOOLEAN, cfg : ConfigSet, tok : Nat,
         fails : Nat, setFails : Nat, last : Nat,
         notif : [Users -> Prefs], group : Utilities]

Missing == [ver |-> 0, current |-> FALSE, cfg |-> NoConfig, tok |-> 0,
            fails |-> 0, setFails |-> 0, last |-> 0,
            notif |-> NoNotifications, group |-> "none"]

VARIABLES
    doc,      \* the stored settings, as GetSettings would return them
    listed,   \* the top-level updateGroup field puts the site in some sweep
    commits,  \* how many writes the document has seen: the last UpdateTime
    deleted,  \* the site document itself is gone
    stopped,  \* history: a deletion ended between its first write and its purge
    raced,    \* history: a save was under way between a purge and its end
    now,      \* the clock, in ticks
    live,     \* refresh tokens the vendor would still accept
    aging,    \* tokens whose access token is within 15 minutes of its expiry
    issued,   \* how many tokens the vendor has issued
    req,      \* per request: where its handler is and what it holds
    sv,       \* per request: the settings it works on and the version it read
    wanted,   \* history: what the users' applied writes ask for
    blind,    \* history: a write replaced a version its writer never read
    denials   \* history: authentications denied in a row and the last of them

store == <<doc, listed, commits, blind>>
vendor == <<live, aging, issued, denials>>
ending == <<deleted, stopped, raced>>
vars == <<doc, listed, commits, deleted, stopped, raced, now, live, aging,
          issued, req, sv, wanted, blind, denials>>

-----------------------------------------------------------------------------
(* What a request holds besides its settings.  cred is the refresh token in *)
(* the credentials it carries; ask is the body of the request, link saying  *)
(* whether a save brings credentials and of which kind.                     *)
Links == {"none", "code", "badcode"}
Asks == [cfg : ConfigSet, link : Links, user : Users, pref : Prefs]
Places == {"idle", "migrate", "guard", "save", "auth", "granted", "denied",
           "write", "modes", "prefs", "again", "unlist", "purge", "drop"}
ReqStates == [at : Places, kind : AllKinds \cup {"revert"}, cred : Nat,
              ask : Asks, began : Nat, tries : Nat]

NoAsk == [cfg |-> NoConfig, link |-> "none",
          user |-> CHOOSE u \in Users : TRUE, pref |-> NoPref]
Idle == [at |-> "idle", kind |-> "read", cred |-> 0, ask |-> NoAsk,
         began |-> 0, tries |-> 0]

(* A finished request keeps nothing.                                        *)
Finish(a) ==
    /\ req' = [req EXCEPT ![a] = Idle]
    /\ sv' = [sv EXCEPT ![a] = Missing]

Goto(a, place) == req' = [req EXCEPT ![a].at = place]

-----------------------------------------------------------------------------
(* The writers the code leaves without a precondition: a save, and whoever  *)
(* read a document that did not exist, for want of a version to require.    *)
Unguarded(a) == req[a].kind = "save" \/ sv[a].ver = 0

(* Slips of the code that a run must notice are written beside what they    *)
(* change: here a lost precondition, and one that lets a write create the   *)
(* document it should find.                                                 *)
CommitUnchecked(a, s, ver) ==
    /\ doc' = [s EXCEPT !.ver = commits + 1]
    /\ commits' = commits + 1
    /\ blind' = (blind \/ (Unguarded(a) /\ sv[a].ver # doc.ver))

CommitUpserting(a, s, ver) ==
    /\ ver \in {0, doc.ver} \/ doc.ver = 0
    /\ doc' = [s EXCEPT !.ver = commits + 1]
    /\ commits' = commits + 1
    /\ blind' = (blind \/ (Unguarded(a) /\ sv[a].ver # doc.ver))

(* SetSettings.  A version of 0 is the zero time: the write is unconditional*)
(* and creates the document if need be.  Every field is written, the        *)
(* top-level updateGroup the scheduler queries included.                    *)
Commit(a, s, ver) ==
    /\ ver \in {0, doc.ver}
    /\ doc' = [s EXCEPT !.ver = commits + 1]
    /\ commits' = commits + 1
    /\ blind' = (blind \/ (Unguarded(a) /\ sv[a].ver # doc.ver))

Apply(a, s, ver) == Commit(a, s, ver) /\ listed' = (s.group # "none")

Refuse(ver) ==
    /\ ver \notin {0, doc.ver} \/ "store" \in Faults
    /\ UNCHANGED store

(* confirmed is what the caller learns: a write may commit unconfirmed.     *)
SetSettings(a, s, ver, confirmed) ==
    IF confirmed THEN Apply(a, s, ver)
    ELSE Refuse(ver) \/ ("store" \in Faults /\ Apply(a, s, ver))

(* Slip: after a refused write the handler takes the version it lost to.    *)
KeptAsNewest(a, s, confirmed) == IF confirmed THEN doc' ELSE [s EXCEPT !.ver = doc.ver]

(* The settings the handler goes on with: after a failed write they are     *)
(* those it tried to store, under the version it had read.                  *)
Kept(a, s, confirmed) == IF confirmed THEN doc' ELSE [s EXCEPT !.ver = sv[a].ver]

(* Write s under the version read and end, whatever comes of it.            *)
WriteAndFinish(a, s) ==
    /\ \E confirmed \in BOOLEAN : SetSettings(a, s, sv[a].ver, confirmed)
    /\ Finish(a)

-----------------------------------------------------------------------------
Eligible(s) == s.cfg.ess /\ s.cfg.utility # "none" /\ s.tok # 0

(* The update group a save or the migration to the current schema assigns   *)
(* when it assigns one: 1..12 for a time-of-use utility, 13..16 for ComEd's *)
(* hourly rate, so that only the pool matters.                              *)
Grouped(s) == [s EXCEPT !.group = s.cfg.utility]

(* MigrateSettings, on a missing document or one of versions 8 to 13.       *)
Migrated(s) ==
    [IF Eligible(s) THEN Grouped(s) ELSE [s EXCEPT !.group = "none"]
     EXCEPT !.current = TRUE]

(* Slip: the counter runs the wrong way.                                    *)
FailedBackwards(s) == [s EXCEPT !.fails = @ - 1, !.last = now]

(* ESSAuthStatus after an attempt that failed, and after one that did not.  *)
Failed(s) == [s EXCEPT !.fails = @ + 1, !.last = now]
Cleared(s) ==
    IF s.fails + s.setFails > 0
    THEN [s EXCEPT !.fails = 0, !.setFails = 0, !.last = now]
    ELSE s

(* How long the server leaves a battery vendor's API alone after repeated   *)
(* failures (getESSBackoff), in seconds.                                    *)
Minute == 60
Hour == 60 * Minute
Day == 24 * Hour

(* 30 * (1 << (failures - 2)) for the failures the shift is reached with,   *)
(* already cut at the fifteen minutes the code caps it with.                *)
ShiftedSeconds == <<30, 60, 120, 240, 480, 15 * Minute>>

getESSBackoff(failures) ==
    IF failures <= 1 THEN 0
    ELSE IF failures >= 40 THEN 365 * Day
    ELSE IF failures >= 22 THEN 12 * Hour
    ELSE IF failures >= 13 THEN 2 * Hour
    ELSE IF failures >= 10 THEN Hour
    ELSE IF failures > 7 THEN 15 * Minute
    ELSE ShiftedSeconds[failures - 1]

(* Slip: the second failure is still free.                                  *)
LimitedLate(failures, s) ==
    /\ failures > 2
    /\ TickSeconds * (now - s.last) < getESSBackoff(failures)

Limited(failures, s) ==
    /\ failures > 1
    /\ TickSeconds * (now - s.last) < getESSBackoff(failures)

-----------------------------------------------------------------------------
(* Beginning a request: it reads the document, with GetSettings or, for the *)
(* scheduler, ListSitesSettings.                                            *)

Entry(kind) == IF kind \in Updates THEN "guard"
               ELSE IF kind = "save" THEN "save"
               ELSE IF kind = "stage" THEN "auth"
               ELSE IF kind = "prefs" THEN "prefs"
               ELSE "unlist"

Read(a, kind, ask, place) ==
    /\ req[a].at = "idle"
    /\ kind \in Kinds
    /\ commits < MaxCommits /\ denials.n < MaxCommits
    /\ req' = [req EXCEPT ![a] =
                [at |-> place, kind |-> kind, cred |-> doc.tok, ask |-> ask,
                 began |-> IF kind = "stage" THEN now ELSE 0, tries |-> 1]]
    /\ sv' = [sv EXCEPT ![a] = doc]
    /\ raced' = (raced \/ (kind = "save" /\ \E d \in Reqs : req[d].at = "drop"))
    /\ UNCHANGED <<store, vendor, deleted, stopped, now, wanted>>

(* The handlers that migrate what they read before they use it.             *)
ReadMigrating(a, kind, ask) ==
    Read(a, kind, ask, IF doc.current THEN Entry(kind) ELSE "migrate")

(* The query matches any settings document in a due group, whether or not   *)
(* its site still exists; every other handler first finds the site.         *)
BeginSweep(a) == listed /\ ReadMigrating(a, "sweep", NoAsk)

BeginManual(a) == ~deleted /\ ReadMigrating(a, "manual", NoAsk)

(* A save with a code links a battery and so names one.                     *)
BeginSave(a) ==
    \E cfg \in Configs, link \in Links :
        /\ link # "none" => cfg.ess
        /\ link = "code" => issued < MaxTokens
        /\ ~deleted
        /\ ReadMigrating(a, "save", [NoAsk EXCEPT !.cfg = cfg, !.link = link])

(* handleESSStage checks the backoff on what it read, before migrating it.  *)
BeginStage(a) ==
    /\ ~deleted
    /\ ~Limited(doc.fails + doc.setFails, doc)
    /\ ReadMigrating(a, "stage", NoAsk)

(* handleGetSettings writes only to migrate.                                *)
BeginRead(a) == ~deleted /\ ~doc.current /\ Read(a, "read", NoAsk, "migrate")

(* A preference equal to the stored one, or a missing document, ends the    *)
(* request with no write.                                                   *)
BeginPrefs(a) ==
    \E user \in Users, pref \in Prefs :
        /\ ~deleted
        /\ doc.ver # 0
        /\ doc.notif[user] # pref
        /\ Read(a, "prefs", [NoAsk EXCEPT !.user = user, !.pref = pref], "prefs")

BeginDelete(a) == ~deleted /\ Read(a, "delete", NoAsk, "unlist")

-----------------------------------------------------------------------------
(* migrateAndDecryptSettings: store the migrated settings under the version *)
(* read; whether or not that succeeds the request goes on with them.        *)
Migrate(a) ==
    /\ req[a].at = "migrate"
    /\ \E confirmed \in BOOLEAN :
        LET s == Migrated(sv[a]) IN
        /\ SetSettings(a, s, sv[a].ver, confirmed)
        /\ IF req[a].kind = "read"
           THEN Finish(a)
           ELSE /\ sv' = [sv EXCEPT ![a] = Kept(a, s, confirmed)]
                /\ Goto(a, Entry(req[a].kind))
    /\ UNCHANGED <<vendor, ending, now, wanted>>

-----------------------------------------------------------------------------
(* getESSSystem up to Authenticate.  Without a configured battery only an   *)
(* instance that still caches the site's system gets past Map.Site, and the *)
(* scheduler does not try.                                                  *)
StartUpdate(a) ==
    /\ req[a].at = "guard"
    /\ ~Limited(sv[a].fails, sv[a])
    /\ sv[a].cfg.ess \/ req[a].kind # "sweep"
    /\ req' = [req EXCEPT ![a].at = "auth", ![a].began = now]
    /\ UNCHANGED <<store, vendor, ending, now, sv, wanted>>

(* Backed off, no battery system, or updated in the last five minutes.      *)
SkipUpdate(a) ==
    /\ req[a].at = "guard"
    /\ \/ Limited(sv[a].fails, sv[a])
       \/ ~sv[a].cfg.ess
       \/ req[a].kind = "sweep"
    /\ Finish(a)
    /\ UNCHANGED <<store, vendor, ending, now, wanted>>

(* Whether a save must verify credentials: changedESS in the handler.       *)
ChangesESS(a) == req[a].ask.link # "none" \/ sv[a].cfg.ess # req[a].ask.cfg.ess

(* The credential block of handleUpdateSettings up to Authenticate, with    *)
(* the backoff of both counters.                                            *)
StartSave(a) ==
    /\ req[a].at = "save"
    /\ IF ChangesESS(a)
       THEN /\ ~Limited(sv[a].fails + sv[a].setFails, sv[a])
            /\ req' = [req EXCEPT ![a].at = "auth", ![a].began = now]
       ELSE Goto(a, "write")
    /\ UNCHANGED <<store, vendor, ending, now, sv, wanted>>

(* Backed off, or no cached system to stand for "no battery".               *)
RejectSave(a) ==
    /\ req[a].at = "save"
    /\ ChangesESS(a)
    /\ \/ Limited(sv[a].fails + sv[a].setFails, sv[a])
       \/ ~req[a].ask.cfg.ess
    /\ Finish(a)
    /\ UNCHANGED <<store, vendor, ending, now, wanted>>

-----------------------------------------------------------------------------
(* Authenticate, by what the vendor's side does.  The battery's own lock    *)
(* keeps two calls on one instance apart; instances share nothing.          *)

Granted(a, cred) ==
    /\ req' = [req EXCEPT ![a].at = "granted", ![a].cred = cred]
    /\ denials' = [denials EXCEPT !.n = 0]

Denied(a, cred) ==
    /\ req' = [req EXCEPT ![a].at = "denied", ![a].cred = cred]
    /\ denials' = [n |-> denials.n + 1, at |-> now]

(* The calls that verify a token, site info and live status, may fail.      *)
Verify(a, cred) == Granted(a, cred) \/ ("validate" \in Faults /\ Denied(a, cred))

UsesStored(a) == req[a].at = "auth" /\ req[a].kind # "stage" /\ req[a].ask.link = "none"

(* A refresh token works once: it is spent, and its successor returned.     *)
Refresh(a) ==
    /\ UsesStored(a)
    /\ req[a].cred \in aging \cap live
    /\ live' = (live \ {req[a].cred}) \cup {issued + 1}
    /\ issued' = issued + 1
    /\ Verify(a, issued + 1) \/ ("response" \in Faults /\ Denied(a, req[a].cred))
    /\ UNCHANGED <<store, aging, ending, now, sv, wanted>>

(* The access token is still good and the refresh token is not touched.     *)
UseAccessToken(a) ==
    /\ UsesStored(a)
    /\ req[a].cred # 0
    /\ req[a].cred \notin aging
    /\ Verify(a, req[a].cred)
    /\ UNCHANGED <<store, live, aging, issued, ending, now, sv, wanted>>

(* No credentials, or a refresh token that has been used before.            *)
RejectStored(a) ==
    /\ UsesStored(a)
    /\ req[a].cred = 0 \/ req[a].cred \in aging \ live
    /\ Denied(a, req[a].cred)
    /\ UNCHANGED <<store, live, aging, issued, ending, now, sv, wanted>>

(* A save's authorization code is exchanged for a first refresh token.      *)
ExchangeCode(a) ==
    /\ req[a].at = "auth"
    /\ req[a].ask.link = "code"
    /\ live' = live \cup {issued + 1}
    /\ issued' = issued + 1
    /\ Verify(a, issued + 1) \/ ("response" \in Faults /\ Denied(a, req[a].cred))
    /\ UNCHANGED <<store, aging, ending, now, sv, wanted>>

RejectCode(a) ==
    /\ req[a].at = "auth"
    /\ req[a].ask.link = "badcode"
    /\ Denied(a, req[a].cred)
    /\ UNCHANGED <<store, live, aging, issued, ending, now, sv, wanted>>

(* The stages exist for another vendor, logged in to with the password of   *)
(* the request; what it returns is not stored.                              *)
AuthenticateStage(a) ==
    /\ req[a].at = "auth"
    /\ req[a].kind = "stage"
    /\ Granted(a, req[a].cred) \/ Denied(a, req[a].cred)
    /\ UNCHANGED <<store, live, aging, issued, ending, now, sv, wanted>>

-----------------------------------------------------------------------------
(* Slip: the counter's write takes the place of the credentials'.           *)
AfterGrantEither(a) ==
    IF sv[a].fails > 0
    THEN [sv[a] EXCEPT !.fails = 0, !.last = now]
    ELSE [sv[a] EXCEPT !.tok = req[a].cred]

(* What getESSSystem stores of an authentication: nothing when neither the  *)
(* credentials nor the counter changed.                                     *)
AfterGrant(a) ==
    LET s == IF sv[a].fails > 0
             THEN [sv[a] EXCEPT !.fails = 0, !.last = now]
             ELSE sv[a]
    IN  IF req[a].cred # sv[a].tok
        THEN [s EXCEPT !.tok = req[a].cred, !.setFails = 0]
        ELSE s

RecordGrant(a) ==
    /\ req[a].at = "granted"
    /\ req[a].kind \in Updates
    /\ Goto(a, "modes")
    /\ LET s == AfterGrant(a) IN
       IF s = sv[a]
       THEN UNCHANGED <<store, sv>>
       ELSE \E confirmed \in BOOLEAN :
              /\ SetSettings(a, s, sv[a].ver, confirmed)
              /\ sv' = [sv EXCEPT ![a] = Kept(a, s, confirmed)]
    /\ UNCHANGED <<vendor, ending, now, wanted>>

RecordDenial(a) ==
    /\ req[a].at = "denied"
    /\ req[a].kind \in Updates
    /\ WriteAndFinish(a, Failed(sv[a]))
    /\ UNCHANGED <<vendor, ending, now, wanted>>

-----------------------------------------------------------------------------
(* setESSModes.  An update gets there when the site has a utility and is    *)
(* not paused, the revert of a save that pauses it in any case.             *)
MayCommand(a) ==
    /\ req[a].at = "modes"
    /\ \/ req[a].kind = "revert"
       \/ ~sv[a].cfg.pause /\ sv[a].cfg.utility # "none"
    /\ ~Limited(sv[a].setFails, sv[a])

ModesUnauthorized(a) ==
    /\ "modes" \in Faults
    /\ MayCommand(a)
    /\ WriteAndFinish(a, [sv[a] EXCEPT !.setFails = @ + 1, !.last = now])
    /\ UNCHANGED <<vendor, ending, now, wanted>>

ModesRestored(a) ==
    /\ MayCommand(a)
    /\ sv[a].setFails > 0
    /\ WriteAndFinish(a, [sv[a] EXCEPT !.setFails = 0, !.last = now])
    /\ UNCHANGED <<vendor, ending, now, wanted>>

(* The modes are set and no counter changes, or the update ends without     *)
(* setting any: no utility, a failed read, paused, backed off, VPP event.   *)
LeaveModes(a) ==
    /\ req[a].at = "modes"
    /\ Finish(a)
    /\ UNCHANGED <<store, vendor, ending, now, wanted>>

-----------------------------------------------------------------------------
(* The end of handleUpdateSettings.  Both of its writes are unconditional.  *)

(* A refused authentication stores the settings read, with the failure.     *)
SaveDenial(a) ==
    /\ req[a].at = "denied"
    /\ req[a].kind = "save"
    /\ \E confirmed \in BOOLEAN : SetSettings(a, Failed(sv[a]), 0, confirmed)
    /\ Finish(a)
    /\ UNCHANGED <<vendor, ending, now, wanted>>

(* Slip: a site that has an update group keeps it when its utility changes. *)
NewSettingsInOldPool(a) ==
    LET verified == [Cleared(sv[a]) EXCEPT !.tok = req[a].cred]
        s == [IF req[a].at = "granted" THEN verified ELSE sv[a]
              EXCEPT !.cfg = req[a].ask.cfg]
    IN  IF Eligible(s) /\ s.group = "none" THEN Grouped(s) ELSE s

(* The new settings: those of the body, with the counters, credentials,     *)
(* notifications and update group of the settings read unless verified      *)
(* credentials or eligibility say otherwise.                                *)
NewSettings(a) ==
    LET verified == [Cleared(sv[a]) EXCEPT !.tok = req[a].cred]
        s == [IF req[a].at = "granted" THEN verified ELSE sv[a]
              EXCEPT !.cfg = req[a].ask.cfg]
    IN  IF Eligible(s) THEN Grouped(s) ELSE s

(* Pausing a managed site goes on to authenticate and revert its modes.     *)
Reverts(a) == ~sv[a].cfg.pause /\ req[a].ask.cfg.pause

SaveWrite(a) ==
    /\ req[a].kind = "save"
    /\ req[a].at \in {"write", "granted"}
    /\ \E confirmed \in BOOLEAN :
        /\ SetSettings(a, NewSettings(a), 0, confirmed)
        /\ IF confirmed /\ Reverts(a)
           THEN /\ req' = [req EXCEPT ![a] =
                            [@ EXCEPT !.at = "guard", !.kind = "revert", !.ask = NoAsk]]
                /\ sv' = [sv EXCEPT ![a] = doc']
           ELSE Finish(a)
    /\ wanted' = IF commits' = commits THEN wanted
                 ELSE [wanted EXCEPT !.cfg = req[a].ask.cfg]
    /\ UNCHANGED <<vendor, ending, now>>

-----------------------------------------------------------------------------
(* The end of handleESSStage.                                               *)
StageDenial(a) ==
    /\ req[a].at = "denied"
    /\ req[a].kind = "stage"
    /\ WriteAndFinish(a, Failed(sv[a]))
    /\ UNCHANGED <<vendor, ending, now, wanted>>

StageGrant(a) ==
    /\ req[a].at = "granted"
    /\ req[a].kind = "stage"
    /\ LET s == Cleared(sv[a]) IN
       IF s = sv[a] THEN UNCHANGED store /\ Finish(a) ELSE WriteAndFinish(a, s)
    /\ UNCHANGED <<vendor, ending, now, wanted>>

-----------------------------------------------------------------------------
(* UpdateSiteNotificationSettings: read, write the json field alone under   *)
(* the version read, and read again while attempts are left.                *)
WritePrefs(a) ==
    LET s == [sv[a] EXCEPT !.notif[req[a].ask.user] = req[a].ask.pref]
        again == [req EXCEPT ![a].at = "again", ![a].tries = @ + 1]
    IN  /\ req[a].at = "prefs"
        /\ \/ Commit(a, s, sv[a].ver) /\ UNCHANGED listed /\ Finish(a)
           \/ /\ \/ Refuse(sv[a].ver)
                 \/ "store" \in Faults /\ Commit(a, s, sv[a].ver) /\ UNCHANGED listed
              /\ IF req[a].tries < MaxRetries
                 THEN req' = again /\ UNCHANGED sv
                 ELSE Finish(a)
        /\ wanted' = IF commits' = commits THEN wanted
                     ELSE [wanted EXCEPT !.notif[req[a].ask.user] = req[a].ask.pref]
        /\ UNCHANGED <<vendor, ending, now>>

(* Slip: a retry takes the new version and keeps the old content.           *)
ReadVersionAgain(a) ==
    /\ req[a].at = "again"
    /\ IF doc.ver = 0
       THEN Finish(a)
       ELSE Goto(a, "prefs") /\ sv' = [sv EXCEPT ![a].ver = doc.ver]
    /\ UNCHANGED <<store, vendor, ending, now, wanted>>

ReadAgain(a) ==
    /\ req[a].at = "again"
    /\ IF doc.ver = 0 \/ doc.notif[req[a].ask.user] = req[a].ask.pref
       THEN Finish(a)
       ELSE Goto(a, "prefs") /\ sv' = [sv EXCEPT ![a] = doc]
    /\ UNCHANGED <<store, vendor, ending, now, wanted>>

-----------------------------------------------------------------------------
(* DeleteSite.                                                              *)

(* Delete the updateGroup field; going on if that fails.                    *)
Unlist(a) ==
    /\ req[a].at = "unlist"
    /\ \/ /\ doc.ver # 0
          /\ doc' = [doc EXCEPT !.ver = commits + 1]
          /\ commits' = commits + 1
          /\ listed' = FALSE
          /\ UNCHANGED blind
       \/ /\ doc.ver = 0 \/ "store" \in Faults
          /\ UNCHANGED store
    /\ Goto(a, "purge")
    /\ UNCHANGED <<vendor, ending, now, sv, wanted>>

(* Delete the subcollections, the settings document last among them.        *)
Purge(a) ==
    /\ req[a].at = "purge"
    /\ doc' = Missing
    /\ listed' = FALSE
    /\ wanted' = [cfg |-> NoConfig, notif |-> NoNotifications]
    /\ denials' = [n |-> 0, at |-> now]
    /\ Goto(a, "drop")
    /\ raced' = (raced \/ \E b \in Reqs : req[b].kind = "save")
    /\ UNCHANGED <<live, aging, issued, commits, blind, deleted, stopped, now, sv>>

DropSite(a) ==
    /\ req[a].at = "drop"
    /\ deleted' = TRUE
    /\ Finish(a)
    /\ UNCHANGED <<store, vendor, stopped, raced, now, wanted>>

(* A request ends before its time.                                          *)
Ends(a) == Finish(a) /\ stopped' = (stopped \/ req[a].at = "purge")

AbandonDelete(a) ==
    /\ "store" \in Faults
    /\ req[a].at \in {"purge", "drop"}
    /\ Ends(a)
    /\ UNCHANGED <<store, vendor, deleted, raced, now, wanted>>

-----------------------------------------------------------------------------
Crash(a) ==
    /\ "crash" \in Faults
    /\ req[a].at # "idle"
    /\ Ends(a)
    /\ UNCHANGED <<store, vendor, deleted, raced, now, wanted>>

Tick ==
    /\ now < MaxTime
    /\ now' = now + 1
    /\ UNCHANGED <<store, vendor, ending, req, sv, wanted>>

(* An access token comes within 15 minutes of its expiry.                   *)
AgeToken ==
    /\ issued < MaxTokens
    /\ \E t \in live \ aging : aging' = aging \cup {t}
    /\ UNCHANGED <<store, live, issued, denials, ending, now, req, sv, wanted>>

-----------------------------------------------------------------------------
(* A site that has just joined has no settings.  A linked one holds the     *)
(* vendor's first token; a legacy one the update group of an old schema.    *)
Stored(cfg) ==
    [Missing EXCEPT !.ver = 1, !.current = TRUE, !.cfg = cfg, !.tok = 1]

InitialDoc ==
    \/ "missing" \in Starts /\ doc = Missing
    \/ /\ "linked" \in Starts
       /\ \E cfg \in Configs :
            Eligible(Stored(cfg)) /\ doc = Grouped(Stored(cfg))
    \/ /\ "legacy" \in Starts
       /\ \E cfg \in Configs, g \in Utilities :
            doc = [Stored(cfg) EXCEPT !.current = FALSE, !.group = g]

Init ==
    /\ InitialDoc
    /\ listed = (doc.group # "none")
    /\ commits = doc.ver
    /\ deleted = FALSE /\ stopped = FALSE /\ raced = FALSE
    /\ now = 0
    /\ live = 1 .. doc.tok
    /\ aging = {}
    /\ issued = doc.tok
    /\ req = [a \in Reqs |-> Idle]
    /\ sv = [a \in Reqs |-> Missing]
    /\ wanted = [cfg |-> doc.cfg, notif |-> doc.notif]
    /\ blind = FALSE
    /\ denials = [n |-> 0, at |-> 0]

Begin(a) ==
    \/ BeginSweep(a) \/ BeginManual(a) \/ BeginSave(a) \/ BeginStage(a)
    \/ BeginRead(a) \/ BeginPrefs(a) \/ BeginDelete(a)

Authenticate(a) ==
    \/ Refresh(a) \/ UseAccessToken(a) \/ RejectStored(a)
    \/ ExchangeCode(a) \/ RejectCode(a) \/ AuthenticateStage(a)

(* The steps of a request that write the document or end it.                *)
Conclude(a) ==
    \/ RecordGrant(a) \/ RecordDenial(a)
    \/ ModesUnauthorized(a) \/ ModesRestored(a) \/ LeaveModes(a)
    \/ SaveDenial(a) \/ SaveWrite(a)
    \/ StageDenial(a) \/ StageGrant(a)
    \/ WritePrefs(a) \/ ReadAgain(a)
    \/ Unlist(a) \/ Purge(a) \/ DropSite(a) \/ AbandonDelete(a)

Step(a) ==
    \/ Begin(a) \/ Migrate(a)
    \/ StartUpdate(a) \/ SkipUpdate(a) \/ StartSave(a) \/ RejectSave(a)
    \/ Authenticate(a) \/ Conclude(a) \/ Crash(a)

Next == (\E a \in Reqs : Step(a)) \/ Tick \/ AgeToken

Spec == Init /\ [][Next]_vars

-----------------------------------------------------------------------------
(* Properties.                                                              *)

(* Every variable keeps its type.                                           *)
TypeOK ==
    /\ doc \in Docs
    /\ listed \in BOOLEAN
    /\ commits \in Nat
    /\ deleted \in BOOLEAN /\ stopped \in BOOLEAN /\ raced \in BOOLEAN
    /\ now \in Nat
    /\ live \subseteq Nat
    /\ aging \subseteq Nat
    /\ issued \in Nat
    /\ req \in [Reqs -> ReqStates]
    /\ sv \in [Reqs -> Docs]
    /\ wanted \in [cfg : ConfigSet, notif : [Users -> Prefs]]
    /\ blind \in BOOLEAN
    /\ denials \in [n : Nat, at : Nat]

(* Until some write replaces a version its writer never read, the document  *)
(* holds what the users' applied saves and preference changes ask for: no   *)
(* migration, status write, stage or retry of another request takes an      *)
(* older choice back.                                                       *)
UserWritesKept == blind \/ (doc.cfg = wanted.cfg /\ doc.notif = wanted.notif)

(* Under the same condition the stored refresh token is never replaced by   *)
(* an earlier one, which the vendor would refuse, until the site is deleted.*)
TokenNeverRegresses == [][blind' \/ doc' = Missing \/ doc'.tok >= doc.tok]_vars

(* A site whose settings are current and eligible is found by the scheduler *)
(* in the pool of its utility, unless a deletion has written and not purged *)
(* it yet, or stopped there: what the query sees of the document and what   *)
(* the document says never part.                                            *)
Deleting == \E a \in Reqs : req[a].at = "purge"
EligibleIsScheduled ==
    doc.current /\ Eligible(doc) /\ ~Deleting
        => listed /\ doc.group = doc.cfg.utility

(* Once DeleteSite has returned no sweep finds the site again, whatever the *)
(* requests it overtook still write.                                        *)
DeletedNeverScheduled == deleted => ~listed

(* What the scheduler finds is what users and deletions say, as long as no  *)
(* deletion stopped half way and, for a site that is gone, no save met it.  *)
SchedulingInv ==
    /\ TypeOK
    /\ stopped \/ EligibleIsScheduled
    /\ raced \/ DeletedNeverScheduled

(* With no request in flight, the stored refresh token is one the vendor    *)
(* would still accept: each rotation reached the document.                  *)
StoredTokenUsable ==
    (\A a \in Reqs : req[a].at = "idle") => doc.tok = 0 \/ doc.tok \in live

(* Authentication starts no sooner after the last refusal than the backoff  *)
(* for the refusals in a row: the counter of the document, whichever        *)
(* handler writes it, never lags behind the vendor.                         *)
BackoffHonoured ==
    \A a \in Reqs : req[a].at = "auth" =>
        TickSeconds * (req[a].began - denials.at) >= getESSBackoff(denials.n)

(* Claimed in handleUpdateSettings: a save preserves the notifications, and *)
(* unless the body brings others the credentials, that are stored.          *)
SavePreservesNotifications ==
    [][\A a \in Reqs : SaveWrite(a) => doc'.notif = doc.notif]_vars
SavePreservesCredentials ==
    [][\A a \in Reqs : SaveWrite(a) /\ ~ChangesESS(a) => doc'.tok = doc.tok]_vars

(* Claimed in handleUpdateSettings: a site is given an update group only    *)
(* when its battery system and its utility are set.                         *)
ScheduledOnlyWhenSet == listed => doc.cfg.ess /\ doc.cfg.utility # "none"
-----------------------------------------------------------------------------
(* The inductive invariant behind UserWritesKept and TokenNeverRegresses.   *)

(* Versions and tokens are handed out in order, and nobody is ahead.        *)
VersionsOrdered ==
    /\ doc.ver <= commits
    /\ \A a \in Reqs : sv[a].ver <= commits
TokensOrdered ==
    /\ doc.tok <= issued
    /\ \A a \in Reqs : req[a].cred <= issued /\ sv[a].tok <= issued
    /\ \A a \in Reqs : req[a].at \notin {"prefs", "again"} => sv[a].tok <= req[a].cred

(* Nothing is read from a document that does not exist.                     *)
Blank(s) == s.ver = 0 => s.cfg = NoConfig /\ s.notif = NoNotifications
BlanksAreEmpty ==
    /\ doc.ver = 0 => doc = Missing
    /\ \A a \in Reqs : Blank(sv[a])

(* As long as the version a request read is the document's, its copy has    *)
(* the users' choices of the document and a token at least as new.          *)
Agrees(s) == s.cfg = doc.cfg /\ s.notif = doc.notif /\ doc.tok <= s.tok
CopiesAreCurrent == \A a \in Reqs : sv[a].ver = doc.ver => Agrees(sv[a])

(* A write under the version its request read therefore starts from the     *)
(* users' latest choices, whatever handlers, retries and lost replies lie   *)
(* between the read and the write.                                          *)
CopiesInv ==
    /\ VersionsOrdered
    /\ TokensOrdered
    /\ BlanksAreEmpty
    /\ CopiesAreCurrent
    /\ UserWritesKept
=============================================================================
