------------------------------- MODULE Alerts -------------------------------
(* The alerts of one kind to one user of a site (server/notifications.go).    *)
(* An update looks in the notification log whether the alert is due, pushes   *)
(* it to each of the user's devices and appends to the log; a device that is  *)
(* gone is removed, and with the last one the user's preferences in the       *)
(* settings of the site. Meanwhile the user subscribes, unsubscribes and      *)
(* chooses, and the browser replaces endpoints (storage/firestore.go). Each   *)
(* access to a document is one read-modify-write.                             *)
EXTENDS Integers, Sequences, FiniteSets, Functions

CONSTANTS
    Endpoints, Updates,
    Kinds,              \* the kinds of alert looked at
    HoursPerDay, SummaryHour, QuietHours, SunHours,     \* hours of a day
    Window, Cooldown,   \* hours: five for VPP events, six for home load
    Acts,               \* what the user and the browser do
    Faults,
    MaxHours, MaxActs, MaxFaults        \* bounds

(* What the constants are, assumed by what instantiates this module.          *)
Assumptions ==
    /\ Kinds \subseteq {"summary", "solar", "vpp", "load"}
    /\ Acts \subseteq {"subscribe", "unsubscribe", "prefer", "rotate", "revoke"}
    /\ Faults \subseteq {"failed", "append"}
    /\ {HoursPerDay, SummaryHour, Window, Cooldown, MaxHours, MaxActs, MaxFaults} \subseteq Nat
    /\ "none" \notin Endpoints

VARIABLES
    kind,       \* the kind of alert
    hour,       \* hours since the first midnight
    subs,       \* the user's subscriptions, in the user's document
    prefs,      \* are the user's preferences in the settings of the site
    log,        \* the entries of the notification log: [hour, ok, muted]
    dead,       \* endpoints that the push service has forgotten
    moving,     \* replacements the browser has asked for: <<old, new>>
    cleaning,   \* is the user's own request about to clean up the preferences
    up,         \* per update: where it is
    wants,      \* history: did the user choose alerts, and keep a device since
    told,       \* history: per endpoint, the hours of the alerts delivered
    acts, faults

vars == <<kind, hour, subs, prefs, log, dead, moving, cleaning, up, wants, told, acts, faults>>
userVars == <<dead, moving, cleaning, wants>>

Idle == [at |-> "idle"]
None == "none"
Entries == [hour : 0..MaxHours, ok : BOOLEAN, muted : BOOLEAN]

TypeOK ==
    /\ kind \in Kinds /\ hour \in 0..MaxHours
    /\ Range(subs) \subseteq Endpoints /\ prefs \in BOOLEAN
    /\ log \subseteq Entries /\ dead \subseteq Endpoints
    /\ \A m \in moving : m[1] \in Endpoints /\ m[2] \in Endpoints \union {None}
    /\ cleaning \in BOOLEAN
    /\ \A p \in Updates : up[p] = Idle \/
        (/\ up[p].at \in {"begun", "due", "sending", "pruning", "cleaning", "logging"}
         /\ Range(up[p].todo) \subseteq Endpoints)
    /\ wants \in BOOLEAN /\ \A e \in Endpoints : Range(told[e]) \subseteq 0..MaxHours
    /\ acts \in 0..MaxActs /\ faults \in 0..MaxFaults

Init ==
    /\ kind \in Kinds /\ hour = 0
    /\ \E e \in Endpoints : subs = <<e>>
    /\ prefs = TRUE /\ wants = TRUE
    /\ log = {} /\ dead = {} /\ moving = {} /\ cleaning = FALSE
    /\ up = [p \in Updates |-> Idle]
    /\ told = [e \in Endpoints |-> <<>>]
    /\ acts = 0 /\ faults = 0

HourOfDay(h) == h % HoursPerDay
DayOf(h) == h \div HoursPerDay
Quiet == HourOfDay(hour) \in QuietHours
Fault(f) == f \in Faults /\ faults < MaxFaults /\ faults' = faults + 1

(* An update takes a minute at most.                                          *)
SlipTick ==
    /\ \A p \in Updates : up[p] = Idle
    /\ hour' = hour + 1
    /\ UNCHANGED <<kind, subs, prefs, log, userVars, up, told, acts, faults>>
Tick ==
    /\ hour < MaxHours /\ \A p \in Updates : up[p] = Idle
    /\ hour' = hour + 1
    /\ UNCHANGED <<kind, subs, prefs, log, userVars, up, told, acts, faults>>

-----------------------------------------------------------------------------
(* What the log says was sent: hasSentToday and hasSentWithin count what was  *)
(* muted, the cooldown of lastLog only what was delivered.                    *)
SlipRecent == FALSE
Recent ==
    \E e \in log :
        CASE kind \in {"summary", "solar"} -> (e.ok \/ e.muted) /\ DayOf(e.hour) = DayOf(hour)
          [] kind = "vpp" -> (e.ok \/ e.muted) /\ hour - e.hour < Window
          [] kind = "load" -> e.ok /\ ~e.muted /\ hour - e.hour < Cooldown

(* The hour of a summary, the hours of sunshine: the other alerts may be      *)
(* called for at any time, by what the update has read.                       *)
Due ==
    /\ kind = "summary" => HourOfDay(hour) = SummaryHour
    /\ kind = "solar" => HourOfDay(hour) \in SunHours
MayMute == kind # "summary" /\ Quiet

(* An update reads the settings of the site, and finds the user in them.      *)
Begin(p) ==
    /\ up[p] = Idle /\ prefs /\ Due
    /\ up' = [up EXCEPT ![p] = [at |-> "begun", todo |-> <<>>, entry |-> {}]]
    /\ UNCHANGED <<kind, hour, subs, prefs, log, userVars, told, acts, faults>>

Check(p) ==
    /\ up[p] # Idle /\ up[p].at = "begun"
    /\ up' = [up EXCEPT ![p] =
        IF Recent THEN Idle
        ELSE IF MayMute THEN [at |-> "logging", todo |-> <<>>, entry |-> {[hour |-> hour, ok |-> FALSE, muted |-> TRUE]}]
        ELSE [@ EXCEPT !.at = "due"]]
    /\ UNCHANGED <<kind, hour, subs, prefs, log, userVars, told, acts, faults>>

GetUser(p) ==
    /\ up[p] # Idle /\ up[p].at = "due"
    /\ up' = [up EXCEPT ![p] = IF subs = <<>> THEN Idle ELSE [@ EXCEPT !.at = "sending", !.todo = subs]]
    /\ UNCHANGED <<kind, hour, subs, prefs, log, userVars, told, acts, faults>>

(* sendWebPush to the next device.                                            *)
Send(p) ==
    /\ up[p] # Idle /\ up[p].at = "sending"
    /\ LET e == Head(up[p].todo)
           Sent(ok, at) == [up EXCEPT ![p].at = at, ![p].entry = {[hour |-> hour, ok |-> ok, muted |-> FALSE]}] IN
       IF e \in dead
       THEN up' = Sent(FALSE, "pruning") /\ UNCHANGED <<told, faults>>
       ELSE \/ /\ told' = [told EXCEPT ![e] = Append(@, hour)]
               /\ up' = Sent(TRUE, "logging") /\ UNCHANGED faults
            \/ Fault("failed") /\ up' = Sent(FALSE, "logging") /\ UNCHANGED told
    /\ UNCHANGED <<kind, hour, subs, prefs, log, userVars, acts>>

(* RemoveUserPushSubscription, its first document.                            *)
Place(n, kept) == CHOOSE i \in kept : Cardinality({j \in kept : j < i}) = n - 1
Without(e) ==
    LET kept == {i \in DOMAIN subs : subs[i] # e} IN
    [n \in 1..Cardinality(kept) |-> subs[Place(n, kept)]]
Prune(p) ==
    /\ up[p] # Idle /\ up[p].at = "pruning"
    /\ subs' = Without(Head(up[p].todo))
    /\ up' = [up EXCEPT ![p].at = IF subs' = <<>> THEN "cleaning" ELSE "logging"]
    /\ wants' = (wants /\ subs' # <<>>)
    /\ UNCHANGED <<kind, hour, prefs, log, dead, moving, cleaning, told, acts, faults>>

(* ... its second: UpdateSiteNotificationSettings with no settings.           *)
CleanUp(p) ==
    /\ up[p] # Idle /\ up[p].at = "cleaning"
    /\ prefs' = FALSE
    /\ up' = [up EXCEPT ![p].at = "logging"]
    /\ UNCHANGED <<kind, hour, subs, log, userVars, told, acts, faults>>

(* AppendNotificationLog; then the next device.                               *)
AppendLog(p) ==
    /\ up[p] # Idle /\ up[p].at = "logging"
    /\ \/ log' = log \union up[p].entry /\ UNCHANGED faults
       \/ Fault("append") /\ UNCHANGED log
    /\ up' = [up EXCEPT ![p] =
        IF Len(@.todo) < 2 THEN Idle ELSE [@ EXCEPT !.at = "sending", !.todo = Tail(up[p].todo), !.entry = {}]]
    /\ UNCHANGED <<kind, hour, subs, prefs, userVars, told, acts>>

Update(p) == Begin(p) \/ Check(p) \/ GetUser(p) \/ Send(p) \/ Prune(p) \/ CleanUp(p) \/ AppendLog(p)

-----------------------------------------------------------------------------
(* The user, one request at a time, and the browser.                          *)
Act(a) ==
    /\ a \in Acts /\ ~cleaning /\ acts < MaxActs /\ acts' = acts + 1
    /\ UNCHANGED <<kind, hour, log, up, told, faults>>

(* AddUserPushSubscription replaces what it has of the endpoint.              *)
SlipSubscribe(e) ==
    /\ Act("subscribe")
    /\ e \notin dead
    /\ subs' = Append(subs, e)
    /\ UNCHANGED <<prefs, userVars>>
Subscribe(e) ==
    /\ Act("subscribe")
    /\ e \notin dead
    /\ subs' = IF e \in Range(subs) THEN subs ELSE Append(subs, e)
    /\ UNCHANGED <<prefs, userVars>>

Unsubscribe(e) ==
    /\ Act("unsubscribe")
    /\ subs' = Without(e)
    /\ cleaning' = (subs' = <<>>)
    /\ wants' = (wants /\ subs' # <<>>)
    /\ UNCHANGED <<prefs, dead, moving>>

SlipUnsubscribed ==
    /\ cleaning /\ cleaning' = FALSE
    /\ UNCHANGED <<kind, hour, subs, prefs, log, dead, moving, up, wants, told, acts, faults>>
Unsubscribed ==
    /\ cleaning /\ cleaning' = FALSE
    /\ prefs' = FALSE
    /\ UNCHANGED <<kind, hour, subs, log, dead, moving, up, wants, told, acts, faults>>

(* handleUpdateNotificationSettings, of a user who has a device.              *)
SlipPrefer ==
    /\ Act("prefer") /\ subs # <<>>
    /\ wants' = TRUE
    /\ UNCHANGED <<subs, prefs, dead, moving, cleaning>>
Prefer ==
    /\ Act("prefer") /\ subs # <<>>
    /\ prefs' = TRUE /\ wants' = TRUE
    /\ UNCHANGED <<subs, dead, moving, cleaning>>

(* The browser gives its subscription a new endpoint, or loses it; the        *)
(* service worker tells the server.                                           *)
Rotate(e, f) ==
    /\ Act("rotate")
    /\ e \in Range(subs) \ dead /\ f \notin Range(subs) \union dead
    /\ dead' = dead \union {e}
    /\ moving' = moving \union {<<e, f>>}
    /\ UNCHANGED <<subs, prefs, cleaning, wants>>

Revoke(e) ==
    /\ Act("revoke")
    /\ e \in Range(subs) \ dead
    /\ dead' = dead \union {e}
    /\ moving' = moving \union {<<e, None>>}
    /\ UNCHANGED <<subs, prefs, cleaning, wants>>

(* ReplaceUserPushSubscription: the first of the old endpoint.                *)
Replace(m) ==
    /\ m \in moving /\ moving' = moving \ {m}
    /\ LET at == {i \in DOMAIN subs : subs[i] = m[1]}
           i == CHOOSE i \in at : \A j \in at : i <= j IN
       subs' = IF at = {} THEN subs
               ELSE IF m[2] = None THEN SubSeq(subs, 1, i - 1) \o SubSeq(subs, i + 1, Len(subs))
               ELSE [subs EXCEPT ![i] = m[2]]
    /\ UNCHANGED <<kind, hour, prefs, log, dead, cleaning, up, wants, told, acts, faults>>

Next ==
    \/ Tick \/ Unsubscribed \/ Prefer
    \/ \E p \in Updates : Update(p)
    \/ \E e \in Endpoints :
        \/ Subscribe(e) \/ Unsubscribe(e) \/ Revoke(e)
        \/ \E f \in Endpoints : Rotate(e, f)
    \/ \E m \in moving : Replace(m)

Spec == Init /\ [][Next]_vars

-----------------------------------------------------------------------------
TooSoon(g, h) ==
    CASE kind \in {"summary", "solar"} -> DayOf(g) = DayOf(h)
      [] kind = "vpp" -> h - g < Window
      [] kind = "load" -> h - g < Cooldown

(* "Ensure only one morning summary is delivered per user per calendar day":  *)
(* no device gets a second alert of the kind in the day, or in the time it is *)
(* to be left alone.                                                          *)
AlertedOnce ==
    \A e \in Endpoints : \A i, j \in DOMAIN told[e] : i < j => ~TooSoon(told[e][i], told[e][j])

(* The preferences of a user who chose them, and has kept a device since, are *)
(* not cleaned up.                                                            *)
PreferencesKept == wants => prefs

(* A user who has unsubscribed the last device is not looked at by updates    *)
(* any more.                                                                  *)
PreferencesNeedADevice ==
    prefs /\ ~cleaning /\ (\A p \in Updates : up[p] # Idle => up[p].at # "cleaning") => subs # <<>>

(* "Update existing subscription or append": no device is pushed to twice.    *)
EndpointsDistinct == IsInjective(subs)
=============================================================================
