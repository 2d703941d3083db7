----------------------------- MODULE GridAlerts -----------------------------
(* Grid outages and restorations as the users of a site are told of them      *)
(* (server/notifications.go). Updates see the grid, look up what each user    *)
(* was last alerted of in the notification log, and push: a restoration at    *)
(* once, an outage five minutes later, if the battery still reports it. That  *)
(* verification is a goroutine in the update's context, which a sweep cancels *)
(* when the site's update returns, and a manual update when its client goes   *)
(* away (server/update.go). In a quiet period the alert is only logged.       *)
EXTENDS Integers, Sequences, FiniteSets

CONSTANTS
    Users,              \* of the site, each with one device
    QuietUsers,         \* those who keep quiet hours
    Updates,            \* updates that may run at once
    Sweeps, Manuals,    \* do sweeps, do manual updates run
    Faults,             \* what may go wrong with a push, its log entry, a client
    Delay,              \* ticks before an outage is verified: five minutes
    DeferredAge,        \* ticks a muted restoration is still news: one hour
    MaxFlips, MaxFaults \* bounds: changes of the grid or the hour, faults

(* What the constants are, assumed by what instantiates this module.          *)
Assumptions ==
    /\ QuietUsers \subseteq Users
    /\ Faults \subseteq {"refused", "lost", "append", "gone"}
    /\ {Delay, DeferredAge, MaxFlips, MaxFaults} \subseteq Nat

VARIABLES
    down,       \* is the grid down
    quiet,      \* is it night, when the quiet users are not disturbed
    asking,     \* the users who want alerts of outages (GridOutageAlert), the same throughout
    log,        \* per user: the valid entries of the notification log
    up,         \* per update: where it is
    stamp,      \* creation times given to entries
    told,       \* history: per user, the alerts delivered or muted, with the episode
    flips, faults

vars == <<down, quiet, asking, log, up, stamp, told, flips, faults>>

Idle == [at |-> "idle"]
Nothing == [type |-> "none", muted |-> FALSE, ok |-> FALSE, stamp |-> 0, age |-> 0]
Entries == [type : {"outage", "restored"}, muted : BOOLEAN, ok : BOOLEAN,
            stamp : Nat, age : 0..(DeferredAge + 1)]
InFlight == [user : Users, entry : Entries]

TypeOK ==
    /\ down \in BOOLEAN /\ quiet \in BOOLEAN /\ asking \subseteq Users
    /\ \A u \in Users : log[u] \subseteq Entries
    /\ \A p \in Updates : up[p] = Idle \/
        (/\ up[p].at \in {"read", "waiting", "alerting"} /\ up[p].sweep \in BOOLEAN
         /\ (up[p].at = "read" => up[p].down \in BOOLEAN)
         /\ (up[p].at = "waiting" => up[p].left \in 0..Delay)
         /\ (up[p].at = "alerting" => \/ up[p].sent = {}
                                      \/ \E f \in up[p].sent : up[p].sent = {f} /\ f.user \in Users
                                                                /\ f.entry \in Entries)
         /\ (up[p].at \in {"waiting", "alerting"} => up[p].send \cup up[p].mute \subseteq Users))
    /\ stamp \in Nat /\ flips \in 0..MaxFlips /\ faults \in 0..MaxFaults
    /\ \A u \in Users : \A i \in DOMAIN told[u] : told[u][i].type \in {"outage", "restored"}

Init ==
    /\ down = FALSE /\ quiet = FALSE /\ asking \in SUBSET Users
    /\ log = [u \in Users |-> {}]
    /\ up = [p \in Updates |-> Idle]
    /\ stamp = 0 /\ told = [u \in Users |-> <<>>]
    /\ flips = 0 /\ faults = 0

Quiet(u) == quiet /\ u \in QuietUsers
Fault(f) == f \in Faults /\ faults < MaxFaults /\ faults' = faults + 1

(* lastLog: the latest entry created that is not a failed delivery. Only a    *)
(* push with an error failed; one the push service refused has none.          *)
Latest(u) ==
    IF log[u] = {} THEN Nothing
    ELSE CHOOSE e \in log[u] : \A f \in log[u] : f.stamp <= e.stamp

-----------------------------------------------------------------------------
(* The grid, the night, and time passing while verifications sleep.           *)
GridChanges ==
    /\ flips < MaxFlips /\ flips' = flips + 1
    /\ down' = ~down
    /\ UNCHANGED <<asking, quiet, log, up, stamp, told, faults>>

NightChanges ==
    /\ flips < MaxFlips /\ flips' = flips + 1
    /\ quiet' = ~quiet
    /\ UNCHANGED <<asking, down, log, up, stamp, told, faults>>

(* Everything but a sleep takes seconds.                                      *)
Tick ==
    /\ \A p \in Updates : up[p].at \in {"idle", "waiting"}
    /\ \A p \in Updates : up[p].at = "waiting" => ~up[p].sweep /\ up[p].left > 0
    /\ up' = [p \in Updates |->
                IF up[p].at = "waiting" THEN [up[p] EXCEPT !.left = @ - 1] ELSE up[p]]
    /\ log' = [u \in Users |->
                {[e EXCEPT !.age = IF @ <= DeferredAge THEN @ + 1 ELSE @] : e \in log[u]}]
    /\ UNCHANGED <<asking, down, quiet, stamp, told, flips, faults>>

(* An update reads the battery's status.                                      *)
Begin(p) ==
    /\ up[p] = Idle
    /\ \E s \in {TRUE, FALSE} : /\ (s => Sweeps) /\ (~s => Manuals)
                                /\ up' = [up EXCEPT ![p] = [at |-> "read", sweep |-> s, down |-> down]]
    /\ UNCHANGED <<asking, down, quiet, log, stamp, told, flips, faults>>

(* Whom to tell of a restoration: those whose latest alert was of an outage,  *)
(* and those in whose night it was muted not long ago.                        *)
SlipRestorable(u) == Latest(u).type = "outage" /\ ~Quiet(u)
Restorable(u) ==
    \/ Latest(u).type = "outage"
    \/ Latest(u).type = "restored" /\ Latest(u).muted /\ ~Quiet(u) /\ Latest(u).age <= DeferredAge
(* Whom to tell of an outage: those not alerted of one, or only muted.        *)
SlipAlertable(u) == Latest(u).type # "outage" \/ ~Quiet(u)
Alertable(u) == Latest(u).type # "outage" \/ (Latest(u).muted /\ ~Quiet(u))

SlipEvaluate(p) ==
    /\ up[p].at = "read"
    /\ up' = [up EXCEPT ![p] =
        IF up[p].down
        THEN IF asking = {} THEN Idle
             ELSE [at |-> "waiting", sweep |-> up[p].sweep, left |-> Delay, send |-> asking, mute |-> {}]
        ELSE [at |-> "alerting", sweep |-> up[p].sweep, type |-> "restored", sent |-> {},
              send |-> {u \in asking : ~Quiet(u)}, mute |-> {}]]
    /\ UNCHANGED <<asking, down, quiet, log, stamp, told, flips, faults>>
Evaluate(p) ==
    /\ up[p].at = "read"
    /\ LET all == IF up[p].down THEN {u \in asking : Alertable(u)} ELSE {u \in asking : Restorable(u)}
           mute == {u \in all : Quiet(u)} IN
       up' = [up EXCEPT ![p] =
        IF all = {} THEN Idle
        ELSE IF up[p].down
        THEN [at |-> "waiting", sweep |-> up[p].sweep, left |-> Delay, send |-> all \ mute, mute |-> mute]
        ELSE [at |-> "alerting", sweep |-> up[p].sweep, type |-> "restored", sent |-> {},
              send |-> all \ mute, mute |-> mute]]
    /\ UNCHANGED <<asking, down, quiet, log, stamp, told, flips, faults>>

(* The site's update returns while the verification sleeps: a sweep cancels   *)
(* the site's context, and a manual update's ends if its client goes away.    *)
Cancelled(p) ==
    /\ up[p].at = "waiting"
    /\ \/ up[p].sweep /\ UNCHANGED faults
       \/ ~up[p].sweep /\ Fault("gone")
    /\ up' = [up EXCEPT ![p] = Idle]
    /\ UNCHANGED <<asking, down, quiet, log, stamp, told, flips>>

(* The second look at the battery's status.                                   *)
SlipVerify(p) ==
    /\ up[p].at = "waiting" /\ ~up[p].sweep /\ up[p].left = 0
    /\ up' = [up EXCEPT ![p] =
        [at |-> "alerting", sweep |-> FALSE, type |-> "outage", sent |-> {},
         send |-> up[p].send, mute |-> up[p].mute]]
    /\ UNCHANGED <<asking, down, quiet, log, stamp, told, flips, faults>>
Verify(p) ==
    /\ up[p].at = "waiting" /\ ~up[p].sweep /\ up[p].left = 0
    /\ up' = [up EXCEPT ![p] =
        IF ~down THEN Idle
        ELSE [at |-> "alerting", sweep |-> FALSE, type |-> "outage", sent |-> {},
              send |-> up[p].send, mute |-> up[p].mute]]
    /\ UNCHANGED <<asking, down, quiet, log, stamp, told, flips, faults>>

Entry(p, muted, ok) ==
    [type |-> up[p].type, muted |-> muted, ok |-> ok, stamp |-> stamp + 1, age |-> 0]

Event(p, muted) == [type |-> up[p].type, muted |-> muted, episode |-> flips]

(* dispatchPushToUser: the push, then its entry.                              *)
Send(p, u) ==
    /\ up[p].at = "alerting" /\ up[p].sent = {} /\ u \in up[p].send
    /\ stamp' = stamp + 1
    /\ \/ /\ told' = [told EXCEPT ![u] = Append(@, Event(p, FALSE))]
          /\ up' = [up EXCEPT ![p].send = @ \ {u}, ![p].sent = {[user |-> u, entry |-> Entry(p, FALSE, TRUE)]}]
          /\ UNCHANGED faults
       \/ /\ Fault("refused")
          /\ up' = [up EXCEPT ![p].send = @ \ {u}, ![p].sent = {[user |-> u, entry |-> Entry(p, FALSE, FALSE)]}]
          /\ UNCHANGED told
       \/ /\ Fault("lost")
          /\ up' = [up EXCEPT ![p].send = @ \ {u}]
          /\ UNCHANGED told
    /\ UNCHANGED <<asking, down, quiet, log, flips>>

(* logMutedNotification, for the muted when nobody is left to push to.        *)
Mute(p, u) ==
    /\ up[p].at = "alerting" /\ up[p].sent = {} /\ u \in up[p].mute
    /\ up[p].type = "outage" => up[p].send = {}
    /\ stamp' = stamp + 1
    /\ told' = [told EXCEPT ![u] = Append(@, Event(p, TRUE))]
    /\ up' = [up EXCEPT ![p].mute = @ \ {u}, ![p].sent = {[user |-> u, entry |-> Entry(p, TRUE, FALSE)]}]
    /\ UNCHANGED <<asking, down, quiet, log, flips, faults>>

(* AppendNotificationLog, which may fail; the push has gone out.              *)
AppendLog(p) ==
    /\ up[p].at = "alerting"
    /\ \E f \in up[p].sent : log' = [log EXCEPT ![f.user] = @ \cup {f.entry}]
    /\ up' = [up EXCEPT ![p].sent = {}]
    /\ UNCHANGED <<asking, down, quiet, stamp, told, flips, faults>>
LogFails(p) ==
    /\ up[p].at = "alerting" /\ up[p].sent # {} /\ Fault("append")
    /\ up' = [up EXCEPT ![p].sent = {}]
    /\ UNCHANGED <<asking, down, quiet, log, stamp, told, flips>>

Finish(p) ==
    /\ up[p].at = "alerting" /\ up[p].sent = {} /\ up[p].send = {} /\ up[p].mute = {}
    /\ up' = [up EXCEPT ![p] = Idle]
    /\ UNCHANGED <<asking, down, quiet, log, stamp, told, flips, faults>>

Proceed(p) ==
    \/ Begin(p) \/ Evaluate(p) \/ Verify(p) \/ AppendLog(p) \/ LogFails(p) \/ Finish(p)
    \/ (up[p].at = "waiting" /\ up[p].sweep /\ Cancelled(p))
    \/ \E u \in Users : Send(p, u) \/ Mute(p, u)

Next ==
    \/ GridChanges \/ NightChanges \/ Tick
    \/ \E p \in Updates : Proceed(p) \/ Cancelled(p)

Spec == Init /\ [][Next]_vars

(* The cron keeps sweeping and time passes; a client that asked for an update *)
(* need not ask again.                                                        *)
Swept(p) == Proceed(p) /\ (up[p] = Idle => up'[p].sweep)

FairSpec == Spec /\ WF_vars(Tick) /\ \A p \in Updates : WF_vars(Swept(p))

-----------------------------------------------------------------------------
Told(u, i, type) == told[u][i].type = type /\ ~told[u][i].muted

(* "already alerted for outage": one outage is told once. Before a user is    *)
(* told of another, a restoration was told, or muted.                         *)
OutageToldOnce ==
    \A u \in Users : \A i, j \in DOMAIN told[u] :
        i < j /\ Told(u, i, "outage") /\ Told(u, j, "outage") =>
            \E k \in (i + 1)..(j - 1) : told[u][k].type = "restored"

(* "Grid power restored" comes after an outage that was pushed, or kept from  *)
(* the user by the quiet hours: never as the first a user hears of it.        *)
RestoredFollowsOutage ==
    \A u \in Users : \A i \in DOMAIN told[u] : Told(u, i, "restored") =>
        \E j \in 1..(i - 1) : told[u][j].type = "outage"

(* No alert of an outage goes out that the battery no longer reported when it *)
(* was verified.                                                              *)
NotABlip == \A p \in Updates : up[p].at = "waiting" /\ up'[p].at = "alerting" => down
NoBlipIsTold == [][NotABlip]_vars

(* A grid that stays up is known to be up: a user told of its outage is told  *)
(* that it is over, or slept through it.                                      *)
RestorationIsRecorded ==
    <>[](~down) => \A u \in Users : <>[](Latest(u).type # "outage")

(* An outage that lasts is told to every user who is awake.                   *)
OutageIsTold ==
    \A u \in Users : <>[](down /\ ~Quiet(u)) =>
        <>(\E i \in DOMAIN told[u] : Told(u, i, "outage"))
=============================================================================
