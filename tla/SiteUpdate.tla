----------------------------- MODULE SiteUpdate -----------------------------
(* One site: updates of the sweep and updates asked for by hand, on any       *)
(* number of instances, beside the settings handler that pauses and resumes   *)
(* the site (server/update.go, server/settings.go). An update decides on the  *)
(* settings, the latest action and the house as it read them in turn, and     *)
(* only then commands the battery and logs an action. The handler that pauses *)
(* a site changes first and gives a managed battery its own modes back next.    *)
(* When an update changes the settings document itself is in SiteSettings.    *)
EXTENDS Integers, FiniteSets

CONSTANTS
    Calls,              \* requests that may be under way
    Houses,             \* what an update may find the house in
    Manage,             \* ManageTOUSchedules
    Faults,             \* what may go wrong
    Recent,             \* ticks for which an action is recent: five minutes
    MaxChanges, MaxFaults       \* bounds

(* What the constants are, assumed by what instantiates this module.          *)
Assumptions ==
    /\ Houses \subseteq {"calm", "emergency", "alarms", "offgrid", "vpp"}
    /\ Faults \subseteq {"read", "refused", "log", "stop"}
    /\ Recent \in Nat \ {0} /\ MaxChanges \in Nat /\ MaxFaults \in Nat

VARIABLES
    paused,     \* the settings document
    house,      \* what the house is in
    bat,        \* the battery's modes: its own, RateRudder's schedule, a grid charge
    latest,     \* the newest action of the log: its age, and the modes it tells
    call,       \* per request: how far it is, what it has read, its action's age
    changes, faults,
    commanded   \* history: the age of the last command an update gave

vars == <<paused, house, bat, latest, call, changes, faults, commanded>>

Idle == [at |-> "idle"]
Modes == {"own", "managed", "charge"}
Told == Modes \union {"nothing", "failed"}     \* what an action tells of the modes

TypeOK ==
    /\ paused \in BOOLEAN /\ house \in Houses /\ bat \in Modes
    /\ latest \in [age : 0..Recent, tells : Told]
    /\ call \in [Calls -> {Idle} \union
          [at : {"begun", "checked", "deciding", "logging"}, sweep : BOOLEAN, paused : BOOLEAN,
           age : 0..Recent, tells : Told] \union
          [at : {"reverting", "unmanaging"}, age : 0..Recent]]
    /\ changes \in 0..MaxChanges /\ faults \in 0..MaxFaults
    /\ commanded \in 0..Recent

Init ==
    /\ paused \in BOOLEAN /\ house \in Houses
    /\ bat = "own"
    /\ latest = [age |-> Recent, tells |-> "nothing"]
    /\ call = [c \in Calls |-> Idle]
    /\ changes = 0 /\ faults = 0
    /\ commanded = Recent

Fault(kind) == kind \in Faults /\ faults < MaxFaults /\ faults' = faults + 1
To(c, r) == call' = [call EXCEPT ![c] = r]

Older(age) == IF age < Recent THEN age + 1 ELSE Recent

(* Time passes, between requests and within them. No request lasts as long as *)
(* an action stays recent: its deadline of minutes stops it.                  *)
Tick ==
    /\ \A c \in Calls : call[c].at # "idle" => call[c].age + 1 < Recent
    /\ latest' = [latest EXCEPT !.age = Older(@)] /\ commanded' = Older(commanded)
    /\ call' = [c \in Calls |-> IF call[c].at = "idle" THEN Idle ELSE [call[c] EXCEPT !.age = Older(@)]]
    /\ UNCHANGED <<paused, house, bat, changes, faults>>

HouseChanges ==
    /\ house' \in Houses \ {house}
    /\ changes < MaxChanges /\ changes' = changes + 1
    /\ UNCHANGED <<paused, bat, latest, call, faults, commanded>>

(* handleUpdate, or a site's turn in a sweep: the settings are read.          *)
Begin(c, sweep) ==
    /\ call[c].at = "idle"
    /\ To(c, [at |-> "begun", sweep |-> sweep, paused |-> paused, age |-> 0, tells |-> "nothing"])
    /\ UNCHANGED <<paused, house, bat, latest, changes, faults, commanded>>

(* The latest action's age: a sweep leaves a site alone that has just been    *)
(* updated. When the log cannot be read it is taken to be empty.              *)
SlipSkips(c) == FALSE
Skips(c) == call[c].sweep /\ latest.age < Recent

Check(c) ==
    /\ call[c].at = "begun"
    /\ \/ To(c, IF Skips(c) THEN Idle ELSE [call[c] EXCEPT !.at = "checked"]) /\ UNCHANGED faults
       \/ Fault("read") /\ To(c, [call[c] EXCEPT !.at = "checked"])
    /\ UNCHANGED <<paused, house, bat, latest, changes, commanded>>

(* The action that is logged when the house forbids a command.                *)
Logging(c, tells) == To(c, [call[c] EXCEPT !.at = "logging", !.age = 0, !.tells = tells])

Commands(modes) == bat' = modes /\ commanded' = 0

(* GetStatus, and what the house calls for. In an emergency the grid is made  *)
(* to charge the battery, whether the site is paused and its commands back    *)
(* off or not. A paused site's action tells of the battery's own modes.       *)
Look(c) ==
    /\ call[c].at = "checked"
    /\ UNCHANGED <<paused, house, latest, changes>>
    /\ \/ /\ house = "emergency" /\ Logging(c, "nothing")
          /\ \/ Commands("charge") /\ UNCHANGED faults
             \/ Fault("refused") /\ UNCHANGED <<bat, commanded>>
       \/ /\ house \in {"alarms", "offgrid"} \/ (house = "vpp" /\ ~call[c].paused)
          /\ Logging(c, "nothing") /\ UNCHANGED <<bat, commanded, faults>>
       \/ /\ house \in {"calm", "vpp"} /\ call[c].paused
          /\ Logging(c, "own") /\ UNCHANGED <<bat, commanded, faults>>
       \/ /\ house = "calm" /\ ~call[c].paused
          /\ To(c, [call[c] EXCEPT !.at = "deciding"]) /\ UNCHANGED <<bat, commanded, faults>>
       \/ Fault("read") /\ To(c, Idle) /\ UNCHANGED <<bat, commanded>>

(* The controller has decided: setESSModes. It may be backing off, which      *)
(* canSetModes finds before the decision and which ends the update unlogged.  *)
SlipSet(c) ==
    Logging(c, "managed") /\ UNCHANGED <<bat, commanded, faults>>
Set(c) ==
    \/ Commands("managed") /\ Logging(c, "managed") /\ UNCHANGED faults
    \/ Fault("refused") /\ Logging(c, "failed") /\ UNCHANGED <<bat, commanded>>
    \/ Fault("refused") /\ To(c, Idle) /\ UNCHANGED <<bat, commanded>>

Decide(c) ==
    /\ call[c].at = "deciding"
    /\ Set(c)
    /\ UNCHANGED <<paused, house, latest, changes>>

(* insertAction, whose context outlives the request's. The log's newest       *)
(* action is the one with the greatest timestamp.                             *)
Log(c) == latest' = IF call[c].age <= latest.age
                    THEN [age |-> call[c].age, tells |-> call[c].tells] ELSE latest

Store(c) ==
    /\ call[c].at = "logging"
    /\ \/ Log(c) /\ UNCHANGED faults
       \/ Fault("log") /\ UNCHANGED latest
    /\ To(c, Idle)
    /\ UNCHANGED <<paused, house, bat, changes, commanded>>

(* A member saves the settings: pausing a site whose schedules are managed    *)
(* goes on to revert its modes.                                               *)
SlipReverts == FALSE
Reverts == Manage

Pause(c) ==
    /\ call[c].at = "idle" /\ ~paused /\ changes < MaxChanges
    /\ paused' = TRUE /\ changes' = changes + 1
    /\ To(c, IF Reverts THEN [at |-> "reverting", age |-> 0] ELSE Idle)
    /\ UNCHANGED <<house, bat, latest, faults, commanded>>

Resume ==
    /\ paused /\ changes < MaxChanges
    /\ paused' = FALSE /\ changes' = changes + 1
    /\ UNCHANGED <<house, bat, latest, call, faults, commanded>>

(* revertManagedTOUModeOnPause: the status tells whether the schedule is      *)
(* RateRudder's, and then the battery's own modes are set. Nothing is logged. *)
RevertLook(c) ==
    /\ call[c].at = "reverting"
    /\ \/ To(c, IF bat = "managed" THEN [call[c] EXCEPT !.at = "unmanaging"] ELSE Idle) /\ UNCHANGED faults
       \/ Fault("read") /\ To(c, Idle)
    /\ UNCHANGED <<paused, house, bat, latest, changes, commanded>>

RevertSet(c) ==
    /\ call[c].at = "unmanaging" /\ To(c, Idle)
    /\ \/ bat' = "own" /\ UNCHANGED faults
       \/ Fault("refused") /\ UNCHANGED bat
    /\ UNCHANGED <<paused, house, latest, changes, commanded>>

(* The instance stops, or the request's deadline passes.                      *)
Stop(c) ==
    /\ call[c].at # "idle" /\ Fault("stop") /\ To(c, Idle)
    /\ UNCHANGED <<paused, house, bat, latest, changes, commanded>>

Next ==
    \/ Tick \/ HouseChanges \/ Resume
    \/ \E c \in Calls :
        \/ \E sweep \in BOOLEAN : Begin(c, sweep)
        \/ Check(c) \/ Look(c) \/ Decide(c) \/ Store(c)
        \/ Pause(c) \/ RevertLook(c) \/ RevertSet(c) \/ Stop(c)

Spec == Init /\ [][Next]_vars

(* The scheduler keeps sweeping, time passes, and a request under way goes on.*)
GoesOn(c) == Check(c) \/ Look(c) \/ Decide(c) \/ Store(c) \/ RevertLook(c) \/ RevertSet(c)

Fairness ==
    WF_vars(Tick) /\ \A c \in Calls : SF_vars(Begin(c, TRUE)) /\ WF_vars(GoesOn(c))

FairSpec == Spec /\ Fairness

-----------------------------------------------------------------------------
Calm == house = "calm"

(* "skipped: recently updated": a sweep commands no battery that an update    *)
(* has commanded less than five minutes ago.                                  *)
SpacesSweeps ==
    \A c \in Calls : call[c].at \in {"checked", "deciding"} /\ call[c].sweep
              /\ call'[c].at = "logging" /\ commanded' = 0
          => commanded = Recent
SweepsAreSpaced == [][SpacesSweeps]_<<commanded, call>>

(* "Automation is currently paused. The system will continue monitoring but   *)
(* will not change battery or solar modes."                                   *)
PausedUntouched == [][paused /\ bat' # bat => bat' = "own"]_vars

(* A site that stays paused gets the battery's own modes back, for good, and  *)
(* its log comes to say so.                                                   *)
PauseSettles ==
    <>[](paused /\ Calm) => <>[](bat = "own" /\ latest.tells = "own")

(* A site that stays resumed comes to be managed again, whatever failed, and  *)
(* whatever the pause left behind, and its log comes to say so.               *)
ResumeSettles ==
    <>[](~paused /\ Calm) => <>[](bat = "managed" /\ latest.tells = "managed")
=============================================================================
