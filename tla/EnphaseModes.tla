----------------------------- MODULE EnphaseModes -----------------------------
(* An Enphase battery commanded by updates on server instances of their own   *)
(* (Enphase.SetModes, ess/enphase.go). What is put to the vendor is at first  *)
(* only asked of the battery, which takes it over some time later: SetModes   *)
(* goes by what is asked, where something is. It makes up to two puts, of the *)
(* charging from the grid and of the profile with its reserve; in a storm, or *)
(* on the owner's backup profile, the first only. A configuration is a record *)
(*   charge  may the grid charge   sched   on a schedule of the owner's       *)
(*   profile                       soc     its reserve, %                     *)
(* and a command a record [bat, to, min], as in TeslaTarget.                  *)
EXTENDS Integers

CONSTANTS
    Updates,
    Sites,      \* [gridCharge, dry]
    Commands, Levels, Configs,  \* Configs: what the owner may set
    Faults,
    MaxChanges, MaxFaults       \* bounds

(* What the constants are, assumed by what instantiates this module.          *)
Assumptions ==
    /\ Faults \subseteq {"refused", "lost", "read"}
    /\ MaxChanges \in Nat /\ MaxFaults \in Nat

VARIABLES
    site, wanted, level,
    storm,      \* is there a storm
    now, asked, \* the battery's configuration, and the one asked for
    weather,    \* per update: the weather as its instance last read it
    call,       \* per update: its SetModes
    alone,      \* history, per update: nobody else asked anything since its call began
    changes, faults

env == <<site, wanted, level, storm, changes>>
vars == <<env, now, asked, weather, call, alone, faults>>

Profiles == {"self", "backup", "savings"}
AllConfigs == [charge : BOOLEAN, sched : BOOLEAN, profile : Profiles, soc : 10..100]
Idle == [at |-> "idle"]
Calls == {Idle} \union
    [at : {"posting", "done"}, cmd : Commands, level : Levels, held : BOOLEAN,
     charge : BOOLEAN, soc : 10..100, todo : SUBSET {"charge", "profile"}]

TypeOK ==
    /\ site \in Sites /\ wanted \in Commands /\ level \in Levels /\ storm \in BOOLEAN
    /\ now \in AllConfigs /\ asked \in AllConfigs
    /\ weather \in [Updates -> {"unread", "calm", "storm"}]
    /\ call \in [Updates -> Calls] /\ alone \in [Updates -> BOOLEAN]
    /\ changes \in 0..MaxChanges /\ faults \in 0..MaxFaults

(* Nothing is asked for when asked is what the battery has.                   *)
Init ==
    /\ site \in Sites /\ wanted \in Commands /\ level \in Levels /\ storm \in BOOLEAN
    /\ now \in Configs /\ asked = now
    /\ weather = [u \in Updates |-> "unread"]
    /\ call = [u \in Updates |-> Idle] /\ alone = [u \in Updates |-> FALSE]
    /\ changes = 0 /\ faults = 0

Fault(kind) == kind \in Faults /\ faults < MaxFaults /\ faults' = faults + 1

Larger(a, b) == IF a >= b THEN a ELSE b

(* requestedConfig, where there is one.                                       *)
SlipCurrent == now
Current == asked

SlipBackup == now.profile = "backup"
Backup == now.profile = "backup" \/ asked.profile = "backup"

(* At least ten, a difference of one percent is none.                         *)
Reserve(c, l) ==
    LET soc == CASE c.bat = "charge" -> c.to
                 [] c.bat = "standby" -> Larger(l, c.min)
                 [] OTHER -> c.min
        kept == Larger(soc, 10)
    IN IF kept - Current.soc \in -1..1 THEN Current.soc ELSE kept

(* Charging from the grid is allowed where the site wants it; only in a storm *)
(* or on backup is it also forbidden where the site does not.                 *)
SlipCharge(held) == site.gridCharge
Charge(held) == site.gridCharge \/ (~held /\ Current.charge)

SlipTodo(c, l, held) ==
    {p \in {"charge", "profile"} :
        /\ ~site.dry
        /\ IF p = "charge" THEN Charge(held) # Current.charge \/ Current.sched
           ELSE ~held /\ Reserve(c, l) # Current.soc}
Todo(c, l, held) ==
    {p \in {"charge", "profile"} :
        /\ ~site.dry
        /\ IF p = "charge" THEN Charge(held) # Current.charge \/ Current.sched
           ELSE ~held /\ (Reserve(c, l) # Current.soc \/ Current.profile # "self")}

-----------------------------------------------------------------------------
(* Another command is wanted, the level moves, a storm comes or goes, or the  *)
(* owner sets the battery in the vendor's app.                                *)
Change ==
    /\ changes < MaxChanges /\ changes' = changes + 1
    /\ \/ wanted' \in Commands \ {wanted} /\ UNCHANGED <<level, storm, asked, alone>>
       \/ level' \in Levels \ {level} /\ UNCHANGED <<wanted, storm, asked, alone>>
       \/ storm' = ~storm /\ UNCHANGED <<wanted, level, asked, alone>>
       \/ /\ asked' \in Configs \ {asked} /\ alone' = [u \in Updates |-> FALSE]
          /\ UNCHANGED <<wanted, level, storm>>
    /\ UNCHANGED <<site, now, weather, call, faults>>

(* The battery takes over what is asked of it.                                *)
Apply ==
    /\ now # asked /\ now' = asked
    /\ UNCHANGED <<env, asked, weather, call, alone, faults>>

(* Five minutes pass: the weather is read again before use.                   *)
Age(u) ==
    /\ call[u].at = "idle" /\ weather[u] # "unread"
    /\ weather' = [weather EXCEPT ![u] = "unread"]
    /\ UNCHANGED <<env, now, asked, call, alone, faults>>

(* SetModes up to its first put. In a storm, or on backup, to export is an    *)
(* error.                                                                     *)
Begin(u) ==
    LET known == IF weather[u] # "unread" THEN weather[u] ELSE IF storm THEN "storm" ELSE "calm"
        held == known = "storm" \/ Backup
        todo == Todo(wanted, level, held) IN
    /\ call[u].at = "idle"
    /\ weather' = [weather EXCEPT ![u] = known]
    /\ call' = [call EXCEPT ![u] =
          IF held /\ wanted.bat = "export" THEN Idle
          ELSE [at |-> IF todo = {} THEN "done" ELSE "posting", cmd |-> wanted, level |-> level,
                held |-> held, charge |-> Charge(held), soc |-> Reserve(wanted, level),
                todo |-> todo]]
    /\ alone' = [alone EXCEPT ![u] = TRUE]
    /\ UNCHANGED <<env, now, asked, faults>>

BeginUnread(u) ==
    /\ call[u].at = "idle" /\ Fault("read")
    /\ UNCHANGED <<env, now, asked, weather, call, alone>>

(* What is asked for after a put: the rest stays as it was asked before.      *)
Put(p, q) ==
    IF p = "charge" THEN [asked EXCEPT !.charge = q.charge, !.sched = FALSE]
    ELSE [asked EXCEPT !.profile = "self", !.soc = q.soc]

NextPut(todo) == IF "charge" \in todo THEN "charge" ELSE "profile"

(* A put that fails ends the call, except that of charging from the grid when *)
(* neither storm nor backup holds the battery: that failure is only logged.   *)
Ends(p, q) == q.held \/ p = "profile"

(* After its puts the instance forgets the weather it read.                   *)
PutOne(u) ==
    LET q == call[u]
        p == NextPut(q.todo)
        left == q.todo \ {p}
        on == [call EXCEPT ![u].todo = left, ![u].at = IF left = {} THEN "done" ELSE @] IN
    /\ q.at = "posting"
    /\ \/ asked' = Put(p, q) /\ call' = on /\ UNCHANGED faults
       \/ /\ \/ Fault("lost") /\ asked' = Put(p, q)
             \/ Fault("refused") /\ UNCHANGED asked
          /\ call' = IF Ends(p, q) THEN [call EXCEPT ![u] = Idle] ELSE on
    /\ weather' = IF call'[u].at = "done" /\ ~q.held THEN [weather EXCEPT ![u] = "unread"]
                  ELSE weather
    /\ alone' = [v \in Updates |-> alone[v] /\ (v = u \/ asked' = asked)]
    /\ UNCHANGED <<env, now>>

Return(u) ==
    /\ call[u].at = "done" /\ call' = [call EXCEPT ![u] = Idle]
    /\ UNCHANGED <<env, now, asked, weather, alone, faults>>

Next ==
    \/ Change \/ Apply
    \/ \E u \in Updates : Age(u) \/ Begin(u) \/ BeginUnread(u) \/ PutOne(u) \/ Return(u)

Spec == Init /\ [][Next]_vars

(* Updates keep coming, the vendor answers or times out, the battery takes    *)
(* over what is asked of it, and five minutes pass between two updates.       *)
GoesOn(u) == Begin(u) \/ PutOne(u) \/ Return(u)

FairSpec ==
    Spec /\ WF_vars(Apply) /\ \A u \in Updates : WF_vars(GoesOn(u)) /\ SF_vars(Age(u))

-----------------------------------------------------------------------------
Near(a, b) == a - b \in -1..1

(* The battery is asked to run on its own consumption, with the reserve that  *)
(* the command needs.                                                         *)
Obeys(c, l) ==
    /\ asked.profile = "self"
    /\ Near(asked.soc, CASE c.bat = "charge" -> c.to
                         [] c.bat = "standby" -> Larger(l, Larger(c.min, 10))
                         [] OTHER -> Larger(c.min, 10))

Answered(u) == call[u].at = "done" /\ alone[u] /\ ~site.dry

(* A call that returns without an error has been obeyed, whatever a call      *)
(* before it left half done and the battery still has to take over.           *)
Obeyed == \A u \in Updates : Answered(u) /\ ~call[u].held => Obeys(call[u].cmd, call[u].level)

(* "grid charging is disabled on enphase, enabling grid charge to match site  *)
(* settings": after a call without an error, the grid may charge the battery  *)
(* where the site wants it.                                                   *)
ChargeEnabled == \A u \in Updates : Answered(u) /\ site.gridCharge => asked.charge

(* The owner's backup profile, asked for or taken over, is never ended, nor   *)
(* its reserve changed, by a call that began after the owner chose it.        *)
KeepsBackup ==
    Backup /\ asked' # asked /\ (\E u \in Updates : alone[u] /\ call'[u] # call[u]) =>
        asked'.profile = asked.profile /\ asked'.soc = asked.soc
BackupKept == [][KeepsBackup]_vars

(* Off backup and storm, SetModes never takes the grid from a battery whose   *)
(* owner lets it charge.                                                      *)
KeepsOwnersCharge ==
    asked.charge /\ ~asked'.charge /\ changes' = changes =>
        \E u \in Updates : call[u].at = "posting" /\ (call[u].held \/ ~alone[u])
OwnersChargeKept == [][KeepsOwnersCharge]_vars

(* What is asked for already is not asked for again while the battery has not *)
(* taken it over.                                                             *)
AsksOnce ==
    \A u \in Updates : call[u].at = "posting" /\ alone[u] /\ call'[u] # call[u]
            /\ asked # now /\ faults' = faults => asked' # asked
NotAskedTwice == [][AsksOnce]_vars

(* The battery ends as the command wanted last asks, charging from the grid   *)
(* included, unless storm or backup hold it, or are what forbids to export.   *)
Healed ==
    \/ storm \/ Backup
    \/ now = asked /\ Obeys(wanted, level) /\ (site.gridCharge => now.charge)
Heals == <>[]Healed
=============================================================================
