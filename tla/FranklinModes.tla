---------------------------- MODULE FranklinModes ----------------------------
(* A Franklin gateway commanded by updates on server instances of their own   *)
(* (Franklin.SetModes, ess/franklin.go): its modes are read afresh, then the  *)
(* schedule, the reserve and the mode are posted in turn, and the first post  *)
(* that fails ends the call. Calls on one instance wait for its lock, which   *)
(* is the case of this model where no two calls overlap. A gateway is         *)
(*   mode   what it runs on: self consumption, its schedule, emergency        *)
(*          backup, or the dispatch of the vendor's own                       *)
(*   soc    the reserve of self consumption and that of the schedule          *)
(*          (Absent where the gateway has no schedule yet)                    *)
(*   sched  whose schedule it has   busy  is it loading one                   *)
(* A command is [bat, sol, to, min, sched] as in TeslaTarget.                 *)
EXTENDS Integers

CONSTANTS
    Updates,
    Sites,      \* [managed, gridCharge, dry, edit, fromGrid, offers]
    Commands, Levels, Gateways, Owned,  \* Owned: what the owner may set the gateway to
    Faults,
    MaxChanges, MaxFaults       \* bounds

(* What the constants are, assumed by what instantiates this module.          *)
Assumptions ==
    /\ Faults \subseteq {"refused", "lost", "read", "storm", "late", "missing"}
    /\ MaxChanges \in Nat /\ MaxFaults \in Nat

VARIABLES
    site, wanted, level, gateway,
    call,       \* per update: its SetModes
    alone,      \* history, per update: since its call began nobody else changed the
                \* gateway, which was not loading a schedule of before
    changes, faults

vars == <<site, wanted, level, gateway, call, alone, changes, faults>>

Absent == -1
Reserves == {"sc", "tou"}
AllModes == Reserves \union {"backup", "dispatch"}
AllGateways ==
    [mode : AllModes, soc : [Reserves -> {Absent} \union 5..100],
     sched : {"none", "own", "s1", "s2"}, busy : BOOLEAN]

Idle == [at |-> "idle"]
Calls == {Idle} \union
    [at : {"checking", "saving", "fetching", "waiting", "posting", "done"}, cmd : Commands,
     level : Levels, to : AllModes, soc : -1..100, todo : SUBSET {"soc", "mode"},
     missing : BOOLEAN, made : SUBSET {"sched", "soc", "mode"}]

TypeOK ==
    /\ site \in Sites /\ wanted \in Commands /\ level \in Levels
    /\ gateway \in AllGateways
    /\ call \in [Updates -> Calls] /\ alone \in [Updates -> BOOLEAN]
    /\ changes \in 0..MaxChanges /\ faults \in 0..MaxFaults

Init ==
    /\ site \in Sites /\ wanted \in Commands /\ level \in Levels
    /\ gateway \in Gateways
    /\ call = [u \in Updates |-> Idle] /\ alone = [u \in Updates |-> FALSE]
    /\ changes = 0 /\ faults = 0

Fault(kind) == kind \in Faults /\ faults < MaxFaults /\ faults' = faults + 1

Larger(a, b) == IF a >= b THEN a ELSE b

(* Does the command run on the schedule that RateRudder manages?              *)
Managed(c) == site.managed /\ (c.bat = "export" \/ c.sol = "export")

(* Charging from a grid that may not charge takes emergency backup.           *)
ByBackup(c) == c.bat = "charge" /\ ~Managed(c) /\ site.gridCharge /\ ~site.fromGrid

TargetMode(c) == IF Managed(c) THEN "tou" ELSE IF ByBackup(c) THEN "backup" ELSE "sc"

(* The reserve asked for, of the modes m that were read.                      *)
Asked(c, l, m) ==
    CASE c.bat = "standby" -> Larger(l, c.min)
      [] c.bat = "charge" /\ ~Managed(c) -> IF ByBackup(c) THEN m.soc.sc ELSE c.to
      [] OTHER -> c.min

(* At least five; a difference of one percent is none.                        *)
SlipReserve(c, l, m) ==
    LET soc == Asked(c, l, m) IN
    IF ByBackup(c) \/ soc - m.soc[TargetMode(c)] \notin -1..1 THEN soc ELSE m.soc[TargetMode(c)]
Reserve(c, l, m) ==
    LET soc == Larger(Asked(c, l, m), 5) IN
    IF ByBackup(c) \/ soc - m.soc[TargetMode(c)] \notin -1..1 THEN soc ELSE m.soc[TargetMode(c)]

ModeChanged(c, m) == m.mode # TargetMode(c)
SocChanged(c, l, m) == ~ByBackup(c) /\ Reserve(c, l, m) # m.soc[TargetMode(c)]

(* A schedule is checked when it is needed, or when nothing else is to do.    *)
SlipChecksSchedule(c, l, m) == site.managed /\ c.sched # "none"
ChecksSchedule(c, l, m) ==
    /\ site.managed /\ c.sched # "none"
    /\ Managed(c) \/ (~ModeChanged(c, m) /\ ~SocChanged(c, l, m))

(* The command cannot be carried out on this gateway.                         *)
Refused(c) ==
    \/ "sc" \notin site.offers
    \/ Managed(c) /\ c.sched = "none"
    \/ ByBackup(c) /\ "backup" \notin site.offers
    \/ c.bat \in {"charge", "standby"} /\ ~Managed(c) /\ ~ByBackup(c) /\ ~site.edit

(* The posts left once the schedule is dealt with; a dry run makes none.      *)
Todo(c, l, m, missing) ==
    {p \in {"soc", "mode"} :
        /\ ~site.dry
        /\ IF p = "mode" THEN missing \/ ModeChanged(c, m) ELSE SocChanged(c, l, m)}

-----------------------------------------------------------------------------
(* Prices, the plan or the settings want another command, the battery's level *)
(* moves, or the owner takes to the vendor's app.                             *)
Change ==
    /\ changes < MaxChanges /\ changes' = changes + 1
    /\ \/ wanted' \in Commands \ {wanted} /\ UNCHANGED <<level, gateway, alone>>
       \/ level' \in Levels \ {level} /\ UNCHANGED <<wanted, gateway, alone>>
       \/ /\ gateway' \in Owned \ {gateway}
          /\ alone' = [u \in Updates |-> FALSE]
          /\ UNCHANGED <<wanted, level>>
    /\ UNCHANGED <<site, call, faults>>

(* The gateway has loaded its schedule.                                       *)
Loaded ==
    /\ gateway.busy /\ gateway' = [gateway EXCEPT !.busy = FALSE]
    /\ UNCHANGED <<site, wanted, level, call, alone, changes, faults>>

Goes(u, q) == call' = [call EXCEPT ![u] = q]
Fails(u) == Goes(u, Idle)

(* Where a call stands once the schedule is dealt with: after one was saved   *)
(* the gateway is given five seconds.                                         *)
SlipAfterSchedule(q) == [q EXCEPT !.at = IF q.todo = {} THEN "done" ELSE "posting"]
AfterSchedule(q) ==
    [q EXCEPT !.at = IF q.todo = {} THEN "done"
                     ELSE IF "sched" \in q.made THEN "waiting" ELSE "posting"]

(* SetModes until the modes are read: of a gateway that has no schedule, all  *)
(* that follows is settled when it has one.                                   *)
Begin(u) ==
    LET c == wanted
        missing == Managed(c) /\ gateway.soc.tou = Absent
        q == [at |-> "checking", cmd |-> c, level |-> level, to |-> TargetMode(c),
              soc |-> Reserve(c, level, gateway), todo |-> Todo(c, level, gateway, missing),
              missing |-> missing, made |-> {}] IN
    /\ call[u].at = "idle" /\ ~Refused(c)
    /\ Goes(u, IF ChecksSchedule(c, level, gateway) THEN q ELSE AfterSchedule(q))
    /\ alone' = [alone EXCEPT ![u] = ~gateway.busy]
    /\ UNCHANGED <<site, wanted, level, gateway, changes, faults>>

(* A gateway that cannot be read, that a storm has taken over or that cannot  *)
(* do what is asked is left as it is.                                         *)
BeginNone(u) ==
    /\ call[u].at = "idle"
    /\ Fault("read") \/ Fault("storm") \/ (Refused(wanted) /\ UNCHANGED faults)
    /\ UNCHANGED <<site, wanted, level, gateway, call, alone, changes>>

(* The schedule of the gateway is read, if it can be: saved over is a         *)
(* schedule of ours, and the owner's only when it is needed to export.        *)
SlipSaves(c, read) == ~(read /\ gateway.sched = c.sched)
Saves(c, read) ==
    /\ Managed(c) \/ (read /\ gateway.sched \in {"s1", "s2"})
    /\ ~(read /\ gateway.sched = c.sched)

Check(u) ==
    LET q == call[u] IN
    /\ q.at = "checking"
    /\ \E read \in BOOLEAN :
        /\ IF read THEN UNCHANGED faults ELSE Fault("read")
        /\ Goes(u, IF Saves(q.cmd, read) THEN [q EXCEPT !.at = "saving"]
                   ELSE IF q.missing /\ ~site.dry THEN [q EXCEPT !.at = "fetching"]
                   ELSE AfterSchedule(q))
    /\ UNCHANGED <<site, wanted, level, gateway, alone, changes>>

(* The gateway changes under the other calls.                                 *)
Touches(u) == alone' = [v \in Updates |-> alone[v] /\ (v = u \/ gateway' = gateway)]

(* saveFranklinTOUSchedule; the gateway's first schedule brings its mode and  *)
(* some reserve (external).                                                   *)
SlipSaved(c) ==
    [gateway EXCEPT !.sched = c.sched, !.busy = TRUE, !.soc.tou = IF @ = Absent THEN 20 ELSE @]
Saved(c) ==
    IF site.dry THEN gateway
    ELSE [gateway EXCEPT !.sched = c.sched, !.busy = TRUE,
                         !.soc.tou = IF @ = Absent THEN 20 ELSE @]

Save(u) ==
    LET q == call[u]
        made == [q EXCEPT !.made = @ \union {"sched"}] IN
    /\ q.at = "saving"
    /\ \/ /\ \/ gateway' = Saved(q.cmd) /\ UNCHANGED faults
             \/ q.missing /\ ~site.dry /\ Fault("missing") /\ UNCHANGED gateway
          /\ Goes(u, IF q.missing /\ ~site.dry THEN [made EXCEPT !.at = "fetching"]
                     ELSE AfterSchedule(made))
       \/ /\ ~site.dry
          /\ \/ Fault("lost") /\ gateway' = Saved(q.cmd)
             \/ Fault("refused") /\ UNCHANGED gateway
          /\ Fails(u)
    /\ Touches(u)
    /\ UNCHANGED <<site, wanted, level, changes>>

(* A mode that the gateway lacked is looked for again, and its reserve too.   *)
Fetched(q) ==
    [q EXCEPT !.soc = Reserve(q.cmd, q.level, gateway),
              !.todo = Todo(q.cmd, q.level, gateway, TRUE)]

Fetch(u) ==
    LET q == call[u] IN
    /\ q.at = "fetching"
    /\ \/ gateway.soc.tou # Absent /\ Goes(u, AfterSchedule(Fetched(q))) /\ UNCHANGED faults
       \/ gateway.soc.tou = Absent /\ Fails(u) /\ UNCHANGED faults
       \/ Fault("read") /\ Fails(u)
    /\ UNCHANGED <<site, wanted, level, gateway, alone, changes>>

(* Five seconds are enough for the gateway to load its schedule, or the       *)
(* context of the call ends first.                                            *)
Wait(u) ==
    /\ call[u].at = "waiting"
    /\ \/ ~gateway.busy /\ Goes(u, [call[u] EXCEPT !.at = "posting"]) /\ UNCHANGED faults
       \/ Fault("late") /\ Fails(u)
    /\ UNCHANGED <<site, wanted, level, gateway, alone, changes>>

(* The reserve goes before the mode.                                          *)
SlipNextPost(todo) == IF "mode" \in todo THEN "mode" ELSE "soc"
NextPost(todo) == IF "soc" \in todo THEN "soc" ELSE "mode"

(* updateSocV2 and updateTouModeV2: the latter leaves the reserve (external). *)
Posted(g, p, q) == IF p = "soc" THEN [g EXCEPT !.soc[q.to] = q.soc] ELSE [g EXCEPT !.mode = q.to]

(* A gateway that is loading a schedule may answer and do nothing.            *)
Post(u) ==
    LET q == call[u]
        p == NextPost(q.todo)
        left == q.todo \ {p} IN
    /\ q.at = "posting"
    /\ \/ /\ \/ gateway' = Posted(gateway, p, q)
             \/ gateway.busy /\ UNCHANGED gateway
          /\ Goes(u, [q EXCEPT !.todo = left, !.made = @ \union {p},
                               !.at = IF left = {} THEN "done" ELSE @])
          /\ UNCHANGED faults
       \/ /\ \/ Fault("lost") /\ gateway' = Posted(gateway, p, q)
             \/ Fault("refused") /\ UNCHANGED gateway
          /\ Fails(u)
    /\ Touches(u)
    /\ UNCHANGED <<site, wanted, level, changes>>

Return(u) ==
    /\ call[u].at = "done" /\ Goes(u, Idle)
    /\ UNCHANGED <<site, wanted, level, gateway, alone, changes, faults>>

Next ==
    \/ Change \/ Loaded
    \/ \E u \in Updates :
        \/ Begin(u) \/ BeginNone(u) \/ Check(u) \/ Save(u) \/ Fetch(u)
        \/ Wait(u) \/ Post(u) \/ Return(u)

Spec == Init /\ [][Next]_vars

(* Updates keep coming, the vendor answers or times out, gateways load.       *)
GoesOn(u) == Begin(u) \/ Check(u) \/ Save(u) \/ Fetch(u) \/ Post(u) \/ Return(u)

FairSpec ==
    Spec /\ WF_vars(Loaded) /\ \A u \in Updates : WF_vars(GoesOn(u)) /\ SF_vars(Wait(u))

-----------------------------------------------------------------------------
Near(a, b) == a - b \in -1..1

(* What the caller asked for: to run on the schedule given; to charge, up to  *)
(* the level given unless by backup; to be held at the level it had; or to be *)
(* released down to the least level.                                          *)
Floored(c) == Larger(c.min, 5)
Obeys(g, c, l) ==
    IF Managed(c)
    THEN /\ g.mode = "tou" /\ g.sched = c.sched
         /\ Near(g.soc.tou, IF c.bat = "standby" THEN Larger(l, Floored(c)) ELSE Floored(c))
    ELSE CASE c.bat = "charge" -> g.mode = "backup" \/ (g.mode = "sc" /\ Near(g.soc.sc, c.to))
           [] c.bat = "standby" -> g.mode = "sc" /\ Near(g.soc.sc, Larger(l, Floored(c)))
           [] OTHER -> g.mode = "sc" /\ Near(g.soc.sc, Floored(c))

(* A call that returns without an error has been obeyed, whatever a call      *)
(* before it left half done, unless somebody else changed the gateway.        *)
Obeyed ==
    \A u \in Updates :
        call[u].at = "done" /\ alone[u] /\ ~site.dry => Obeys(gateway, call[u].cmd, call[u].level)

(* The mode comes last: a call that puts the gateway in another mode, even    *)
(* when that is all it achieves, finds the reserve and the schedule in place. *)
ModeIsLast ==
    \A u \in Updates :
        call[u].at = "posting" /\ alone[u] /\ gateway'.mode # gateway.mode /\ call'[u] # call[u]
            => Obeys(gateway', call[u].cmd, call[u].level)
ModeComesLast == [][ModeIsLast]_vars

(* "franklin schedule is manually configured and export is not required,      *)
(* skipping schedule update": the owner's own schedule is replaced by a       *)
(* command that exports, and by no other, unless the owner set it after the   *)
(* call had looked.                                                           *)
KeepsOwnSchedule ==
    gateway.sched = "own" /\ gateway'.sched \in {"s1", "s2"} =>
        \E u \in Updates :
            /\ call[u].at = "saving" /\ call'[u] # call[u]
            /\ Managed(call[u].cmd) \/ ~alone[u]
OwnScheduleKept == [][KeepsOwnSchedule]_vars

(* "so saveTouDispatch never reloads the gateway's dispatch package in the    *)
(* same cycle as an active mode or reserve SOC update", when not exporting.   *)
ReloadsAlone ==
    \A u \in Updates :
        call[u].at # "idle" /\ ~Managed(call[u].cmd) /\ "sched" \in call[u].made =>
            call[u].made = {"sched"} /\ call[u].todo = {}

(* A dry run changes nothing: what the gateway becomes, its owner made of it. *)
TouchesNothing ==
    site.dry /\ gateway' # gateway =>
        changes' # changes \/ gateway' = [gateway EXCEPT !.busy = FALSE]
DryTouchesNothing == [][TouchesNothing]_vars

(* The gateway ends as the command wanted last asks, though calls overlap,    *)
(* fail half way or are lost, and its owner interferes.                       *)
Healed == Obeys(gateway, wanted, level)
Heals == <>[]Healed
=============================================================================
