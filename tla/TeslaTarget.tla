----------------------------- MODULE TeslaTarget -----------------------------
(* What Tesla.SetModes (ess/tesla.go) wants of a Powerwall: from the modes    *)
(* asked for, the site's settings, the level of the battery and the Powerwall *)
(* as the caller knows it, the values to post. A Powerwall is a record        *)
(*   grid   may it charge from the grid          rule   what it may export    *)
(*   tou    whose tariff it follows: the owner's, or a schedule of ours       *)
(*   mode   its operation mode                   soc    its backup reserve, % *)
(* A command is a record [bat, sol, to, min, sched, soon]: the two modes, the *)
(* level to charge to, the least level, the schedule (or "none") and whether  *)
(* its next export, less than an hour away, is of solar power only.           *)
EXTENDS Integers

Modes == {"self_consumption", "autonomous", "backup"}
Rules == {"never", "pv_only", "battery_ok"}
BatteryModes == {"charge", "export", "load", "standby", "nochange"}
SolarModes == {"any", "export", "noexport", "nochange"}

Larger(a, b) == IF a >= b THEN a ELSE b

(* Tesla takes no reserve between 81 and 99.                                  *)
Postable(soc) == CASE soc \in 85..99 -> 100 [] soc \in 81..84 -> 80 [] OTHER -> soc

(* Does the command run on the schedule that RateRudder manages?              *)
Managed(c, s) == s.managed /\ (c.bat = "export" \/ c.sol = "export")

HoldLevel(c, level) == Larger(level, c.min)

(* Standby between 81 and 98 percent: backup, without charging from the grid. *)
SlipHeldByBackup(c, s, level) ==
    c.bat \in {"standby", "load"} /\ ~Managed(c, s) /\ HoldLevel(c, level) \in 81..98
HeldByBackup(c, s, level) ==
    c.bat = "standby" /\ ~Managed(c, s) /\ HoldLevel(c, level) \in 81..98

FarBelow(c, level) == c.to - level > 10

TargetMode(c, s, level, cur) ==
    IF c.bat = "nochange" THEN cur.mode
    ELSE IF c.bat = "charge" THEN (IF FarBelow(c, level) THEN "backup" ELSE "self_consumption")
    ELSE IF Managed(c, s) THEN "autonomous"
    ELSE IF HeldByBackup(c, s, level) THEN "backup"
    ELSE "self_consumption"

RawReserve(c, s, level, cur) ==
    CASE c.bat = "nochange" -> cur.soc
      [] c.bat = "charge" -> IF FarBelow(c, level) THEN 100 ELSE Postable(c.to)
      [] c.bat = "standby" ->
            IF Managed(c, s) \/ HoldLevel(c, level) <= 80 THEN HoldLevel(c, level) ELSE 100
      [] OTHER -> c.min

(* At least five, and a difference of one percent is none.                    *)
TargetReserve(c, s, level, cur) ==
    LET soc == Larger(RawReserve(c, s, level, cur), 5) IN
    IF soc - cur.soc \in -1..1 THEN cur.soc ELSE soc

SlipTargetGrid(c, s, level, cur) ==
    c.bat # "nochange" /\ (cur.grid \/ s.gridCharge)
TargetGrid(c, s, level, cur) ==
    IF c.bat = "nochange" THEN cur.grid
    ELSE ~HeldByBackup(c, s, level) /\ (cur.grid \/ s.gridCharge)

TargetRule(c, s, cur) ==
    CASE c.bat = "export" -> "battery_ok"
      [] c.bat # "export" /\ c.sol = "export" -> "pv_only"
      [] c.bat # "export" /\ c.sol = "any" ->
            IF s.exportBat THEN IF c.soon THEN "pv_only" ELSE "battery_ok"
            ELSE IF s.exportSolar THEN "pv_only" ELSE "never"
      [] c.bat # "export" /\ c.sol = "noexport" -> "never"
      [] c.bat # "export" /\ c.sol = "nochange" -> cur.rule

ModeNeedsPost(c, s, level, cur) == c.bat # "nochange" /\ cur.mode # TargetMode(c, s, level, cur)

(* Our schedule replaces the owner's only when it is needed to export; it is  *)
(* posted when it differs, and with every change to autonomous.               *)
SlipTouNeedsPost(c, s, level, cur) ==
    /\ s.managed /\ c.sched # "none"
    /\ cur.tou # "own" \/ c.bat = "export" \/ c.sol = "export"
    /\ cur.tou # c.sched \/ TargetMode(c, s, level, cur) = "autonomous"
TouNeedsPost(c, s, level, cur) ==
    /\ s.managed /\ c.sched # "none"
    /\ cur.tou # "own" \/ c.bat = "export" \/ c.sol = "export"
    /\ \/ cur.tou # c.sched
       \/ ModeNeedsPost(c, s, level, cur) /\ TargetMode(c, s, level, cur) = "autonomous"

(* The battery charges, or fails to discharge, against its configuration      *)
(* ("odd"): mode and reserve are posted again.                                *)
Forced(c, level, cur, odd) ==
    odd /\ c.bat \in {"load", "standby"} /\ cur.mode = "self_consumption" /\ level > cur.soc + 1

Target(c, s, level, cur) ==
    [grid |-> TargetGrid(c, s, level, cur), rule |-> TargetRule(c, s, cur),
     tou |-> IF TouNeedsPost(c, s, level, cur) THEN c.sched ELSE cur.tou,
     mode |-> TargetMode(c, s, level, cur), soc |-> TargetReserve(c, s, level, cur)]

(* The posts, in the order in which they are made.                            *)
Order == <<"grid", "tou", "mode", "soc">>

Needed(c, s, level, cur, odd) ==
    LET to == Target(c, s, level, cur) IN
    {p \in {"grid", "tou", "mode", "soc"} :
        CASE p = "grid" -> to.grid # cur.grid \/ to.rule # cur.rule
          [] p = "tou" -> TouNeedsPost(c, s, level, cur)
          [] p = "mode" -> ModeNeedsPost(c, s, level, cur) \/ Forced(c, level, cur, odd)
          [] p = "soc" -> to.soc # cur.soc \/ Forced(c, level, cur, odd)}

(* A Powerwall after one post.                                                *)
Posted(b, p, to) ==
    CASE p = "grid" -> [b EXCEPT !.grid = to.grid, !.rule = to.rule]
      [] p = "tou" -> [b EXCEPT !.tou = to.tou]
      [] p = "mode" -> [b EXCEPT !.mode = to.mode]
      [] p = "soc" -> [b EXCEPT !.soc = to.soc]
=============================================================================
